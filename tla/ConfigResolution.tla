-------------------------- MODULE ConfigResolution --------------------------
(***************************************************************************)
(* The kubelet plugin's config resolution: GetOpaqueDeviceConfigs and      *)
(* DeviceState.getConfigResultsMap (device_state.go).  Given the opaque    *)
(* configs attached to a claim's allocation and its allocation results,   *)
(* it chooses the config that governs each result of this driver and      *)
(* groups the results by that config, or fails.                           *)
(*                                                                         *)
(* A config is identified by its position in the list the resolver walks *)
(* (the two defaults are positions 1 and 2); the code keys its result map *)
(* by the config object, which is the same thing since every position     *)
(* holds a distinct object.  The decoded payload is abstracted to its     *)
(* type, or "undecodable" when runtime.Decode fails (an unknown kind or   *)
(* malformed parameters, as this driver's decoder sees every other        *)
(* driver's parameters); the domain it names does not influence the       *)
(* choice.  The API server admits only the class and claim sources and    *)
(* only opaque configs, so the other two error returns are not inputs.    *)
(***************************************************************************)
EXTENDS Naturals, FiniteSets, Sequences, Functions

CONSTANTS
    Requests,       \* request names of the claim
    MaxConfigs      \* bound on the number of configs attached to the claim

ConfigTypes == {"channel", "daemon"}
DeviceTypes == {"channel", "daemon", "missing"}   \* "missing": not in allocatable

\* A resourceapi.DeviceAllocationConfiguration with an opaque payload.
PossibleConfig ==
    [source: {"class", "claim"}, driver: {"ours"}, requests: SUBSET Requests,
     type: ConfigTypes \cup {"undecodable"}]
    \cup [source: {"class", "claim"}, driver: {"other"}, requests: SUBSET Requests,
          type: {"undecodable"}]

\* An OpaqueDeviceConfig after decoding.
OpaqueDeviceConfig == [requests: SUBSET Requests, type: ConfigTypes]

\* Allocation results, one per request: the driver that satisfies it and
\* the type of the allocated device.
ResultInfo == [driver: {"ours", "other"}, device: DeviceTypes]
AllocationResults == UNION {[R -> ResultInfo] : R \in SUBSET Requests}

VARIABLES results, possible, output
vars == <<results, possible, output>>

NotResolved == [err |-> FALSE, groups |-> <<>>]
Failed      == [err |-> TRUE,  groups |-> <<>>]

-----------------------------------------------------------------------------
(***************************************************************************)
(* GetOpaqueDeviceConfigs: class configs before claim configs, each in    *)
(* their own order, keeping only this driver's, each decoded; a config    *)
(* that does not decode is an error.                                       *)
(***************************************************************************)
\* Mutant: every candidate is decoded before other drivers' are skipped.
GetOpaqueDeviceConfigsDecodeAll(pcs) ==
    LET candidate == SelectSeq(pcs, LAMBDA p : p.source = "class")
                       \o SelectSeq(pcs, LAMBDA p : p.source = "claim")
        ours      == SelectSeq(candidate, LAMBDA p : p.driver = "ours")
    IN  [err     |-> \E i \in 1..Len(candidate) : candidate[i].type = "undecodable",
         configs |-> [i \in 1..Len(ours) |-> [requests |-> ours[i].requests,
                                              type     |-> ours[i].type]]]

GetOpaqueDeviceConfigs(pcs) ==
    LET candidate == SelectSeq(pcs, LAMBDA p : p.source = "class")
                       \o SelectSeq(pcs, LAMBDA p : p.source = "claim")
        ours      == SelectSeq(candidate, LAMBDA p : p.driver = "ours")
    IN  [err     |-> \E i \in 1..Len(ours) : ours[i].type = "undecodable",
         configs |-> [i \in 1..Len(ours) |-> [requests |-> ours[i].requests,
                                              type     |-> ours[i].type]]]

\* The two slices.Insert(configs, 0, ...) calls: daemon default first.
DefaultDaemon  == [requests |-> {}, type |-> "daemon"]
DefaultChannel == [requests |-> {}, type |-> "channel"]
WithDefaults(cs) == <<DefaultDaemon, DefaultChannel>> \o cs

(***************************************************************************)
(* The slices.Backward walk for one result of device type t and request  *)
(* q, from position i down: the position of the governing config, or 0    *)
(* when an explicit match has the wrong type.  An explicit match always   *)
(* stops the walk; a wildcard stops it only when its type fits.           *)
(***************************************************************************)
\* Mutant: an explicit match of the wrong type is skipped like a wildcard.
RECURSIVE WalkSkipMismatch(_, _, _, _)
WalkSkipMismatch(cs, q, t, i) ==
    IF i = 0 THEN 0
    ELSE IF (q \in cs[i].requests \/ cs[i].requests = {}) /\ cs[i].type = t
         THEN i
    ELSE WalkSkipMismatch(cs, q, t, i - 1)

RECURSIVE Walk(_, _, _, _)
Walk(cs, q, t, i) ==
    IF i = 0 THEN 0
    ELSE IF q \in cs[i].requests
         THEN IF cs[i].type = t THEN i ELSE 0
    ELSE IF cs[i].requests = {} /\ cs[i].type = t
         THEN i
    ELSE Walk(cs, q, t, i - 1)

\* The requests of this driver among the results.
Mine(rs) == {q \in DOMAIN rs : rs[q].driver = "ours"}

\* Mutant: results of other drivers are not skipped.
getConfigResultsMapAllDrivers(rs, pcs) ==
    LET got == GetOpaqueDeviceConfigs(pcs)
        cs  == WithDefaults(got.configs)
        win == [q \in DOMAIN rs |-> Walk(cs, q, rs[q].device, Len(cs))]
    IN  IF got.err THEN Failed
        ELSE IF \E q \in DOMAIN rs : rs[q].device = "missing" \/ win[q] = 0
        THEN Failed
        ELSE [err |-> FALSE,
              groups |-> [i \in Range(win) |-> {q \in DOMAIN rs : win[q] = i}]]

getConfigResultsMap(rs, pcs) ==
    LET got == GetOpaqueDeviceConfigs(pcs)
        cs  == WithDefaults(got.configs)
        win == [q \in Mine(rs) |-> Walk(cs, q, rs[q].device, Len(cs))]
    IN  IF got.err THEN Failed
        ELSE IF \E q \in Mine(rs) : rs[q].device = "missing" \/ win[q] = 0
        THEN Failed
        ELSE [err |-> FALSE,
              groups |-> [i \in Range(win) |-> {q \in Mine(rs) : win[q] = i}]]

-----------------------------------------------------------------------------
Init ==
    /\ results \in AllocationResults
    /\ possible \in UNION {[1..n -> PossibleConfig] : n \in 0..MaxConfigs}
    /\ output = NotResolved

\* One call of getConfigResultsMap on the claim's status.
Resolve ==
    /\ output = NotResolved
    /\ output' = getConfigResultsMap(results, possible)
    /\ UNCHANGED <<results, possible>>

Next == Resolve

Spec == Init /\ [][Next]_vars

-----------------------------------------------------------------------------
(***************************************************************************)
(* Reference definition, from the precedence rules of the design (4.3):   *)
(* the ordered list is the defaults, then class configs, then claim       *)
(* configs; a config is a candidate for a result if it names the request  *)
(* or is a wildcard of the device's type; the highest candidate governs,  *)
(* and resolution fails if it names the request with the wrong type or    *)
(* the device is not allocatable.  A config of this driver of an          *)
(* unrecognized type fails it too (7); other drivers' configs are skipped.*)
(***************************************************************************)
Ordered(pcs) ==
    LET ours(s) == SelectSeq(pcs, LAMBDA p : p.driver = "ours" /\ p.source = s)
        strip(p) == [requests |-> p.requests, type |-> p.type]
        l == <<DefaultDaemon, DefaultChannel>>
               \o [i \in 1..Len(ours("class")) |-> strip(ours("class")[i])]
               \o [i \in 1..Len(ours("claim")) |-> strip(ours("claim")[i])]
    IN  l

Candidates(cs, q, t) ==
    {i \in 1..Len(cs) : q \in cs[i].requests \/ (cs[i].requests = {} /\ cs[i].type = t)}

Governing(cs, q, t) ==
    CHOOSE i \in Candidates(cs, q, t) : \A j \in Candidates(cs, q, t) : j <= i

Reference(rs, pcs) ==
    LET cs == Ordered(pcs)
        gov(q) == Governing(cs, q, rs[q].device)
        bad(q) == rs[q].device = "missing" \/ cs[gov(q)].type # rs[q].device
    IN  IF \E i \in DOMAIN cs : cs[i].type = "undecodable"
        THEN Failed
        ELSE IF \E q \in Mine(rs) : bad(q)
        THEN Failed
        ELSE [err |-> FALSE,
              groups |-> [i \in {gov(q) : q \in Mine(rs)} |->
                            {q \in Mine(rs) : gov(q) = i}]]

TypeOK ==
    /\ results \in AllocationResults
    /\ output.err \in BOOLEAN
    /\ \A i \in DOMAIN output.groups :
          output.groups[i] \subseteq Mine(results)

\* getConfigResultsMap computes the precedence rules of the design: the
\* backward walk with its explicit and wildcard cases and the default
\* configs inserted at the front give exactly the reference grouping.
ResolutionMatchesReference ==
    output # NotResolved => output = Reference(results, possible)

\* The design's config-precedence rule (8): an explicit config for a
\* request overrides a wildcard config of a compatible type, whatever
\* their scopes; class/claim order matters only among configs of equal
\* specificity.
ExplicitOverridesWildcard ==
    LET cs == Ordered(possible) IN
    (output # NotResolved /\ ~output.err) =>
        \A i \in DOMAIN output.groups : \A q \in output.groups[i] :
            (\E j \in 1..Len(cs) : q \in cs[j].requests) => q \in cs[i].requests
=============================================================================
