------------------------------ MODULE DeviceState ------------------------------
(***************************************************************************)
(* The node-local device state of the ComputeDomain kubelet plugin        *)
(* (cmd/compute-domain-kubelet-plugin/device_state.go, cdi.go): Prepare   *)
(* and Unprepare of resource claims, serialized by the DeviceState mutex, *)
(* the side effects they apply to the node (the ComputeDomain node label, *)
(* the IMEX daemon settings, the claim's CDI spec file) and the           *)
(* checkpoint file that records which claims are prepared.                *)
(*                                                                         *)
(* Only one call runs at a time (the mutex), but it is a sequence of      *)
(* steps with durable effects, and any step may fail or the plugin may    *)
(* restart between two of them: an error return and a restart leave the   *)
(* same durable state (the mutex and the call vanish, the checkpoint and  *)
(* the side effects stay), so both are the action Abort.  The kubelet,    *)
(* the API server and the controller's readiness status are the           *)
(* environment, modelled from the spec (§4.2, §6, §7).                    *)
(***************************************************************************)
EXTENDS Naturals, FiniteSets

CONSTANTS
  Claims,        \* resource claim UIDs
  Domains,       \* ComputeDomain UIDs
  ClaimGroups,   \* the config groups getConfigResultsMap yields per claim
  Legacy,        \* claims checkpointed by an older release without Status
  Fabric,        \* cliqueID # "": IMEX side effects and container edits
  MaxAborts,     \* bound on failed or interrupted calls in one behaviour
  Recreatable,   \* claims whose name may be reused by a new ResourceClaim
  RecreatedGroups \* the config groups of that new claim's allocation

(***************************************************************************)
(* A group is one config with the allocation results it governs, reduced  *)
(* to what applyConfig acts on: the config type, its DomainID, and        *)
(* whether it is well formed: for a channel config that the domain lives  *)
(* in the claim's namespace, for a daemon config that it governs exactly   *)
(* one device.                                                             *)
(***************************************************************************)
Group == [type : {"channel", "daemon"}, domain : Domains, ok : BOOLEAN]

ASSUME ClaimGroups \in [Claims -> SUBSET Group]
ASSUME Legacy \subseteq Claims /\ Fabric \in BOOLEAN /\ MaxAborts \in Nat
ASSUME Recreatable \subseteq Claims /\ RecreatedGroups \in [Recreatable -> SUBSET Group]

VARIABLES
  ckpt,       \* checkpoint entry per claim: "absent", "status" or "legacy"
  labels,     \* the domain this node's label names: {} or a singleton
  settings,   \* domains whose daemon settings are prepared on this node
  specs,      \* claims with a claim CDI spec file
  call,       \* the call holding the mutex, its step and its pending groups
  phase,      \* the kubelet's view of each claim
  apiClaim,   \* the ResourceClaim object under each claim's name
  ready,      \* domains whose status is Ready
  aborts      \* failed or interrupted calls so far

vars == <<ckpt, labels, settings, specs, call, phase, apiClaim, ready, aborts>>

(***************************************************************************)
(* What the API server holds under a claim's namespace and name: the     *)
(* allocated claim; no allocated claim ("released": the claim was         *)
(* deallocated or deleted, or a new claim took the name and is not        *)
(* allocated); or a new claim under the name (another UID) with its own   *)
(* allocation.                                                             *)
(***************************************************************************)
ClaimObjects == {"allocated", "released", "recreated"}

Phases == {"Pending", "Prepared", "Rejected", "Unpreparing", "Done", "GaveUp"}
NoCall == [op |-> "None", claim |-> CHOOSE c \in Claims : TRUE, pc |-> "None", todo |-> {}]
Calls == [op : {"None", "Prepare", "Unprepare"}, claim : Claims,
          pc : {"None", "Apply", "WriteSpec", "Commit", "FetchClaim",
                "Unapply", "DeleteSpec", "Remove"},
          todo : SUBSET Group]

TypeOK ==
  /\ ckpt \in [Claims -> {"absent", "status", "legacy"}]
  /\ labels \subseteq Domains /\ Cardinality(labels) <= 1
  /\ settings \subseteq Domains
  /\ specs \subseteq Claims
  /\ call \in Calls
  /\ phase \in [Claims -> Phases]
  /\ apiClaim \in [Claims -> ClaimObjects]
  /\ ready \subseteq Domains
  /\ aborts \in 0..MaxAborts

(***************************************************************************)
(* What a prepared claim has on the node: the label of every domain it    *)
(* has a channel for, daemon settings for every daemon domain when IMEX   *)
(* is supported, and a claim spec file when some group produced container *)
(* edits, i.e. when IMEX is supported (CreateClaimSpecFile skips groups   *)
(* without edits and writes nothing when none has any).                   *)
(***************************************************************************)
ChannelDomains(c) == {g.domain : g \in {h \in ClaimGroups[c] : h.type = "channel"}}
DaemonDomains(c) == {g.domain : g \in {h \in ClaimGroups[c] : h.type = "daemon"}}
HasEdits(c) == Fabric /\ ClaimGroups[c] # {}
SettingsOf(c) == IF Fabric THEN DaemonDomains(c) ELSE {}

SideEffectsInPlace(c) ==
  /\ ChannelDomains(c) \subseteq labels
  /\ SettingsOf(c) \subseteq settings
  /\ HasEdits(c) => c \in specs

SideEffectsGone(c) ==
  /\ ChannelDomains(c) \cap labels = {}
  /\ DaemonDomains(c) \cap settings = {}
  /\ c \notin specs

(***************************************************************************)
(* Returning from a call releases the mutex.  The kubelet records a       *)
(* successful Prepare (unless the pod is already gone), a successful      *)
(* Unprepare, and stops on a permanent error: the claim is rejected, or   *)
(* its Unprepare given up; it retries after any other error.              *)
(***************************************************************************)
PrepareReturns(c, r) ==
  /\ call' = NoCall
  /\ phase' = CASE phase[c] # "Pending" -> phase
                [] r = "ok"            -> [phase EXCEPT ![c] = "Prepared"]
                [] r = "permanent"     -> [phase EXCEPT ![c] = "Rejected"]
                [] OTHER               -> phase

UnprepareReturns(c, r) ==
  /\ call' = NoCall
  /\ phase' = CASE r = "ok"        -> [phase EXCEPT ![c] = "Done"]
                [] r = "permanent" -> [phase EXCEPT ![c] = "GaveUp"]
                [] OTHER           -> phase

\* The call moves on to its next step.
Goto(p) == call' = [call EXCEPT !.pc = p] /\ UNCHANGED phase

\* Mutant: the loop ends after the first group.
GroupDoneSkipRest(g, last) ==
  /\ call' = [call EXCEPT !.todo = @ \ {g}, !.pc = last]
  /\ UNCHANGED phase

\* Mutant: the loop does not advance past a group it has applied.
GroupDoneStay(g, last) ==
  /\ call' = [call EXCEPT !.pc = IF call.todo = {g} THEN last ELSE @]
  /\ UNCHANGED phase

\* Group g is done; the step after the last group is next.
GroupDone(g, last) ==
  /\ call' = [call EXCEPT !.todo = @ \ {g},
                          !.pc = IF call.todo = {g} THEN last ELSE @]
  /\ UNCHANGED phase

(***************************************************************************)
(* Prepare: under the mutex, read the checkpoint; a checkpointed claim    *)
(* returns its recorded devices and nothing else happens.  Otherwise      *)
(* prepareDevices applies the configs of getConfigResultsMap one group    *)
(* at a time, in map order (random in Go).                                *)
(***************************************************************************)
Prepare(c) ==
  /\ call.op = "None"
  /\ phase[c] \in {"Pending", "Prepared"}
  /\ IF ckpt[c] # "absent"
       THEN PrepareReturns(c, "ok")
       ELSE /\ call' = [op |-> "Prepare", claim |-> c, todo |-> ClaimGroups[c],
                        pc |-> IF ClaimGroups[c] = {} THEN "WriteSpec" ELSE "Apply"]
            /\ UNCHANGED phase
  /\ UNCHANGED <<ckpt, labels, settings, specs, apiClaim, ready, aborts>>

(***************************************************************************)
(* applyComputeDomainChannelConfig, per result: the namespace assertion   *)
(* (a permanent error), AddNodeLabel, then the readiness assertion (a     *)
(* retryable error that leaves the label in place), then, with IMEX, the  *)
(* channel device node and its container edits.  A node has one label     *)
(* key (computeDomainLabelKey), whose value records membership in one     *)
(* domain; AddNodeLabel (not in the source tree) is taken to fail, a      *)
(* retryable error, while the node is labelled for another domain.        *)
(***************************************************************************)
\* AddNodeLabel(d) may set the node's label.
Labelable(d) == labels \subseteq {d}

applyComputeDomainChannelConfig(g) ==
  /\ call.op = "Prepare" /\ call.pc = "Apply"
  /\ g \in call.todo /\ g.type = "channel"
  /\ \/ /\ ~g.ok
        /\ PrepareReturns(call.claim, "permanent")
        /\ UNCHANGED labels
     \/ /\ g.ok /\ ~Labelable(g.domain)
        /\ PrepareReturns(call.claim, "retry")
        /\ UNCHANGED labels
     \/ /\ g.ok /\ Labelable(g.domain) /\ g.domain \notin ready
        /\ labels' = {g.domain}
        /\ PrepareReturns(call.claim, "retry")
     \/ /\ g.ok /\ Labelable(g.domain) /\ g.domain \in ready
        /\ labels' = {g.domain}
        /\ GroupDone(g, "WriteSpec")
  /\ UNCHANGED <<ckpt, settings, specs, apiClaim, ready, aborts>>

(***************************************************************************)
(* applyComputeDomainDaemonConfig: more than one device is an ordinary    *)
(* (retryable) error; with IMEX, the nvcap device node is created and the *)
(* daemon settings are prepared before their container edits are read.    *)
(***************************************************************************)
applyComputeDomainDaemonConfig(g) ==
  /\ call.op = "Prepare" /\ call.pc = "Apply"
  /\ g \in call.todo /\ g.type = "daemon"
  /\ \/ /\ ~g.ok
        /\ PrepareReturns(call.claim, "retry")
        /\ UNCHANGED settings
     \/ /\ g.ok
        /\ settings' = IF Fabric THEN settings \cup {g.domain} ELSE settings
        /\ GroupDone(g, "WriteSpec")
  /\ UNCHANGED <<ckpt, labels, specs, apiClaim, ready, aborts>>

\* CreateClaimSpecFile writes a spec only if some group has container edits.
CreateClaimSpecFile ==
  /\ call.op = "Prepare" /\ call.pc = "WriteSpec"
  /\ specs' = IF HasEdits(call.claim) THEN specs \cup {call.claim} ELSE specs
  /\ Goto("Commit")
  /\ UNCHANGED <<ckpt, labels, settings, apiClaim, ready, aborts>>

\* The new entry, with the claim's Status, is written in one CreateCheckpoint.
PrepareCommit ==
  /\ call.op = "Prepare" /\ call.pc = "Commit"
  /\ ckpt' = [ckpt EXCEPT ![call.claim] = "status"]
  /\ PrepareReturns(call.claim, "ok")
  /\ UNCHANGED <<labels, settings, specs, apiClaim, ready, aborts>>

(***************************************************************************)
(* Unprepare: under the mutex, read the checkpoint; a claim that is not   *)
(* in it is a no-op success.  The allocation status comes from the       *)
(* entry; only a legacy entry without Status fetches the claim from the   *)
(* API server, by namespace and name, and a failed Get or a claim without *)
(* an allocation is a permanent error.                                     *)
(***************************************************************************)
\* Mutant: the allocation status is always fetched from the API server.
UnprepareAlwaysFetch(c) ==
  /\ call.op = "None"
  /\ phase[c] = "Unpreparing"
  /\ IF ckpt[c] = "absent"
       THEN UnprepareReturns(c, "ok")
       ELSE /\ call' = [op |-> "Unprepare", claim |-> c, todo |-> {}, pc |-> "FetchClaim"]
            /\ UNCHANGED phase
  /\ UNCHANGED <<ckpt, labels, settings, specs, apiClaim, ready, aborts>>

Unprepare(c) ==
  /\ call.op = "None"
  /\ phase[c] = "Unpreparing"
  /\ CASE ckpt[c] = "absent" -> UnprepareReturns(c, "ok")
       [] ckpt[c] = "legacy" ->
            /\ call' = [op |-> "Unprepare", claim |-> c, todo |-> {}, pc |-> "FetchClaim"]
            /\ UNCHANGED phase
       [] OTHER ->
            /\ call' = [op |-> "Unprepare", claim |-> c, todo |-> ClaimGroups[c],
                        pc |-> IF ClaimGroups[c] = {} THEN "DeleteSpec" ELSE "Unapply"]
            /\ UNCHANGED phase
  /\ UNCHANGED <<ckpt, labels, settings, specs, apiClaim, ready, aborts>>

\* The groups of the allocation the Get by name returns: the UID is not compared.
Fetched(c) == IF apiClaim[c] = "recreated" THEN RecreatedGroups[c] ELSE ClaimGroups[c]

(***************************************************************************)
(* The Get returns an allocated claim, whose status stands in for the     *)
(* entry's; NotFound and a claim without allocation are permanent; and a  *)
(* Get that fails transiently (where it would have succeeded) is          *)
(* permanent too, counted among the bounded failures.                      *)
(***************************************************************************)
FetchClaim ==
  LET c == call.claim IN
  /\ call.op = "Unprepare" /\ call.pc = "FetchClaim"
  /\ \/ /\ apiClaim[c] \in {"allocated", "recreated"}
        /\ call' = [call EXCEPT !.todo = Fetched(c),
                                !.pc = IF Fetched(c) = {} THEN "DeleteSpec" ELSE "Unapply"]
        /\ UNCHANGED <<phase, aborts>>
     \/ /\ apiClaim[c] = "released"
        /\ UnprepareReturns(c, "permanent")
        /\ UNCHANGED aborts
     \/ /\ apiClaim[c] \in {"allocated", "recreated"} /\ aborts < MaxAborts
        /\ aborts' = aborts + 1
        /\ UnprepareReturns(c, "permanent")
  /\ UNCHANGED <<ckpt, labels, settings, specs, apiClaim, ready>>

(***************************************************************************)
(* unprepareDevices re-derives the groups from the status and reverses    *)
(* them one at a time, in map order: RemoveNodeLabel for a channel        *)
(* config (a no-op unless the label names that domain, spec §6), the      *)
(* daemon settings' Unprepare for a daemon config.                        *)
(***************************************************************************)
unprepareDevices(g) ==
  /\ call.op = "Unprepare" /\ call.pc = "Unapply" /\ g \in call.todo
  /\ labels' = IF g.type = "channel" THEN labels \ {g.domain} ELSE labels
  /\ settings' = IF g.type = "daemon" THEN settings \ {g.domain} ELSE settings
  /\ GroupDone(g, "DeleteSpec")
  /\ UNCHANGED <<ckpt, specs, apiClaim, ready, aborts>>

DeleteClaimSpecFile ==
  /\ call.op = "Unprepare" /\ call.pc = "DeleteSpec"
  /\ specs' = specs \ {call.claim}
  /\ Goto("Remove")
  /\ UNCHANGED <<ckpt, labels, settings, apiClaim, ready, aborts>>

\* The entry is deleted and the checkpoint rewritten in one CreateCheckpoint.
UnprepareCommit ==
  /\ call.op = "Unprepare" /\ call.pc = "Remove"
  /\ ckpt' = [ckpt EXCEPT ![call.claim] = "absent"]
  /\ UnprepareReturns(call.claim, "ok")
  /\ UNCHANGED <<labels, settings, specs, apiClaim, ready, aborts>>

(***************************************************************************)
(* A step of the running call fails (a device-node, CDI, checkpoint or    *)
(* API error) or the plugin restarts: the call ends with a retryable      *)
(* error, its effects so far stay.                                         *)
(***************************************************************************)
Abort ==
  /\ call.op # "None"
  /\ aborts < MaxAborts
  /\ aborts' = aborts + 1
  /\ IF call.op = "Prepare" THEN PrepareReturns(call.claim, "retry")
                            ELSE UnprepareReturns(call.claim, "retry")
  /\ UNCHANGED <<ckpt, labels, settings, specs, apiClaim, ready>>

(***************************************************************************)
(* The environment: the pod using a claim goes away (the kubelet turns to *)
(* unpreparing it, whether or not Prepare succeeded); once no pod         *)
(* reserves the claim its allocation is cleared or the object deleted     *)
(* (the plugin cannot tell the two apart); a new allocated claim may take *)
(* the name of a deleted one; and the controller flips a domain's         *)
(* readiness.                                                              *)
(***************************************************************************)
PodGone(c) ==
  /\ phase[c] \in {"Pending", "Prepared", "Rejected"}
  /\ phase' = [phase EXCEPT ![c] = "Unpreparing"]
  /\ UNCHANGED <<ckpt, labels, settings, specs, call, apiClaim, ready, aborts>>

DeleteClaimObject(c) ==
  /\ apiClaim[c] = "allocated"
  /\ phase[c] \in {"Unpreparing", "Done", "GaveUp"}
  /\ apiClaim' = [apiClaim EXCEPT ![c] = "released"]
  /\ UNCHANGED <<ckpt, labels, settings, specs, call, phase, ready, aborts>>

RecreateClaimObject(c) ==
  /\ c \in Recreatable /\ apiClaim[c] = "released"
  /\ apiClaim' = [apiClaim EXCEPT ![c] = "recreated"]
  /\ UNCHANGED <<ckpt, labels, settings, specs, call, phase, ready, aborts>>

SetReady(d) ==
  /\ ready' = IF d \in ready THEN ready \ {d} ELSE ready \cup {d}
  /\ UNCHANGED <<ckpt, labels, settings, specs, call, phase, apiClaim, aborts>>

(***************************************************************************)
(* The state after NewDeviceState on a node upgraded from an older        *)
(* release: the checkpoint file exists (it is created empty if missing),  *)
(* legacy entries carry no Status, and the claims they record are         *)
(* prepared, with their side effects in place.                            *)
(***************************************************************************)
Init ==
  /\ ckpt = [c \in Claims |-> IF c \in Legacy THEN "legacy" ELSE "absent"]
  /\ labels = UNION {ChannelDomains(c) : c \in Legacy}
  /\ settings = UNION {SettingsOf(c) : c \in Legacy}
  /\ specs = {c \in Legacy : HasEdits(c)}
  /\ call = NoCall
  /\ phase = [c \in Claims |-> IF c \in Legacy THEN "Prepared" ELSE "Pending"]
  /\ apiClaim = [c \in Claims |-> "allocated"]
  /\ ready = {}
  /\ aborts = 0

\* The steps of the call holding the mutex.
CallStep ==
  \/ \E g \in call.todo : applyComputeDomainChannelConfig(g)
  \/ \E g \in call.todo : applyComputeDomainDaemonConfig(g)
  \/ CreateClaimSpecFile
  \/ PrepareCommit
  \/ FetchClaim
  \/ \E g \in call.todo : unprepareDevices(g)
  \/ DeleteClaimSpecFile
  \/ UnprepareCommit

Next ==
  \/ \E c \in Claims : Prepare(c) \/ Unprepare(c) \/ PodGone(c)
  \/ \E c \in Claims : DeleteClaimObject(c) \/ RecreateClaimObject(c)
  \/ CallStep
  \/ Abort
  \/ \E d \in Domains : SetReady(d)

(***************************************************************************)
(* Fairness: the call holding the mutex runs to its end (failures are     *)
(* bounded by MaxAborts), and the kubelet keeps retrying Prepare of a     *)
(* claim its pod waits for and Unprepare of a claim it is tearing down;   *)
(* the mutex is free only intermittently, so those retries are strongly   *)
(* fair.  Pods, claim objects and readiness are not fair.                 *)
(***************************************************************************)
Fairness ==
  /\ WF_vars(CallStep)
  /\ \A c \in Claims : SF_vars(Prepare(c)) /\ SF_vars(Unprepare(c))

Spec == Init /\ [][Next]_vars /\ Fairness

-----------------------------------------------------------------------------
(***************************************************************************)
(* Checkpoint soundness (spec §3: a claim UID is in the checkpoint iff    *)
(* its devices are prepared on the node): while the kubelet still uses a  *)
(* checkpointed claim, every side effect Prepare applied for it (node     *)
(* label, daemon settings, claim CDI spec) is in place, across failed and *)
(* interrupted Prepare and Unprepare calls and the legacy fallback.       *)
(***************************************************************************)
CheckpointSound ==
  \A c \in Claims :
    ckpt[c] # "absent" /\ phase[c] \in {"Pending", "Prepared"} => SideEffectsInPlace(c)

(***************************************************************************)
(* Unprepare without the server (spec §8): a claim checkpointed with its  *)
(* Status that the kubelet tears down is eventually removed from the      *)
(* checkpoint, even if its ResourceClaim object has been deleted.         *)
(***************************************************************************)
UnprepareWithoutServer ==
  \A c \in Claims : (phase[c] = "Unpreparing" /\ ckpt[c] = "status") ~> ckpt[c] = "absent"

(***************************************************************************)
(* Configuration errors are not retried (spec §7: more than one result   *)
(* for a daemon config is permanent, so the caller stops retrying): a     *)
(* claim with a misconfigured group does not stay pending forever while   *)
(* the kubelet retries its Prepare.                                        *)
(***************************************************************************)
MisconfiguredClaimRejected ==
  \A c \in Claims :
    (\E g \in ClaimGroups[c] : ~g.ok) => (phase[c] = "Pending" ~> phase[c] # "Pending")

(***************************************************************************)
(* Prepare completes once the domains are Ready (spec §4.2: readiness is  *)
(* retryable; §5: the per-node mutex serializes every call): a claim      *)
(* whose groups are all well formed, and whose channel domains are        *)
(* eventually Ready for good, does not stay pending, although each        *)
(* failed readiness check ends the call and another claim's Prepare,      *)
(* retried forever after a configuration error, competes for the mutex.  *)
(***************************************************************************)
PreparedOnceReady ==
  \A c \in Claims :
    (\A g \in ClaimGroups[c] : g.ok) =>
      (<>[](ChannelDomains(c) \subseteq ready) =>
         [](phase[c] = "Pending" => <>(phase[c] # "Pending")))

(***************************************************************************)
(* No leaked side effects (spec §7: side effects before the checkpoint    *)
(* commit are harmless; §3: absence from the checkpoint means never       *)
(* prepared or already unprepared): once the kubelet has unprepared a     *)
(* claim, none of its side effects remain on the node.                    *)
(***************************************************************************)
NoLeakAfterUnprepare ==
  \A c \in Claims : phase[c] = "Done" => SideEffectsGone(c)

=============================================================================
