------------------------ MODULE ComputeDomainLifecycle ------------------------
(***************************************************************************)
(* What the ComputeDomain controller promises about one domain and its     *)
(* dependents (spec §4.1), with no queue, cache or API calls: a domain is *)
(* created, gets the driver's finalizer, is deleted, and is released (its *)
(* finalizer removed, the object gone) only once none of its dependents   *)
(* exists.  Dependents are created only for a domain that has carried the *)
(* finalizer, and removed only once its deletion has begun.               *)
(*                                                                         *)
(* Create stale work does allow: a dependent may be created while the     *)
(* domain is deleting or already gone.  ComputeDomainManager is checked   *)
(* to implement this specification.                                       *)
(***************************************************************************)
CONSTANTS
  CDs,    \* ComputeDomain UIDs
  Kinds   \* kinds of dependent objects

VARIABLES
  phase,  \* per domain: Absent, Active, Finalized, Deleting or Gone
  deps    \* per domain: the kinds of its dependents that exist

Phases == {"Absent", "Active", "Finalized", "Deleting", "Gone"}

TypeOK ==
  /\ phase \in [CDs -> Phases]
  /\ deps \in [CDs -> SUBSET Kinds]

Init ==
  /\ phase = [c \in CDs |-> "Absent"]
  /\ deps = [c \in CDs |-> {}]

Move(c, from, to) ==
  /\ phase[c] = from
  /\ phase' = [phase EXCEPT ![c] = to]
  /\ UNCHANGED deps

Create(c) == Move(c, "Absent", "Active")

AddFinalizer(c) == Move(c, "Active", "Finalized")

\* Without the finalizer the object goes at once; with it, it is deleting.
Delete(c) == Move(c, "Active", "Gone") \/ Move(c, "Finalized", "Deleting")

CreateDependent(c, k) ==
  /\ phase[c] \in {"Finalized", "Deleting", "Gone"}
  /\ k \notin deps[c]
  /\ deps' = [deps EXCEPT ![c] = @ \cup {k}]
  /\ UNCHANGED phase

RemoveDependent(c, k) ==
  /\ phase[c] \in {"Deleting", "Gone"}
  /\ k \in deps[c]
  /\ deps' = [deps EXCEPT ![c] = @ \ {k}]
  /\ UNCHANGED phase

Release(c) ==
  /\ deps[c] = {}
  /\ Move(c, "Deleting", "Gone")

Next ==
  \E c \in CDs :
    \/ Create(c) \/ AddFinalizer(c) \/ Delete(c) \/ Release(c)
    \/ \E k \in Kinds : CreateDependent(c, k) \/ RemoveDependent(c, k)

Spec == Init /\ [][Next]_<<phase, deps>>
=============================================================================
