------------------------- MODULE ComputeDomainManager -------------------------
(***************************************************************************)
(* The ComputeDomain controller (cmd/compute-domain-controller/            *)
(* computedomain.go): an informer whose Add and Update handlers Enqueue   *)
(* the event's object, a work queue that redelivers an item whose handler *)
(* failed, and the onAddOrUpdate handler with its create branch and its    *)
(* finalizer-ordered teardown branch.  The DaemonSet and                   *)
(* ResourceClaimTemplate managers and the node manager are not in the     *)
(* source tree; they are modelled from their contracts in the spec (§6).  *)
(*                                                                         *)
(* Every API call of the handler is a step of its own, because the user,  *)
(* the informer and the kubelet plugins act between them, and every step  *)
(* may fail, which ends the handler and puts its item back in the queue.  *)
(***************************************************************************)
EXTENDS Naturals, FiniteSets, SequencesExt

CONSTANTS
  CDs,         \* UIDs of ComputeDomain objects
  MaxAPIErrors, \* bound on the transient API errors of one behaviour
  MaxRestarts   \* bound on the controller restarts of one behaviour

VARIABLES
  api,       \* each ComputeDomain as stored by the API server
  cache,     \* the informer's copy of it, read by Get
  queue,     \* work items: the ComputeDomain snapshots handed to Enqueue
  worker,    \* per ComputeDomain: the handler step in progress and its item
  dep,       \* per ComputeDomain: the dependent objects of each manager
  labelled,  \* per ComputeDomain: some node carries its label
  sweep,     \* a RemoveStaleComputeDomainLabelsAsync sweep is pending
  errors,    \* transient API errors so far
  claimed,   \* per ComputeDomain: a pod on the node holds a channel claim of it
  restarts   \* controller restarts so far

vars == <<api, cache, queue, worker, dep, labelled, sweep, errors, claimed, restarts>>

(***************************************************************************)
(* A ComputeDomain is abstracted to what the handler reads: whether it    *)
(* exists, its resourceVersion, whether it carries this driver's          *)
(* finalizer, and whether its deletionTimestamp is set.  At most four     *)
(* writes happen to one object (create, add finalizer, delete, remove     *)
(* finalizer), so resourceVersions stay within 0..4.  rv = 0 means never  *)
(* created; a removed object keeps its last rv, so it is never recreated  *)
(* under the same UID.                                                     *)
(***************************************************************************)
Obj == [exists : BOOLEAN, rv : 0..4, fin : BOOLEAN, del : BOOLEAN]
NoObj == [exists |-> FALSE, rv |-> 0, fin |-> FALSE, del |-> FALSE]
Item == [cd : CDs, obj : Obj]

\* The two managed dependents of a domain and their object states.
Kinds == {"DaemonSet", "ResourceClaimTemplate"}
Dep == [exists : BOOLEAN, fin : BOOLEAN, del : BOOLEAN]
NoDep == [exists |-> FALSE, fin |-> FALSE, del |-> FALSE]

Steps == {"Idle", "addFinalizer", "CreateDaemonSet",
          "CreateResourceClaimTemplate", "DeleteResourceClaimTemplate",
          "DeleteDaemonSet", "RemoveComputeDomainLabels",
          "RemoveResourceClaimTemplateFinalizer",
          "AssertResourceClaimTemplateRemoved", "RemoveDaemonSetFinalizer",
          "AssertDaemonSetRemoved", "RemoveFinalizer"}
Idle == [pc |-> "Idle", obj |-> NoObj]

TypeOK ==
  /\ api \in [CDs -> Obj]
  /\ cache \in [CDs -> Obj]
  /\ queue \in Seq(Item)
  /\ worker \in [CDs -> [pc : Steps, obj : Obj]]
  /\ dep \in [CDs -> [Kinds -> Dep]]
  /\ labelled \in [CDs -> BOOLEAN]
  /\ sweep \in BOOLEAN
  /\ errors \in 0..MaxAPIErrors
  /\ claimed \in [CDs -> BOOLEAN]
  /\ restarts \in 0..MaxRestarts

(***************************************************************************)
(* The dependent managers' contract (§6): Create is a no-op when the      *)
(* object exists and otherwise creates it with the driver's finalizer;    *)
(* Delete sets the deletion timestamp (the object stays while it has a    *)
(* finalizer); RemoveFinalizer lets a deleted object go; AssertRemoved    *)
(* fails while the object exists.                                          *)
(***************************************************************************)
MgrCreate(r) == IF r.exists THEN r ELSE [exists |-> TRUE, fin |-> TRUE, del |-> FALSE]
MgrDelete(r) == IF r.exists /\ r.fin THEN [r EXCEPT !.del = TRUE] ELSE NoDep
MgrRemoveFinalizer(r) == IF r.exists /\ r.del THEN NoDep ELSE [r EXCEPT !.fin = FALSE]
MgrAssertRemoved(r) == ~r.exists

\* An Update built from object o succeeds only if o is the current version.
UpdateOK(c, o) == api[c].exists /\ api[c].rv = o.rv

Goto(c, p) == worker' = [worker EXCEPT ![c].pc = p] /\ UNCHANGED queue
\* The handler returned nil: the item is forgotten.
Finish(c) == worker' = [worker EXCEPT ![c] = Idle] /\ UNCHANGED queue
\* The handler returned an error: the item is added back, rate limited,
\* behind the items already waiting.
Requeue(c) ==
  /\ queue' = Append(queue, [cd |-> c, obj |-> worker[c].obj])
  /\ worker' = [worker EXCEPT ![c] = Idle]


(***************************************************************************)
(* The environment: users create and delete ComputeDomains, the API       *)
(* server removes a deleted object once it has no finalizer, pods get      *)
(* channel claims made from the domain's ResourceClaimTemplate, and the  *)
(* kubelet plugin labels the node while it prepares such a claim and      *)
(* removes the label when it unprepares it.                               *)
(***************************************************************************)
UserCreate(c) ==
  /\ api[c].rv = 0
  /\ api' = [api EXCEPT ![c] = [exists |-> TRUE, rv |-> 1, fin |-> FALSE, del |-> FALSE]]
  /\ UNCHANGED <<cache, queue, worker, dep, labelled, sweep, errors, claimed, restarts>>

UserDelete(c) ==
  /\ api[c].exists /\ ~api[c].del
  /\ api' = [api EXCEPT ![c] = [@ EXCEPT !.rv = @ + 1, !.del = TRUE,
                                          !.exists = api[c].fin]]
  /\ UNCHANGED <<cache, queue, worker, dep, labelled, sweep, errors, claimed, restarts>>

\* A pod's channel claim is made from the domain's ResourceClaimTemplate
\* while that template is not being deleted; the claim outlives it.
CreateChannelClaim(c) ==
  /\ dep[c]["ResourceClaimTemplate"].exists
  /\ ~dep[c]["ResourceClaimTemplate"].del
  /\ ~claimed[c]
  /\ claimed' = [claimed EXCEPT ![c] = TRUE]
  /\ UNCHANGED <<api, cache, queue, worker, dep, labelled, sweep, errors, restarts>>

\* Every Prepare (retried while the domain is not Ready) of a channel claim
\* calls AddNodeLabel, after asserting that the domain is in its namespace.
PluginAddNodeLabel(c) ==
  /\ claimed[c] /\ api[c].exists /\ ~labelled[c]
  /\ labelled' = [labelled EXCEPT ![c] = TRUE]
  /\ UNCHANGED <<api, cache, queue, worker, dep, sweep, errors, claimed, restarts>>

\* The pod goes away: Unprepare of its channel claim calls RemoveNodeLabel,
\* and the claim is deleted.
PluginRemoveNodeLabel(c) ==
  /\ claimed[c]
  /\ claimed' = [claimed EXCEPT ![c] = FALSE]
  /\ labelled' = [labelled EXCEPT ![c] = FALSE]
  /\ UNCHANGED <<api, cache, queue, worker, dep, sweep, errors, restarts>>

(***************************************************************************)
(* The informer: the cache catches up with the API server (possibly       *)
(* skipping intermediate versions) and AddFunc/UpdateFunc Enqueue the new *)
(* object; a removal only drops it from the cache (no DeleteFunc).  Every *)
(* informerResyncPeriod the cached object is delivered again.             *)
(***************************************************************************)
InformerEvent(c) ==
  /\ cache[c] # api[c]
  /\ cache' = [cache EXCEPT ![c] = api[c]]
  /\ queue' = IF api[c].exists THEN Append(queue, [cd |-> c, obj |-> api[c]]) ELSE queue
  /\ UNCHANGED <<api, worker, dep, labelled, sweep, errors, claimed, restarts>>

Resync(c) ==
  /\ cache[c].exists
  /\ [cd |-> c, obj |-> cache[c]] \notin ToSet(queue)
  /\ queue' = Append(queue, [cd |-> c, obj |-> cache[c]])
  /\ UNCHANGED <<api, cache, worker, dep, labelled, sweep, errors, claimed, restarts>>

(***************************************************************************)
(* The work queue hands the oldest item of an object to onAddOrUpdate,   *)
(* at most one per object at a time; the handler branches on the item's   *)
(* deletionTimestamp.                                                      *)
(***************************************************************************)
\* Mutant: the create branch creates the DaemonSet before the finalizer.
onAddOrUpdateCreateFirst(c) ==
  LET j == SelectInSeq(queue, LAMBDA i : i.cd = c) IN
  /\ worker[c].pc = "Idle"
  /\ j > 0
  /\ queue' = RemoveAt(queue, j)
  /\ worker' = [worker EXCEPT ![c] =
       [pc |-> IF queue[j].obj.del THEN "DeleteResourceClaimTemplate" ELSE "CreateDaemonSet",
        obj |-> queue[j].obj]]
  /\ UNCHANGED <<api, cache, dep, labelled, sweep, errors, claimed, restarts>>

onAddOrUpdate(c) ==
  LET j == SelectInSeq(queue, LAMBDA i : i.cd = c) IN
  /\ worker[c].pc = "Idle"
  /\ j > 0
  /\ queue' = RemoveAt(queue, j)
  /\ worker' = [worker EXCEPT ![c] =
       [pc |-> IF queue[j].obj.del THEN "DeleteResourceClaimTemplate" ELSE "addFinalizer",
        obj |-> queue[j].obj]]
  /\ UNCHANGED <<api, cache, dep, labelled, sweep, errors, claimed, restarts>>

\* Any API call of the handler fails transiently.
APIError(c) ==
  /\ worker[c].pc # "Idle"
  /\ errors < MaxAPIErrors
  /\ errors' = errors + 1
  /\ Requeue(c)
  /\ UNCHANGED <<api, cache, dep, labelled, sweep, claimed, restarts>>

(***************************************************************************)
(* Create branch.  addFinalizer trusts the item: if the item already      *)
(* carries the finalizer no Update is made.  Otherwise the Update is      *)
(* built from the item and is refused when the item is stale.  The        *)
(* stale-label sweep is then started without waiting for it.              *)
(***************************************************************************)
\* Mutant: the Update is issued even when the item has the finalizer.
addFinalizerAlwaysUpdate(c) ==
  LET o == worker[c].obj IN
  /\ worker[c].pc = "addFinalizer"
  /\ \/ /\ UpdateOK(c, o)
        /\ api' = [api EXCEPT ![c] = [@ EXCEPT !.fin = TRUE, !.rv = @ + 1]]
        /\ sweep' = TRUE
        /\ Goto(c, "CreateDaemonSet")
     \/ /\ ~UpdateOK(c, o)
        /\ Requeue(c)
        /\ UNCHANGED <<api, sweep>>
  /\ UNCHANGED <<cache, dep, labelled, errors, claimed, restarts>>

addFinalizer(c) ==
  LET o == worker[c].obj IN
  /\ worker[c].pc = "addFinalizer"
  /\ \/ /\ o.fin \/ UpdateOK(c, o)
        /\ api' = IF o.fin THEN api
                  ELSE [api EXCEPT ![c] = [@ EXCEPT !.fin = TRUE, !.rv = @ + 1]]
        /\ sweep' = TRUE
        /\ Goto(c, "CreateDaemonSet")
     \/ /\ ~o.fin /\ ~UpdateOK(c, o)
        /\ Requeue(c)
        /\ UNCHANGED <<api, sweep>>
  /\ UNCHANGED <<cache, dep, labelled, errors, claimed, restarts>>

\* One call on a dependent manager, followed by the handler's next step.
DepStep(c, p, k, next, Op(_)) ==
  /\ worker[c].pc = p
  /\ dep' = [dep EXCEPT ![c][k] = Op(@)]
  /\ IF next = "Idle" THEN Finish(c) ELSE Goto(c, next)
  /\ UNCHANGED <<api, cache, labelled, sweep, errors, claimed, restarts>>

CreateDaemonSet(c) ==
  DepStep(c, "CreateDaemonSet", "DaemonSet", "CreateResourceClaimTemplate", MgrCreate)

CreateResourceClaimTemplate(c) ==
  DepStep(c, "CreateResourceClaimTemplate", "ResourceClaimTemplate", "Idle", MgrCreate)

(***************************************************************************)
(* Teardown branch, in the order of the code; each step must succeed      *)
(* before the next one is attempted.                                       *)
(***************************************************************************)
DeleteResourceClaimTemplate(c) ==
  DepStep(c, "DeleteResourceClaimTemplate", "ResourceClaimTemplate", "DeleteDaemonSet", MgrDelete)

\* Mutant: the DaemonSet manager's Delete is never called.
DeleteDaemonSetDropped(c) ==
  DepStep(c, "DeleteDaemonSet", "DaemonSet", "RemoveComputeDomainLabels", LAMBDA r : r)

DeleteDaemonSet(c) ==
  DepStep(c, "DeleteDaemonSet", "DaemonSet", "RemoveComputeDomainLabels", MgrDelete)

RemoveComputeDomainLabels(c) ==
  /\ worker[c].pc = "RemoveComputeDomainLabels"
  /\ labelled' = [labelled EXCEPT ![c] = FALSE]
  /\ Goto(c, "RemoveResourceClaimTemplateFinalizer")
  /\ UNCHANGED <<api, cache, dep, sweep, errors, claimed, restarts>>

RemoveResourceClaimTemplateFinalizer(c) ==
  DepStep(c, "RemoveResourceClaimTemplateFinalizer", "ResourceClaimTemplate",
          "AssertResourceClaimTemplateRemoved", MgrRemoveFinalizer)

\* AssertRemoved of a manager: an error while its object still exists.
AssertStep(c, p, k, next) ==
  /\ worker[c].pc = p
  /\ IF MgrAssertRemoved(dep[c][k]) THEN Goto(c, next) ELSE Requeue(c)
  /\ UNCHANGED <<api, cache, dep, labelled, sweep, errors, claimed, restarts>>

AssertResourceClaimTemplateRemoved(c) ==
  AssertStep(c, "AssertResourceClaimTemplateRemoved", "ResourceClaimTemplate",
             "RemoveDaemonSetFinalizer")

RemoveDaemonSetFinalizer(c) ==
  DepStep(c, "RemoveDaemonSetFinalizer", "DaemonSet", "AssertDaemonSetRemoved",
          MgrRemoveFinalizer)

AssertDaemonSetRemoved(c) ==
  AssertStep(c, "AssertDaemonSetRemoved", "DaemonSet", "RemoveFinalizer")

(***************************************************************************)
(* ComputeDomainManager.RemoveFinalizer reads the object through Get, the *)
(* informer cache, not the item: nothing cached is success, a cached      *)
(* object without deletionTimestamp is an error, one without the          *)
(* finalizer is success, and otherwise an Update built from the cached    *)
(* copy drops the finalizer; the API server then removes the object.      *)
(***************************************************************************)
RemoveFinalizer(c) ==
  LET cd == cache[c] IN
  /\ worker[c].pc = "RemoveFinalizer"
  /\ \/ /\ ~cd.exists \/ (cd.del /\ ~cd.fin)
        /\ Finish(c)
        /\ UNCHANGED api
     \/ /\ cd.exists /\ cd.del /\ cd.fin /\ UpdateOK(c, cd)
        /\ api' = [api EXCEPT ![c] = [@ EXCEPT !.exists = FALSE, !.fin = FALSE,
                                                !.rv = @ + 1]]
        /\ Finish(c)
     \/ /\ cd.exists /\ ~(cd.del /\ ~cd.fin)
        /\ ~(cd.del /\ UpdateOK(c, cd))
        /\ Requeue(c)
        /\ UNCHANGED api
  /\ UNCHANGED <<cache, dep, labelled, sweep, errors, claimed, restarts>>

(***************************************************************************)
(* The node manager's asynchronous sweep removes the labels of domains    *)
(* that Get no longer finds.                                               *)
(***************************************************************************)
RemoveStaleComputeDomainLabels ==
  /\ sweep
  /\ labelled' = [c \in CDs |-> labelled[c] /\ cache[c].exists]
  /\ sweep' = FALSE
  /\ UNCHANGED <<api, cache, queue, worker, dep, errors, claimed, restarts>>

(***************************************************************************)
(* The controller process restarts (a crash or a rollout): the in-memory  *)
(* work queue, the running handlers, a pending sweep and the informer     *)
(* cache are lost.  Start registers AddFunc/UpdateFunc before it starts   *)
(* the informer; its initial list then indexes the existing ComputeDomains *)
(* one at a time, in no fixed order, and calls AddFunc for each right     *)
(* after indexing it (InformerEvent).  The work queue runs meanwhile, so  *)
(* a handler may act, and start a sweep, before the cache has synced.     *)
(***************************************************************************)
ControllerRestart ==
  /\ restarts < MaxRestarts
  /\ restarts' = restarts + 1
  /\ cache' = [c \in CDs |-> NoObj]
  /\ queue' = <<>>
  /\ worker' = [c \in CDs |-> Idle]
  /\ sweep' = FALSE
  /\ UNCHANGED <<api, dep, labelled, errors, claimed>>

HandlerStep(c) ==
  \/ addFinalizer(c)
  \/ CreateDaemonSet(c)
  \/ CreateResourceClaimTemplate(c)
  \/ DeleteResourceClaimTemplate(c)
  \/ DeleteDaemonSet(c)
  \/ RemoveComputeDomainLabels(c)
  \/ RemoveResourceClaimTemplateFinalizer(c)
  \/ AssertResourceClaimTemplateRemoved(c)
  \/ RemoveDaemonSetFinalizer(c)
  \/ AssertDaemonSetRemoved(c)
  \/ RemoveFinalizer(c)

Init ==
  /\ api = [c \in CDs |-> NoObj]
  /\ cache = [c \in CDs |-> NoObj]
  /\ queue = <<>>
  /\ worker = [c \in CDs |-> Idle]
  /\ dep = [c \in CDs |-> [k \in Kinds |-> NoDep]]
  /\ labelled = [c \in CDs |-> FALSE]
  /\ sweep = FALSE
  /\ errors = 0
  /\ claimed = [c \in CDs |-> FALSE]
  /\ restarts = 0

Next ==
  \/ \E c \in CDs :
       \/ UserCreate(c) \/ UserDelete(c)
       \/ CreateChannelClaim(c) \/ PluginAddNodeLabel(c) \/ PluginRemoveNodeLabel(c)
       \/ InformerEvent(c) \/ Resync(c)
       \/ onAddOrUpdate(c)
       \/ APIError(c)
       \/ HandlerStep(c)
  \/ RemoveStaleComputeDomainLabels
  \/ ControllerRestart

(***************************************************************************)
(* Fairness.  The informer, the queue, the handler and the sweep          *)
(* goroutine keep running; transient API errors are bounded by            *)
(* MaxAPIErrors, so a handler step that stays enabled is eventually       *)
(* taken.  Users, the kubelet plugin and resyncs are not fair.            *)
(***************************************************************************)
Fairness ==
  /\ WF_vars(RemoveStaleComputeDomainLabels)
  /\ \A c \in CDs :
       /\ WF_vars(InformerEvent(c))
       /\ WF_vars(onAddOrUpdate(c))
       /\ WF_vars(HandlerStep(c))

Spec == Init /\ [][Next]_vars /\ Fairness

-----------------------------------------------------------------------------
\* The refinement mapping: a domain's abstract phase is read off the API
\* object; its dependents are the DaemonSet and template objects that exist.
LifecyclePhase(c) ==
  CASE api[c].rv = 0     -> "Absent"
    [] ~api[c].exists    -> "Gone"
    [] api[c].del        -> "Deleting"
    [] api[c].fin        -> "Finalized"
    [] OTHER             -> "Active"

Lifecycle == INSTANCE ComputeDomainLifecycle WITH
  phase <- [c \in CDs |-> LifecyclePhase(c)],
  deps  <- [c \in CDs |-> {k \in Kinds : dep[c][k].exists}]

(***************************************************************************)
(* Refinement: the controller implements ComputeDomainLifecycle.  The     *)
(* handler releases a domain's finalizer only once both dependents are    *)
(* gone, across aborted and retried teardown runs; it creates no          *)
(* dependent before the domain carried the finalizer and deletes none     *)
(* before its deletion began, whatever stale items and cache reads it     *)
(* acts on.                                                                *)
(***************************************************************************)
LifecycleRefinement == Lifecycle!Spec

(***************************************************************************)
(* Deletion completes: a ComputeDomain whose deletionTimestamp is set is  *)
(* eventually removed from the API server, despite stale items, stale     *)
(* cache reads, update conflicts and transient API errors.                *)
(***************************************************************************)
DeletionCompletes ==
  \A c \in CDs : api[c].del ~> ~api[c].exists

NoOrphanedDependents ==
  \A c \in CDs :
    (api[c].rv > 0 /\ ~api[c].exists) => \A k \in Kinds : ~dep[c][k].exists

=============================================================================
