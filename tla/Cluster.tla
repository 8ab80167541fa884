------------------------------ MODULE Cluster ------------------------------
(***************************************************************************)
(* What the KDexHost reconciler runs against, for one host name: the API   *)
(* server's copy of the KDexHost and of the objects the reconciler keeps   *)
(* for it (its children), the informer caches every Get and List of the    *)
(* reconciler is answered from, the work queue, and the other actors:      *)
(* users, the garbage collector, the deployment controller, and the host   *)
(* manager that runs in the Deployment.                                    *)
(*                                                                         *)
(* None of this is code of the repository.  It is modelled from how the    *)
(* reconciler uses it: optimistic concurrency on Update, NotFound and      *)
(* AlreadyExists answers, finalizers, owner references and watches.        *)
(***************************************************************************)
EXTENDS Naturals

CONSTANTS
  Pages,              \* utility page types
  Translations,       \* translations hosts can use
  Direct,             \* theme and script library
  DefaultPages,       \* page types whose reference is the bundled default
  DefaultTranslation, \* the translation every host tries to use
  Lagging,            \* children whose informer may lag behind the API server
  Removable,          \* children somebody else may delete
  Reporting,          \* the Deployment and the internal host, if their controllers report
  Finalized,          \* internal resources the host manager puts a finalizer on
  Flaky,              \* referents that come, go, and change readiness
  MaxUid,             \* bound: incarnations of the host
  MaxGeneration,      \* bound: generation a spec edit may reach
  MaxFaults           \* bound: failed calls, restarts and foreign deletions

Internals == {"internalHost"} \cup Pages \cup Translations
Rbac      == {"serviceAccount", "clusterRoleBinding"}
Children  == Internals \cup Rbac \cup {"configMap", "service", "deployment"}
Referents == Pages \cup Translations \cup Direct

\* What a spec can name: the defaults are not a user's choice.
Choices == (Referents \ DefaultPages) \ {DefaultTranslation}

ASSUME ClusterAssumption ==
  /\ Pages \cap Translations = {}
  /\ (Pages \cup Translations) \cap
       (Rbac \cup {"internalHost", "configMap", "service", "deployment"}) = {}
  /\ DefaultPages \subseteq Pages
  /\ DefaultTranslation \in Translations
  /\ Lagging \subseteq Children
  /\ Removable \subseteq Children
  /\ Reporting \subseteq {"deployment", "internalHost"}
  /\ Finalized \subseteq Internals
  /\ Flaky \subseteq Referents
  /\ MaxUid \in Nat /\ MaxGeneration \in Nat /\ MaxFaults \in Nat

Readiness  == {"unset", "Unknown", "False", "True"}
Conditions == {"unset", "False", "True"}

\* uid = 0 is the absent host.
HostRecord ==
  [uid : Nat, generation : Nat, deleting : BOOLEAN, finalizer : BOOLEAN,
   refs : SUBSET Referents, ready : Readiness, observed : Nat]

\* held: a finalizer keeps the object from vanishing (the host's own on the
\* RBAC objects, the host manager's on internal resources).  cond: Available of
\* the Deployment, Ready of the internal host.  generation and refs: what the
\* internal host was last told.
ChildRecord ==
  [state : {"none", "live", "deleting"}, owner : Nat, held : BOOLEAN,
   cond : Conditions, generation : Nat, refs : SUBSET (Pages \cup Translations)]

NoHost ==
  [uid |-> 0, generation |-> 0, deleting |-> FALSE, finalizer |-> FALSE,
   refs |-> {}, ready |-> "unset", observed |-> 0]

NoChild ==
  [state |-> "none", owner |-> 0, held |-> FALSE, cond |-> "unset",
   generation |-> 0, refs |-> {}]

VARIABLES
  host,        \* the KDexHost in the API server
  hostCache,   \* the reconciler's cached copy of it
  hostSynced,  \* the cached copy has the current resourceVersion
  fresh,       \* so has the copy the running reconcile works on
  objs,        \* the children in the API server
  cache,       \* their cached copies
  synced,      \* children whose cached copy has the current resourceVersion
  avail,       \* referents as the caches show them
  queued,      \* the host's key is in the work queue
  lastUid,     \* incarnations so far
  faults       \* failures so far

hostVars    == <<host, hostCache, hostSynced, fresh, lastUid>>
childVars   == <<objs, cache, synced>>
clusterVars == <<hostVars, childVars, avail, queued, faults>>

ClusterTypeOK ==
  /\ host \in HostRecord /\ hostCache \in HostRecord
  /\ hostSynced \in BOOLEAN /\ fresh \in BOOLEAN
  /\ objs \in [Children -> ChildRecord] /\ cache \in [Children -> ChildRecord]
  /\ synced \subseteq Children
  /\ avail \in [Referents -> {"missing", "notReady", "ready"}]
  /\ queued \in BOOLEAN
  /\ lastUid \in Nat /\ faults \in Nat

ClusterInit ==
  /\ host = NoHost /\ hostCache = NoHost /\ hostSynced = TRUE /\ fresh = FALSE
  /\ objs = [k \in Children |-> NoChild]
  /\ cache = objs /\ synced = Children
  /\ avail \in {a \in [Referents -> {"missing", "ready"}] :
                  \A r \in Referents \ Flaky : a[r] = "ready"}
  /\ queued = FALSE /\ lastUid = 0 /\ faults = 0

-----------------------------------------------------------------------------
(* Writes and their delivery                                               *)

\* A write of the children.  A write that changes nothing leaves the
\* resourceVersion alone.  Events of owned children enqueue their owner; the
\* ClusterRoleBinding has no owner.
Store(new) ==
  LET changed == {k \in Children : new[k] # objs[k]}
  IN /\ objs' = new
     /\ cache' = [k \in Children |->
                    IF k \in changed \ Lagging THEN new[k] ELSE cache[k]]
     /\ synced' = synced \ (changed \cap Lagging)
     /\ queued' = (queued \/ \E k \in changed \ Lagging : k # "clusterRoleBinding")

Put(k, c) == Store([objs EXCEPT ![k] = c])

\* Deleting an object that a finalizer holds only marks it; letting go of a
\* marked object removes it.
Deleted(c) == IF c.held THEN [c EXCEPT !.state = "deleting"] ELSE NoChild

Released(c) == IF c.state = "deleting" THEN NoChild ELSE [c EXCEPT !.held = FALSE]

\* A write of the host.
PutHost(h) ==
  /\ host' = h
  /\ hostSynced' = (hostSynced /\ h = host)
  /\ UNCHANGED hostCache

\* An informer delivers: the cached copy is the current one again, and the
\* event enqueues the host.
SyncHost ==
  /\ ~hostSynced
  /\ hostCache' = host /\ hostSynced' = TRUE /\ queued' = TRUE
  /\ UNCHANGED <<host, fresh, lastUid, childVars, avail, faults>>

SyncChild(k) ==
  /\ k \notin synced
  /\ cache' = [cache EXCEPT ![k] = objs[k]]
  /\ synced' = synced \cup {k}
  /\ queued' = (queued \/ k # "clusterRoleBinding")
  /\ UNCHANGED <<hostVars, objs, avail, faults>>

-----------------------------------------------------------------------------
(* Users                                                                   *)

CreateHost ==
  /\ host.uid = 0 /\ lastUid < MaxUid
  /\ lastUid' = lastUid + 1
  /\ \E R \in SUBSET Choices :
       PutHost([NoHost EXCEPT !.uid = lastUid + 1, !.generation = 1, !.refs = R])
  /\ UNCHANGED <<fresh, childVars, avail, queued, faults>>

EditSpec ==
  /\ host.uid # 0 /\ host.generation < MaxGeneration
  /\ \E R \in SUBSET Choices :
       PutHost([host EXCEPT !.generation = @ + 1, !.refs = R])
  /\ fresh' = FALSE
  /\ UNCHANGED <<lastUid, childVars, avail, queued, faults>>

\* An object with a finalizer is only marked; marking it raises its generation.
DeleteHost ==
  /\ host.uid # 0 /\ ~host.deleting
  /\ PutHost(IF host.finalizer
               THEN [host EXCEPT !.deleting = TRUE, !.generation = @ + 1]
               ELSE NoHost)
  /\ fresh' = FALSE
  /\ UNCHANGED <<lastUid, childVars, avail, queued, faults>>

RemoveChild(k) ==
  /\ k \in Removable /\ objs[k].state = "live" /\ faults < MaxFaults
  /\ Put(k, Deleted(objs[k]))
  /\ faults' = faults + 1
  /\ UNCHANGED <<hostVars, avail>>

\* The specs a watched referent is looked up in (Watches of SetupWithManager):
\* the default translation is in no spec.
Watched(h) == IF h.uid = 0 THEN {} ELSE h.refs \cup DefaultPages

ChangeReferent(r) ==
  /\ r \in Flaky
  /\ \E a \in {"missing", "notReady", "ready"} \ {avail[r]} :
       avail' = [avail EXCEPT ![r] = a]
  /\ queued' = (queued \/ r \in Watched(hostCache))
  /\ UNCHANGED <<hostVars, childVars, faults>>

-----------------------------------------------------------------------------
(* Other controllers                                                       *)

\* The Deployment's controller and the internal host's report a condition.
ReportCondition(k) ==
  /\ k \in Reporting /\ objs[k].state = "live"
  /\ \E c \in {"False", "True"} \ {objs[k].cond} :
       Put(k, [objs[k] EXCEPT !.cond = c])
  /\ UNCHANGED <<hostVars, avail, faults>>

\* The host manager runs in the Deployment under the RBAC objects.
ManagerRuns ==
  /\ objs["deployment"].state = "live"
  /\ \A k \in Rbac : objs[k].state # "none"

HoldInternal(k) ==
  /\ ManagerRuns /\ k \in Finalized
  /\ objs[k].state = "live" /\ ~objs[k].held
  /\ Put(k, [objs[k] EXCEPT !.held = TRUE])
  /\ UNCHANGED <<hostVars, avail, faults>>

ReleaseInternal(k) ==
  /\ ManagerRuns /\ k \in Internals
  /\ objs[k].state = "deleting" /\ objs[k].held
  /\ Put(k, Released(objs[k]))
  /\ UNCHANGED <<hostVars, avail, faults>>

\* Objects owned by an incarnation that is gone are deleted.
CollectGarbage(k) ==
  /\ objs[k].state = "live" /\ objs[k].owner # 0 /\ objs[k].owner # host.uid
  /\ Put(k, Deleted(objs[k]))
  /\ UNCHANGED <<hostVars, avail, faults>>
=============================================================================
