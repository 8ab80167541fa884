------------------------------ MODULE KDexHost ------------------------------
(***************************************************************************)
(* KDexHostReconciler.Reconcile against the cluster: one action per call   *)
(* that reads or writes shared state.  One worker reconciles a host at a   *)
(* time; between two of its steps anything else in Cluster may happen.     *)
(***************************************************************************)
EXTENDS Cluster

VARIABLES
  pc,    \* the next call of the running reconcile
  work,  \* its copy of the host, with the status it is going to report
  todo,  \* references left to resolve, or objects left to delete
  made,  \* internal resources the internal host will be told of
  seen,  \* Available of the Deployment it was answered
  again  \* it ends in an error or asks for a requeue

localVars == <<pc, work, todo, made, seen, again>>
vars == <<clusterVars, localVars>>

Teardown == {"tearInternalHost", "tearPages", "tearTranslations", "tearDeployment",
             "delete", "releaseClusterRoleBinding", "releaseServiceAccount",
             "removeFinalizer"}
Creation == {"utilityPages", "direct", "translations", "configMap", "serviceAccount",
             "clusterRoleBinding", "deployment", "service", "internalHost"}

KDexHostTypeOK ==
  /\ pc \in {"idle", "addFinalizer", "status"} \cup Teardown \cup Creation
  /\ work \in HostRecord
  /\ todo \subseteq (IF pc = "delete" THEN Children ELSE Referents)
  /\ made \in SUBSET (Pages \cup Translations)
  /\ seen \in Conditions
  /\ again \in BOOLEAN

TypeOK == ClusterTypeOK /\ KDexHostTypeOK

Init ==
  /\ ClusterInit
  /\ pc = "idle" /\ work = NoHost
  /\ todo = {} /\ made = {} /\ seen = "unset" /\ again = FALSE

-----------------------------------------------------------------------------
(* Entry and exit                                                          *)

\* Mutant: the finalizer is not waited for.
BranchUnguarded(h) ==
  IF h.deleting THEN "tearInternalHost" ELSE "utilityPages"

\* Which branch of Reconcile a host takes.
Branch(h) ==
  CASE h.deleting /\ h.finalizer   -> "tearInternalHost"
    [] h.deleting /\ ~h.finalizer  -> "status"
    [] ~h.deleting /\ ~h.finalizer -> "addFinalizer"
    [] OTHER                       -> "utilityPages"

Begin ==
  /\ pc = "idle" /\ queued
  /\ queued' = FALSE
  /\ \/ hostCache.uid = 0 /\ UNCHANGED <<fresh, localVars>>
     \/ /\ hostCache.uid # 0
        /\ fresh' = hostSynced
        /\ pc' = Branch(hostCache)
        /\ \/ /\ pc' = "utilityPages"
              /\ work' = [hostCache EXCEPT !.ready = "Unknown"]
              /\ todo' = (hostCache.refs \cap Pages) \cup DefaultPages
           \/ /\ pc' # "utilityPages"
              /\ work' = hostCache /\ UNCHANGED todo
        /\ UNCHANGED <<made, seen, again>>
  /\ UNCHANGED <<host, hostCache, hostSynced, lastUid, childVars, avail, faults>>

Goto(p) == pc' = p /\ UNCHANGED <<work, todo, made, seen, again>>

\* Mutant: the loop that is left leaves its elements behind.
ReturnMidway(ready, b) ==
  /\ pc' = "status" /\ again' = b
  /\ work' = [work EXCEPT !.ready = ready]
  /\ UNCHANGED todo /\ made' = {} /\ seen' = "unset"

\* A return: what remains is the deferred status update.
Return(ready, b) ==
  /\ pc' = "status" /\ again' = b
  /\ work' = [work EXCEPT !.ready = ready]
  /\ todo' = {} /\ made' = {} /\ seen' = "unset"

\* The deferred status update.  It may write although the reported statuses are
\* the old ones (their transition times move), and its own error, a conflict or
\* NotFound, replaces the result.
UpdateStatus ==
  /\ pc = "status"
  /\ \/ /\ fresh
        /\ host' = [host EXCEPT !.ready = work.ready, !.observed = work.generation]
        /\ hostSynced' \in {FALSE, hostSynced /\ host' = host}
        /\ queued' = (queued \/ again)
     \/ ~fresh /\ queued' = TRUE /\ UNCHANGED <<host, hostSynced>>
  /\ pc' = "idle" /\ work' = NoHost /\ again' = FALSE /\ fresh' = FALSE
  /\ UNCHANGED <<hostCache, lastUid, childVars, avail, faults, todo, made, seen>>

AddFinalizer ==
  /\ pc = "addFinalizer"
  /\ \/ /\ fresh
        /\ PutHost([host EXCEPT !.finalizer = TRUE])
        /\ work' = [work EXCEPT !.finalizer = TRUE]
     \/ ~fresh /\ UNCHANGED <<host, hostCache, hostSynced, work>>
  /\ pc' = "status" /\ again' = TRUE
  /\ UNCHANGED <<fresh, lastUid, childVars, avail, queued, faults, todo, made, seen>>

-----------------------------------------------------------------------------
(* Creation.  An object is read in the cache, mutated, and written to the  *)
(* API server if it was absent or the mutation changed it.                 *)

\* Mutant: the finalizer is forgotten.
DesiredUnheld(k) ==
  LET c == cache[k]
  IN [state      |-> IF c.state = "none" THEN "live" ELSE c.state,
      owner      |-> IF k = "clusterRoleBinding" THEN c.owner ELSE work.uid,
      held       |-> c.held,
      cond       |-> c.cond,
      generation |-> IF k = "internalHost" THEN work.generation ELSE c.generation,
      refs       |-> IF k = "internalHost" THEN made ELSE c.refs]

\* Mutant: the owner is set on creation only.
DesiredOnce(k) ==
  LET c == cache[k]
  IN [state      |-> IF c.state = "none" THEN "live" ELSE c.state,
      owner      |-> IF k = "clusterRoleBinding" \/ c.state # "none"
                       THEN c.owner ELSE work.uid,
      held       |-> c.held \/ k \in Rbac,
      cond       |-> c.cond,
      generation |-> IF k = "internalHost" THEN work.generation ELSE c.generation,
      refs       |-> IF k = "internalHost" THEN made ELSE c.refs]

\* The mutate functions: every child but the binding gets the host as its
\* controller, and an owner of the same name is replaced whatever its uid.
Desired(k) ==
  LET c == cache[k]
  IN [state      |-> IF c.state = "none" THEN "live" ELSE c.state,
      owner      |-> IF k = "clusterRoleBinding" THEN c.owner ELSE work.uid,
      held       |-> c.held \/ k \in Rbac,
      cond       |-> c.cond,
      generation |-> IF k = "internalHost" THEN work.generation ELSE c.generation,
      refs       |-> IF k = "internalHost" THEN made ELSE c.refs]

\* Create fails on an existing object; Update fails on an outdated copy, and may
\* not add a finalizer to an object that is being deleted.
Accepted(k) ==
  \/ cache[k].state = "none" /\ objs[k].state = "none"
  \/ cache[k].state # "none" /\ Desired(k) = cache[k]
  \/ /\ cache[k].state # "none" /\ k \in synced
     /\ cache[k].state = "deleting" => Desired(k).held = cache[k].held

\* What the model leaves out of these objects may differ too, so that an
\* outdated copy of them can be written and refused.
Content == Pages \cup Translations \cup {"deployment"}

Refused(k) ==
  \/ ~Accepted(k)
  \/ k \in Content \ synced /\ cache[k].state # "none"

\* CreateOrUpdate(k), then the step `then` if there was no error.
Ensure(k, then) ==
  /\ \/ /\ Accepted(k) /\ then
        /\ IF Desired(k) = cache[k] THEN UNCHANGED <<childVars, queued>>
                                    ELSE Put(k, Desired(k))
     \/ Refused(k) /\ Return("False", TRUE) /\ UNCHANGED <<childVars, queued>>
  /\ UNCHANGED <<hostVars, avail, faults>>

\* Mutant: the references so far are overwritten.
CopiedLast(r) ==
  /\ todo' = todo \ {r} /\ made' = {r}
  /\ UNCHANGED <<pc, work, seen, again>>

\* A reference is done with; its internal copy is one the internal host gets.
Copied(r) ==
  /\ todo' = todo \ {r} /\ made' = made \cup {r}
  /\ UNCHANGED <<pc, work, seen, again>>

\* A default that is missing: the resolver marks the host, the loop goes on.
SkipMissing(r) ==
  /\ avail[r] = "missing"
  /\ todo' = todo \ {r} /\ work' = [work EXCEPT !.ready = "False"]
  /\ UNCHANGED <<clusterVars, pc, made, seen, again>>

\* The caller takes the error's text, and there is no error when the referent is
\* missing or not ready: the reconcile panics.  The resolver has marked the host
\* when the referent was missing; it marks a copy of the referent otherwise.
Panic(r) ==
  /\ Return(IF avail[r] = "missing" THEN "False" ELSE work.ready, TRUE)
  /\ UNCHANGED clusterVars

ResolvePage(p) ==
  /\ pc = "utilityPages" /\ p \in todo
  /\ \/ p \in DefaultPages /\ SkipMissing(p)
     \/ p \notin DefaultPages /\ avail[p] # "ready" /\ Panic(p)
     \/ /\ avail[p] = "ready" \/ (p \in DefaultPages /\ avail[p] = "notReady")
        /\ Ensure(p, Copied(p))

PagesResolved ==
  /\ pc = "utilityPages" /\ todo = {}
  /\ pc' = "direct" /\ todo' = work.refs \cap Direct
  /\ UNCHANGED <<clusterVars, work, made, seen, again>>

ResolveDirect(r) ==
  /\ pc = "direct" /\ r \in todo
  /\ \/ avail[r] # "ready" /\ Panic(r)
     \/ /\ avail[r] = "ready" /\ todo' = todo \ {r}
        /\ UNCHANGED <<clusterVars, pc, work, made, seen, again>>

DirectResolved ==
  /\ pc = "direct" /\ todo = {}
  /\ pc' = "translations"
  /\ todo' = (work.refs \cap Translations) \cup {DefaultTranslation}
  /\ UNCHANGED <<clusterVars, work, made, seen, again>>

\* The default translation is resolved last, and used although not ready.
ResolveTranslation(t) ==
  /\ pc = "translations" /\ t \in todo
  /\ t = DefaultTranslation => todo = {t}
  /\ \/ t = DefaultTranslation /\ SkipMissing(t)
     \/ /\ t # DefaultTranslation /\ avail[t] # "ready"
        /\ Return("False", TRUE) /\ UNCHANGED clusterVars
     \/ /\ avail[t] = "ready" \/ (t = DefaultTranslation /\ avail[t] = "notReady")
        /\ Ensure(t, Copied(t))

TranslationsResolved ==
  /\ pc = "translations" /\ todo = {}
  /\ Goto("configMap") /\ UNCHANGED clusterVars

CreateConfigMap ==
  pc = "configMap" /\ Ensure("configMap", Goto("serviceAccount"))

CreateServiceAccount ==
  pc = "serviceAccount" /\ Ensure("serviceAccount", Goto("clusterRoleBinding"))

CreateClusterRoleBinding ==
  pc = "clusterRoleBinding" /\ Ensure("clusterRoleBinding", Goto("deployment"))

CreateDeployment ==
  /\ pc = "deployment"
  /\ Ensure("deployment", /\ pc' = "service" /\ seen' = cache["deployment"].cond
                          /\ UNCHANGED <<work, todo, made, again>>)

\* Mutant: the host is Ready before its internal host is written.
CreateServiceLast ==
  pc = "service" /\ Ensure("service", Return("True", FALSE))

CreateService ==
  pc = "service" /\ Ensure("service", Goto("internalHost"))

\* A Deployment without the Available condition is not waited for.
AwaitDeployment ==
  /\ pc = "internalHost" /\ seen = "False"
  /\ Return("False", TRUE) /\ UNCHANGED clusterVars

\* Mutant: an internal host without the condition is waited for.
CreateInternalHostStrict ==
  /\ pc = "internalHost" /\ seen # "False"
  /\ Ensure("internalHost", IF cache["internalHost"].cond # "True"
                              THEN Return("False", TRUE)
                              ELSE Return("True", FALSE))

\* Nor is an internal host whose Ready condition is not False.
CreateInternalHost ==
  /\ pc = "internalHost" /\ seen # "False"
  /\ Ensure("internalHost", IF cache["internalHost"].cond = "False"
                              THEN Return("False", TRUE)
                              ELSE Return("True", FALSE))

-----------------------------------------------------------------------------
(* Teardown.  Each kind is waited for until the cache shows none of it.    *)

AwaitGone(K, next) ==
  LET left == {k \in K : cache[k].state # "none"}
  IN /\ \/ left = {} /\ Goto(next)
        \/ /\ left # {}
           /\ pc' = "delete" /\ todo' = {k \in left : cache[k].state = "live"}
           /\ UNCHANGED <<work, made, seen, again>>
     /\ UNCHANGED clusterVars

\* Mutants: a kind is not waited for, or the Deployment goes with the internal host.
TearInternalHostUnseen == pc = "tearInternalHost" /\ Goto("tearPages") /\ UNCHANGED clusterVars
TearBoth == pc = "tearInternalHost" /\ AwaitGone({"internalHost", "deployment"}, "tearPages")
TearTranslationsUnseen ==
  pc = "tearTranslations" /\ Goto("tearDeployment") /\ UNCHANGED clusterVars
TearTranslationsLast ==
  pc = "tearTranslations" /\ AwaitGone(Translations, "releaseClusterRoleBinding")

TearInternalHost == pc = "tearInternalHost" /\ AwaitGone({"internalHost"}, "tearPages")
TearPages        == pc = "tearPages" /\ AwaitGone(Pages, "tearTranslations")
TearTranslations == pc = "tearTranslations" /\ AwaitGone(Translations, "tearDeployment")
TearDeployment   ==
  pc = "tearDeployment" /\ AwaitGone({"deployment"}, "releaseClusterRoleBinding")

\* Deletion is by name; an object that is gone already is an error.
DeleteNext ==
  /\ pc = "delete"
  /\ \/ /\ todo = {} \/ \E k \in todo : objs[k].state = "none"
        /\ Return(work.ready, TRUE) /\ UNCHANGED <<childVars, queued>>
     \/ \E k \in todo :
          /\ objs[k].state # "none"
          /\ Put(k, Deleted(objs[k]))
          /\ todo' = todo \ {k} /\ UNCHANGED <<pc, work, made, seen, again>>
  /\ UNCHANGED <<hostVars, avail, faults>>

\* cleanupRbacFinalizers
Release(k, next) ==
  /\ \/ ~cache[k].held /\ Goto(next) /\ UNCHANGED <<childVars, queued>>
     \/ /\ cache[k].held /\ k \in synced
        /\ Put(k, Released(objs[k])) /\ Goto(next)
     \/ /\ cache[k].held /\ k \notin synced
        /\ Return(work.ready, TRUE) /\ UNCHANGED <<childVars, queued>>
  /\ UNCHANGED <<hostVars, avail, faults>>

ReleaseClusterRoleBinding ==
  /\ pc = "releaseClusterRoleBinding"
  /\ Release("clusterRoleBinding", "releaseServiceAccount")

\* Mutant: the ServiceAccount keeps its finalizer.
ReleaseNothing ==
  pc = "releaseServiceAccount" /\ Goto("removeFinalizer") /\ UNCHANGED clusterVars

ReleaseServiceAccount ==
  pc = "releaseServiceAccount" /\ Release("serviceAccount", "removeFinalizer")

\* The last finalizer: the host is gone, and its status update will fail.
RemoveFinalizer ==
  /\ pc = "removeFinalizer"
  /\ \/ fresh /\ PutHost(NoHost)
     \/ ~fresh /\ UNCHANGED <<host, hostCache, hostSynced>>
  /\ fresh' = FALSE
  /\ Return(work.ready, TRUE)
  /\ UNCHANGED <<lastUid, childVars, avail, queued, faults>>

-----------------------------------------------------------------------------
(* Failures                                                                *)

\* A call is answered with an error (or a page has the wrong type): creation
\* reports it in the status, the other branches only return it.
Fail ==
  /\ pc \in Creation \cup Teardown \cup {"addFinalizer"} /\ faults < MaxFaults
  /\ Return(IF pc \in Creation THEN "False" ELSE work.ready, TRUE)
  /\ faults' = faults + 1
  /\ UNCHANGED <<hostVars, childVars, avail, queued>>

\* The manager stops and starts: the caches are filled from the API server, and
\* the host is enqueued by its own event or by one of a child that names it.
Restart ==
  /\ faults < MaxFaults /\ faults' = faults + 1
  /\ pc' = "idle" /\ work' = NoHost /\ fresh' = FALSE
  /\ todo' = {} /\ made' = {} /\ seen' = "unset" /\ again' = FALSE
  /\ hostCache' = host /\ hostSynced' = TRUE
  /\ cache' = objs /\ synced' = Children
  /\ queued' = (host.uid # 0 \/ \E k \in Children : objs[k].owner # 0)
  /\ UNCHANGED <<host, lastUid, objs, avail>>

-----------------------------------------------------------------------------
Reconcile ==
  \/ Begin \/ AddFinalizer \/ UpdateStatus
  \/ \E p \in Pages : ResolvePage(p)
  \/ \E r \in Direct : ResolveDirect(r)
  \/ \E t \in Translations : ResolveTranslation(t)
  \/ PagesResolved \/ DirectResolved \/ TranslationsResolved
  \/ CreateConfigMap \/ CreateServiceAccount \/ CreateClusterRoleBinding
  \/ CreateDeployment \/ CreateService \/ AwaitDeployment \/ CreateInternalHost
  \/ TearInternalHost \/ TearPages \/ TearTranslations \/ TearDeployment \/ DeleteNext
  \/ ReleaseClusterRoleBinding \/ ReleaseServiceAccount \/ RemoveFinalizer

Users ==
  /\ \/ CreateHost \/ EditSpec \/ DeleteHost
     \/ \E k \in Children : RemoveChild(k)
     \/ \E r \in Referents : ChangeReferent(r)
  /\ UNCHANGED localVars

Controllers ==
  /\ \E k \in Children : \/ ReportCondition(k) \/ HoldInternal(k) \/ ReleaseInternal(k)
                         \/ CollectGarbage(k)
  /\ UNCHANGED localVars

Deliver ==
  /\ SyncHost \/ \E k \in Children : SyncChild(k)
  /\ UNCHANGED localVars

Next == Reconcile \/ Users \/ Controllers \/ Deliver \/ Fail \/ Restart

\* The worker runs, informers deliver, the host manager lets go of what is being
\* deleted, and garbage is collected.
Fairness ==
  /\ WF_vars(Reconcile)
  /\ WF_vars(SyncHost /\ UNCHANGED localVars)
  /\ \A k \in Lagging : WF_vars(SyncChild(k) /\ UNCHANGED localVars)
  /\ \A k \in Finalized : WF_vars(ReleaseInternal(k) /\ UNCHANGED localVars)
  /\ \A k \in Children : WF_vars(CollectGarbage(k) /\ UNCHANGED localVars)

Spec == Init /\ [][Next]_vars
FairSpec == Spec /\ Fairness

-----------------------------------------------------------------------------
(* Properties                                                              *)

\* The host manager is never without its ServiceAccount and ClusterRoleBinding,
\* nor are they without the finalizer that keeps them: they are made before the
\* Deployment and let go of only when it is gone (teardown of Reconcile).
RbacOutlivesDeployment ==
  objs["deployment"].state # "none" =>
    \A k \in Rbac : objs[k].state # "none" /\ objs[k].held

\* Nothing is created for a host that is gone, is another incarnation, or has no
\* finalizer, however old the copy the reconcile works on: whatever it creates a
\* teardown will come past, or the garbage collector.
CreationOnlyUnderFinalizer ==
  [][\A k \in Children :
       objs[k].state = "none" /\ objs'[k].state # "none" =>
         /\ host.uid # 0 /\ host.finalizer
         /\ objs'[k].owner = (IF k = "clusterRoleBinding" THEN 0 ELSE host.uid)]_vars

\* The internal host names no internal page or translation that does not exist:
\* they are made first and removed last (resolveUtilityPages and
\* resolveTranslations before createOrUpdateInternalHostResource).
NoDanglingRefs ==
  objs["internalHost"].state # "none" =>
    \A r \in objs["internalHost"].refs : objs[r].state # "none"

\* A host that says Ready for a generation has everything in place for it: all
\* children nobody else deletes exist and name this incarnation, and the internal
\* host got a spec at least that recent.
ReadyMeansInPlace ==
  host.ready = "True" /\ ~host.deleting =>
    /\ \A k \in {"configMap", "serviceAccount", "deployment", "service", "internalHost"}
               \ Removable :
         objs[k].state # "none" /\ objs[k].owner = host.uid
    /\ "clusterRoleBinding" \notin Removable => objs["clusterRoleBinding"].state # "none"
    /\ objs["internalHost"].generation >= host.observed

\* A host that is Ready for its current generation, and whose internal host has
\* that generation, is served with every page and translation it names: only a
\* missing default may be left out (resolveUtilityPages, resolveTranslations).
ServesWhatItNames ==
  host.ready = "True" /\ ~host.deleting /\ host.observed = host.generation =>
    host.refs \cap (Pages \cup Translations) \subseteq objs["internalHost"].refs

\* When the finalizer goes, none of the resources the teardown waits for is left
\* behind, as far as the caches that answer it keep up (the checks of Reconcile
\* before RemoveFinalizer).
NothingLeftByTeardown ==
  [][host.finalizer /\ ~host'.finalizer =>
       \A k \in (Internals \cup {"deployment"}) \ Lagging : objs[k].state = "none"]_vars

\* "Deployment is gone. Clean up RBAC finalizers." (kdexhost_controller.go:166)
DeploymentIsGone ==
  pc = "releaseClusterRoleBinding" => objs["deployment"].state = "none"

\* A deleted host goes: the teardown, which waits for the host manager to let go
\* of its resources, does not wait forever.
TeardownCompletes ==
  \A u \in 1..MaxUid : (host.uid = u /\ host.deleting) ~> (host.uid # u)

\* After the last host is gone, so is all that was made for it, in the end and
\* for good, but for the ClusterRoleBinding, which has no owner and is only let go of.
LeavesOnlyBinding ==
  (lastUid = MaxUid /\ host.uid = 0) ~>
    [](/\ \A k \in Children \ {"clusterRoleBinding"} : objs[k].state = "none"
       /\ ~objs["clusterRoleBinding"].held)

\* What the life of a host is to a user, and what the parts made for it need: the
\* Deployment its RBAC objects, the internal host the pages and translations that
\* nobody else deletes.  A part whose cache lags may be overlooked.
Life ==
  CASE host.uid = 0                                       -> "absent"
    [] host.uid # 0 /\ host.deleting                      -> "leaving"
    [] host.uid # 0 /\ ~host.deleting /\ host.finalizer   -> "accepted"
    [] host.uid # 0 /\ ~host.deleting /\ ~host.finalizer  -> "requested"

Needs(k) ==
  CASE k = "deployment"   -> Rbac
    [] k = "internalHost" -> IF k \in Lagging THEN {} ELSE objs[k].refs \ (Removable \cup Lagging)
    [] OTHER              -> {}

HostLife == INSTANCE HostLife WITH
  Parts   <- Children,
  Awaited <- (Internals \cup {"deployment"}) \ Lagging,
  life    <- Life,
  needs   <- [k \in {c \in Children : objs[c].state # "none"} |-> Needs(k)]

\* The reconciler keeps the promises of HostLife, whatever stale copies it works on,
\* wherever it fails or is stopped, and whatever users, the garbage collector and the
\* host manager do in between (Reconcile).
ImplementsHostLife == HostLife!Spec

\* When users stop, what a host refers to stays ready and neither the Deployment
\* nor the internal host reports a problem, the host becomes and stays Ready for
\* its generation, and the internal host has that generation.
Converges ==
  <>[](/\ host.uid # 0 /\ ~host.deleting
       /\ \A r \in host.refs \cup DefaultPages : avail[r] = "ready"
       /\ \A k \in {"deployment", "internalHost"} : objs[k].cond # "False")
  => <>[](/\ host.ready = "True" /\ host.observed = host.generation
          /\ objs["internalHost"].generation = host.generation)
=============================================================================
