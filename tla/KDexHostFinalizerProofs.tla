----------------------- MODULE KDexHostFinalizerProofs -----------------------
(***************************************************************************)
(* What the finalizer of a host is for, for every value of the constants:  *)
(* what is created is created under the finalizer of the host that exists, *)
(* whatever caches lag, and when the finalizer goes nothing is left that   *)
(* the caches show.                                                        *)
(***************************************************************************)
EXTENDS KDexHostProofs

-----------------------------------------------------------------------------
(* The inductive invariant                                                 *)

\* A host that Reconcile would create for.
Accountable(h) == h.uid # 0 /\ ~h.deleting /\ h.finalizer

\* A cached host that is accountable is the one that exists, and still has its
\* finalizer: only a teardown removes it, and only with a fresh copy, after the
\* deletion was seen.
HostInv ==
  /\ Accountable(hostCache) => host.uid = hostCache.uid /\ host.finalizer
  /\ pc \in Creation => work.uid # 0 /\ host.uid = work.uid /\ host.finalizer
  /\ pc \in Teardown /\ fresh => host.uid # 0 /\ host.deleting /\ hostCache.deleting
  /\ hostSynced => hostCache = host

\* A synced copy is the current one, and the ClusterRoleBinding has no owner.
ChildInv ==
  /\ \A k \in synced : cache[k] = objs[k]
  /\ objs["clusterRoleBinding"].owner = 0
  /\ cache["clusterRoleBinding"].owner = 0

-----------------------------------------------------------------------------
(* The children                                                            *)

\* A write that makes no object and gives it no owner.
Tame(k, c) ==
  /\ objs[k].state = "none" => c.state = "none"
  /\ c.owner = 0 \/ c.owner = objs[k].owner

\* CreateOrUpdate writes.
Writes(k) ==
  /\ pc \in Creation /\ Accepted(k) /\ Desired(k) # cache[k]
  /\ Put(k, Desired(k))

\* What a call of CreateOrUpdate comes to, or a call that fails.
Calls ==
  \/ UNCHANGED childVars
  \/ \E k \in Children :
       /\ pc \in Creation /\ Accepted(k)
       /\ IF Desired(k) = cache[k] THEN UNCHANGED <<childVars, queued>>
                                   ELSE Put(k, Desired(k))

\* How a step may change the children.
ChildStep ==
  \/ UNCHANGED childVars
  \/ \E k \in Children : \E c \in ChildRecord : Put(k, c) /\ Tame(k, c)
  \/ \E k \in Children : Writes(k)
  \/ \E k \in Children : SyncChild(k)
  \/ Restart

\* Deleting an object, letting go of it and reporting on it are tame.
LEMMA TameWrites ==
  ASSUME TypeOK, NEW k \in Children
  PROVE  /\ objs[k] \in ChildRecord
         /\ Tame(k, Released(objs[k]))
         /\ objs[k].state # "none" =>
              /\ Tame(k, Deleted(objs[k]))
              /\ Tame(k, [objs[k] EXCEPT !.held = TRUE])
              /\ \A c \in Conditions : Tame(k, [objs[k] EXCEPT !.cond = c])
<1>1. objs[k] \in ChildRecord
  BY DEF TypeOK, ClusterTypeOK
<1>2. Tame(k, Released(objs[k]))
  BY <1>1 DEF Tame, Released, NoChild, ChildRecord
<1>3. ASSUME objs[k].state # "none" PROVE Tame(k, Deleted(objs[k]))
  BY <1>1, <1>3 DEF Tame, Deleted, NoChild, ChildRecord
<1>4. ASSUME objs[k].state # "none" PROVE Tame(k, [objs[k] EXCEPT !.held = TRUE])
  BY <1>1, <1>4 DEF Tame, ChildRecord
<1>5. ASSUME objs[k].state # "none", NEW c \in Conditions
      PROVE  Tame(k, [objs[k] EXCEPT !.cond = c])
  BY <1>1, <1>5 DEF Tame, ChildRecord
<1>. QED BY <1>1, <1>2, <1>3, <1>4, <1>5

\* Users, controllers and informers.
LEMMA OthersChildStep ==
  ASSUME TypeOK, Users \/ Controllers \/ Deliver
  PROVE  ChildStep
<1>1. CASE Users
  <2>1. ASSUME NEW k \in Children, RemoveChild(k) PROVE ChildStep
    BY <2>1, TameWrites, ChildTypes DEF RemoveChild, ChildStep
  <2>. QED BY <1>1, <2>1
           DEF Users, CreateHost, EditSpec, DeleteHost, ChangeReferent, ChildStep
<1>2. CASE Controllers
  <2>. SUFFICES ASSUME NEW k \in Children,
                       \/ ReportCondition(k) \/ HoldInternal(k) \/ ReleaseInternal(k)
                       \/ CollectGarbage(k)
                PROVE  ChildStep
    BY <1>2 DEF Controllers
  <2>1. CASE ReportCondition(k)
    <3>1. PICK c \in Conditions : Put(k, [objs[k] EXCEPT !.cond = c])
      BY <2>1 DEF ReportCondition, Conditions
    <3>2. objs[k].state # "none"
      BY <2>1 DEF ReportCondition
    <3>. QED BY <3>1, <3>2, TameWrites, ChildTypes DEF ChildStep
  <2>2. CASE HoldInternal(k)
    <3>1. objs[k].state # "none" /\ Put(k, [objs[k] EXCEPT !.held = TRUE])
      BY <2>2 DEF HoldInternal
    <3>. QED BY <3>1, TameWrites, ChildTypes DEF ChildStep
  <2>3. CASE ReleaseInternal(k)
    BY <2>3, TameWrites, ChildTypes DEF ReleaseInternal, ChildStep
  <2>4. CASE CollectGarbage(k)
    BY <2>4, TameWrites, ChildTypes DEF CollectGarbage, ChildStep
  <2>. QED BY <2>1, <2>2, <2>3, <2>4
<1>3. CASE Deliver
  BY <1>3 DEF Deliver, SyncHost, ChildStep
<1>. QED BY <1>1, <1>2, <1>3

\* The calls of CreateOrUpdate.
LEMMA CreateChildStep ==
  ASSUME TypeOK,
         \/ \E p \in Pages : ResolvePage(p)
         \/ \E t \in Translations : ResolveTranslation(t)
         \/ CreateConfigMap \/ CreateServiceAccount \/ CreateClusterRoleBinding
         \/ CreateDeployment \/ CreateService \/ CreateInternalHost
  PROVE  ChildStep
<1>1. Calls
  <2>1. ASSUME NEW p \in Pages, ResolvePage(p) PROVE Calls
    BY <2>1 DEF ResolvePage, SkipMissing, Panic, Ensure, clusterVars, Creation,
                Children, Internals, Calls
  <2>2. ASSUME NEW t \in Translations, ResolveTranslation(t) PROVE Calls
    BY <2>2 DEF ResolveTranslation, SkipMissing, Ensure, clusterVars, Creation,
                Children, Internals, Calls
  <2>3. CASE CreateConfigMap \/ CreateServiceAccount \/ CreateClusterRoleBinding
    BY <2>3 DEF CreateConfigMap, CreateServiceAccount, CreateClusterRoleBinding,
                Ensure, Creation, Children, Rbac, Calls
  <2>4. CASE CreateDeployment \/ CreateService \/ CreateInternalHost
    BY <2>4 DEF CreateDeployment, CreateService, CreateInternalHost,
                Ensure, Creation, Children, Internals, Calls
  <2>. QED BY <2>1, <2>2, <2>3, <2>4
<1>. QED BY <1>1 DEF Calls, ChildStep, Writes

\* The teardown.
LEMMA TeardownChildStep ==
  ASSUME TypeOK, DeleteNext \/ ReleaseClusterRoleBinding \/ ReleaseServiceAccount
  PROVE  ChildStep
<1>1. CASE DeleteNext
  <2>1. CASE UNCHANGED childVars
    BY <2>1 DEF ChildStep
  <2>2. ASSUME NEW k \in todo, pc = "delete", objs[k].state # "none",
               Put(k, Deleted(objs[k]))
        PROVE  ChildStep
    <3>1. k \in Children
      BY <2>2 DEF TypeOK, KDexHostTypeOK
    <3>. QED BY <2>2, <3>1, TameWrites, ChildTypes DEF ChildStep
  <2>. QED BY <1>1, <2>1, <2>2 DEF DeleteNext
<1>2. CASE ReleaseClusterRoleBinding \/ ReleaseServiceAccount
  <2>1. \/ UNCHANGED childVars
        \/ \E k \in Rbac : Put(k, Released(objs[k]))
    BY <1>2 DEF ReleaseClusterRoleBinding, ReleaseServiceAccount, Release, Rbac
  <2>2. Rbac \subseteq Children
    BY DEF Children
  <2>. QED BY <2>1, <2>2, TameWrites, ChildTypes DEF ChildStep
<1>. QED BY <1>1, <1>2

\* Every step.
LEMMA AnyChildStep ==
  ASSUME TypeOK, [Next]_vars
  PROVE  ChildStep
<1>1. CASE UNCHANGED vars
  BY <1>1 DEF vars, clusterVars, ChildStep
<1>2. CASE Fail \/ Restart
  BY <1>2 DEF Fail, ChildStep
<1>3. CASE Reconcile
  <2>1. CASE \/ Begin \/ AddFinalizer \/ UpdateStatus \/ RemoveFinalizer
    BY <2>1 DEF Begin, AddFinalizer, UpdateStatus, RemoveFinalizer, ChildStep
  <2>2. CASE \/ \E r \in Direct : ResolveDirect(r)
             \/ PagesResolved \/ DirectResolved \/ TranslationsResolved \/ AwaitDeployment
    BY <2>2 DEF ResolveDirect, Panic, PagesResolved, DirectResolved,
                TranslationsResolved, AwaitDeployment, clusterVars, ChildStep
  <2>3. CASE TearInternalHost \/ TearPages \/ TearTranslations \/ TearDeployment
    BY <2>3 DEF TearInternalHost, TearPages, TearTranslations, TearDeployment, AwaitGone,
                clusterVars, ChildStep
  <2>. QED BY <1>3, <2>1, <2>2, <2>3, CreateChildStep, TeardownChildStep DEF Reconcile
<1>. QED BY <1>1, <1>2, <1>3, OthersChildStep DEF Next

\* A write keeps ChildInv unless it gives the ClusterRoleBinding an owner.
LEMMA PutKeeps ==
  ASSUME TypeOK, ChildInv, NEW k \in Children, NEW c \in ChildRecord,
         k = "clusterRoleBinding" => c.owner = 0, Put(k, c)
  PROVE  ChildInv' /\ objs' = [objs EXCEPT ![k] = c]
<1>1. "clusterRoleBinding" \in Children /\ synced \subseteq Children
  BY DEF Children, Rbac, TypeOK, ClusterTypeOK
<1>. QED BY <1>1 DEF Put, Store, ChildInv, TypeOK, ClusterTypeOK

\* Every step keeps ChildInv.
LEMMA ChildInvKeeps ==
  ASSUME TypeOK, ChildInv, ChildStep
  PROVE  ChildInv'
<1>1. "clusterRoleBinding" \in Children
  BY DEF Children, Rbac
<1>2. CASE UNCHANGED childVars
  BY <1>2 DEF ChildInv, childVars
<1>3. ASSUME NEW k \in Children, NEW c \in ChildRecord, Put(k, c), Tame(k, c)
      PROVE  ChildInv'
  BY <1>3, PutKeeps DEF Tame, ChildInv
<1>4. ASSUME NEW k \in Children, Writes(k) PROVE ChildInv'
  <2>1. k = "clusterRoleBinding" => Desired(k).owner = 0
    BY DEF Desired, ChildInv
  <2>. QED BY <1>4, <2>1, DesiredType, PutKeeps DEF Writes
<1>5. ASSUME NEW k \in Children, SyncChild(k) PROVE ChildInv'
  BY <1>1, <1>5 DEF SyncChild, ChildInv, TypeOK, ClusterTypeOK
<1>6. CASE Restart
  BY <1>6 DEF Restart, ChildInv
<1>. QED BY <1>2, <1>3, <1>4, <1>5, <1>6 DEF ChildStep

-----------------------------------------------------------------------------
(* The host                                                                *)

\* Users, controllers and informers keep HostInv.
LEMMA OthersHostKeep ==
  ASSUME TypeOK, HostInv, Users \/ Controllers \/ Deliver
  PROVE  HostInv'
<1>0. host \in HostRecord /\ hostCache \in HostRecord /\ work \in HostRecord
  BY DEF TypeOK, ClusterTypeOK, KDexHostTypeOK
<1>1. pc' = pc /\ work' = work
  BY DEF Users, Controllers, Deliver, localVars
<1>2. CASE UNCHANGED hostVars
  BY <1>1, <1>2 DEF HostInv, hostVars, Accountable
<1>3. CASE CreateHost
  BY <1>0, <1>1, <1>3 DEF CreateHost, PutHost, HostInv, Accountable, HostRecord
<1>4. CASE EditSpec
  BY <1>0, <1>1, <1>4 DEF EditSpec, PutHost, HostInv, Accountable, HostRecord
<1>5. CASE DeleteHost
  BY <1>0, <1>1, <1>5 DEF DeleteHost, PutHost, HostInv, Accountable, HostRecord, NoHost
<1>6. CASE SyncHost
  BY <1>0, <1>1, <1>6 DEF SyncHost, HostInv, Accountable
<1>. QED BY <1>2, <1>3, <1>4, <1>5, <1>6
         DEF Users, Controllers, Deliver, RemoveChild, ChangeReferent, ReportCondition,
             HoldInternal, ReleaseInternal, CollectGarbage, SyncChild

\* A step within creation or teardown, or out of them, that leaves the host alone.
Within ==
  /\ UNCHANGED hostVars
  /\ \/ pc' \notin Creation \cup Teardown
     \/ pc \in Creation /\ pc' \in Creation /\ work'.uid = work.uid
     \/ pc \in Teardown /\ pc' \in Teardown

\* Such a step keeps HostInv.
LEMMA WithinKeeps ==
  ASSUME HostInv, Within
  PROVE  HostInv'
<1>1. Creation \cap Teardown = {}
  BY DEF Creation, Teardown
<1>. QED BY <1>1 DEF HostInv, Within, hostVars, Accountable

\* Creation and failed calls are such steps.
LEMMA CreationWithin ==
  ASSUME TypeOK,
         \/ \E p \in Pages : ResolvePage(p)
         \/ \E r \in Direct : ResolveDirect(r)
         \/ \E t \in Translations : ResolveTranslation(t)
         \/ PagesResolved \/ DirectResolved \/ TranslationsResolved
         \/ CreateConfigMap \/ CreateServiceAccount \/ CreateClusterRoleBinding
         \/ CreateDeployment \/ CreateService \/ AwaitDeployment \/ CreateInternalHost
         \/ Fail
  PROVE  Within
<1>0. work \in HostRecord
  BY DEF TypeOK, KDexHostTypeOK
<1>1. "status" \notin Creation \cup Teardown
  BY DEF Creation, Teardown
<1>2. ASSUME NEW p \in Pages, ResolvePage(p) PROVE Within
  BY <1>0, <1>1, <1>2 DEF ResolvePage, SkipMissing, Panic, Return, Copied, Ensure, clusterVars,
                    Creation, Within, HostRecord
<1>3. ASSUME NEW r \in Direct, ResolveDirect(r) PROVE Within
  BY <1>0, <1>1, <1>3 DEF ResolveDirect, Panic, Return, clusterVars, Creation, Within
<1>4. ASSUME NEW t \in Translations, ResolveTranslation(t) PROVE Within
  BY <1>0, <1>1, <1>4 DEF ResolveTranslation, SkipMissing, Return, Copied, Ensure, clusterVars,
                    Creation, Within, HostRecord
<1>5. CASE PagesResolved \/ DirectResolved \/ TranslationsResolved
  BY <1>5 DEF PagesResolved, DirectResolved, TranslationsResolved, Goto, clusterVars,
              Creation, Within
<1>6. CASE CreateConfigMap \/ CreateServiceAccount \/ CreateClusterRoleBinding
  BY <1>1, <1>6 DEF CreateConfigMap, CreateServiceAccount, CreateClusterRoleBinding,
                    Ensure, Goto, Return, Creation, Within
<1>7. CASE CreateDeployment \/ CreateService \/ AwaitDeployment \/ CreateInternalHost
  BY <1>1, <1>7 DEF CreateDeployment, CreateService, AwaitDeployment, CreateInternalHost,
                    Ensure, Goto, Return, clusterVars, Creation, Within
<1>8. CASE Fail
  BY <1>1, <1>8 DEF Fail, Return, Within
<1>. QED BY <1>2, <1>3, <1>4, <1>5, <1>6, <1>7, <1>8

\* So is the teardown, up to its end.
LEMMA TeardownWithin ==
  ASSUME \/ TearInternalHost \/ TearPages \/ TearTranslations \/ TearDeployment
         \/ DeleteNext \/ ReleaseClusterRoleBinding \/ ReleaseServiceAccount
  PROVE  Within
<1>1. "status" \notin Creation \cup Teardown
  BY DEF Creation, Teardown
<1>2. CASE TearInternalHost \/ TearPages \/ TearTranslations \/ TearDeployment
  BY <1>2 DEF TearInternalHost, TearPages, TearTranslations, TearDeployment, AwaitGone,
              Goto, clusterVars, Teardown, Within
<1>3. CASE DeleteNext
  BY <1>1, <1>3 DEF DeleteNext, Return, Teardown, Within
<1>4. CASE ReleaseClusterRoleBinding \/ ReleaseServiceAccount
  BY <1>1, <1>4 DEF ReleaseClusterRoleBinding, ReleaseServiceAccount, Release, Goto, Return,
                    Teardown, Within
<1>. QED BY <1>2, <1>3, <1>4

\* The steps that are not: the entry, the two writes of the host and the status
\* update, and restarts.
LEMMA EntryKeeps ==
  ASSUME TypeOK, HostInv, Begin \/ AddFinalizer \/ UpdateStatus \/ RemoveFinalizer \/ Restart
  PROVE  HostInv'
<1>0. host \in HostRecord /\ hostCache \in HostRecord /\ work \in HostRecord
  BY DEF TypeOK, ClusterTypeOK, KDexHostTypeOK
<1>1. {"idle", "status"} \cap (Creation \cup Teardown) = {} /\ Creation \cap Teardown = {}
  BY DEF Creation, Teardown
<1>2. CASE Begin
  <2>1. CASE hostCache.uid = 0
    BY <1>1, <1>2, <2>1 DEF Begin, HostInv, localVars, Accountable
  <2>2. CASE hostCache.uid # 0
    <3>1. /\ host' = host /\ hostCache' = hostCache /\ hostSynced' = hostSynced
          /\ fresh' = hostSynced /\ pc' = Branch(hostCache) /\ work'.uid = hostCache.uid
      BY <1>0, <1>2, <2>2 DEF Begin, HostRecord, localVars
    <3>2. CASE pc' \in Creation
      <4>1. Accountable(hostCache)
        BY <1>0, <2>2, <3>1, <3>2 DEF Branch, Creation, Accountable, HostRecord
      <4>. QED BY <1>1, <2>2, <3>1, <3>2, <4>1 DEF HostInv, Accountable
    <3>3. CASE pc' \in Teardown
      <4>1. hostCache.deleting
        BY <1>0, <3>1, <3>3 DEF Branch, Teardown, HostRecord
      <4>. QED BY <1>1, <2>2, <3>1, <3>3, <4>1 DEF HostInv, Accountable
    <3>. QED BY <3>1, <3>2, <3>3 DEF HostInv, Accountable
  <2>. QED BY <2>1, <2>2
<1>3. CASE AddFinalizer
  <2>1. /\ pc' = "status" /\ hostCache' = hostCache
        /\ host'.uid = host.uid /\ (host.finalizer => host'.finalizer)
        /\ hostSynced' => hostSynced /\ host' = host
    <3>1. pc' = "status" /\ hostCache' = hostCache
      BY <1>3 DEF AddFinalizer, PutHost
    <3>2. CASE fresh
      <4>1. host' = [host EXCEPT !.finalizer = TRUE]
        BY <1>3, <3>2 DEF AddFinalizer, PutHost
      <4>2. hostSynced' = (hostSynced /\ host' = host)
        BY <1>3, <3>2 DEF AddFinalizer, PutHost
      <4>3. host'.uid = host.uid /\ host'.finalizer
        BY <1>0, <4>1 DEF HostRecord
      <4>. QED BY <3>1, <4>2, <4>3
    <3>3. CASE ~fresh
      <4>1. host' = host /\ hostSynced' = hostSynced
        BY <1>3, <3>3 DEF AddFinalizer
      <4>. QED BY <3>1, <4>1
    <3>. QED BY <3>2, <3>3
  <2>. QED BY <1>1, <2>1 DEF HostInv, Accountable
<1>4. CASE UpdateStatus
  <2>1. /\ pc' = "idle" /\ hostCache' = hostCache
        /\ host'.uid = host.uid /\ (host.finalizer => host'.finalizer)
        /\ hostSynced' => hostSynced /\ host' = host
    <3>1. CASE fresh
      <4>1. host' = [host EXCEPT !.ready = work.ready, !.observed = work.generation]
        BY <1>4, <3>1 DEF UpdateStatus
      <4>2. hostSynced' \in {FALSE, hostSynced /\ host' = host}
        BY <1>4, <3>1 DEF UpdateStatus
      <4>3. hostSynced' => hostSynced /\ host' = host
        BY <4>2
      <4>. QED BY <1>0, <1>4, <4>1, <4>3 DEF UpdateStatus, HostRecord
    <3>2. CASE ~fresh
      <4>1. host' = host /\ hostSynced' = hostSynced
        BY <1>4, <3>2 DEF UpdateStatus
      <4>2. pc' = "idle" /\ hostCache' = hostCache
        BY <1>4 DEF UpdateStatus
      <4>. QED BY <4>1, <4>2
    <3>. QED BY <3>1, <3>2
  <2>. QED BY <1>1, <2>1 DEF HostInv, Accountable
<1>5. CASE RemoveFinalizer
  <2>1. pc \in Teardown
    BY <1>5 DEF RemoveFinalizer, Teardown
  <2>2. pc' = "status" /\ hostCache' = hostCache
    BY <1>5 DEF RemoveFinalizer, PutHost, Return
  <2>3. CASE fresh
    <3>1. hostCache.deleting
      BY <2>1, <2>3 DEF HostInv
    <3>2. hostSynced' => hostSynced /\ host' = host
      BY <1>5, <2>3 DEF RemoveFinalizer, PutHost
    <3>. QED BY <1>1, <2>2, <3>1, <3>2 DEF HostInv, Accountable
  <2>4. CASE ~fresh
    <3>1. host' = host /\ hostSynced' = hostSynced
      BY <1>5, <2>4 DEF RemoveFinalizer
    <3>. QED BY <1>1, <2>2, <3>1 DEF HostInv, Accountable
  <2>. QED BY <2>3, <2>4
<1>6. CASE Restart
  BY <1>0, <1>1, <1>6 DEF Restart, HostInv, Accountable
<1>. QED BY <1>2, <1>3, <1>4, <1>5, <1>6

\* Every step keeps HostInv.
LEMMA HostInvKeeps ==
  ASSUME TypeOK, HostInv, [Next]_vars
  PROVE  HostInv'
<1>1. CASE UNCHANGED vars
  BY <1>1 DEF vars, clusterVars, hostVars, localVars, HostInv, Accountable
<1>2. CASE Reconcile
  BY <1>2, EntryKeeps, CreationWithin, TeardownWithin, WithinKeeps DEF Reconcile
<1>. QED BY <1>1, <1>2, EntryKeeps, CreationWithin, WithinKeeps, OthersHostKeep DEF Next

-----------------------------------------------------------------------------
(* The theorem                                                             *)

\* Whatever the reconcile creates, it creates for the host that exists, which has
\* the finalizer that a teardown will come for: with any caches that lag, users
\* that delete the host and make it again, failures and restarts (the branches of
\* Reconcile and the mutate functions).
THEOREM FinalizerCorrect == Spec => CreationOnlyUnderFinalizer
<1>1. Init => HostInv /\ ChildInv
  <2>1. "idle" \notin Creation \cup Teardown /\ "clusterRoleBinding" \in Children
    BY DEF Creation, Teardown, Children, Rbac
  <2>. QED BY <2>1 DEF Init, ClusterInit, HostInv, ChildInv, Accountable, NoHost, NoChild
<1>2. TypeOK /\ HostInv /\ ChildInv /\ [Next]_vars => (HostInv /\ ChildInv)'
  BY HostInvKeeps, AnyChildStep, ChildInvKeeps
<1>3. TypeOK /\ HostInv /\ ChildInv /\ [Next]_vars =>
        [\A k \in Children :
           objs[k].state = "none" /\ objs'[k].state # "none" =>
             /\ host.uid # 0 /\ host.finalizer
             /\ objs'[k].owner = (IF k = "clusterRoleBinding" THEN 0 ELSE host.uid)]_vars
  <2>. SUFFICES ASSUME TypeOK, HostInv, ChildInv, [Next]_vars,
                       NEW k \in Children, objs[k].state = "none", objs'[k].state # "none"
                PROVE  /\ host.uid # 0 /\ host.finalizer
                       /\ objs'[k].owner = (IF k = "clusterRoleBinding" THEN 0 ELSE host.uid)
    OBVIOUS
  <2>1. ASSUME NEW j \in Children, NEW c \in ChildRecord, Put(j, c)
        PROVE  objs'[k] = (IF j = k THEN c ELSE objs[k])
    BY <2>1 DEF Put, Store, TypeOK, ClusterTypeOK
  <2>2. \/ UNCHANGED objs
        \/ \E j \in Children : \E c \in ChildRecord : Put(j, c) /\ Tame(j, c)
        \/ \E j \in Children : Writes(j)
    BY AnyChildStep DEF ChildStep, childVars, SyncChild, Restart
  <2>3. Writes(k)
    BY <2>1, <2>2, DesiredType DEF Tame, Writes
  <2>4. objs'[k] = Desired(k)
    BY <2>1, <2>3, DesiredType DEF Writes
  <2>5. cache[k].state = "none"
    BY <2>3 DEF Writes, Accepted, ChildInv
  <2>. QED BY <2>3, <2>4 DEF Writes, Desired, HostInv, ChildInv
<1>. QED BY <1>1, <1>2, <1>3, TypeCorrect, PTL DEF Spec, CreationOnlyUnderFinalizer

-----------------------------------------------------------------------------
(* A teardown leaves nothing behind                                        *)

\* No object of K is left, as far as caches keep up.
Gone(K) == \A k \in K \ Lagging : objs[k].state = "none"

\* What is gone when the teardown has come to the call p.
Cleared(p) ==
  CASE p = "tearPages"        -> {"internalHost"}
    [] p = "tearTranslations" -> {"internalHost"} \cup Pages
    [] p = "tearDeployment"   -> Internals
    [] p \in {"releaseClusterRoleBinding", "releaseServiceAccount", "removeFinalizer"} ->
         Internals \cup {"deployment"}
    [] OTHER                  -> {}

\* The caches that keep up show what there is, and what was waited for stays away.
TearInv ==
  /\ \A k \in Children \ Lagging : k \in synced /\ cache[k] = objs[k]
  /\ Gone(Cleared(pc))

\* Every step keeps the caches that do not lag up to date.
LEMMA SeenKeeps ==
  ASSUME TypeOK, TearInv, ChildStep
  PROVE  \A k \in Children \ Lagging : k \in synced' /\ cache'[k] = objs'[k]
<1>1. ASSUME NEW k \in Children, NEW c \in ChildRecord, Put(k, c)
      PROVE  \A j \in Children \ Lagging : j \in synced' /\ cache'[j] = objs'[j]
  BY <1>1 DEF Put, Store, TearInv, TypeOK, ClusterTypeOK
<1>2. CASE UNCHANGED childVars
  BY <1>2 DEF TearInv, childVars
<1>3. ASSUME NEW k \in Children, SyncChild(k)
      PROVE  \A j \in Children \ Lagging : j \in synced' /\ cache'[j] = objs'[j]
  BY <1>3 DEF SyncChild, TearInv, TypeOK, ClusterTypeOK
<1>4. CASE Restart
  BY <1>4 DEF Restart
<1>. QED BY <1>1, <1>2, <1>3, <1>4, DesiredType DEF ChildStep, Writes

\* Outside of creation nothing is made.
LEMMA GoneStays ==
  ASSUME TypeOK, ChildStep, pc \notin Creation, NEW K \in SUBSET Children, Gone(K)
  PROVE  Gone(K)'
<1>1. ASSUME NEW k \in Children, NEW c \in ChildRecord, Put(k, c), Tame(k, c)
      PROVE  Gone(K)'
  <2>1. objs' = [objs EXCEPT ![k] = c]
    BY <1>1 DEF Put, Store
  <2>. QED BY <1>1, <2>1 DEF Tame, Gone, TypeOK, ClusterTypeOK
<1>2. CASE UNCHANGED objs
  BY <1>2 DEF Gone
<1>. QED BY <1>1, <1>2 DEF ChildStep, childVars, Writes, SyncChild, Restart

\* The sets that a teardown clears are sets of children, and other calls rely on none.
LEMMA ClearedSets ==
  /\ \A p : Cleared(p) \subseteq Children
  /\ \A p : p \notin Teardown \ {"tearInternalHost", "delete"} => Cleared(p) = {}
<1>1. \A p : Cleared(p) \subseteq Children
  BY DEF Cleared, Children, Internals
<1>2. \A p : p \notin Teardown \ {"tearInternalHost", "delete"} => Cleared(p) = {}
  BY DEF Cleared, Teardown
<1>. QED BY <1>1, <1>2

\* How a step may get on with the teardown.
TearStep ==
  \/ pc' \notin Teardown \ {"tearInternalHost", "delete"}
  \/ pc' = pc
  \/ /\ pc \in Teardown /\ pc' \in Teardown
     /\ \E K \in SUBSET Children :
          /\ Cleared(pc') = Cleared(pc) \cup K
          /\ \A k \in K : cache[k].state = "none"

\* Every step does so: a check of the teardown goes on only when its cache shows
\* that what it waits for is gone.
LEMMA AnyTearStep ==
  ASSUME TypeOK, [Next]_vars
  PROVE  TearStep
<1>1. CASE UNCHANGED vars \/ Users \/ Controllers \/ Deliver
  BY <1>1 DEF vars, localVars, Users, Controllers, Deliver, TearStep
<1>2. CASE Fail \/ Restart
  BY <1>2 DEF Fail, Restart, Return, TearStep, Teardown
<1>3. CASE Begin \/ AddFinalizer \/ UpdateStatus \/ RemoveFinalizer
  BY <1>3 DEF Begin, Branch, AddFinalizer, UpdateStatus, RemoveFinalizer, Return, localVars,
              TearStep, Teardown
<1>4. CASE \/ \E p \in Pages : ResolvePage(p)
           \/ \E r \in Direct : ResolveDirect(r)
           \/ \E t \in Translations : ResolveTranslation(t)
           \/ PagesResolved \/ DirectResolved \/ TranslationsResolved
           \/ CreateConfigMap \/ CreateServiceAccount \/ CreateClusterRoleBinding
           \/ CreateDeployment \/ CreateService \/ AwaitDeployment \/ CreateInternalHost
  <2>1. pc \in Creation
    BY <1>4 DEF ResolvePage, ResolveDirect, ResolveTranslation, PagesResolved, DirectResolved,
                TranslationsResolved, CreateConfigMap, CreateServiceAccount,
                CreateClusterRoleBinding, CreateDeployment, CreateService, AwaitDeployment,
                CreateInternalHost, Creation
  <2>2. Creation \cap Teardown = {}
    BY DEF Creation, Teardown
  <2>. QED BY <1>4, <2>1, <2>2, CreationWithin DEF Within, TearStep
<1>5. CASE TearInternalHost \/ TearPages \/ TearTranslations \/ TearDeployment
  <2>1. ASSUME NEW K \in SUBSET Children, NEW next \in Teardown, AwaitGone(K, next)
        PROVE  \/ pc' = "delete"
               \/ pc' = next /\ \A k \in K : cache[k].state = "none"
    BY <2>1 DEF AwaitGone, Goto
  <2>2. /\ {"internalHost"} \in SUBSET Children /\ Pages \in SUBSET Children
        /\ Translations \in SUBSET Children /\ {"deployment"} \in SUBSET Children
    BY DEF Children, Internals
  <2>3. {"tearPages", "tearTranslations", "tearDeployment", "releaseClusterRoleBinding"}
          \subseteq Teardown
    BY DEF Teardown
  <2>4. CASE TearInternalHost
    <3>1. pc' = "delete" \/ (pc' = "tearPages" /\ \A k \in {"internalHost"} : cache[k].state = "none")
      BY <2>1, <2>2, <2>3, <2>4 DEF TearInternalHost
    <3>2. Cleared("tearPages") = Cleared("tearInternalHost") \cup {"internalHost"}
      BY DEF Cleared
    <3>. QED BY <2>2, <2>3, <2>4, <3>1, <3>2 DEF TearInternalHost, TearStep, Teardown
  <2>5. CASE TearPages
    <3>1. pc' = "delete" \/ (pc' = "tearTranslations" /\ \A k \in Pages : cache[k].state = "none")
      BY <2>1, <2>2, <2>3, <2>5 DEF TearPages
    <3>2. Cleared("tearTranslations") = Cleared("tearPages") \cup Pages
      BY DEF Cleared
    <3>. QED BY <2>2, <2>3, <2>5, <3>1, <3>2 DEF TearPages, TearStep
  <2>6. CASE TearTranslations
    <3>1. pc' = "delete" \/ (pc' = "tearDeployment" /\ \A k \in Translations : cache[k].state = "none")
      BY <2>1, <2>2, <2>3, <2>6 DEF TearTranslations
    <3>2. Cleared("tearDeployment") = Cleared("tearTranslations") \cup Translations
      BY DEF Cleared, Internals
    <3>. QED BY <2>2, <2>3, <2>6, <3>1, <3>2 DEF TearTranslations, TearStep, Teardown
  <2>7. CASE TearDeployment
    <3>1. \/ pc' = "delete"
          \/ pc' = "releaseClusterRoleBinding" /\ \A k \in {"deployment"} : cache[k].state = "none"
      BY <2>1, <2>2, <2>3, <2>7 DEF TearDeployment
    <3>2. Cleared("releaseClusterRoleBinding") = Cleared("tearDeployment") \cup {"deployment"}
      BY DEF Cleared
    <3>. QED BY <2>2, <2>3, <2>7, <3>1, <3>2 DEF TearDeployment, TearStep
  <2>. QED BY <1>5, <2>4, <2>5, <2>6, <2>7
<1>6. CASE DeleteNext
  BY <1>6 DEF DeleteNext, Return, TearStep, Teardown
<1>7. CASE ReleaseClusterRoleBinding \/ ReleaseServiceAccount
  <2>1. /\ Cleared("releaseServiceAccount") = Cleared("releaseClusterRoleBinding") \cup {}
        /\ Cleared("removeFinalizer") = Cleared("releaseServiceAccount") \cup {}
    BY DEF Cleared
  <2>2. {} \in SUBSET Children /\ \A k \in {} : cache[k].state = "none"
    OBVIOUS
  <2>3. CASE pc' = "status"
    BY <2>3 DEF TearStep, Teardown
  <2>4. \/ pc' = "status"
        \/ pc = "releaseClusterRoleBinding" /\ pc' = "releaseServiceAccount"
        \/ pc = "releaseServiceAccount" /\ pc' = "removeFinalizer"
    BY <1>7 DEF ReleaseClusterRoleBinding, ReleaseServiceAccount, Release, Goto, Return
  <2>. QED BY <2>1, <2>2, <2>3, <2>4 DEF TearStep, Teardown
<1>. QED BY <1>1, <1>2, <1>3, <1>4, <1>5, <1>6, <1>7 DEF Next, Reconcile

\* TearInv is inductive.
LEMMA TearInvKeeps ==
  ASSUME TypeOK, TearInv, [Next]_vars
  PROVE  TearInv'
<1>1. ChildStep /\ TearStep
  BY AnyChildStep, AnyTearStep
<1>2. Cleared(pc) \in SUBSET Children /\ Creation \cap Teardown = {}
  BY ClearedSets DEF Creation, Teardown
<1>3. \A k \in Cleared(pc') \ Lagging : objs'[k].state = "none"
  <2>1. CASE pc' \notin Teardown \ {"tearInternalHost", "delete"}
    <3>1. Cleared(pc') = {}
      BY <2>1, ClearedSets
    <3>. QED BY <3>1
  <2>2. ASSUME NEW K \in SUBSET Children, Gone(K), pc \notin Creation
        PROVE  \A k \in K \ Lagging : objs'[k].state = "none"
    <3>1. Gone(K)'
      BY <1>1, <2>2, GoneStays
    <3>. QED BY <3>1 DEF Gone
  <2>3. CASE pc' = pc /\ pc \in Teardown
    <3>1. pc \notin Creation /\ Gone(Cleared(pc))
      BY <1>2, <2>3 DEF TearInv
    <3>. QED BY <1>2, <2>2, <2>3, <3>1
  <2>4. ASSUME pc \in Teardown, NEW K \in SUBSET Children, Cleared(pc') = Cleared(pc) \cup K,
               \A k \in K : cache[k].state = "none"
        PROVE  \A k \in Cleared(pc') \ Lagging : objs'[k].state = "none"
    <3>1. Gone(Cleared(pc) \cup K)
      BY <2>4 DEF TearInv, Gone
    <3>2. (Cleared(pc) \cup K) \in SUBSET Children /\ pc \notin Creation
      BY <1>2, <2>4
    <3>. QED BY <2>2, <2>4, <3>1, <3>2
  <2>. QED BY <1>1, <2>1, <2>3, <2>4 DEF TearStep
<1>. QED BY <1>1, <1>3, SeenKeeps DEF TearInv, Gone

\* A finalizer, and the object of a fresh copy, are those of a host that exists.
UidInv ==
  /\ host.finalizer => host.uid # 0
  /\ fresh => host.uid # 0

\* Every step keeps UidInv.
LEMMA UidInvKeeps ==
  ASSUME TypeOK, HostInv, UidInv, [Next]_vars
  PROVE  UidInv'
<1>0. host \in HostRecord /\ hostCache \in HostRecord
  BY DEF TypeOK, ClusterTypeOK
<1>1. CASE UNCHANGED hostVars
  BY <1>1 DEF hostVars, UidInv
<1>2. CASE CreateHost
  BY <1>0, <1>2 DEF CreateHost, PutHost, UidInv, NoHost, TypeOK, ClusterTypeOK
<1>3. CASE EditSpec \/ DeleteHost
  <2>1. host.uid # 0 /\ ~fresh'
    BY <1>3 DEF EditSpec, DeleteHost
  <2>2. host'.uid = host.uid \/ host' = NoHost
    BY <1>0, <1>3 DEF EditSpec, DeleteHost, PutHost, HostRecord
  <2>3. ~NoHost.finalizer
    BY DEF NoHost
  <2>. QED BY <2>1, <2>2, <2>3 DEF UidInv
<1>4. CASE SyncHost \/ Restart
  BY <1>4 DEF SyncHost, Restart, UidInv
<1>5. CASE Begin
  BY <1>5 DEF Begin, UidInv, HostInv
<1>6. CASE AddFinalizer
  BY <1>0, <1>6 DEF AddFinalizer, PutHost, UidInv, HostRecord
<1>7. CASE UpdateStatus
  BY <1>0, <1>7 DEF UpdateStatus, UidInv, HostRecord
<1>8. CASE RemoveFinalizer
  BY <1>8 DEF RemoveFinalizer, PutHost, UidInv, NoHost
<1>9. UNCHANGED hostVars \/ Users \/ Controllers \/ Deliver \/ Restart
      \/ Begin \/ AddFinalizer \/ UpdateStatus \/ RemoveFinalizer
  BY CreationWithin, TeardownWithin DEF Next, Reconcile, Within, vars, clusterVars
<1>. QED BY <1>1, <1>2, <1>3, <1>4, <1>5, <1>6, <1>7, <1>8, <1>9
         DEF Users, Controllers, Deliver, RemoveChild, ChangeReferent, ReportCondition,
             HoldInternal, ReleaseInternal, CollectGarbage, SyncChild

\* A finalizer goes in RemoveFinalizer only.
LEMMA FinalizerGoesLast ==
  ASSUME TypeOK, UidInv, [Next]_vars, host.finalizer, ~host'.finalizer
  PROVE  pc = "removeFinalizer"
<1>1. host \in HostRecord
  BY DEF TypeOK, ClusterTypeOK
<1>2. CASE Users
  <2>1. CASE CreateHost
    BY <2>1 DEF CreateHost, UidInv
  <2>2. CASE EditSpec \/ DeleteHost
    BY <1>1, <2>2 DEF EditSpec, DeleteHost, PutHost, HostRecord
  <2>3. CASE UNCHANGED host
    BY <2>3
  <2>. QED BY <1>2, <2>1, <2>2, <2>3 DEF Users, RemoveChild, ChangeReferent, hostVars
<1>3. CASE UNCHANGED host
  BY <1>3
<1>4. CASE Controllers \/ Deliver \/ Fail \/ Restart
  BY <1>3, <1>4 DEF Controllers, Deliver, Fail, Restart, ReportCondition, HoldInternal,
                    ReleaseInternal, CollectGarbage, SyncHost, SyncChild, hostVars
<1>5. CASE Begin \/ AddFinalizer \/ UpdateStatus
  BY <1>1, <1>3, <1>5 DEF Begin, AddFinalizer, UpdateStatus, PutHost, HostRecord
<1>6. CASE RemoveFinalizer
  BY <1>6 DEF RemoveFinalizer
<1>. QED BY <1>2, <1>3, <1>4, <1>5, <1>6, CreationWithin, TeardownWithin
         DEF Next, Reconcile, Within, hostVars, vars, clusterVars

\* When Reconcile takes the finalizer off a host, the internal host, all internal
\* pages and translations and the Deployment are gone, but for those whose caches
\* lag: with any number of them, failures, restarts and deletions by others.
THEOREM TeardownCorrect == Spec => NothingLeftByTeardown
<1>1. Init => HostInv /\ TearInv /\ UidInv
  <2>1. "idle" \notin Creation \cup Teardown
    BY DEF Creation, Teardown
  <2>. QED BY <2>1 DEF Init, ClusterInit, HostInv, TearInv, UidInv, Gone, Cleared, Accountable,
                       NoHost
<1>2. TypeOK /\ HostInv /\ TearInv /\ UidInv /\ [Next]_vars => (HostInv /\ TearInv /\ UidInv)'
  BY HostInvKeeps, TearInvKeeps, UidInvKeeps
<1>3. TypeOK /\ TearInv /\ UidInv /\ [Next]_vars =>
        [host.finalizer /\ ~host'.finalizer =>
           \A k \in (Internals \cup {"deployment"}) \ Lagging : objs[k].state = "none"]_vars
  <2>1. Cleared("removeFinalizer") = Internals \cup {"deployment"}
    BY DEF Cleared
  <2>. QED BY <2>1, FinalizerGoesLast DEF TearInv, Gone
<1>. QED BY <1>1, <1>2, <1>3, TypeCorrect, PTL DEF Spec, NothingLeftByTeardown
=============================================================================
