------------------------- MODULE KDexHostReadyProofs -------------------------
(***************************************************************************)
(* A host is Ready only when everything is in place for it, for every      *)
(* value of the constants that lets the reconciler see its internal host   *)
(* as it is.                                                               *)
(***************************************************************************)
EXTENDS KDexHostLifeProofs

-----------------------------------------------------------------------------
(* The inductive invariant                                                 *)

\* The children a Ready host is promised: nobody else deletes them.
Lasting ==
  {"configMap", "serviceAccount", "clusterRoleBinding", "deployment", "service",
   "internalHost"} \ Removable

\* A child is there, for this incarnation of the host.
Own(k) ==
  /\ objs[k].state # "none"
  /\ k # "clusterRoleBinding" => objs[k].owner = host.uid

\* The cache shows it, and no teardown is under way.
Shown(k) ==
  /\ cache[k].state # "none"
  /\ k # "clusterRoleBinding" =>
       host.uid # 0 /\ ~host.deleting /\ cache[k].owner = host.uid

\* No incarnation is older than the objects that name it.
BoundInv ==
  /\ host.uid <= lastUid /\ hostCache.uid <= lastUid
  /\ \A k \in Children : objs[k].owner <= lastUid /\ cache[k].owner <= lastUid

\* What the host owns is under its finalizer, and what a cache shows as owned, however
\* old it is, has stayed so.
OwnerInv ==
  /\ \A k \in Children :
       objs[k].state # "none" /\ objs[k].owner = host.uid /\ host.uid # 0 => host.finalizer
  /\ "clusterRoleBinding" \notin Removable =>
       /\ objs["clusterRoleBinding"].state # "deleting"
       /\ cache["clusterRoleBinding"].state # "deleting"
  /\ pc = "delete" => todo \subseteq Internals \cup {"deployment"}
  /\ \A k \in Lasting : Shown(k) => Own(k)

\* A copy of the host that is not older than what its status reports.
Recent(h) ==
  /\ host.observed <= h.generation /\ h.generation <= host.generation
  /\ h.generation = host.generation => h.refs = host.refs

\* Caches do not go back: the copies at hand are recent.
VersionInv ==
  /\ host.observed <= host.generation
  /\ host.uid # 0 /\ hostCache.uid = host.uid => Recent(hostCache)
  /\ pc \in Creation => Recent(work)
  /\ fresh => /\ pc # "idle"
              /\ work.generation = host.generation /\ work.refs = host.refs
              /\ hostCache.uid = host.uid /\ hostCache.generation = host.generation

\* What creation has made when it has come to the call p.
Behind(p) ==
  CASE p = "serviceAccount"     -> {"configMap"}
    [] p = "clusterRoleBinding" -> {"configMap", "serviceAccount"}
    [] p = "deployment"         -> {"configMap", "serviceAccount", "clusterRoleBinding"}
    [] p = "service"            -> {"configMap", "serviceAccount", "clusterRoleBinding",
                                    "deployment"}
    [] p = "internalHost"       -> {"configMap", "serviceAccount", "clusterRoleBinding",
                                    "deployment", "service"}
    [] OTHER                    -> {}

\* Everything is in place for generation g.
Placed(g) ==
  /\ \A k \in Lasting : Own(k)
  /\ objs["internalHost"].generation >= g

\* A status of Ready, the one that is stored and the one that is going to be, is true.
PlaceInv ==
  /\ host.ready = "True" => host.finalizer
  /\ fresh /\ work.ready = "True" => host.finalizer
  /\ fresh /\ pc = "addFinalizer" => work.ready # "True"
  /\ pc \in Creation => work.ready # "True"
  /\ pc = "status" /\ fresh /\ work.ready = "True" /\ ~host.deleting =>
       Placed(work.generation)
  /\ host.ready = "True" /\ ~host.deleting => Placed(host.observed)
  /\ pc \in Creation /\ ~host.deleting => \A k \in Lasting \cap Behind(pc) : Own(k)

-----------------------------------------------------------------------------
(* The steps                                                               *)

\* The writes of the host, the deliveries of it, and the entry to a reconcile.
HostAction ==
  \/ (CreateHost \/ EditSpec \/ DeleteHost \/ SyncHost) /\ UNCHANGED localVars
  \/ Begin \/ AddFinalizer \/ UpdateStatus \/ RemoveFinalizer \/ Restart

\* A creation goes on to a call whose predecessors were made, or returns.
Creating ==
  /\ pc \in Creation /\ UNCHANGED hostVars
  /\ work'.generation = work.generation /\ work'.refs = work.refs
  /\ \/ /\ pc' \in Creation /\ work'.ready \in {work.ready, "False"}
        /\ \A k \in Behind(pc') \ Behind(pc) : Call(k)
     \/ pc' = "status" /\ work'.ready \in {work.ready, "False"}
     \/ pc' = "status" /\ pc = "internalHost" /\ Call("internalHost")

\* A teardown goes on.
Clearing ==
  /\ pc \in Teardown /\ pc' \in Teardown /\ UNCHANGED <<hostVars, work>>
  /\ pc' = "delete" => todo' \subseteq todo \cup Internals \cup {"deployment"}
  /\ pc' = "delete" /\ pc # "delete" => todo' \subseteq Internals \cup {"deployment"}

\* A teardown returns, or a call fails.
Leaving ==
  /\ pc \in Creation \cup Teardown \cup {"addFinalizer"} /\ pc' = "status"
  /\ UNCHANGED hostVars
  /\ work'.generation = work.generation /\ work'.refs = work.refs
  /\ work'.ready \in {work.ready, "False"}

\* Creation is such a step.
LEMMA CreationCreates ==
  ASSUME TypeOK,
         \/ \E p \in Pages : ResolvePage(p)
         \/ \E r \in Direct : ResolveDirect(r)
         \/ \E t \in Translations : ResolveTranslation(t)
         \/ PagesResolved \/ DirectResolved \/ TranslationsResolved
         \/ CreateConfigMap \/ CreateServiceAccount \/ CreateClusterRoleBinding
         \/ CreateDeployment \/ CreateService \/ AwaitDeployment \/ CreateInternalHost
  PROVE  Creating
<1>0. work \in HostRecord
  BY DEF TypeOK, KDexHostTypeOK
<1>a. \A x : LET w == [work EXCEPT !.ready = x]
             IN w.generation = work.generation /\ w.refs = work.refs /\ w.ready = x
  BY <1>0 DEF HostRecord
<1>b. ASSUME NEW x, NEW b, Return(x, b)
      PROVE  /\ pc' = "status" /\ work'.ready = x
             /\ work'.generation = work.generation /\ work'.refs = work.refs
  BY <1>a, <1>b DEF Return
<1>1. ASSUME NEW p \in Pages, ResolvePage(p) PROVE Creating
  BY <1>1, <1>a, <1>b DEF ResolvePage, SkipMissing, Panic, Copied, Ensure, clusterVars,
                          Creation, Creating, Behind
<1>2. ASSUME NEW r \in Direct, ResolveDirect(r) PROVE Creating
  BY <1>2, <1>b DEF ResolveDirect, Panic, clusterVars, Creation, Creating, Behind
<1>3. ASSUME NEW t \in Translations, ResolveTranslation(t) PROVE Creating
  BY <1>3, <1>a, <1>b DEF ResolveTranslation, SkipMissing, Copied, Ensure, clusterVars,
                          Creation, Creating, Behind
<1>4. CASE PagesResolved \/ DirectResolved \/ TranslationsResolved
  BY <1>4 DEF PagesResolved, DirectResolved, TranslationsResolved, Goto, clusterVars,
              Creation, Creating, Behind
<1>6. CASE CreateConfigMap
  <2>1. pc = "configMap" /\ Ensure("configMap", Goto("serviceAccount"))
    BY <1>6 DEF CreateConfigMap
  <2>2. UNCHANGED hostVars
    BY <2>1 DEF Ensure
  <2>. QED BY <2>1, <2>2, <1>b DEF Ensure, Call, Goto, Creation, Creating, Behind
<1>7. CASE CreateServiceAccount
  BY <1>7, <1>b DEF CreateServiceAccount, Ensure, Call, Goto, Creation, Creating, Behind
<1>8. CASE CreateClusterRoleBinding
  BY <1>8, <1>b DEF CreateClusterRoleBinding, Ensure, Call, Goto, Creation, Creating, Behind
<1>9. CASE CreateDeployment
  BY <1>9, <1>b DEF CreateDeployment, Ensure, Call, Creation, Creating, Behind
<1>10. CASE CreateService
  BY <1>10, <1>b DEF CreateService, Ensure, Call, Goto, Creation, Creating, Behind
<1>11. CASE AwaitDeployment
  BY <1>11, <1>b DEF AwaitDeployment, clusterVars, Creation, Creating
<1>12. CASE CreateInternalHost
  BY <1>12, <1>b DEF CreateInternalHost, Ensure, Call, Creation, Creating
<1>. QED BY <1>1, <1>2, <1>3, <1>4, <1>6, <1>7, <1>8, <1>9, <1>10, <1>11, <1>12

\* Every step is one of these, or leaves the reconcile alone.
LEMMA AnyStep ==
  ASSUME TypeOK, [Next]_vars
  PROVE  \/ HostAction \/ UNCHANGED <<hostVars, localVars>>
         \/ Creating \/ Clearing \/ Leaving
<1>0. work \in HostRecord
  BY DEF TypeOK, KDexHostTypeOK
<1>a. ASSUME NEW x, NEW b, Return(x, b)
      PROVE  /\ pc' = "status" /\ work'.ready = x
             /\ work'.generation = work.generation /\ work'.refs = work.refs
  BY <1>0, <1>a DEF Return, HostRecord
<1>1. CASE UNCHANGED vars
  BY <1>1 DEF vars, clusterVars
<1>2. CASE Users \/ Controllers \/ Deliver
  BY <1>2 DEF Users, Controllers, Deliver, RemoveChild, ChangeReferent, ReportCondition,
              HoldInternal, ReleaseInternal, CollectGarbage, SyncChild, HostAction
<1>3. CASE Fail
  BY <1>3, <1>a DEF Fail, Leaving
<1>4. CASE TearInternalHost \/ TearPages \/ TearTranslations \/ TearDeployment
  BY <1>4 DEF TearInternalHost, TearPages, TearTranslations, TearDeployment, AwaitGone, Goto,
              clusterVars, Teardown, Internals, Clearing
<1>5. CASE DeleteNext
  BY <1>5, <1>a DEF DeleteNext, Teardown, Clearing, Leaving
<1>6. CASE ReleaseClusterRoleBinding \/ ReleaseServiceAccount
  BY <1>6, <1>a DEF ReleaseClusterRoleBinding, ReleaseServiceAccount, Release, Goto,
                    Teardown, Clearing, Leaving
<1>. QED BY <1>1, <1>2, <1>3, <1>4, <1>5, <1>6, CreationCreates
         DEF Next, Reconcile, HostAction

\* The call for the internal host is the last of creation.
LEMMA CreationCalls ==
  ASSUME TypeOK,
         \/ \E p \in Pages : ResolvePage(p)
         \/ \E r \in Direct : ResolveDirect(r)
         \/ \E t \in Translations : ResolveTranslation(t)
         \/ PagesResolved \/ DirectResolved \/ TranslationsResolved
         \/ CreateConfigMap \/ CreateServiceAccount \/ CreateClusterRoleBinding
         \/ CreateDeployment \/ CreateService \/ AwaitDeployment \/ CreateInternalHost
  PROVE  \/ UNCHANGED objs
         \/ /\ pc \in Creation /\ UNCHANGED hostVars
            /\ \E k \in Children : Call(k) /\ (k = "internalHost" => pc = "internalHost")
<1>1. ASSUME NEW k \in Children, NEW then, Ensure(k, then), pc \in Creation,
             k = "internalHost" => pc = "internalHost"
      PROVE  \/ UNCHANGED objs
             \/ /\ pc \in Creation /\ UNCHANGED hostVars
                /\ Call(k) /\ (k = "internalHost" => pc = "internalHost")
  BY <1>1 DEF Ensure, Call, childVars
<1>2. "internalHost" \notin Pages \cup Translations
  BY ClusterAssumption
<1>3. ASSUME NEW p \in Pages, ResolvePage(p) PROVE UNCHANGED objs \/ Ensure(p, Copied(p))
  BY <1>3 DEF ResolvePage, SkipMissing, Panic, clusterVars, childVars
<1>4. ASSUME NEW t \in Translations, ResolveTranslation(t)
      PROVE  UNCHANGED objs \/ Ensure(t, Copied(t))
  BY <1>4 DEF ResolveTranslation, SkipMissing, clusterVars, childVars
<1>5. CASE \/ \E r \in Direct : ResolveDirect(r)
           \/ PagesResolved \/ DirectResolved \/ TranslationsResolved \/ AwaitDeployment
  BY <1>5 DEF ResolveDirect, Panic, PagesResolved, DirectResolved, TranslationsResolved,
              AwaitDeployment, clusterVars, childVars
<1>6. CASE \/ \E p \in Pages : ResolvePage(p)
           \/ \E t \in Translations : ResolveTranslation(t)
  BY <1>1, <1>2, <1>3, <1>4, <1>6
     DEF ResolvePage, ResolveTranslation, Creation, Children, Internals
<1>7. CASE \/ CreateConfigMap \/ CreateServiceAccount \/ CreateClusterRoleBinding
           \/ CreateDeployment \/ CreateService \/ CreateInternalHost
  BY <1>7 DEF CreateConfigMap, CreateServiceAccount, CreateClusterRoleBinding,
              CreateDeployment, CreateService, CreateInternalHost, Ensure, Call,
              Creation, Children, Internals, Rbac, childVars
<1>. QED BY <1>5, <1>6, <1>7

\* The children change by lawful writes and by the calls of creation only.
LEMMA ObjsMove ==
  ASSUME TypeOK, [Next]_vars
  PROVE  \/ UNCHANGED objs
         \/ LawfulPut /\ UNCHANGED hostVars
         \/ /\ pc \in Creation /\ UNCHANGED hostVars
            /\ \E k \in Children : Call(k) /\ (k = "internalHost" => pc = "internalHost")
<1>1. CASE UNCHANGED vars
  BY <1>1 DEF vars, clusterVars, childVars
<1>2. CASE Users \/ Controllers \/ Deliver
  BY <1>2, OthersLawful
<1>3. CASE \/ Begin \/ AddFinalizer \/ UpdateStatus \/ RemoveFinalizer \/ Fail \/ Restart
           \/ TearInternalHost \/ TearPages \/ TearTranslations \/ TearDeployment
  BY <1>3 DEF Begin, AddFinalizer, UpdateStatus, RemoveFinalizer, Fail, Restart, AwaitGone,
              TearInternalHost, TearPages, TearTranslations, TearDeployment,
              clusterVars, childVars
<1>4. CASE DeleteNext \/ ReleaseClusterRoleBinding \/ ReleaseServiceAccount
  BY <1>4, TeardownLawful, TeardownWithin DEF Within
<1>. QED BY <1>1, <1>2, <1>3, <1>4, CreationCalls DEF Next, Reconcile

\* A cached copy that changes becomes the current one.
LEMMA CacheMoves ==
  ASSUME TypeOK, [Next]_vars, NEW k \in Children
  PROVE  cache'[k] = cache[k] \/ cache'[k] = objs'[k]
<1>1. ASSUME NEW j \in Children, NEW c \in ChildRecord, Put(j, c)
      PROVE  cache'[k] = cache[k] \/ cache'[k] = objs'[k]
  BY <1>1 DEF Put, Store, TypeOK, ClusterTypeOK
<1>2. ASSUME NEW j \in Children, SyncChild(j)
      PROVE  cache'[k] = cache[k] \/ cache'[k] = objs'[k]
  BY <1>2 DEF SyncChild, TypeOK, ClusterTypeOK
<1>. QED BY <1>1, <1>2, AnyChildStep, DesiredType
         DEF ChildStep, childVars, Writes, Restart

\* Who writes the host leaves the children alone.
LEMMA HostActionObjs ==
  ASSUME HostAction
  PROVE  UNCHANGED objs /\ (UNCHANGED cache \/ cache' = objs')
BY DEF HostAction, CreateHost, EditSpec, DeleteHost, SyncHost, Begin, AddFinalizer,
       UpdateStatus, RemoveFinalizer, Restart, childVars

\* The children promised are children, and not copies.
LEMMA LastingSets ==
  /\ Lasting \subseteq Children \ Removable
  /\ \A k \in Lasting \cap Internals : k = "internalHost"
BY ClusterAssumption DEF Lasting, Children, Internals, Rbac

-----------------------------------------------------------------------------
(* The owners                                                              *)

\* How a write of the host changes its identity.
HostMoves ==
  /\ lastUid <= lastUid' /\ lastUid' \in Nat
  /\ \/ host'.uid = 0
     \/ /\ host'.uid = host.uid /\ host.uid # 0
        /\ host.finalizer => host'.finalizer
        /\ host.deleting => host'.deleting
     \/ host'.uid > lastUid /\ host'.uid <= lastUid'
  /\ hostCache'.uid \in {hostCache.uid, host.uid}
  /\ pc' = "delete" => pc = "delete" /\ todo' = todo

LEMMA HostActionMoves ==
  ASSUME TypeOK, UidInv, HostAction
  PROVE  HostMoves
<1>0. host \in HostRecord /\ hostCache \in HostRecord /\ lastUid \in Nat
  BY DEF TypeOK, ClusterTypeOK
<1>1. CASE CreateHost /\ UNCHANGED localVars
  <2>1. lastUid' = lastUid + 1 /\ UNCHANGED <<hostCache, pc, todo>>
    BY <1>1 DEF CreateHost, PutHost, localVars
  <2>2. host'.uid = lastUid + 1
    BY <1>1 DEF CreateHost, PutHost, NoHost
  <2>. QED BY <1>0, <2>1, <2>2 DEF HostMoves
<1>2. CASE (EditSpec \/ DeleteHost) /\ UNCHANGED localVars
  <2>1. UNCHANGED <<lastUid, hostCache, pc, todo>> /\ host.uid # 0
    BY <1>2 DEF EditSpec, DeleteHost, PutHost, localVars
  <2>2. \/ host'.uid = 0
        \/ /\ host'.uid = host.uid /\ host'.finalizer = host.finalizer
           /\ host.deleting => host'.deleting
    <3>1. CASE EditSpec
      BY <1>0, <3>1 DEF EditSpec, PutHost, HostRecord
    <3>2. CASE DeleteHost
      <4>1. \/ host' = [host EXCEPT !.deleting = TRUE, !.generation = @ + 1]
            \/ host' = NoHost
        BY <3>2 DEF DeleteHost, PutHost
      <4>2. CASE host' = [host EXCEPT !.deleting = TRUE, !.generation = @ + 1]
        BY <1>0, <4>2 DEF HostRecord
      <4>3. CASE host' = NoHost
        BY <4>3 DEF NoHost
      <4>. QED BY <4>1, <4>2, <4>3
    <3>. QED BY <1>2, <3>1, <3>2
  <2>. QED BY <1>0, <2>1, <2>2 DEF HostMoves
<1>3. CASE SyncHost /\ UNCHANGED localVars
  BY <1>0, <1>3 DEF SyncHost, localVars, HostMoves
<1>4. CASE Begin
  <2>1. UNCHANGED <<host, hostCache, lastUid>> /\ pc' # "delete"
    BY <1>4 DEF Begin, Branch, localVars
  <2>. QED BY <1>0, <2>1 DEF HostMoves
<1>5. CASE AddFinalizer \/ UpdateStatus
  <2>1. UNCHANGED <<hostCache, lastUid>> /\ pc' # "delete"
    BY <1>5 DEF AddFinalizer, UpdateStatus, PutHost
  <2>2. /\ host'.uid = host.uid /\ host'.deleting = host.deleting
        /\ host.finalizer => host'.finalizer
    BY <1>0, <1>5 DEF AddFinalizer, UpdateStatus, PutHost, HostRecord
  <2>. QED BY <1>0, <2>1, <2>2 DEF HostMoves
<1>6. CASE RemoveFinalizer
  <2>1. UNCHANGED <<hostCache, lastUid>> /\ pc' # "delete"
    BY <1>6 DEF RemoveFinalizer, PutHost, Return
  <2>2. host' = host \/ host'.uid = 0
    BY <1>6 DEF RemoveFinalizer, PutHost, NoHost
  <2>. QED BY <1>0, <2>1, <2>2 DEF HostMoves
<1>7. CASE Restart
  BY <1>0, <1>7 DEF Restart, HostMoves
<1>. QED BY <1>1, <1>2, <1>3, <1>4, <1>5, <1>6, <1>7 DEF HostAction

\* What a write leaves of an owner, and of the finding that there is one.
LEMMA OwnersMove ==
  ASSUME TypeOK, HostInv, ChildInv, [Next]_vars, NEW k \in Children
  PROVE  objs'[k].owner \in {0, objs[k].owner, cache[k].owner, host.uid}
<1>1. ASSUME NEW j \in Children, NEW c \in ChildRecord, Put(j, c)
      PROVE  objs'[k] = (IF j = k THEN c ELSE objs[k])
  BY <1>1 DEF Put, Store, TypeOK, ClusterTypeOK
<1>2. ASSUME NEW j \in Children, Writes(j)
      PROVE  objs'[k].owner \in {0, objs[k].owner, cache[k].owner, host.uid}
  <2>1. objs'[k] = (IF j = k THEN Desired(k) ELSE objs[k])
    BY <1>1, <1>2, DesiredType DEF Writes
  <2>2. work.uid = host.uid
    BY <1>2 DEF Writes, HostInv
  <2>. QED BY <2>1, <2>2 DEF Desired
<1>. QED BY <1>1, <1>2, AnyChildStep DEF ChildStep, Tame, childVars, SyncChild, Restart

\* Every step keeps BoundInv.
LEMMA BoundInvKeeps ==
  ASSUME TypeOK, HostInv, ChildInv, UidInv, BoundInv, [Next]_vars
  PROVE  BoundInv'
<1>0. /\ host.uid \in Nat /\ hostCache.uid \in Nat /\ lastUid \in Nat
      /\ \A k \in Children : objs[k].owner \in Nat /\ cache[k].owner \in Nat
  BY DEF TypeOK, ClusterTypeOK, HostRecord, ChildRecord
<1>1. CASE HostAction
  <2>1. HostMoves /\ UNCHANGED objs /\ (UNCHANGED cache \/ cache' = objs')
    BY <1>1, HostActionMoves, HostActionObjs
  <2>. QED BY <1>0, <2>1 DEF BoundInv, HostMoves
<1>2. CASE UNCHANGED hostVars
  <2>1. \A k \in Children : objs'[k].owner \in {0, objs[k].owner, cache[k].owner, host.uid}
    BY OwnersMove
  <2>2. \A k \in Children : cache'[k] = cache[k] \/ cache'[k] = objs'[k]
    BY CacheMoves
  <2>3. host' = host /\ hostCache' = hostCache /\ lastUid' = lastUid
    BY <1>2 DEF hostVars
  <2>4. \A k \in Children : objs'[k].owner <= lastUid
    BY <1>0, <2>1 DEF BoundInv
  <2>. QED BY <2>2, <2>3, <2>4 DEF BoundInv
<1>. QED BY <1>1, <1>2, AnyStep DEF Creating, Clearing, Leaving

\* A call of CreateOrUpdate that succeeds makes the object the host's own, or finds
\* that it is.
LEMMA CallOwns ==
  ASSUME TypeOK, HostInv, OwnerInv, NEW k \in Lasting, Call(k), UNCHANGED host,
         ~host.deleting
  PROVE  Own(k)'
<1>1. k \in Children
  BY LastingSets
<1>2. work.uid # 0 /\ work.uid = host.uid
  BY DEF Call, HostInv
<1>3. /\ Desired(k).state # "none"
      /\ k # "clusterRoleBinding" => Desired(k).owner = host.uid
  BY <1>2 DEF Desired
<1>4. CASE Desired(k) = cache[k]
  <2>1. Own(k) /\ objs' = objs
    BY <1>2, <1>3, <1>4 DEF Call, Shown, OwnerInv, childVars
  <2>. QED BY <2>1 DEF Own
<1>5. CASE Desired(k) # cache[k]
  <2>1. objs'[k] = Desired(k)
    BY <1>1, <1>5 DEF Call, Put, Store, TypeOK, ClusterTypeOK
  <2>. QED BY <1>3, <2>1 DEF Own
<1>. QED BY <1>4, <1>5

\* What is the host's own stays so until a teardown.
LEMMA OwnStays ==
  ASSUME TypeOK, HostInv, ChildInv, PastInv, CopyInv, OwnerInv,
         "internalHost" \notin Lagging \cup Removable, [Next]_vars, UNCHANGED hostVars,
         NEW k \in Lasting, Own(k),
         k # "clusterRoleBinding" => host.uid # 0 /\ ~host.deleting
  PROVE  Own(k)'
<1>1. k \in Children /\ k \notin Removable /\ (k \in Internals => k = "internalHost")
  BY LastingSets
<1>2. host' = host
  BY DEF hostVars
<1>3. CASE UNCHANGED objs
  BY <1>2, <1>3 DEF Own
<1>4. ASSUME NEW j \in Children, Call(j) PROVE Own(k)'
  <2>1. CASE j = k /\ Desired(k) # cache[k]
    <3>1. objs'[k] = Desired(k)
      BY <1>1, <1>4, <2>1 DEF Call, Put, Store, TypeOK, ClusterTypeOK
    <3>2. work.uid = host.uid
      BY <1>4 DEF Call, HostInv
    <3>. QED BY <1>2, <3>1, <3>2 DEF Desired, Own
  <2>2. CASE j # k \/ Desired(j) = cache[j]
    <3>1. objs'[k] = objs[k]
      BY <1>1, <1>4, <2>2 DEF Call, Put, Store, TypeOK, ClusterTypeOK, childVars
    <3>. QED BY <1>2, <3>1 DEF Own
  <2>. QED BY <2>1, <2>2
<1>5. CASE LawfulPut
  <2>1. PICK j \in Children, c \in ChildRecord :
          objs' = [objs EXCEPT ![j] = c] /\ Lawful(j, c)
    BY <1>5 DEF LawfulPut, Put, Store
  <2>2. CASE j # k
    <3>1. objs'[k] = objs[k]
      BY <1>1, <2>1, <2>2 DEF TypeOK, ClusterTypeOK
    <3>. QED BY <1>2, <3>1 DEF Own
  <2>3. CASE j = k
    <3>1. objs'[k] = c
      BY <1>1, <2>1, <2>3 DEF TypeOK, ClusterTypeOK
    <3>2. CASE c.state # "none"
      BY <1>2, <2>1, <2>3, <3>1, <3>2 DEF Lawful, Own
    <3>3. CASE c.state = "none"
      <4>1. \/ objs[k].state = "deleting" /\ (k \in Internals \/ pc \in Teardown)
            \/ pc = "delete" /\ k \in todo
        BY <1>1, <2>1, <2>3, <3>3 DEF Lawful, Own, ChildInv
      <4>2. k # "clusterRoleBinding"
        <5>1. "clusterRoleBinding" \notin Internals \cup {"deployment"}
          BY ClusterAssumption DEF Internals, Rbac
        <5>. QED BY <1>1, <4>1, <5>1 DEF OwnerInv
      <4>3. host.finalizer /\ ~host.deleting
        BY <1>1, <4>2 DEF Own, OwnerInv
      <4>4. "delete" \in Teardown
        BY DEF Teardown
      <4>5. pc \notin Teardown
        BY <4>3 DEF PastInv
      <4>6. k = "internalHost" /\ objs[k].state = "deleting"
        BY <1>1, <4>1, <4>4, <4>5
      <4>7. "internalHost" \in Sheltered
        BY DEF Sheltered
      <4>. QED BY <4>3, <4>6, <4>7 DEF CopyInv
    <3>. QED BY <3>2, <3>3
  <2>. QED BY <2>2, <2>3
<1>. QED BY <1>3, <1>4, <1>5, ObjsMove

\* Every step keeps OwnerInv.
LEMMA OwnerInvKeeps ==
  ASSUME TypeOK, HostInv, ChildInv, UidInv, PastInv, CopyInv, BoundInv, OwnerInv,
         "internalHost" \notin Lagging \cup Removable, [Next]_vars
  PROVE  OwnerInv'
<1>0. /\ host.uid \in Nat /\ lastUid \in Nat
      /\ \A k \in Children : objs[k].owner \in Nat /\ cache[k].owner \in Nat
  BY DEF TypeOK, ClusterTypeOK, HostRecord, ChildRecord
<1>1. Lasting \subseteq Children /\ "clusterRoleBinding" \in Children
  BY LastingSets DEF Children, Rbac
<1>2. CASE HostAction
  <2>1. HostMoves /\ UNCHANGED objs /\ (UNCHANGED cache \/ cache' = objs')
    BY <1>2, HostActionMoves, HostActionObjs
  <2>2. ASSUME NEW k \in Children, objs'[k].state # "none", objs'[k].owner = host'.uid,
               host'.uid # 0
        PROVE  host'.finalizer
    BY <1>0, <2>1, <2>2 DEF HostMoves, BoundInv, OwnerInv
  <2>3. ASSUME NEW k \in Lasting, Shown(k)' PROVE Own(k)'
    <3>1. CASE cache' = objs'
      BY <2>3, <3>1 DEF Shown, Own
    <3>2. CASE UNCHANGED cache /\ k = "clusterRoleBinding"
      BY <2>1, <2>3, <3>2 DEF Shown, Own, OwnerInv
    <3>3. CASE UNCHANGED cache /\ k # "clusterRoleBinding"
      <4>1. /\ host'.uid # 0 /\ ~host'.deleting /\ cache[k].owner = host'.uid
            /\ cache[k].state # "none"
        BY <2>3, <3>3 DEF Shown
      <4>2. host'.uid = host.uid /\ ~host.deleting
        BY <1>0, <1>1, <2>1, <4>1 DEF HostMoves, BoundInv
      <4>. QED BY <2>1, <3>3, <4>1, <4>2 DEF Shown, Own, OwnerInv
    <3>. QED BY <2>1, <3>1, <3>2, <3>3
  <2>. QED BY <2>1, <2>2, <2>3 DEF OwnerInv, HostMoves
<1>3. CASE UNCHANGED hostVars /\ (UNCHANGED localVars \/ Creating \/ Clearing \/ Leaving)
  <2>1. host' = host
    BY <1>3 DEF hostVars
  <2>2. ASSUME NEW k \in Children, objs'[k].state # "none", objs'[k].owner = host.uid,
               host.uid # 0
        PROVE  host.finalizer
    <3>1. CASE UNCHANGED objs
      BY <2>2, <3>1 DEF OwnerInv
    <3>2. CASE LawfulPut
      <4>1. PICK j \in Children, c \in ChildRecord :
              objs' = [objs EXCEPT ![j] = c] /\ Lawful(j, c)
        BY <3>2 DEF LawfulPut, Put, Store
      <4>2. objs[k].state # "none" /\ objs[k].owner = host.uid
        BY <2>2, <4>1 DEF Lawful, TypeOK, ClusterTypeOK
      <4>. QED BY <2>2, <4>2 DEF OwnerInv
    <3>3. CASE pc \in Creation
      BY <3>3 DEF HostInv
    <3>. QED BY <3>1, <3>2, <3>3, ObjsMove
  <2>3. ASSUME "clusterRoleBinding" \notin Removable
        PROVE  /\ objs'["clusterRoleBinding"].state # "deleting"
               /\ cache'["clusterRoleBinding"].state # "deleting"
    <3>1. objs'["clusterRoleBinding"].state # "deleting"
      <4>1. CASE UNCHANGED objs
        BY <2>3, <4>1 DEF OwnerInv
      <4>2. CASE LawfulPut
        <5>1. PICK j \in Children, c \in ChildRecord :
                objs' = [objs EXCEPT ![j] = c] /\ Lawful(j, c)
          BY <4>2 DEF LawfulPut, Put, Store
        <5>2. "clusterRoleBinding" \notin Internals \cup {"deployment"}
          BY ClusterAssumption DEF Internals, Rbac
        <5>3. CASE j = "clusterRoleBinding"
          <6>1. c.state = objs[j].state
            BY <2>3, <5>1, <5>2, <5>3 DEF Lawful, ChildInv, OwnerInv
          <6>. QED BY <1>1, <2>3, <5>1, <5>3, <6>1 DEF OwnerInv, TypeOK, ClusterTypeOK
        <5>4. CASE j # "clusterRoleBinding"
          BY <1>1, <2>3, <5>1, <5>4 DEF OwnerInv, TypeOK, ClusterTypeOK
        <5>. QED BY <5>3, <5>4
      <4>3. ASSUME NEW j \in Children, Call(j)
            PROVE  objs'["clusterRoleBinding"].state # "deleting"
        <5>1. \/ objs'["clusterRoleBinding"] = objs["clusterRoleBinding"]
              \/ objs'["clusterRoleBinding"] = Desired("clusterRoleBinding")
          BY <1>1, <4>3 DEF Call, Put, Store, TypeOK, ClusterTypeOK, childVars
        <5>2. Desired("clusterRoleBinding").state # "deleting"
          BY <2>3 DEF Desired, OwnerInv
        <5>. QED BY <2>3, <5>1, <5>2 DEF OwnerInv
      <4>. QED BY <4>1, <4>2, <4>3, ObjsMove
    <3>. QED BY <1>1, <2>3, <3>1, CacheMoves DEF OwnerInv
  <2>4. pc' = "delete" => todo' \subseteq Internals \cup {"deployment"}
    <3>1. "delete" \notin Creation /\ "delete" # "status"
      BY DEF Creation
    <3>. QED BY <1>3, <3>1 DEF Creating, Clearing, Leaving, localVars, OwnerInv
  <2>5. ASSUME NEW k \in Lasting, Shown(k)' PROVE Own(k)'
    <3>1. CASE cache'[k] = objs'[k]
      BY <2>5, <3>1 DEF Shown, Own
    <3>2. CASE cache'[k] = cache[k]
      <4>1. Shown(k)
        BY <2>1, <2>5, <3>2 DEF Shown
      <4>. QED BY <1>3, <4>1, OwnStays DEF Shown, OwnerInv
    <3>. QED BY <1>1, <3>1, <3>2, CacheMoves
  <2>. QED BY <2>1, <2>2, <2>3, <2>4, <2>5 DEF OwnerInv
<1>. QED BY <1>2, <1>3, AnyStep DEF Creating, Clearing, Leaving

-----------------------------------------------------------------------------
(* The versions                                                            *)

\* Every step keeps VersionInv.
LEMMA VersionInvKeeps ==
  ASSUME TypeOK, HostInv, UidInv, BoundInv, VersionInv, [Next]_vars
  PROVE  VersionInv'
<1>0. /\ host \in HostRecord /\ hostCache \in HostRecord /\ work \in HostRecord
      /\ lastUid \in Nat
  BY DEF TypeOK, ClusterTypeOK, KDexHostTypeOK
<1>a. {"status", "idle", "addFinalizer"} \cap Creation = {} /\ Creation \cap Teardown = {}
  BY DEF Creation, Teardown
<1>1. CASE UNCHANGED hostVars /\ UNCHANGED localVars
  BY <1>1 DEF hostVars, localVars, VersionInv, Recent
<1>2. CASE Creating \/ Clearing \/ Leaving
  BY <1>2, <1>a DEF Creating, Clearing, Leaving, hostVars, VersionInv, Recent, Teardown
<1>3. CASE CreateHost /\ UNCHANGED localVars
  <2>1. /\ host.uid = 0 /\ UNCHANGED <<hostCache, pc, work, fresh>>
        /\ host'.uid = lastUid + 1 /\ host'.observed = 0 /\ host'.generation = 1
    BY <1>3 DEF CreateHost, PutHost, localVars, NoHost
  <2>2. pc \notin Creation /\ ~fresh
    BY <2>1 DEF HostInv, UidInv
  <2>3. hostCache.uid # host'.uid
    BY <1>0, <2>1 DEF BoundInv, HostRecord
  <2>. QED BY <2>1, <2>2, <2>3 DEF VersionInv
<1>4. CASE EditSpec /\ UNCHANGED localVars
  <2>1. /\ UNCHANGED <<hostCache, pc, work>> /\ ~fresh'
        /\ host'.uid = host.uid /\ host'.observed = host.observed
        /\ host'.generation = host.generation + 1
    BY <1>0, <1>4 DEF EditSpec, PutHost, localVars, HostRecord
  <2>2. ASSUME NEW h \in HostRecord, Recent(h)
        PROVE  /\ host'.observed <= h.generation /\ h.generation <= host'.generation
               /\ h.generation # host'.generation
    BY <1>0, <2>1, <2>2 DEF Recent, HostRecord
  <2>3. host'.observed <= host'.generation
    BY <1>0, <2>1 DEF VersionInv, HostRecord
  <2>. QED BY <1>0, <2>1, <2>2, <2>3 DEF VersionInv, Recent
<1>5. CASE DeleteHost /\ UNCHANGED localVars
  <2>1. UNCHANGED <<hostCache, pc, work>> /\ ~fresh'
    BY <1>5 DEF DeleteHost, PutHost, localVars
  <2>2. CASE host.finalizer
    <3>1. /\ host'.uid = host.uid /\ host'.observed = host.observed
          /\ host'.generation = host.generation + 1
      BY <1>0, <1>5, <2>2 DEF DeleteHost, PutHost, HostRecord
    <3>2. ASSUME NEW h \in HostRecord, Recent(h)
          PROVE  /\ host'.observed <= h.generation /\ h.generation <= host'.generation
                 /\ h.generation # host'.generation
      BY <1>0, <3>1, <3>2 DEF Recent, HostRecord
    <3>3. host'.observed <= host'.generation
      BY <1>0, <3>1 DEF VersionInv, HostRecord
    <3>. QED BY <1>0, <2>1, <3>1, <3>2, <3>3 DEF VersionInv, Recent
  <2>3. CASE ~host.finalizer
    <3>1. host' = NoHost
      BY <1>5, <2>3 DEF DeleteHost, PutHost
    <3>2. pc \notin Creation
      BY <2>3 DEF HostInv
    <3>. QED BY <2>1, <3>1, <3>2 DEF VersionInv, NoHost
  <2>. QED BY <2>2, <2>3
<1>6. CASE SyncHost /\ UNCHANGED localVars
  <2>1. UNCHANGED <<host, fresh, pc, work>> /\ hostCache' = host
    BY <1>6 DEF SyncHost, localVars
  <2>. QED BY <1>0, <2>1 DEF VersionInv, Recent, HostRecord
<1>7. CASE Begin
  <2>1. CASE UNCHANGED <<host, hostCache, fresh, pc, work>>
    BY <2>1 DEF VersionInv, Recent
  <2>2. CASE hostCache.uid # 0
    <3>1. /\ UNCHANGED <<host, hostCache>>
          /\ fresh' = hostSynced /\ pc' = Branch(hostCache)
      BY <1>7, <2>2, <2>1 DEF Begin, localVars
    <3>2. work'.generation = hostCache.generation /\ work'.refs = hostCache.refs
      BY <1>0, <1>7, <2>2, <2>1 DEF Begin, localVars, HostRecord
    <3>3. pc' \in Creation => Accountable(hostCache)
      BY <1>0, <2>2, <3>1 DEF Branch, Creation, Accountable, HostRecord
    <3>4. pc' \in Creation => Recent(work)'
      BY <2>2, <3>1, <3>2, <3>3 DEF HostInv, VersionInv, Recent
    <3>5. pc' # "idle"
      BY <3>1 DEF Branch
    <3>. QED BY <3>1, <3>2, <3>4, <3>5 DEF VersionInv, HostInv, Recent
  <2>. QED BY <1>7, <2>1, <2>2 DEF Begin, localVars
<1>8. CASE AddFinalizer
  <2>1. UNCHANGED <<hostCache, fresh>> /\ pc' = "status"
    BY <1>8 DEF AddFinalizer, PutHost
  <2>2. /\ host'.uid = host.uid /\ host'.observed = host.observed
        /\ host'.generation = host.generation /\ host'.refs = host.refs
        /\ work'.generation = work.generation /\ work'.refs = work.refs
    BY <1>0, <1>8 DEF AddFinalizer, PutHost, HostRecord
  <2>. QED BY <1>a, <2>1, <2>2 DEF VersionInv, Recent
<1>9. CASE UpdateStatus
  <2>1. hostCache' = hostCache /\ ~fresh' /\ pc' = "idle"
    BY <1>9 DEF UpdateStatus
  <2>2. /\ host'.uid = host.uid /\ host'.generation = host.generation
        /\ host'.refs = host.refs
        /\ \/ host'.observed = host.observed
           \/ fresh /\ host'.observed = work.generation
    BY <1>0, <1>9 DEF UpdateStatus, HostRecord
  <2>. QED BY <1>0, <1>a, <2>1, <2>2 DEF VersionInv, Recent, HostRecord
<1>10. CASE RemoveFinalizer
  <2>1. hostCache' = hostCache /\ ~fresh' /\ pc' = "status"
    BY <1>10 DEF RemoveFinalizer, PutHost, Return
  <2>2. host' = host \/ host' = NoHost
    BY <1>10 DEF RemoveFinalizer, PutHost
  <2>3. CASE host' = NoHost
    BY <1>a, <2>1, <2>3 DEF VersionInv, NoHost
  <2>4. CASE host' = host
    BY <1>a, <2>1, <2>4 DEF VersionInv, Recent
  <2>. QED BY <2>2, <2>3, <2>4
<1>11. CASE Restart
  <2>1. host' = host /\ hostCache' = host /\ ~fresh' /\ pc' = "idle"
    BY <1>11 DEF Restart
  <2>. QED BY <1>0, <1>a, <2>1 DEF VersionInv, Recent, HostRecord
<1>. QED BY <1>1, <1>2, <1>3, <1>4, <1>5, <1>6, <1>7, <1>8, <1>9, <1>10, <1>11, AnyStep
         DEF HostAction

-----------------------------------------------------------------------------
(* What is in place                                                        *)

\* The call that writes the internal host leaves it with what it was told.
LEMMA CallTells ==
  ASSUME TypeOK, TearInv, "internalHost" \notin Lagging, Call("internalHost")
  PROVE  /\ objs'["internalHost"].generation = work.generation
         /\ objs'["internalHost"].refs = made
<1>1. "internalHost" \in Children
  BY SecureSets
<1>2. objs'["internalHost"] = Desired("internalHost")
  <2>1. cache["internalHost"] = objs["internalHost"]
    BY <1>1 DEF TearInv
  <2>. QED BY <1>1, <2>1 DEF Call, Put, Store, TypeOK, ClusterTypeOK, childVars
<1>. QED BY <1>2 DEF Desired

\* No other step tells an internal host that stays anything new.
LEMMA TellsNothing ==
  ASSUME TypeOK, [Next]_vars, objs'["internalHost"].state # "none",
         pc # "internalHost" \/ ~Call("internalHost")
  PROVE  /\ objs'["internalHost"].generation = objs["internalHost"].generation
         /\ objs'["internalHost"].refs = objs["internalHost"].refs
<1>1. "internalHost" \in Children
  BY SecureSets
<1>2. CASE LawfulPut
  <2>1. PICK j \in Children, c \in ChildRecord :
          objs' = [objs EXCEPT ![j] = c] /\ Lawful(j, c)
    BY <1>2 DEF LawfulPut, Put, Store
  <2>. QED BY <1>1, <2>1 DEF Lawful, TypeOK, ClusterTypeOK
<1>3. ASSUME NEW j \in Children, Call(j), j # "internalHost"
      PROVE  objs'["internalHost"] = objs["internalHost"]
  BY <1>1, <1>3 DEF Call, Put, Store, TypeOK, ClusterTypeOK, childVars
<1>. QED BY <1>2, <1>3, ObjsMove

\* What is in place stays so while the host is not deleted.
LEMMA PlacedStays ==
  ASSUME TypeOK, HostInv, ChildInv, TearInv, PastInv, CopyInv, OwnerInv,
         "internalHost" \notin Lagging \cup Removable, [Next]_vars, UNCHANGED hostVars,
         host.uid # 0, ~host.deleting,
         NEW g \in Nat, Placed(g), pc \in Creation => work.generation >= g
  PROVE  Placed(g)'
<1>1. \A k \in Lasting : Own(k)'
  BY OwnStays DEF Placed
<1>2. "internalHost" \in Lasting
  BY DEF Lasting
<1>3. objs'["internalHost"].generation >= g
  <2>1. CASE Call("internalHost")
    BY <2>1, CallTells DEF Call
  <2>2. CASE ~Call("internalHost")
    BY <1>1, <1>2, <2>2, TellsNothing DEF Own, Placed
  <2>. QED BY <2>1, <2>2
<1>. QED BY <1>1, <1>3 DEF Placed

\* At its end creation has everything in place.
LEMMA CreationPlaces ==
  ASSUME TypeOK, HostInv, ChildInv, TearInv, PastInv, CopyInv, OwnerInv, PlaceInv,
         "internalHost" \notin Lagging \cup Removable, [Next]_vars, UNCHANGED hostVars,
         ~host.deleting, pc = "internalHost", Call("internalHost")
  PROVE  /\ \A k \in Lasting : Own(k)'
         /\ objs'["internalHost"].generation >= work.generation
<1>0. work.generation \in Nat
  BY DEF TypeOK, KDexHostTypeOK, HostRecord
<1>1. host.uid # 0 /\ UNCHANGED host
  BY DEF Call, HostInv, hostVars
<1>2. \A k \in Lasting : k \in Behind("internalHost") \/ k = "internalHost"
  BY DEF Lasting, Behind
<1>3. "internalHost" \in Lasting
  BY DEF Lasting
<1>4. \A k \in Lasting : k # "internalHost" => Own(k)
  BY <1>2 DEF PlaceInv, Call
<1>5. Own("internalHost")'
  BY <1>1, <1>3, CallOwns
<1>6. \A k \in Lasting : Own(k)'
  BY <1>1, <1>4, <1>5, OwnStays
<1>7. objs'["internalHost"].generation >= work.generation
  BY <1>0, CallTells
<1>. QED BY <1>6, <1>7

\* Every step keeps PlaceInv.
LEMMA PlaceInvKeeps ==
  ASSUME TypeOK, HostInv, ChildInv, TearInv, UidInv, PastInv, CopyInv, OwnerInv, VersionInv,
         PlaceInv, "internalHost" \notin Lagging \cup Removable, [Next]_vars
  PROVE  PlaceInv'
<1>0. /\ host \in HostRecord /\ hostCache \in HostRecord /\ work \in HostRecord
      /\ host.observed \in Nat /\ work.generation \in Nat
  BY DEF TypeOK, ClusterTypeOK, KDexHostTypeOK, HostRecord
<1>a. /\ {"status", "idle", "addFinalizer", "tearInternalHost"} \cap Creation = {}
      /\ Creation \cap Teardown = {} /\ {"status", "addFinalizer"} \cap Teardown = {}
  BY DEF Creation, Teardown
<1>1. CASE UNCHANGED hostVars /\ (UNCHANGED localVars \/ Creating \/ Clearing \/ Leaving)
  <2>1. host' = host /\ fresh' = fresh
    BY <1>1 DEF hostVars
  <2>2. \A k \in Lasting : Own(k) /\ host.uid # 0 /\ ~host.deleting => Own(k)'
    BY <1>1, OwnStays
  <2>3. ASSUME NEW g \in Nat, Placed(g), host.uid # 0, ~host.deleting,
               pc \in Creation => work.generation >= g
        PROVE  /\ \A k \in Lasting : Own(k)'
               /\ objs'["internalHost"].generation >= g
    <3>1. Placed(g)'
      BY <1>1, <2>3, PlacedStays
    <3>. QED BY <3>1 DEF Placed
  <2>4. host.ready = "True" /\ ~host.deleting => Placed(host.observed)'
    <3>. SUFFICES ASSUME host.ready = "True", ~host.deleting PROVE Placed(host.observed)'
      OBVIOUS
    <3>1. host.uid # 0 /\ Placed(host.observed)
      BY DEF PlaceInv, UidInv
    <3>2. pc \in Creation => work.generation >= host.observed
      BY <1>0 DEF VersionInv, Recent, HostRecord
    <3>. QED BY <1>0, <2>1, <2>3, <3>1, <3>2 DEF Placed
  <2>5. CASE UNCHANGED localVars
    <3>1. pc' = pc /\ work' = work
      BY <2>5 DEF localVars
    <3>2. ASSUME pc = "status", fresh, work.ready = "True", ~host.deleting
          PROVE  Placed(work.generation)'
      <4>1. Placed(work.generation) /\ host.uid # 0
        BY <3>2 DEF PlaceInv, UidInv
      <4>. QED BY <1>0, <1>a, <2>3, <3>1, <3>2, <4>1 DEF Placed
    <3>3. pc \in Creation /\ ~host.deleting => \A k \in Lasting \cap Behind(pc) : Own(k)'
      BY <2>2 DEF PlaceInv, HostInv
    <3>. QED BY <2>1, <2>4, <3>1, <3>2, <3>3 DEF PlaceInv
  <2>6. CASE Creating
    <3>1. pc \in Creation /\ work.ready # "True" /\ host.finalizer /\ host.uid # 0
          /\ work'.generation = work.generation
      BY <2>6 DEF Creating, PlaceInv, HostInv
    <3>2. CASE pc' \in Creation
      <4>1. work'.ready # "True"
        BY <1>a, <2>6, <3>1, <3>2 DEF Creating
      <4>2. ASSUME ~host.deleting, NEW k \in Lasting \cap Behind(pc') PROVE Own(k)'
        <5>1. CASE k \in Behind(pc)
          BY <2>2, <3>1, <4>2, <5>1 DEF PlaceInv
        <5>2. CASE k \notin Behind(pc)
          <6>1. Call(k)
            BY <1>a, <2>6, <3>2, <4>2, <5>2 DEF Creating
          <6>. QED BY <2>1, <4>2, <6>1, CallOwns
        <5>. QED BY <5>1, <5>2
      <4>. QED BY <1>a, <2>1, <2>4, <3>1, <3>2, <4>1, <4>2 DEF PlaceInv
    <3>3. CASE pc' = "status"
      <4>1. ASSUME work'.ready = "True", ~host.deleting PROVE Placed(work.generation)'
        <5>1. pc = "internalHost" /\ Call("internalHost")
          BY <1>a, <2>6, <3>1, <3>3, <4>1 DEF Creating
        <5>. QED BY <1>1, <3>1, <4>1, <5>1, CreationPlaces DEF Placed
      <4>. QED BY <1>a, <2>1, <2>4, <3>1, <3>3, <4>1 DEF PlaceInv, Placed
    <3>. QED BY <2>6, <3>2, <3>3 DEF Creating
  <2>7. CASE Clearing
    BY <1>a, <2>1, <2>4, <2>7 DEF Clearing, PlaceInv
  <2>8. CASE Leaving
    <3>1. fresh /\ work'.ready = "True" => host.deleting /\ host.finalizer
      BY <2>8 DEF Leaving, PlaceInv, HostInv
    <3>. QED BY <1>a, <2>1, <2>4, <2>8, <3>1 DEF Leaving, PlaceInv
  <2>. QED BY <1>1, <2>5, <2>6, <2>7, <2>8
<1>2. ASSUME UNCHANGED objs, host'.uid = host.uid
      PROVE  /\ \A k \in Lasting : Own(k)' <=> Own(k)
             /\ \A g \in Nat : Placed(g) => /\ \A k \in Lasting : Own(k)'
                                           /\ objs'["internalHost"].generation >= g
  BY <1>2 DEF Own, Placed
<1>3. CASE CreateHost /\ UNCHANGED localVars
  <2>1. /\ host.uid = 0 /\ UNCHANGED <<pc, fresh>> /\ host'.ready = "unset"
    BY <1>3 DEF CreateHost, PutHost, localVars, NoHost
  <2>2. pc \notin Creation /\ ~fresh
    BY <2>1 DEF HostInv, UidInv
  <2>. QED BY <2>1, <2>2 DEF PlaceInv
<1>4. CASE EditSpec /\ UNCHANGED localVars
  <2>1. /\ UNCHANGED <<pc, work, objs>> /\ ~fresh'
        /\ host'.uid = host.uid /\ host'.observed = host.observed
        /\ host'.deleting = host.deleting /\ host'.finalizer = host.finalizer
        /\ host'.ready = host.ready
    BY <1>0, <1>4 DEF EditSpec, PutHost, localVars, childVars, HostRecord
  <2>. QED BY <1>0, <1>2, <2>1 DEF PlaceInv, Placed
<1>5. CASE DeleteHost /\ UNCHANGED localVars
  <2>1. UNCHANGED <<pc, work, objs>> /\ ~fresh'
    BY <1>5 DEF DeleteHost, PutHost, localVars, childVars
  <2>2. CASE host.finalizer
    <3>1. /\ host'.uid = host.uid /\ host'.deleting
          /\ host'.finalizer = host.finalizer /\ host'.ready = host.ready
      BY <1>0, <1>5, <2>2 DEF DeleteHost, PutHost, HostRecord
    <3>. QED BY <2>1, <3>1 DEF PlaceInv
  <2>3. CASE ~host.finalizer
    <3>1. host' = NoHost /\ pc \notin Creation
      BY <1>5, <2>3 DEF DeleteHost, PutHost, HostInv
    <3>. QED BY <2>1, <3>1 DEF PlaceInv, NoHost
  <2>. QED BY <2>2, <2>3
<1>6. CASE SyncHost /\ UNCHANGED localVars
  <2>1. UNCHANGED <<host, fresh, pc, work, objs>>
    BY <1>6 DEF SyncHost, localVars, childVars
  <2>. QED BY <2>1 DEF PlaceInv, Placed, Own
<1>7. CASE Begin
  <2>1. UNCHANGED <<host, objs>> /\ pc = "idle"
    BY <1>7 DEF Begin, childVars
  <2>2. CASE UNCHANGED <<fresh, pc, work>>
    BY <2>1, <2>2 DEF PlaceInv, Placed, Own
  <2>3. CASE hostCache.uid # 0 /\ fresh' = hostSynced /\ pc' = Branch(hostCache)
    <3>1. \/ pc' = "utilityPages" /\ work'.ready = "Unknown"
          \/ pc' # "utilityPages" /\ work' = hostCache
      BY <1>0, <1>7, <2>1, <2>3 DEF Begin, localVars, HostRecord
    <3>2. pc' \in {"utilityPages", "addFinalizer", "status", "tearInternalHost"}
      BY <2>3 DEF Branch
    <3>3. pc' = "addFinalizer" => ~hostCache.finalizer
      BY <1>0, <2>3 DEF Branch, HostRecord
    <3>4. pc' = "status" => hostCache.deleting
      BY <1>0, <2>3 DEF Branch, HostRecord
    <3>5. fresh' => hostCache = host
      BY <2>3 DEF HostInv
    <3>6. Behind("utilityPages") = {}
      BY DEF Behind
    <3>7. host.ready = "True" /\ ~host.deleting => Placed(host.observed)'
      BY <2>1 DEF PlaceInv, Placed, Own
    <3>. QED BY <1>a, <2>1, <3>1, <3>2, <3>3, <3>4, <3>5, <3>6, <3>7 DEF PlaceInv
  <2>. QED BY <1>7, <2>2, <2>3 DEF Begin, localVars
<1>8. CASE AddFinalizer
  <2>1. UNCHANGED <<fresh, objs>> /\ pc' = "status" /\ pc = "addFinalizer"
    BY <1>8 DEF AddFinalizer, PutHost, childVars
  <2>2. /\ host'.uid = host.uid /\ host'.observed = host.observed
        /\ host'.deleting = host.deleting /\ host'.ready = host.ready
        /\ host.finalizer => host'.finalizer
        /\ work'.ready = work.ready
    BY <1>0, <1>8 DEF AddFinalizer, PutHost, HostRecord
  <2>. QED BY <1>0, <1>a, <1>2, <2>1, <2>2 DEF PlaceInv, Placed
<1>9. CASE UpdateStatus
  <2>1. UNCHANGED objs /\ ~fresh' /\ pc' = "idle" /\ pc = "status"
    BY <1>9 DEF UpdateStatus, childVars
  <2>2. /\ host'.uid = host.uid /\ host'.deleting = host.deleting
        /\ host'.finalizer = host.finalizer
        /\ \/ host'.observed = host.observed /\ host'.ready = host.ready
           \/ fresh /\ host'.observed = work.generation /\ host'.ready = work.ready
    BY <1>0, <1>9 DEF UpdateStatus, HostRecord
  <2>. QED BY <1>0, <1>a, <1>2, <2>1, <2>2 DEF PlaceInv, Placed
<1>10. CASE RemoveFinalizer
  <2>1. UNCHANGED objs /\ ~fresh' /\ pc' = "status"
    BY <1>10 DEF RemoveFinalizer, PutHost, Return, childVars
  <2>2. host' = host \/ host' = NoHost
    BY <1>10 DEF RemoveFinalizer, PutHost
  <2>3. CASE host' = NoHost
    BY <1>a, <2>1, <2>3 DEF PlaceInv, NoHost
  <2>4. CASE host' = host
    BY <1>a, <2>1, <2>4 DEF PlaceInv, Placed, Own
  <2>. QED BY <2>2, <2>3, <2>4
<1>11. CASE Restart
  <2>1. host' = host /\ objs' = objs /\ ~fresh' /\ pc' = "idle"
    BY <1>11 DEF Restart
  <2>. QED BY <1>a, <2>1 DEF PlaceInv, Placed, Own
<1>. QED BY <1>1, <1>3, <1>4, <1>5, <1>6, <1>7, <1>8, <1>9, <1>10, <1>11, AnyStep
         DEF HostAction, Creating, Clearing, Leaving

-----------------------------------------------------------------------------
(* What is served                                                          *)

\* The pages and translations a host names, and those creation has yet to come to.
Named(h) == h.refs \cap (Pages \cup Translations)

Coming ==
  CASE pc = "utilityPages" -> todo \cup Translations
    [] pc = "direct"       -> Translations
    [] pc = "translations" -> todo
    [] OTHER               -> {}

\* Creation leaves out none of them, and who is or is going to be Ready has them.
ServeInv ==
  /\ host.refs \subseteq Choices /\ hostCache.refs \subseteq Choices
  /\ pc \in Creation => work.refs \subseteq Choices /\ Named(work) \subseteq made \cup Coming
  /\ pc = "status" /\ fresh /\ work.ready = "True" /\ ~host.deleting =>
       Named(host) \subseteq objs["internalHost"].refs
  /\ ServesWhatItNames

\* A call of creation is done with what the internal host is told, or with a default.
LEMMA CreationCarries ==
  ASSUME TypeOK, work.refs \subseteq Choices, Named(work) \subseteq made \cup Coming,
         pc' \in Creation,
         \/ \E p \in Pages : ResolvePage(p)
         \/ \E r \in Direct : ResolveDirect(r)
         \/ \E t \in Translations : ResolveTranslation(t)
         \/ PagesResolved \/ DirectResolved \/ TranslationsResolved
         \/ CreateConfigMap \/ CreateServiceAccount \/ CreateClusterRoleBinding
         \/ CreateDeployment \/ CreateService \/ AwaitDeployment \/ CreateInternalHost
  PROVE  Named(work) \subseteq made' \cup Coming'
<1>0. "status" \notin Creation
  BY DEF Creation
<1>1. ASSUME NEW x, NEW b, Return(x, b) PROVE FALSE
  BY <1>0, <1>1 DEF Return
<1>2. ASSUME NEW p \in Pages, ResolvePage(p) PROVE Named(work) \subseteq made' \cup Coming'
  <2>1. pc = "utilityPages" /\ pc' = pc /\ todo' = todo \ {p}
        /\ (made' = made \cup {p} \/ (made' = made /\ p \in DefaultPages))
    BY <1>1, <1>2 DEF ResolvePage, SkipMissing, Panic, Copied, Ensure
  <2>2. p \in DefaultPages => p \notin Named(work)
    BY DEF Named, Choices
  <2>. QED BY <2>1, <2>2 DEF Coming
<1>3. ASSUME NEW r \in Direct, ResolveDirect(r) PROVE Named(work) \subseteq made' \cup Coming'
  BY <1>1, <1>3 DEF ResolveDirect, Panic, Coming
<1>4. ASSUME NEW t \in Translations, ResolveTranslation(t)
      PROVE  Named(work) \subseteq made' \cup Coming'
  <2>1. pc = "translations" /\ pc' = pc /\ todo' = todo \ {t}
        /\ (made' = made \cup {t} \/ (made' = made /\ t = DefaultTranslation))
    BY <1>1, <1>4 DEF ResolveTranslation, SkipMissing, Copied, Ensure
  <2>2. t = DefaultTranslation => t \notin Named(work)
    BY DEF Named, Choices
  <2>. QED BY <2>1, <2>2 DEF Coming
<1>5. CASE PagesResolved \/ DirectResolved \/ TranslationsResolved
  BY <1>5 DEF PagesResolved, DirectResolved, TranslationsResolved, Goto, Coming, Named
<1>6. CASE \/ CreateConfigMap \/ CreateServiceAccount \/ CreateClusterRoleBinding
           \/ CreateDeployment \/ CreateService \/ AwaitDeployment \/ CreateInternalHost
  BY <1>1, <1>6 DEF CreateConfigMap, CreateServiceAccount, CreateClusterRoleBinding,
                    CreateDeployment, CreateService, AwaitDeployment, CreateInternalHost,
                    Ensure, Goto, Coming
<1>. QED BY <1>2, <1>3, <1>4, <1>5, <1>6

\* A step that stays in creation is such a call, or leaves the reconcile alone.
LEMMA CreationStays ==
  ASSUME TypeOK, [Next]_vars, pc \in Creation, pc' \in Creation,
         work.refs \subseteq Choices, Named(work) \subseteq made \cup Coming
  PROVE  Named(work) \subseteq made' \cup Coming'
<1>1. /\ {"idle", "status", "addFinalizer"} \cap Creation = {} /\ Creation \cap Teardown = {}
      /\ "removeFinalizer" \in Teardown /\ "delete" \in Teardown
      /\ {"releaseClusterRoleBinding", "releaseServiceAccount"} \subseteq Teardown
      /\ {"tearInternalHost", "tearPages", "tearTranslations", "tearDeployment"}
           \subseteq Teardown
  BY DEF Creation, Teardown
<1>2. ASSUME UNCHANGED localVars PROVE Named(work) \subseteq made' \cup Coming'
  BY <1>2 DEF localVars, Coming
<1>3. CASE UNCHANGED vars
  BY <1>2, <1>3 DEF vars
<1>4. CASE Users \/ Controllers \/ Deliver
  BY <1>2, <1>4 DEF Users, Controllers, Deliver
<1>5. ~(Begin \/ AddFinalizer \/ UpdateStatus \/ RemoveFinalizer \/ Fail \/ Restart)
  BY <1>1 DEF Begin, AddFinalizer, UpdateStatus, RemoveFinalizer, Fail, Restart, Return
<1>6. ~(\/ TearInternalHost \/ TearPages \/ TearTranslations \/ TearDeployment \/ DeleteNext
        \/ ReleaseClusterRoleBinding \/ ReleaseServiceAccount)
  BY <1>1 DEF TearInternalHost, TearPages, TearTranslations, TearDeployment, DeleteNext,
              ReleaseClusterRoleBinding, ReleaseServiceAccount
<1>. QED BY <1>3, <1>4, <1>5, <1>6, CreationCarries DEF Next, Reconcile

\* Every step keeps ServeInv.
LEMMA ServeInvKeeps ==
  ASSUME TypeOK, HostInv, ChildInv, TearInv, UidInv, PastInv, CopyInv, OwnerInv, VersionInv,
         PlaceInv, ServeInv, "internalHost" \notin Lagging \cup Removable, [Next]_vars
  PROVE  ServeInv'
<1>0. /\ host \in HostRecord /\ hostCache \in HostRecord /\ work \in HostRecord
      /\ host.observed \in Nat /\ host.generation \in Nat /\ work.generation \in Nat
  BY DEF TypeOK, ClusterTypeOK, KDexHostTypeOK, HostRecord
<1>a. /\ {"status", "idle", "addFinalizer", "tearInternalHost"} \cap Creation = {}
      /\ Creation \cap Teardown = {} /\ {"status", "addFinalizer"} \cap Teardown = {}
  BY DEF Creation, Teardown
<1>b. "internalHost" \in Lasting
  BY DEF Lasting
<1>1. CASE UNCHANGED hostVars /\ (UNCHANGED localVars \/ Creating \/ Clearing \/ Leaving)
  <2>1. host' = host /\ hostCache' = hostCache /\ fresh' = fresh
    BY <1>1 DEF hostVars
  <2>2. ASSUME host.uid # 0, ~host.deleting, Own("internalHost"),
               Named(host) \subseteq objs["internalHost"].refs,
               pc \in Creation => work.refs = host.refs
        PROVE  Named(host) \subseteq objs'["internalHost"].refs
    <3>1. objs'["internalHost"].state # "none"
      BY <1>1, <1>b, <2>2, OwnStays DEF Own
    <3>2. CASE pc = "internalHost" /\ Call("internalHost")
      BY <2>2, <3>2, CallTells DEF Call, ServeInv, Named, Coming
    <3>. QED BY <2>2, <3>1, <3>2, TellsNothing
  <2>3. ASSUME host.ready = "True", ~host.deleting, host.observed = host.generation
        PROVE  Named(host) \subseteq objs'["internalHost"].refs
    <3>1. host.uid # 0 /\ Own("internalHost")
      BY <1>b, <2>3 DEF PlaceInv, UidInv, Placed
    <3>2. pc \in Creation => work.refs = host.refs
      BY <1>0, <2>3 DEF VersionInv, Recent
    <3>. QED BY <2>2, <2>3, <3>1, <3>2 DEF ServeInv, ServesWhatItNames, Named
  <2>4. ServesWhatItNames'
    BY <2>1, <2>3 DEF ServesWhatItNames, Named
  <2>5. CASE UNCHANGED localVars
    <3>1. pc' = pc /\ work' = work /\ todo' = todo /\ made' = made
      BY <2>5 DEF localVars
    <3>2. ASSUME pc = "status", fresh, work.ready = "True", ~host.deleting
          PROVE  Named(host) \subseteq objs'["internalHost"].refs
      <4>1. host.uid # 0 /\ Own("internalHost")
        BY <1>b, <3>2 DEF PlaceInv, UidInv, Placed
      <4>. QED BY <1>a, <2>2, <3>2, <4>1 DEF ServeInv
    <3>. QED BY <2>1, <2>4, <3>1, <3>2 DEF ServeInv, Named, Coming
  <2>6. CASE Creating
    <3>1. pc \in Creation /\ work.ready # "True" /\ work'.refs = work.refs
      BY <2>6 DEF Creating, PlaceInv
    <3>2. CASE pc' \in Creation
      <4>1. Named(work) \subseteq made' \cup Coming'
        <5>1. work.refs \subseteq Choices /\ Named(work) \subseteq made \cup Coming
          BY <3>1 DEF ServeInv
        <5>. QED BY <3>1, <3>2, <5>1, CreationStays
      <4>. QED BY <1>a, <2>1, <2>4, <3>1, <3>2, <4>1 DEF ServeInv, Named
    <3>3. CASE pc' = "status"
      <4>1. ASSUME fresh, work'.ready = "True"
            PROVE  Named(host) \subseteq objs'["internalHost"].refs
        <5>1. pc = "internalHost" /\ Call("internalHost")
          BY <1>a, <2>6, <3>1, <3>3, <4>1 DEF Creating
        <5>2. work.refs = host.refs
          BY <4>1 DEF VersionInv
        <5>. QED BY <3>1, <5>1, <5>2, CallTells DEF ServeInv, Named, Coming
      <4>. QED BY <1>a, <2>1, <2>4, <3>3, <4>1 DEF ServeInv
    <3>. QED BY <2>6, <3>2, <3>3 DEF Creating
  <2>7. CASE Clearing
    BY <1>a, <2>1, <2>4, <2>7 DEF Clearing, ServeInv
  <2>8. CASE Leaving
    <3>1. fresh /\ work'.ready = "True" => host.deleting
      BY <2>8 DEF Leaving, PlaceInv, HostInv
    <3>. QED BY <1>a, <2>1, <2>4, <2>8, <3>1 DEF Leaving, ServeInv
  <2>. QED BY <1>1, <2>5, <2>6, <2>7, <2>8
<1>3. CASE CreateHost /\ UNCHANGED localVars
  <2>1. /\ host.uid = 0 /\ UNCHANGED <<hostCache, pc, fresh>>
        /\ host'.ready = "unset" /\ host'.refs \subseteq Choices
    BY <1>3 DEF CreateHost, PutHost, localVars, NoHost
  <2>2. pc \notin Creation /\ ~fresh
    BY <2>1 DEF HostInv, UidInv
  <2>. QED BY <2>1, <2>2 DEF ServeInv, ServesWhatItNames
<1>4. CASE EditSpec /\ UNCHANGED localVars
  <2>1. /\ UNCHANGED <<hostCache, pc, work, todo, made>> /\ ~fresh'
        /\ host'.refs \subseteq Choices
        /\ host'.observed = host.observed /\ host'.generation = host.generation + 1
    BY <1>0, <1>4 DEF EditSpec, PutHost, localVars, HostRecord
  <2>2. host'.observed # host'.generation
    BY <1>0, <2>1 DEF VersionInv
  <2>. QED BY <2>1, <2>2 DEF ServeInv, ServesWhatItNames, Named, Coming
<1>5. CASE DeleteHost /\ UNCHANGED localVars
  <2>1. UNCHANGED <<hostCache, pc, work, todo, made>> /\ ~fresh'
    BY <1>5 DEF DeleteHost, PutHost, localVars
  <2>2. /\ host'.refs \subseteq host.refs
        /\ host'.deleting \/ host'.ready # "True"
    <3>1. CASE host.finalizer
      BY <1>0, <1>5, <3>1 DEF DeleteHost, PutHost, HostRecord
    <3>2. CASE ~host.finalizer
      BY <1>5, <3>2 DEF DeleteHost, PutHost, NoHost
    <3>. QED BY <3>1, <3>2
  <2>. QED BY <2>1, <2>2 DEF ServeInv, ServesWhatItNames, Named, Coming
<1>6. CASE SyncHost /\ UNCHANGED localVars
  <2>1. UNCHANGED <<host, fresh, pc, work, todo, made, objs>> /\ hostCache' = host
    BY <1>6 DEF SyncHost, localVars, childVars
  <2>. QED BY <2>1 DEF ServeInv, ServesWhatItNames, Named, Coming
<1>7. CASE Begin
  <2>1. UNCHANGED <<host, hostCache, objs>> /\ pc = "idle"
    BY <1>7 DEF Begin, childVars
  <2>2. ServesWhatItNames'
    BY <2>1 DEF ServeInv, ServesWhatItNames
  <2>3. CASE UNCHANGED <<fresh, pc, work>>
    BY <1>a, <2>1, <2>2, <2>3 DEF ServeInv
  <2>4. CASE hostCache.uid # 0 /\ fresh' = hostSynced /\ pc' = Branch(hostCache)
    <3>1. pc' \in {"utilityPages", "addFinalizer", "status", "tearInternalHost"}
      BY <2>4 DEF Branch
    <3>2. CASE pc' = "utilityPages"
      <4>1. /\ work'.refs = hostCache.refs
            /\ todo' = (hostCache.refs \cap Pages) \cup DefaultPages
        BY <1>0, <1>7, <2>1, <2>4, <3>2 DEF Begin, localVars, HostRecord
      <4>2. Coming' = todo' \cup Translations
        BY <3>2 DEF Coming
      <4>. QED BY <2>1, <2>2, <3>2, <4>1, <4>2 DEF ServeInv, Named
    <3>3. CASE pc' # "utilityPages"
      <4>1. pc' = "status" => hostCache.deleting
        BY <1>0, <2>4 DEF Branch, HostRecord
      <4>2. fresh' => hostCache = host
        BY <2>4 DEF HostInv
      <4>. QED BY <1>a, <2>1, <2>2, <3>1, <3>3, <4>1, <4>2 DEF ServeInv
    <3>. QED BY <3>2, <3>3
  <2>. QED BY <1>7, <2>3, <2>4 DEF Begin, localVars
<1>8. CASE AddFinalizer
  <2>1. UNCHANGED <<hostCache, fresh, objs>> /\ pc' = "status" /\ pc = "addFinalizer"
    BY <1>8 DEF AddFinalizer, PutHost, childVars
  <2>2. /\ host'.refs = host.refs /\ host'.observed = host.observed
        /\ host'.generation = host.generation
        /\ host'.deleting = host.deleting /\ host'.ready = host.ready
        /\ work'.ready = work.ready
    BY <1>0, <1>8 DEF AddFinalizer, PutHost, HostRecord
  <2>. QED BY <1>a, <2>1, <2>2 DEF ServeInv, ServesWhatItNames, PlaceInv
<1>9. CASE UpdateStatus
  <2>1. UNCHANGED <<hostCache, objs>> /\ ~fresh' /\ pc' = "idle" /\ pc = "status"
    BY <1>9 DEF UpdateStatus, childVars
  <2>2. /\ host'.refs = host.refs /\ host'.deleting = host.deleting
        /\ host'.generation = host.generation
        /\ \/ host'.observed = host.observed /\ host'.ready = host.ready
           \/ fresh /\ host'.ready = work.ready
    BY <1>0, <1>9 DEF UpdateStatus, HostRecord
  <2>. QED BY <1>a, <2>1, <2>2 DEF ServeInv, ServesWhatItNames, Named
<1>10. CASE RemoveFinalizer
  <2>1. UNCHANGED <<hostCache, objs>> /\ ~fresh' /\ pc' = "status"
    BY <1>10 DEF RemoveFinalizer, PutHost, Return, childVars
  <2>2. host' = host \/ host' = NoHost
    BY <1>10 DEF RemoveFinalizer, PutHost
  <2>3. CASE host' = NoHost
    BY <1>a, <2>1, <2>3 DEF ServeInv, ServesWhatItNames, NoHost
  <2>4. CASE host' = host
    BY <1>a, <2>1, <2>4 DEF ServeInv, ServesWhatItNames
  <2>. QED BY <2>2, <2>3, <2>4
<1>11. CASE Restart
  <2>1. host' = host /\ hostCache' = host /\ objs' = objs /\ ~fresh' /\ pc' = "idle"
    BY <1>11 DEF Restart
  <2>. QED BY <1>a, <2>1 DEF ServeInv, ServesWhatItNames
<1>. QED BY <1>1, <1>3, <1>4, <1>5, <1>6, <1>7, <1>8, <1>9, <1>10, <1>11, AnyStep
         DEF HostAction, Creating, Clearing, Leaving

-----------------------------------------------------------------------------
(* The theorems                                                            *)

ReadyInv == BoundInv /\ OwnerInv /\ VersionInv /\ PlaceInv

\* The initial states are in the invariants.
LEMMA InitReady == Init => ChildInv /\ ReadyInv /\ ServeInv
<1>. SUFFICES ASSUME Init PROVE ChildInv /\ ReadyInv /\ ServeInv
  OBVIOUS
<1>1. {"idle"} \cap Creation = {} /\ "clusterRoleBinding" \in Children
  BY DEF Creation, Children, Rbac
<1>2. /\ host = NoHost /\ hostCache = NoHost /\ pc = "idle" /\ fresh = FALSE /\ lastUid = 0
      /\ \A k \in Children : objs[k] = NoChild /\ cache[k] = NoChild
      /\ synced = Children /\ cache = objs
  BY DEF Init, ClusterInit
<1>3. ChildInv
  BY <1>1, <1>2 DEF ChildInv, NoChild
<1>4. BoundInv
  BY <1>2 DEF BoundInv, NoHost, NoChild
<1>5. OwnerInv
  BY <1>1, <1>2, LastingSets DEF OwnerInv, Shown, NoHost, NoChild
<1>6. VersionInv
  BY <1>1, <1>2 DEF VersionInv, NoHost
<1>7. PlaceInv
  BY <1>1, <1>2 DEF PlaceInv, NoHost
<1>8. ServeInv
  BY <1>1, <1>2 DEF ServeInv, ServesWhatItNames, NoHost
<1>. QED BY <1>3, <1>4, <1>5, <1>6, <1>7, <1>8 DEF ReadyInv

\* So are all that follow.
LEMMA ReadyInvKeeps ==
  ASSUME "internalHost" \notin Lagging \cup Removable, TypeOK, HostInv, ChildInv, TearInv,
         UidInv, LifeInv, ReadyInv, ServeInv, [Next]_vars
  PROVE  (HostInv /\ ChildInv /\ TearInv /\ UidInv /\ LifeInv /\ ReadyInv /\ ServeInv)'
<1>1. HostInv' /\ TearInv' /\ UidInv' /\ LifeInv'
  BY HostInvKeeps, TearInvKeeps, UidInvKeeps, LifeInvKeeps
<1>2. ChildInv'
  BY AnyChildStep, ChildInvKeeps
<1>3. PastInv /\ CopyInv
  BY DEF LifeInv
<1>4. BoundInv' /\ OwnerInv' /\ VersionInv' /\ PlaceInv' /\ ServeInv'
  BY <1>3, BoundInvKeeps, OwnerInvKeeps, VersionInvKeeps, PlaceInvKeeps, ServeInvKeeps
     DEF ReadyInv
<1>. QED BY <1>1, <1>2, <1>4 DEF ReadyInv

\* A host whose status says Ready has every child nobody else deletes, for this
\* incarnation of it, and an internal host that got a spec at least that recent:
\* whatever the other caches lag behind, users and controllers do, fails or
\* restarts, as long as the internal host's own cache keeps up and nobody else
\* deletes it (createOrUpdate of every child before the condition is set, and
\* the deferred status update of Reconcile).
THEOREM ReadyCorrect ==
  ASSUME "internalHost" \notin Lagging \cup Removable
  PROVE  Spec => []ReadyMeansInPlace
<1>1. Init => HostInv /\ TearInv /\ UidInv /\ LifeInv /\ ChildInv /\ ReadyInv /\ ServeInv
  BY InitInvs, InitReady
<1>2. TypeOK /\ HostInv /\ ChildInv /\ TearInv /\ UidInv /\ LifeInv /\ ReadyInv /\ ServeInv
        /\ [Next]_vars =>
      (HostInv /\ ChildInv /\ TearInv /\ UidInv /\ LifeInv /\ ReadyInv /\ ServeInv)'
  BY ReadyInvKeeps
<1>3. ReadyInv => ReadyMeansInPlace
  BY DEF ReadyInv, PlaceInv, Placed, Own, Lasting, ReadyMeansInPlace
<1>. QED BY <1>1, <1>2, <1>3, TypeCorrect, PTL DEF Spec

\* A host that is Ready for its current generation is served with every page and
\* translation it names, under the same assumption: no edit of the host, no stale
\* copy of it and no failure or restart during the resolution leaves one out
\* (resolveUtilityPages, resolveTranslations, and the spec of the internal host
\* made from what they return).
THEOREM ServesCorrect ==
  ASSUME "internalHost" \notin Lagging \cup Removable
  PROVE  Spec => []ServesWhatItNames
<1>1. Init => HostInv /\ TearInv /\ UidInv /\ LifeInv /\ ChildInv /\ ReadyInv /\ ServeInv
  BY InitInvs, InitReady
<1>2. TypeOK /\ HostInv /\ ChildInv /\ TearInv /\ UidInv /\ LifeInv /\ ReadyInv /\ ServeInv
        /\ [Next]_vars =>
      (HostInv /\ ChildInv /\ TearInv /\ UidInv /\ LifeInv /\ ReadyInv /\ ServeInv)'
  BY ReadyInvKeeps
<1>3. ServeInv => ServesWhatItNames
  BY DEF ServeInv
<1>. QED BY <1>1, <1>2, <1>3, TypeCorrect, PTL DEF Spec
=============================================================================
