------------------------- MODULE KDexHostLifeProofs -------------------------
(***************************************************************************)
(* The internal host names only copies that exist, and the reconciler      *)
(* keeps the promises of HostLife, for every value of the constants.       *)
(***************************************************************************)
EXTENDS KDexHostFinalizerProofs

\* The internal pages and translations nobody else deletes, and whose caches keep up;
\* a teardown that may overlook the internal host secures none.
Secure ==
  IF "internalHost" \in Lagging THEN {}
                               ELSE (Pages \cup Translations) \ (Lagging \cup Removable)

\* They and the internal host, as far as this holds of it.
Sheltered == Secure \cup ({"internalHost"} \ (Lagging \cup Removable))

\* What a teardown, and the finalizer before it, know of the host: who has seen a
\* host deleted knows that the one that exists, if it has the finalizer, is.
PastInv ==
  /\ hostCache.uid # 0 /\ hostCache.deleting /\ host.finalizer => host.deleting
  /\ pc = "addFinalizer" /\ fresh => hostCache = host /\ ~host.deleting
  /\ pc \in Teardown => (host.finalizer => host.deleting) /\ ~Accountable(hostCache)

\* What is kept is its host's, which has the finalizer, and is deleted by a teardown
\* only, when nothing is going to make it again; a copy when the internal host is gone.
CopyInv ==
  /\ \A k \in Sheltered : objs[k].state # "none" => host.finalizer /\ objs[k].owner = host.uid
  /\ \A k \in Sheltered : objs[k].state = "deleting" =>
       host.deleting /\ ~Accountable(hostCache) /\ pc \notin Creation
  /\ \A k \in Secure : objs[k].state = "deleting" => objs["internalHost"].state = "none"
  /\ pc = "delete" /\ todo \cap Secure # {} => objs["internalHost"].state = "none"

\* What the internal host names, or is about to name, is there.
NameInv ==
  /\ pc \notin Creation => made = {}
  /\ \A k \in made \cap Secure : objs[k].state # "none"
  /\ objs["internalHost"].state # "none" =>
       \A k \in objs["internalHost"].refs \cap Secure : objs[k].state # "none"
-----------------------------------------------------------------------------
(* How a step may change the children                                      *)

\* A write that makes nothing, tells no object anything new, and unmakes an object for a
\* reason: others may, its owner is gone, it was deleted and the host manager or a
\* teardown lets go of it, or a teardown deletes it.
Lawful(k, c) ==
  /\ c.state # "none" =>
       /\ objs[k].state # "none" /\ c.owner = objs[k].owner
       /\ c.refs = objs[k].refs /\ c.generation = objs[k].generation
  /\ c.state # objs[k].state =>
       \/ k \in Removable
       \/ objs[k].owner \notin {0, host.uid}
       \/ objs[k].state = "deleting" /\ (k \in Internals \/ pc \in Teardown)
       \/ pc = "delete" /\ k \in todo

LawfulPut == \E k \in Children : \E c \in ChildRecord : Put(k, c) /\ Lawful(k, c)

\* A call of CreateOrUpdate that succeeds.
Call(k) ==
  /\ pc \in Creation /\ Accepted(k)
  /\ IF Desired(k) = cache[k] THEN UNCHANGED childVars ELSE Put(k, Desired(k))

LEMMA SecureSets ==
  /\ Secure \subseteq Internals \ Lagging /\ Internals \subseteq Children
  /\ "internalHost" \in Internals /\ "internalHost" \notin Secure
  /\ Secure \cap (Removable \cup Rbac \cup {"deployment"}) = {}
  /\ Secure # {} => "internalHost" \notin Lagging
  /\ Secure \subseteq Sheltered /\ Sheltered \subseteq Internals \ (Lagging \cup Removable \cup Rbac)
BY ClusterAssumption DEF Secure, Sheltered, Internals, Children, Rbac

\* Deleting an object for such a reason, letting go of it and reporting on it are lawful.
LEMMA LawfulWrites ==
  ASSUME TypeOK, NEW k \in Children
  PROVE  /\ objs[k] \in ChildRecord
         /\ objs[k].state # "none" /\ (\/ k \in Removable
                                       \/ objs[k].owner \notin {0, host.uid}
                                       \/ pc = "delete" /\ k \in todo)
              => Lawful(k, Deleted(objs[k]))
         /\ k \in Internals \/ pc \in Teardown => Lawful(k, Released(objs[k]))
         /\ objs[k].state # "none" =>
              /\ Lawful(k, [objs[k] EXCEPT !.held = TRUE])
              /\ \A c \in Conditions : Lawful(k, [objs[k] EXCEPT !.cond = c])
<1>1. objs[k] \in ChildRecord
  BY DEF TypeOK, ClusterTypeOK
<1>2. NoChild.state = "none"
  BY DEF NoChild
<1>3. \/ Deleted(objs[k]) = NoChild
      \/ /\ Deleted(objs[k]).state # "none" /\ Deleted(objs[k]).owner = objs[k].owner
         /\ Deleted(objs[k]).refs = objs[k].refs
         /\ Deleted(objs[k]).generation = objs[k].generation
  BY <1>1 DEF Deleted, ChildRecord
<1>4. \/ Released(objs[k]) = NoChild /\ objs[k].state = "deleting"
      \/ /\ Released(objs[k]).state = objs[k].state /\ Released(objs[k]).owner = objs[k].owner
         /\ Released(objs[k]).refs = objs[k].refs
         /\ Released(objs[k]).generation = objs[k].generation
  BY <1>1 DEF Released, ChildRecord
<1>5. ASSUME objs[k].state # "none",
             \/ k \in Removable \/ objs[k].owner \notin {0, host.uid}
             \/ pc = "delete" /\ k \in todo
      PROVE  Lawful(k, Deleted(objs[k]))
  BY <1>2, <1>3, <1>5 DEF Lawful
<1>6. ASSUME k \in Internals \/ pc \in Teardown
      PROVE  Lawful(k, Released(objs[k]))
  BY <1>2, <1>4, <1>6 DEF Lawful
<1>7. ASSUME objs[k].state # "none" PROVE Lawful(k, [objs[k] EXCEPT !.held = TRUE])
  BY <1>1, <1>7 DEF Lawful, ChildRecord
<1>8. ASSUME objs[k].state # "none", NEW c \in Conditions
      PROVE  Lawful(k, [objs[k] EXCEPT !.cond = c])
  BY <1>1, <1>8 DEF Lawful, ChildRecord
<1>. QED BY <1>1, <1>5, <1>6, <1>7, <1>8

\* What users, controllers and informers write is lawful.
LEMMA OthersLawful ==
  ASSUME TypeOK, Users \/ Controllers \/ Deliver
  PROVE  UNCHANGED objs \/ (LawfulPut /\ UNCHANGED hostVars)
<1>1. CASE Users
  <2>1. ASSUME NEW k \in Children, RemoveChild(k) PROVE LawfulPut /\ UNCHANGED hostVars
    BY <2>1, LawfulWrites, ChildTypes DEF RemoveChild, LawfulPut
  <2>. QED BY <1>1, <2>1
           DEF Users, CreateHost, EditSpec, DeleteHost, ChangeReferent, childVars
<1>2. CASE Controllers
  <2>. SUFFICES ASSUME NEW k \in Children,
                       \/ ReportCondition(k) \/ HoldInternal(k) \/ ReleaseInternal(k)
                       \/ CollectGarbage(k)
                PROVE  LawfulPut /\ UNCHANGED hostVars
    BY <1>2 DEF Controllers
  <2>1. CASE ReportCondition(k)
    <3>1. PICK c \in Conditions : Put(k, [objs[k] EXCEPT !.cond = c])
      BY <2>1 DEF ReportCondition, Conditions
    <3>. QED BY <2>1, <3>1, LawfulWrites, ChildTypes DEF ReportCondition, LawfulPut
  <2>2. CASE HoldInternal(k)
    BY <2>2, LawfulWrites, ChildTypes DEF HoldInternal, LawfulPut
  <2>3. CASE ReleaseInternal(k)
    BY <2>3, LawfulWrites, ChildTypes DEF ReleaseInternal, LawfulPut
  <2>4. CASE CollectGarbage(k)
    BY <2>4, LawfulWrites, ChildTypes DEF CollectGarbage, LawfulPut
  <2>. QED BY <2>1, <2>2, <2>3, <2>4
<1>3. CASE Deliver
  BY <1>3 DEF Deliver, SyncHost, SyncChild, childVars
<1>. QED BY <1>1, <1>2, <1>3

\* So is what the teardown writes.
LEMMA TeardownLawful ==
  ASSUME TypeOK, DeleteNext \/ ReleaseClusterRoleBinding \/ ReleaseServiceAccount
  PROVE  \/ UNCHANGED objs /\ made' \subseteq made /\ pc' # "delete"
         \/ /\ LawfulPut /\ made' = made /\ todo' \subseteq todo
            /\ pc' = pc \/ pc' # "delete"
<1>1. CASE DeleteNext
  <2>1. CASE Return(work.ready, TRUE) /\ UNCHANGED childVars
    BY <2>1 DEF Return, childVars
  <2>2. ASSUME NEW k \in todo, pc = "delete", objs[k].state # "none",
               Put(k, Deleted(objs[k])), todo' = todo \ {k}, UNCHANGED <<pc, made>>
        PROVE  LawfulPut /\ made' = made /\ todo' \subseteq todo /\ pc' = pc
    <3>1. k \in Children
      BY <2>2 DEF TypeOK, KDexHostTypeOK
    <3>. QED BY <2>2, <3>1, LawfulWrites, ChildTypes DEF LawfulPut
  <2>. QED BY <1>1, <2>1, <2>2 DEF DeleteNext
<1>2. CASE ReleaseClusterRoleBinding \/ ReleaseServiceAccount
  <2>0. pc \in Teardown
    BY <1>2 DEF ReleaseClusterRoleBinding, ReleaseServiceAccount, Teardown
  <2>1. ASSUME NEW k \in Rbac, Put(k, Released(objs[k])) PROVE LawfulPut
    <3>1. k \in Children
      BY DEF Children
    <3>. QED BY <2>0, <2>1, <3>1, LawfulWrites, ChildTypes DEF LawfulPut
  <2>. QED BY <1>2, <2>1 DEF ReleaseClusterRoleBinding, ReleaseServiceAccount, Release, Goto,
                             Return, Rbac, childVars
<1>. QED BY <1>1, <1>2

\* What creation does: a call for one object, of which the internal host may be
\* told then, or none.
CreationStep ==
  /\ pc \in Creation /\ UNCHANGED hostVars
  /\ pc' \in Creation \/ (pc' = "status" /\ made' = {})
  /\ \/ UNCHANGED childVars /\ made' \subseteq made
     \/ \E k \in Children : Call(k) /\ made' \subseteq made \cup {k}

LEMMA AnyCreationStep ==
  ASSUME TypeOK,
         \/ \E p \in Pages : ResolvePage(p)
         \/ \E r \in Direct : ResolveDirect(r)
         \/ \E t \in Translations : ResolveTranslation(t)
         \/ PagesResolved \/ DirectResolved \/ TranslationsResolved
         \/ CreateConfigMap \/ CreateServiceAccount \/ CreateClusterRoleBinding
         \/ CreateDeployment \/ CreateService \/ AwaitDeployment \/ CreateInternalHost
  PROVE  CreationStep
<1>1. ASSUME NEW p \in Pages, ResolvePage(p) PROVE CreationStep
  BY <1>1 DEF ResolvePage, SkipMissing, Panic, Return, Copied, Ensure, clusterVars, Call,
              Creation, CreationStep, Children, Internals
<1>2. ASSUME NEW r \in Direct, ResolveDirect(r) PROVE CreationStep
  BY <1>2 DEF ResolveDirect, Panic, Return, clusterVars, Creation, CreationStep
<1>3. ASSUME NEW t \in Translations, ResolveTranslation(t) PROVE CreationStep
  BY <1>3 DEF ResolveTranslation, SkipMissing, Return, Copied, Ensure, clusterVars, Call,
              Creation, CreationStep, Children, Internals
<1>4. CASE PagesResolved \/ DirectResolved \/ TranslationsResolved
  BY <1>4 DEF PagesResolved, DirectResolved, TranslationsResolved, Goto, clusterVars,
              Creation, CreationStep
<1>5. CASE CreateConfigMap \/ CreateServiceAccount \/ CreateClusterRoleBinding
  BY <1>5 DEF CreateConfigMap, CreateServiceAccount, CreateClusterRoleBinding, Call,
              Ensure, Goto, Return, Creation, CreationStep, Children, Rbac
<1>6. CASE CreateDeployment \/ CreateService
  BY <1>6 DEF CreateDeployment, CreateService, Call, Ensure, Goto, Return, Creation,
              CreationStep, Children
<1>7. CASE AwaitDeployment \/ CreateInternalHost
  BY <1>7 DEF AwaitDeployment, CreateInternalHost, Call, Ensure, Return, clusterVars,
              Creation, CreationStep, Children, Internals
<1>. QED BY <1>1, <1>2, <1>3, <1>4, <1>5, <1>6, <1>7

-----------------------------------------------------------------------------
(* The copies, and what names them                                         *)

\* A lawful write keeps CopyInv and NameInv.
LEMMA LawfulKeeps ==
  ASSUME TypeOK, PastInv, CopyInv, NameInv, LawfulPut, UNCHANGED <<host, hostCache, made>>,
         pc' = pc \/ (pc' \notin Creation \cup {"delete"} /\ pc \notin Creation),
         todo' \subseteq todo
  PROVE  CopyInv' /\ NameInv'
<1>1. PICK k \in Children, c \in ChildRecord :
        /\ objs' = [objs EXCEPT ![k] = c]
        /\ Lawful(k, c)
  BY DEF LawfulPut, Put, Store
<1>2. /\ \A j \in Children \ {k} : objs'[j] = objs[j]
      /\ objs'[k] = c
  BY <1>1 DEF TypeOK, ClusterTypeOK
<1>3. \A j \in Children : objs'[j].state # "none" =>
        /\ objs[j].state # "none"
        /\ objs'[j].owner = objs[j].owner /\ objs'[j].refs = objs[j].refs
  BY <1>1, <1>2 DEF Lawful
<1>4. "delete" \in Teardown \ Creation
  BY DEF Teardown, Creation
<1>5. /\ \A j \in Sheltered : j \in Children /\ j \notin Removable \cup Rbac
      /\ Secure \subseteq Sheltered
  BY SecureSets
<1>6. ASSUME NEW j \in Sheltered, objs'[j].state # objs[j].state
      PROVE  /\ host.deleting /\ ~Accountable(hostCache) /\ pc \notin Creation
             /\ j \in Secure => objs["internalHost"].state = "none"
  <2>1. j = k /\ c.state # objs[k].state
    BY <1>2, <1>5, <1>6
  <2>2. objs[j].state # "none"
    BY <1>1, <2>1 DEF Lawful
  <2>3. host.finalizer /\ objs[j].owner = host.uid
    BY <1>6, <2>2 DEF CopyInv
  <2>4. CASE objs[j].state = "deleting"
    BY <1>6, <2>4 DEF CopyInv
  <2>5. CASE pc = "delete" /\ j \in todo
    BY <1>4, <1>6, <2>3, <2>5 DEF CopyInv, PastInv
  <2>. QED BY <1>1, <1>5, <2>1, <2>3, <2>4, <2>5 DEF Lawful
<1>7. /\ Accountable(hostCache)' = Accountable(hostCache)
      /\ pc' \in Creation => pc \in Creation
  BY DEF Accountable
<1>8. "internalHost" \in Children
  BY SecureSets
<1>9. CopyInv'
  <2>1. \A j \in Sheltered : objs'[j].state # "none" => host'.finalizer /\ objs'[j].owner = host'.uid
    BY <1>3, <1>5 DEF CopyInv
  <2>2. ASSUME NEW j \in Sheltered, objs'[j].state = "deleting"
        PROVE  /\ host.deleting /\ ~Accountable(hostCache) /\ pc \notin Creation
               /\ j \in Secure => objs["internalHost"].state = "none"
    BY <1>6, <2>2 DEF CopyInv
  <2>3. \A j \in Sheltered : objs'[j].state = "deleting" =>
          /\ host'.deleting /\ ~Accountable(hostCache)' /\ pc' \notin Creation
          /\ j \in Secure => objs'["internalHost"].state = "none"
    BY <1>3, <1>7, <1>8, <2>2
  <2>4. pc' = "delete" /\ todo' \cap Secure # {} => objs'["internalHost"].state = "none"
    BY <1>3, <1>8 DEF CopyInv
  <2>. QED BY <1>5, <2>1, <2>3, <2>4 DEF CopyInv
<1>10. NameInv'
  <2>1. pc' \notin Creation => made' = {}
    BY DEF NameInv
  <2>2. \A j \in made' \cap Secure : objs'[j].state # "none"
    BY <1>5, <1>6 DEF NameInv
  <2>3. ASSUME objs'["internalHost"].state # "none",
               NEW j \in objs'["internalHost"].refs \cap Secure
        PROVE  objs'[j].state # "none"
    <3>1. objs["internalHost"].state # "none" /\ j \in objs["internalHost"].refs
      BY <1>3, <1>8, <2>3
    <3>2. objs[j].state # "none"
      BY <2>3, <3>1 DEF NameInv
    <3>. QED BY <1>5, <1>6, <2>3, <3>1, <3>2
  <2>. QED BY <2>1, <2>2, <2>3 DEF NameInv
<1>. QED BY <1>9, <1>10

\* A call of CreateOrUpdate leaves its object there, as the internal host's last.
LEMMA CallMakes ==
  ASSUME TypeOK, HostInv, TearInv, NEW k \in Children, Call(k)
  PROVE  /\ \A j \in Children \ {k} : objs'[j] = objs[j]
         /\ objs'[k] = objs[k] \/ objs'[k] = Desired(k)
         /\ k \notin Lagging =>
              /\ objs'[k].state # "none"
              /\ objs'[k].state = "deleting" => objs[k].state = "deleting"
         /\ k # "clusterRoleBinding" /\ objs'[k] # objs[k] => objs'[k].owner = host.uid
<1>1. CASE Desired(k) = cache[k]
  <2>1. objs' = objs /\ (k \notin Lagging => cache[k] = objs[k])
    BY <1>1 DEF Call, childVars, TearInv
  <2>2. Desired(k).state # "none"
    BY DEF Desired
  <2>. QED BY <1>1, <2>1, <2>2
<1>2. CASE Desired(k) # cache[k]
  <2>1. objs' = [objs EXCEPT ![k] = Desired(k)]
    BY <1>2 DEF Call, Put, Store
  <2>2. objs'[k] = Desired(k) /\ \A j \in Children \ {k} : objs'[j] = objs[j]
    BY <2>1 DEF TypeOK, ClusterTypeOK
  <2>3. k \notin Lagging => cache[k] = objs[k]
    BY DEF TearInv
  <2>4. work.uid = host.uid
    BY DEF Call, HostInv
  <2>. QED BY <2>2, <2>3, <2>4 DEF Desired
<1>. QED BY <1>1, <1>2

\* Creation keeps CopyInv and NameInv.
LEMMA CreationKeeps ==
  ASSUME TypeOK, HostInv, TearInv, CopyInv, NameInv, CreationStep
  PROVE  CopyInv' /\ NameInv'
<1>1. /\ pc \in Creation /\ UNCHANGED <<host, hostCache>> /\ host.finalizer
      /\ pc' \in Creation \/ (pc' = "status" /\ made' = {})
  BY DEF CreationStep, HostInv, hostVars
<1>2. /\ \A j \in Sheltered : j \in Children \ Lagging /\ j # "clusterRoleBinding"
      /\ Secure \subseteq Sheltered /\ "internalHost" \notin Secure
      /\ "internalHost" \in Children /\ "internalHost" # "clusterRoleBinding"
      /\ Secure # {} => "internalHost" \notin Lagging
  BY SecureSets DEF Rbac
<1>3. "delete" \notin Creation /\ "status" # "delete"
  BY DEF Creation
<1>4. \A j \in Sheltered : objs[j].state # "deleting"
  BY <1>1 DEF CopyInv
<1>5. CASE UNCHANGED childVars /\ made' \subseteq made
  <2>1. objs' = objs
    BY <1>5 DEF childVars
  <2>2. CopyInv'
    BY <1>1, <1>2, <1>3, <1>4, <2>1 DEF CopyInv, Accountable
  <2>3. NameInv'
    BY <1>1, <1>5, <2>1 DEF NameInv
  <2>. QED BY <2>2, <2>3
<1>6. ASSUME NEW k \in Children, Call(k), made' \subseteq made \cup {k}
      PROVE  CopyInv' /\ NameInv'
  <2>1. \A j \in Sheltered : objs'[j].state # "none" => objs'[j].owner = host.uid
    BY <1>2, <1>6, CallMakes DEF CopyInv
  <2>2. \A j \in Sheltered : objs'[j].state # "deleting"
    BY <1>2, <1>4, <1>6, CallMakes
  <2>3. CopyInv'
    BY <1>1, <1>2, <1>3, <2>1, <2>2 DEF CopyInv
  <2>4. \A j \in Secure : objs[j].state # "none" \/ j = k => objs'[j].state # "none"
    BY <1>2, <1>6, CallMakes
  <2>5. \A j \in made' \cap Secure : objs'[j].state # "none"
    BY <1>6, <2>4 DEF NameInv
  <2>6. ASSUME objs'["internalHost"].state # "none",
               NEW j \in objs'["internalHost"].refs \cap Secure
        PROVE  objs'[j].state # "none"
    <3>1. CASE objs'["internalHost"] = objs["internalHost"]
      BY <2>4, <2>6, <3>1 DEF NameInv
    <3>2. CASE objs'["internalHost"] # objs["internalHost"]
      <4>1. k = "internalHost" /\ objs'["internalHost"] = Desired("internalHost")
        BY <1>2, <1>6, <3>2, CallMakes
      <4>2. Desired("internalHost").refs = made
        BY DEF Desired
      <4>. QED BY <2>4, <2>6, <4>1, <4>2 DEF NameInv
    <3>. QED BY <3>1, <3>2
  <2>7. NameInv'
    BY <1>1, <1>3, <2>5, <2>6 DEF NameInv
  <2>. QED BY <2>3, <2>7
<1>. QED BY <1>5, <1>6 DEF CreationStep

\* A step that leaves the children alone, and neither takes the finalizer nor goes
\* where it must not.
Quiet ==
  /\ UNCHANGED objs
  /\ host.finalizer => /\ host'.finalizer /\ host'.uid = host.uid
                       /\ host.deleting => host'.deleting
  /\ host.deleting /\ Accountable(hostCache)' => Accountable(hostCache)
  /\ pc' \in Creation => pc \in Creation \/ Accountable(hostCache)
  /\ pc' = "delete" => \/ pc = "delete" /\ todo' = todo
                       \/ todo' \cap Secure = {}
                       \/ objs["internalHost"].state = "none"
  /\ made' \subseteq made /\ (pc' \notin Creation => made' = {})

\* Such a step keeps CopyInv and NameInv.
LEMMA QuietKeeps ==
  ASSUME CopyInv, NameInv, Quiet
  PROVE  CopyInv' /\ NameInv'
<1>1. \A k \in Sheltered : objs'[k].state # "none" => host'.finalizer /\ objs'[k].owner = host'.uid
  BY DEF CopyInv, Quiet
<1>2. ASSUME NEW k \in Sheltered, objs'[k].state = "deleting"
      PROVE  host'.deleting /\ ~Accountable(hostCache)' /\ pc' \notin Creation
  <2>1. host.finalizer /\ host.deleting /\ ~Accountable(hostCache) /\ pc \notin Creation
    BY <1>2 DEF CopyInv, Quiet
  <2>. QED BY <2>1 DEF Quiet
<1>3. /\ \A k \in Secure : objs'[k].state = "deleting" => objs'["internalHost"].state = "none"
      /\ pc' = "delete" /\ todo' \cap Secure # {} => objs'["internalHost"].state = "none"
  BY DEF CopyInv, Quiet
<1>4. CopyInv'
  BY <1>1, <1>2, <1>3 DEF CopyInv
<1>5. NameInv'
  BY DEF NameInv, Quiet
<1>. QED BY <1>4, <1>5

\* What users and informers do otherwise is quiet.
LEMMA OthersQuiet ==
  ASSUME TypeOK, UidInv, NameInv, UNCHANGED objs, Users \/ Controllers \/ Deliver
  PROVE  Quiet
<1>0. host \in HostRecord /\ hostCache \in HostRecord
  BY DEF TypeOK, ClusterTypeOK
<1>1. UNCHANGED <<pc, todo, made>>
  BY DEF Users, Controllers, Deliver, localVars
<1>2. pc' \notin Creation => made' = {}
  BY <1>1 DEF NameInv
<1>3. CASE UNCHANGED hostVars
  BY <1>1, <1>2, <1>3 DEF hostVars, Quiet, Accountable
<1>4. CASE CreateHost
  BY <1>1, <1>2, <1>4 DEF CreateHost, PutHost, UidInv, Quiet, Accountable
<1>5. CASE EditSpec \/ DeleteHost
  <2>1. hostCache' = hostCache
    BY <1>5 DEF EditSpec, DeleteHost, PutHost
  <2>2. host.finalizer => /\ host'.finalizer /\ host'.uid = host.uid
                          /\ host.deleting => host'.deleting
    BY <1>0, <1>5 DEF EditSpec, DeleteHost, PutHost, HostRecord
  <2>. QED BY <1>1, <1>2, <2>1, <2>2 DEF Quiet, Accountable
<1>6. CASE SyncHost
  BY <1>1, <1>2, <1>6 DEF SyncHost, Quiet, Accountable
<1>. QED BY <1>3, <1>4, <1>5, <1>6
         DEF Users, Controllers, Deliver, RemoveChild, ChangeReferent, ReportCondition,
             HoldInternal, ReleaseInternal, CollectGarbage, SyncChild

\* So is a check of the teardown: what it lists for deletion is not secured, or the
\* internal host is known to be gone.
LEMMA ChecksQuiet ==
  ASSUME TypeOK, TearInv, NameInv,
         TearInternalHost \/ TearPages \/ TearTranslations \/ TearDeployment
  PROVE  Quiet
<1>1. /\ UNCHANGED <<host, hostCache, objs, made>> /\ pc \notin Creation /\ pc' \notin Creation
  BY DEF TearInternalHost, TearPages, TearTranslations, TearDeployment, AwaitGone, Goto,
         clusterVars, hostVars, childVars, Creation
<1>2. made' = {}
  BY <1>1 DEF NameInv
<1>3. CASE TearInternalHost \/ TearDeployment
  <2>1. pc' = "delete" => todo' \subseteq {"internalHost", "deployment"}
    BY <1>3 DEF TearInternalHost, TearDeployment, AwaitGone, Goto
  <2>2. pc' = "delete" => todo' \cap Secure = {}
    BY <2>1, SecureSets
  <2>. QED BY <1>1, <1>2, <2>2 DEF Quiet, Accountable
<1>4. CASE TearPages \/ TearTranslations
  <2>1. pc \in {"tearPages", "tearTranslations"}
    BY <1>4 DEF TearPages, TearTranslations
  <2>2. "internalHost" \in Cleared(pc)
    BY <2>1 DEF Cleared
  <2>3. "internalHost" \notin Lagging => objs["internalHost"].state = "none"
    BY <2>2 DEF TearInv, Gone
  <2>4. Secure = {} \/ objs["internalHost"].state = "none"
    BY <2>3, SecureSets
  <2>. QED BY <1>1, <1>2, <2>4 DEF Quiet, Accountable
<1>. QED BY <1>3, <1>4

\* And the entry to a reconcile, its exit and its failures.
LEMMA EntryQuiet ==
  ASSUME TypeOK, UidInv, NameInv,
         \/ Begin \/ AddFinalizer \/ UpdateStatus \/ Fail \/ Restart \/ UNCHANGED vars
  PROVE  Quiet
<1>0. host \in HostRecord /\ hostCache \in HostRecord
  BY DEF TypeOK, ClusterTypeOK
<1>1. {"idle", "status", "delete", "addFinalizer", "tearInternalHost"} \cap Creation = {}
  BY DEF Creation
<1>2. CASE UNCHANGED vars
  BY <1>2 DEF vars, clusterVars, hostVars, childVars, localVars, Quiet, NameInv, Accountable
<1>3. CASE Begin
  <2>1. UNCHANGED <<host, hostCache, objs, made>> /\ pc = "idle"
    BY <1>3 DEF Begin, childVars, localVars
  <2>2. \/ pc' = "idle"
        \/ pc' \in {"tearInternalHost", "status", "addFinalizer"}
        \/ pc' = "utilityPages" /\ Accountable(hostCache)
    BY <1>0, <1>3 DEF Begin, Branch, Accountable, localVars, HostRecord
  <2>. QED BY <1>1, <2>1, <2>2 DEF Quiet, NameInv, Accountable
<1>4. CASE AddFinalizer
  <2>1. host.finalizer => /\ host'.finalizer /\ host'.uid = host.uid
                          /\ host.deleting => host'.deleting
    BY <1>0, <1>4 DEF AddFinalizer, PutHost, HostRecord
  <2>2. /\ UNCHANGED <<hostCache, objs, made>> /\ pc = "addFinalizer" /\ pc' = "status"
    BY <1>4 DEF AddFinalizer, PutHost, childVars
  <2>. QED BY <1>1, <2>1, <2>2 DEF Quiet, NameInv, Accountable
<1>5. CASE UpdateStatus
  <2>1. host.finalizer => /\ host'.finalizer /\ host'.uid = host.uid
                          /\ host.deleting => host'.deleting
    BY <1>0, <1>5 DEF UpdateStatus, HostRecord
  <2>2. /\ UNCHANGED <<hostCache, objs, made>> /\ pc = "status" /\ pc' = "idle"
    BY <1>5 DEF UpdateStatus, childVars
  <2>. QED BY <1>1, <2>1, <2>2 DEF Quiet, NameInv, Accountable
<1>6. CASE Fail
  BY <1>1, <1>6 DEF Fail, Return, hostVars, childVars, Quiet, Accountable
<1>7. CASE Restart
  BY <1>1, <1>7 DEF Restart, Quiet, Accountable
<1>. QED BY <1>2, <1>3, <1>4, <1>5, <1>6, <1>7

\* With the finalizer goes the host, and all that was secured is gone before.
LEMMA RemovalKeeps ==
  ASSUME TypeOK, TearInv, RemoveFinalizer
  PROVE  CopyInv' /\ NameInv'
<1>1. pc = "removeFinalizer" /\ pc' = "status" /\ made' = {} /\ objs' = objs
  BY DEF RemoveFinalizer, Return, childVars
<1>2. Cleared(pc) = Internals \cup {"deployment"}
  BY <1>1 DEF Cleared
<1>3. \A k \in Sheltered : objs[k].state = "none"
  BY <1>2, SecureSets DEF TearInv, Gone
<1>4. "status" \notin Creation
  BY DEF Creation
<1>5. CopyInv'
  BY <1>1, <1>3, SecureSets DEF CopyInv
<1>6. Secure # {} => objs["internalHost"].state = "none"
  BY <1>2, SecureSets DEF TearInv, Gone
<1>7. NameInv'
  BY <1>1, <1>4, <1>6 DEF NameInv
<1>. QED BY <1>5, <1>7

-----------------------------------------------------------------------------
(* What is known of the host                                               *)

\* A step within creation or teardown, or out of them.
LEMMA WithinPast ==
  ASSUME PastInv, UNCHANGED hostVars, pc' # "addFinalizer", pc' \in Teardown => pc \in Teardown
  PROVE  PastInv'
BY DEF PastInv, hostVars, Accountable

\* What users and informers do keeps PastInv.
LEMMA OthersPast ==
  ASSUME TypeOK, UidInv, PastInv, Users \/ Controllers \/ Deliver
  PROVE  PastInv'
<1>0. host \in HostRecord /\ hostCache \in HostRecord
  BY DEF TypeOK, ClusterTypeOK
<1>1. UNCHANGED pc
  BY DEF Users, Controllers, Deliver, localVars
<1>2. CASE UNCHANGED hostVars
  BY <1>1, <1>2 DEF hostVars, PastInv, Accountable
<1>3. CASE CreateHost
  BY <1>1, <1>3 DEF CreateHost, PutHost, NoHost, UidInv, PastInv, Accountable
<1>4. CASE EditSpec \/ DeleteHost
  <2>1. hostCache' = hostCache /\ ~fresh'
    BY <1>4 DEF EditSpec, DeleteHost, PutHost
  <2>2. \/ host' = NoHost \/ host' = [host EXCEPT !.deleting = TRUE, !.generation = @ + 1]
        \/ \E R \in SUBSET Choices : host' = [host EXCEPT !.generation = @ + 1, !.refs = R]
    BY <1>4 DEF EditSpec, DeleteHost, PutHost
  <2>3. \/ ~host'.finalizer
        \/ host'.finalizer = host.finalizer /\ host'.deleting \in {host.deleting, TRUE}
    <3>1. CASE host' = NoHost
      BY <3>1 DEF NoHost
    <3>2. CASE host' = [host EXCEPT !.deleting = TRUE, !.generation = @ + 1]
      BY <1>0, <3>2 DEF HostRecord
    <3>3. ASSUME NEW R \in SUBSET Choices,
                 host' = [host EXCEPT !.generation = @ + 1, !.refs = R]
          PROVE  host'.finalizer = host.finalizer /\ host'.deleting = host.deleting
      BY <1>0, <3>3 DEF HostRecord
    <3>. QED BY <2>2, <3>1, <3>2, <3>3
  <2>. QED BY <1>1, <2>1, <2>3 DEF PastInv, Accountable
<1>5. CASE SyncHost
  BY <1>1, <1>5 DEF SyncHost, PastInv, Accountable
<1>. QED BY <1>2, <1>3, <1>4, <1>5
         DEF Users, Controllers, Deliver, RemoveChild, ChangeReferent, ReportCondition,
             HoldInternal, ReleaseInternal, CollectGarbage, SyncChild

\* So do the entry to a reconcile, its exit, and the writes of the finalizer.
LEMMA EntryPast ==
  ASSUME TypeOK, HostInv, PastInv,
         \/ Begin \/ AddFinalizer \/ UpdateStatus \/ RemoveFinalizer \/ Fail \/ Restart
         \/ UNCHANGED vars
  PROVE  PastInv'
<1>0. host \in HostRecord /\ hostCache \in HostRecord
  BY DEF TypeOK, ClusterTypeOK
<1>1. {"idle", "status", "addFinalizer", "utilityPages"} \cap Teardown = {}
  BY DEF Teardown
<1>2. CASE UNCHANGED vars
  BY <1>2 DEF vars, clusterVars, hostVars, localVars, PastInv, Accountable
<1>3. CASE Begin
  <2>1. UNCHANGED <<host, hostCache>> /\ pc = "idle"
    BY <1>3 DEF Begin
  <2>2. CASE pc' = "idle"
    BY <1>1, <2>1, <2>2 DEF PastInv, Accountable
  <2>3. CASE hostCache.uid # 0 /\ fresh' = hostSynced /\ pc' = Branch(hostCache)
    BY <1>0, <1>1, <2>1, <2>3 DEF Branch, HostInv, PastInv, Accountable, HostRecord
  <2>. QED BY <1>3, <2>1, <2>2, <2>3 DEF Begin, localVars
<1>4. CASE AddFinalizer
  <2>1. hostCache' = hostCache /\ pc = "addFinalizer" /\ pc' = "status"
    BY <1>4 DEF AddFinalizer, PutHost
  <2>2. CASE fresh
    <3>1. host' = [host EXCEPT !.finalizer = TRUE]
      BY <1>4, <2>2 DEF AddFinalizer, PutHost
    <3>2. hostCache = host /\ ~host.deleting
      BY <2>1, <2>2 DEF PastInv
    <3>. QED BY <1>0, <1>1, <2>1, <3>1, <3>2 DEF PastInv, HostRecord
  <2>3. CASE ~fresh
    BY <1>1, <1>4, <2>1, <2>3 DEF AddFinalizer, PastInv
  <2>. QED BY <2>2, <2>3
<1>5. CASE UpdateStatus
  <2>1. hostCache' = hostCache /\ pc' = "idle"
    BY <1>5 DEF UpdateStatus
  <2>2. host'.finalizer = host.finalizer /\ host'.deleting = host.deleting
    BY <1>0, <1>5 DEF UpdateStatus, HostRecord
  <2>. QED BY <1>1, <2>1, <2>2 DEF PastInv
<1>6. CASE RemoveFinalizer
  BY <1>1, <1>6 DEF RemoveFinalizer, PutHost, Return, NoHost, PastInv
<1>7. CASE Fail
  BY <1>1, <1>7 DEF Fail, Return, hostVars, PastInv
<1>8. CASE Restart
  BY <1>1, <1>8 DEF Restart, PastInv
<1>. QED BY <1>2, <1>3, <1>4, <1>5, <1>6, <1>7, <1>8

-----------------------------------------------------------------------------
(* The theorem                                                             *)

LifeInv == PastInv /\ CopyInv /\ NameInv

\* The initial states are in the invariants.
LEMMA InitInvs == Init => HostInv /\ TearInv /\ UidInv /\ LifeInv
<1>1. {"idle"} \cap (Creation \cup Teardown) = {}
  BY DEF Creation, Teardown
<1>2. "internalHost" \in Children /\ Secure \subseteq Children /\ Sheltered \subseteq Children
  BY SecureSets
<1>. QED BY <1>1, <1>2 DEF Init, ClusterInit, HostInv, TearInv, UidInv, Gone, Cleared,
            Accountable, NoHost, NoChild, LifeInv, PastInv, CopyInv, NameInv

\* LifeInv is inductive.
LEMMA LifeInvKeeps ==
  ASSUME TypeOK, HostInv, TearInv, UidInv, LifeInv, [Next]_vars
  PROVE  LifeInv'
<1>. USE DEF LifeInv
<1>1. Creation \cap Teardown = {} /\ {"status", "addFinalizer"} \cap Teardown = {}
      /\ "addFinalizer" \notin Creation
  BY DEF Creation, Teardown
<1>2. CASE Users \/ Controllers \/ Deliver
  <2>1. CASE UNCHANGED objs
    BY <1>2, <2>1, OthersPast, OthersQuiet, QuietKeeps
  <2>2. CASE LawfulPut /\ UNCHANGED hostVars
    <3>1. UNCHANGED <<host, hostCache, pc, todo, made>>
      BY <1>2, <2>2 DEF Users, Controllers, Deliver, localVars, hostVars
    <3>. QED BY <1>2, <2>2, <3>1, OthersPast, LawfulKeeps
  <2>. QED BY <1>2, <2>1, <2>2, OthersLawful
<1>3. CASE Begin \/ AddFinalizer \/ UpdateStatus \/ Fail \/ Restart \/ UNCHANGED vars
  BY <1>3, EntryPast, EntryQuiet, QuietKeeps
<1>4. CASE RemoveFinalizer
  BY <1>4, EntryPast, RemovalKeeps
<1>5. CASE TearInternalHost \/ TearPages \/ TearTranslations \/ TearDeployment
  <2>1. UNCHANGED hostVars /\ pc \in Teardown /\ pc' # "addFinalizer"
    BY <1>5 DEF TearInternalHost, TearPages, TearTranslations, TearDeployment, AwaitGone, Goto,
                clusterVars, Teardown
  <2>. QED BY <1>5, <2>1, WithinPast, ChecksQuiet, QuietKeeps
<1>6. CASE DeleteNext \/ ReleaseClusterRoleBinding \/ ReleaseServiceAccount
  <2>1. /\ UNCHANGED hostVars /\ pc \in Teardown
        /\ pc' \in {"status", "delete", "releaseServiceAccount", "removeFinalizer"}
    BY <1>6 DEF DeleteNext, ReleaseClusterRoleBinding, ReleaseServiceAccount, Release, Goto,
                Return, Teardown
  <2>2. PastInv'
    BY <2>1, WithinPast
  <2>3. pc \notin Creation /\ pc' \notin Creation
    BY <2>1 DEF Creation, Teardown
  <2>4. CASE UNCHANGED objs /\ made' \subseteq made /\ pc' # "delete"
    BY <2>1, <2>2, <2>3, <2>4, QuietKeeps DEF Quiet, hostVars, NameInv, Accountable
  <2>5. CASE LawfulPut /\ made' = made /\ todo' \subseteq todo /\ (pc' = pc \/ pc' # "delete")
    BY <2>1, <2>2, <2>3, <2>5, LawfulKeeps DEF hostVars
  <2>. QED BY <1>6, <2>4, <2>5, TeardownLawful
<1>7. CASE CreationStep
  <2>1. UNCHANGED hostVars /\ pc' # "addFinalizer" /\ pc' \notin Teardown
    BY <1>1, <1>7 DEF CreationStep
  <2>. QED BY <1>7, <2>1, WithinPast, CreationKeeps
<1>. QED BY <1>2, <1>3, <1>4, <1>5, <1>6, <1>7, AnyCreationStep DEF Next, Reconcile

\* The internal host names only internal pages and translations that exist, where
\* their caches and its own keep up and nobody else deletes them: with any number
\* of them, failures, restarts, and incarnations of the host (the order in which
\* Reconcile makes and deletes them).
THEOREM ReferencesCorrect ==
  ASSUME Lagging \cap Internals = {}, Removable \cap (Pages \cup Translations) = {}
  PROVE  Spec => []NoDanglingRefs
<1>1. Init => HostInv /\ TearInv /\ UidInv /\ LifeInv
  BY InitInvs
<1>2. TypeOK /\ HostInv /\ TearInv /\ UidInv /\ LifeInv /\ [Next]_vars =>
        (HostInv /\ TearInv /\ UidInv /\ LifeInv)'
  BY HostInvKeeps, TearInvKeeps, UidInvKeeps, LifeInvKeeps
<1>3. TypeOK /\ LifeInv => NoDanglingRefs
  <2>1. Secure = Pages \cup Translations
    BY DEF Secure, Internals
  <2>2. TypeOK => objs["internalHost"].refs \subseteq Pages \cup Translations
    BY SecureSets DEF TypeOK, ClusterTypeOK, ChildRecord
  <2>. QED BY <2>1, <2>2 DEF LifeInv, NameInv, NoDanglingRefs
<1>. QED BY <1>1, <1>2, <1>3, TypeCorrect, PTL DEF Spec

-----------------------------------------------------------------------------
(* The promises of HostLife                                                *)

\* The children that exist.
Alive == {k \in Children : objs[k].state # "none"}

\* What HostLife sees of the children is what there is.
LEMMA ExistingIsAlive == HostLife!Existing = Alive /\ HostLife!Existing' = Alive'
BY DEF HostLife!Existing, Alive

\* No child lacks what it needs.
Met == \A k \in Alive : Needs(k) \subseteq Alive \ {k}

\* The invariants say so.
LEMMA NeedsMet ==
  ASSUME TypeOK, RbacOutlivesDeployment, NameInv
  PROVE  Met
<1>1. Rbac \subseteq Children /\ "deployment" \notin Rbac
  BY DEF Rbac, Children
<1>2. \A k \in Alive : k = "deployment" => Needs(k) \subseteq Alive \ {k}
  BY <1>1 DEF Needs, Alive, RbacOutlivesDeployment
<1>3. ASSUME "internalHost" \in Alive
      PROVE  Needs("internalHost") \subseteq Alive \ {"internalHost"}
  <2>1. objs["internalHost"].refs \subseteq Pages \cup Translations
    BY SecureSets DEF TypeOK, ClusterTypeOK, ChildRecord
  <2>2. Needs("internalHost") \subseteq objs["internalHost"].refs \cap Secure
    BY <2>1 DEF Needs, Secure
  <2>. QED BY <1>3, <2>2, SecureSets DEF Alive, NameInv
<1>4. \A k \in Alive : k \notin {"deployment", "internalHost"} => Needs(k) = {}
  BY DEF Needs
<1>. QED BY <1>2, <1>3, <1>4 DEF Met

\* A step that changes one child, and makes it only in creation, makes it for HostLife,
\* loses it, or changes nothing HostLife tells apart.
LEMMA ChildLife ==
  ASSUME UidInv, Met', UNCHANGED host,
         NEW k \in Children, \A j \in Children \ {k} : objs'[j] = objs[j],
         \/ pc \in Creation /\ host.finalizer
         \/ objs'[k].state # "none" => objs[k].state # "none" /\ objs'[k].refs = objs[k].refs
  PROVE  [HostLife!Next]_(HostLife!lifeVars)
<1>1. Life' = Life /\ (host.finalizer => Life \in {"accepted", "leaving"})
  BY DEF Life, UidInv
<1>2. Alive' \ {k} = Alive \ {k} /\ Alive \subseteq Children /\ Alive' \subseteq Children
  BY DEF Alive
<1>3. \A j \in Alive \ {k} : Needs(j)' = Needs(j)
  BY <1>2 DEF Needs
<1>4. \A j \in Alive' : Needs(j)' \subseteq Alive' \ {j}
  BY DEF Met
<1>5. CASE k \in Alive'
  <2>1. CASE host.finalizer
    <3>1. Alive' = Alive \cup {k} /\ Needs(k)' \subseteq Alive \ {k}
      BY <1>2, <1>4, <1>5
    <3>2. HostLife!Make(k)
      BY <1>1, <1>3, <1>5, <2>1, <3>1 DEF HostLife!Make, HostLife!Existing, Alive
    <3>. QED BY <3>2 DEF HostLife!Next
  <2>2. CASE k \in Alive /\ objs'[k].refs = objs[k].refs
    <3>1. Alive' = Alive /\ \A j \in Alive : Needs(j)' = Needs(j)
      BY <1>2, <1>3, <1>5, <2>2 DEF Needs
    <3>. QED BY <1>1, <3>1 DEF HostLife!lifeVars, Alive
  <2>. QED BY <1>5, <2>1, <2>2 DEF Alive
<1>6. CASE k \in Alive \ Alive'
  <2>1. Alive' = Alive \ {k} /\ \A j \in Alive \ {k} : k \notin Needs(j)
    BY <1>2, <1>3, <1>4, <1>6
  <2>2. HostLife!Lose(k)
    BY <1>1, <1>3, <1>6, <2>1 DEF HostLife!Lose, HostLife!Existing, Alive
  <2>. QED BY <2>2 DEF HostLife!Next
<1>7. CASE k \notin Alive \cup Alive'
  <2>1. Alive' = Alive /\ \A j \in Alive : Needs(j)' = Needs(j)
    BY <1>2, <1>3, <1>7
  <2>. QED BY <1>1, <2>1 DEF HostLife!lifeVars, Alive
<1>. QED BY <1>5, <1>6, <1>7

\* A step that leaves the children alone leaves what they need alone.
LEMMA NeedsSame ==
  ASSUME UNCHANGED objs
  PROVE  Alive' = Alive /\ (\A k : Needs(k)' = Needs(k)) /\ (Life' = Life => UNCHANGED HostLife!lifeVars)
BY DEF Alive, Needs, HostLife!lifeVars

\* What a user does to a host.
LEMMA UsersLife ==
  ASSUME TypeOK, CreateHost \/ EditSpec \/ DeleteHost
  PROVE  HostLife!Next \/ UNCHANGED HostLife!lifeVars
<1>0. host \in HostRecord /\ lastUid \in Nat
  BY DEF TypeOK, ClusterTypeOK
<1>1. UNCHANGED objs
  BY DEF CreateHost, EditSpec, DeleteHost, childVars
<1>2. CASE CreateHost
  <2>1. Life = "absent"
    BY <1>2 DEF CreateHost, Life
  <2>2. host'.uid # 0 /\ ~host'.deleting /\ ~host'.finalizer
    <3>1. PICK R \in SUBSET Choices :
            host' = [NoHost EXCEPT !.uid = lastUid + 1, !.generation = 1, !.refs = R]
      BY <1>2 DEF CreateHost, PutHost
    <3>2. host'.uid = lastUid + 1 /\ host'.deleting = FALSE /\ host'.finalizer = FALSE
      BY <3>1 DEF NoHost
    <3>. QED BY <1>0, <3>2
  <2>3. Life' = "requested"
    BY <2>2 DEF Life
  <2>. QED BY <1>1, <2>1, <2>3, NeedsSame DEF HostLife!Next, HostLife!Request, HostLife!Become, Alive
<1>3. CASE EditSpec
  <2>1. host'.uid = host.uid /\ host'.deleting = host.deleting /\ host'.finalizer = host.finalizer
    BY <1>0, <1>3 DEF EditSpec, PutHost, HostRecord
  <2>2. Life' = Life
    BY <2>1 DEF Life
  <2>. QED BY <1>1, <2>2, NeedsSame
<1>4. CASE DeleteHost
  <2>1. host.uid # 0 /\ ~host.deleting
    BY <1>4 DEF DeleteHost
  <2>2. CASE host.finalizer
    <3>1. host'.uid = host.uid /\ host'.deleting
      BY <1>0, <1>4, <2>2 DEF DeleteHost, PutHost, HostRecord
    <3>2. Life = "accepted" /\ Life' = "leaving"
      BY <2>1, <2>2, <3>1 DEF Life
    <3>. QED BY <1>1, <3>2, NeedsSame DEF HostLife!Next, HostLife!Leave, HostLife!Become, Alive
  <2>3. CASE ~host.finalizer
    <3>1. host'.uid = 0
      BY <1>4, <2>3 DEF DeleteHost, PutHost, NoHost
    <3>2. Life = "requested" /\ Life' = "absent"
      BY <2>1, <2>3, <3>1 DEF Life
    <3>. QED BY <1>1, <3>2, NeedsSame DEF HostLife!Next, HostLife!Withdraw, HostLife!Become, Alive
  <2>. QED BY <2>2, <2>3
<1>. QED BY <1>2, <1>3, <1>4

\* What the reconciler writes of a host.
LEMMA WritesLife ==
  ASSUME TypeOK, HostInv, TearInv, UidInv, PastInv,
         AddFinalizer \/ UpdateStatus \/ RemoveFinalizer
  PROVE  HostLife!Next \/ UNCHANGED HostLife!lifeVars
<1>0. host \in HostRecord
  BY DEF TypeOK, ClusterTypeOK
<1>1. UNCHANGED objs
  BY DEF AddFinalizer, UpdateStatus, RemoveFinalizer, childVars
<1>2. UNCHANGED host => UNCHANGED HostLife!lifeVars
  BY <1>1, NeedsSame DEF Life
<1>3. CASE AddFinalizer /\ fresh
  <2>1. host.uid # 0 /\ ~host.deleting
    BY <1>3 DEF AddFinalizer, PastInv, UidInv
  <2>2. host'.uid = host.uid /\ host'.deleting = host.deleting /\ host'.finalizer
    BY <1>0, <1>3 DEF AddFinalizer, PutHost, HostRecord
  <2>3. Life' = "accepted" /\ Life \in {"requested", "accepted"}
    BY <2>1, <2>2 DEF Life
  <2>. QED BY <1>1, <2>3, NeedsSame DEF HostLife!Next, HostLife!Accept, HostLife!Become, Alive
<1>4. CASE UpdateStatus /\ fresh
  <2>1. host'.uid = host.uid /\ host'.deleting = host.deleting /\ host'.finalizer = host.finalizer
    BY <1>0, <1>4 DEF UpdateStatus, HostRecord
  <2>2. Life' = Life
    BY <2>1 DEF Life
  <2>. QED BY <1>1, <2>2, NeedsSame
<1>5. CASE RemoveFinalizer /\ fresh
  <2>1. pc = "removeFinalizer" /\ host' = NoHost
    BY <1>5 DEF RemoveFinalizer, PutHost
  <2>2. Life = "leaving" /\ Life' = "absent"
    BY <1>5, <2>1 DEF HostInv, Teardown, Life, NoHost
  <2>3. ((Internals \cup {"deployment"}) \ Lagging) \cap HostLife!Existing = {}
    BY <2>1, ExistingIsAlive DEF TearInv, Gone, Cleared, Alive
  <2>. QED BY <1>1, <2>2, <2>3, NeedsSame DEF HostLife!Next, HostLife!Depart, HostLife!Become, Alive
<1>. QED BY <1>2, <1>3, <1>4, <1>5 DEF AddFinalizer, UpdateStatus, RemoveFinalizer

\* A lawful write makes nothing.
LEMMA LawfulLife ==
  ASSUME TypeOK, UidInv, Met', LawfulPut, UNCHANGED host
  PROVE  [HostLife!Next]_(HostLife!lifeVars)
<1>1. PICK k \in Children, c \in ChildRecord : objs' = [objs EXCEPT ![k] = c] /\ Lawful(k, c)
  BY DEF LawfulPut, Put, Store
<1>2. objs'[k] = c /\ \A j \in Children \ {k} : objs'[j] = objs[j]
  BY <1>1 DEF TypeOK, ClusterTypeOK
<1>. QED BY <1>1, <1>2, ChildLife DEF Lawful

\* What creation makes it makes for a host with the finalizer.
LEMMA CreationLife ==
  ASSUME TypeOK, HostInv, TearInv, UidInv, Met', CreationStep
  PROVE  [HostLife!Next]_(HostLife!lifeVars)
<1>1. UNCHANGED host /\ pc \in Creation /\ host.finalizer
  BY DEF CreationStep, HostInv, hostVars
<1>2. CASE UNCHANGED objs
  BY <1>1, <1>2, NeedsSame DEF Life
<1>3. ASSUME NEW k \in Children, Call(k) PROVE [HostLife!Next]_(HostLife!lifeVars)
  BY <1>1, <1>3, CallMakes, ChildLife
<1>. QED BY <1>2, <1>3 DEF CreationStep, childVars

\* Every step is one of HostLife or none.
LEMMA AnyLife ==
  ASSUME TypeOK, HostInv, TearInv, UidInv, PastInv, Met', [Next]_vars
  PROVE  [HostLife!Next]_(HostLife!lifeVars)
<1>1. CASE UNCHANGED <<host, objs>>
  BY <1>1, NeedsSame DEF Life
<1>2. CASE Users \/ Controllers \/ Deliver
  <2>1. CASE CreateHost \/ EditSpec \/ DeleteHost
    BY <2>1, UsersLife
  <2>2. CASE LawfulPut /\ UNCHANGED hostVars
    BY <2>2, LawfulLife DEF hostVars
  <2>3. CASE UNCHANGED host
    BY <1>1, <1>2, <2>2, <2>3, OthersLawful
  <2>. QED BY <1>2, <2>1, <2>3
           DEF Users, Controllers, Deliver, RemoveChild, ChangeReferent, ReportCondition,
               HoldInternal, ReleaseInternal, CollectGarbage, SyncHost, SyncChild, hostVars
<1>3. CASE AddFinalizer \/ UpdateStatus \/ RemoveFinalizer
  BY <1>3, WritesLife
<1>4. CASE DeleteNext \/ ReleaseClusterRoleBinding \/ ReleaseServiceAccount
  <2>1. UNCHANGED host
    BY <1>4, TeardownWithin DEF Within, hostVars
  <2>. QED BY <1>1, <1>4, <2>1, TeardownLawful, LawfulLife
<1>5. CASE CreationStep
  BY <1>5, CreationLife
<1>6. CASE \/ Begin \/ Fail \/ Restart \/ UNCHANGED vars
           \/ TearInternalHost \/ TearPages \/ TearTranslations \/ TearDeployment
  BY <1>1, <1>6 DEF Begin, Fail, Restart, vars, TearInternalHost, TearPages, TearTranslations,
                    TearDeployment, AwaitGone, clusterVars, hostVars, childVars
<1>. QED BY <1>2, <1>3, <1>4, <1>5, <1>6, AnyCreationStep DEF Next, Reconcile

\* The reconciler keeps the promises of HostLife: whatever the caches of pages,
\* translations and the internal host show, whoever deletes what, and wherever it
\* fails or is stopped, a host is accepted before anything is made for it, departs
\* after what a teardown waits for, and no part is ever without those it needs.
THEOREM LifeCorrect ==
  ASSUME Unlagged \cap Lagging = {}
  PROVE  Spec => ImplementsHostLife
<1>1. Init => HostInv /\ TearInv /\ UidInv /\ LifeInv
  BY InitInvs
<1>2. TypeOK /\ HostInv /\ TearInv /\ UidInv /\ LifeInv /\ [Next]_vars =>
        (HostInv /\ TearInv /\ UidInv /\ LifeInv)'
  BY HostInvKeeps, TearInvKeeps, UidInvKeeps, LifeInvKeeps
<1>3. TypeOK /\ RbacOutlivesDeployment /\ LifeInv => Met
  BY NeedsMet DEF LifeInv
<1>4. TypeOK /\ HostInv /\ TearInv /\ UidInv /\ LifeInv /\ Met' /\ [Next]_vars =>
        [HostLife!Next]_(HostLife!lifeVars)
  BY AnyLife DEF LifeInv
<1>5. Init => HostLife!Init
  <2>1. Init => Life = "absent" /\ {k \in Children : objs[k].state # "none"} = {}
    BY DEF Init, ClusterInit, NoHost, NoChild, Life
  <2>. QED BY <2>1 DEF HostLife!Init
<1>6. Spec => []RbacOutlivesDeployment
  BY RbacCorrect
<1>. QED BY <1>1, <1>2, <1>3, <1>4, <1>5, <1>6, TypeCorrect, PTL
         DEF Spec, ImplementsHostLife, HostLife!Spec
=============================================================================
