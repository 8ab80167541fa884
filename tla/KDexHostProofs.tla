--------------------------- MODULE KDexHostProofs ---------------------------
(***************************************************************************)
(* Theorems about KDexHost, for every value of its constants.              *)
(***************************************************************************)
EXTENDS KDexHost, TLAPS

-----------------------------------------------------------------------------
(* Types                                                                   *)

\* A write of well-formed children leaves the children's variables well-formed.
LEMMA StoreType ==
  ASSUME TypeOK, NEW new \in [Children -> ChildRecord], Store(new)
  PROVE  /\ objs' \in [Children -> ChildRecord] /\ cache' \in [Children -> ChildRecord]
         /\ synced' \subseteq Children /\ queued' \in BOOLEAN
BY DEF TypeOK, ClusterTypeOK, Store

\* So does the write of one well-formed child.
LEMMA PutType ==
  ASSUME TypeOK, NEW k \in Children, NEW c \in ChildRecord, Put(k, c)
  PROVE  /\ objs' \in [Children -> ChildRecord] /\ cache' \in [Children -> ChildRecord]
         /\ synced' \subseteq Children /\ queued' \in BOOLEAN
<1>1. [objs EXCEPT ![k] = c] \in [Children -> ChildRecord]
  BY DEF TypeOK, ClusterTypeOK
<1>. QED BY <1>1, StoreType DEF Put

\* What is written is a child record.
LEMMA ChildTypes ==
  ASSUME NEW c \in ChildRecord
  PROVE  /\ Deleted(c) \in ChildRecord /\ Released(c) \in ChildRecord
         /\ [c EXCEPT !.held = TRUE] \in ChildRecord
         /\ \A x \in Conditions : [c EXCEPT !.cond = x] \in ChildRecord
BY DEF Deleted, Released, ChildRecord, NoChild, Conditions

\* What the mutate functions make of a child is a child.
LEMMA DesiredType ==
  ASSUME TypeOK, NEW k \in Children
  PROVE  Desired(k) \in ChildRecord
<1>1. cache[k] \in ChildRecord /\ work \in HostRecord /\ made \in SUBSET (Pages \cup Translations)
  BY DEF TypeOK, ClusterTypeOK, KDexHostTypeOK
<1>. QED BY <1>1 DEF Desired, ChildRecord, HostRecord, NoChild

\* The initial states are well typed.
LEMMA InitType == Init => TypeOK
<1>. SUFFICES ASSUME Init PROVE TypeOK OBVIOUS
<1>1. NoHost \in HostRecord /\ NoChild \in ChildRecord
  BY DEF NoHost, NoChild, HostRecord, ChildRecord, Readiness, Conditions
<1>2. ClusterTypeOK
  BY <1>1 DEF Init, ClusterInit, ClusterTypeOK
<1>3. KDexHostTypeOK
  BY <1>1 DEF Init, KDexHostTypeOK, Conditions
<1>. QED BY <1>2, <1>3 DEF TypeOK

Phases == {"idle", "addFinalizer", "status"} \cup Teardown \cup Creation

\* What a control step leaves well-formed, by the way it ends.
LEMMA GotoType ==
  ASSUME TypeOK, pc # "delete", NEW p \in Phases \ {"delete"}, Goto(p)
  PROVE  KDexHostTypeOK'
BY DEF TypeOK, KDexHostTypeOK, Goto, Phases

\* A return with a readiness.
LEMMA ReturnType ==
  ASSUME TypeOK, NEW r \in Readiness, NEW b \in BOOLEAN, Return(r, b)
  PROVE  KDexHostTypeOK'
<1>1. work' \in HostRecord
  BY DEF TypeOK, KDexHostTypeOK, HostRecord, Return
<1>. QED BY <1>1 DEF TypeOK, KDexHostTypeOK, Return, Conditions

\* A step to the next reference of a loop.
LEMMA CopiedType ==
  ASSUME TypeOK, NEW r \in Pages \cup Translations, Copied(r)
  PROVE  KDexHostTypeOK'
BY DEF TypeOK, KDexHostTypeOK, Copied

\* CreateOrUpdate, whatever follows it.
LEMMA EnsureType ==
  ASSUME TypeOK, NEW k \in Children,
         Put(k, Desired(k)) \/ UNCHANGED <<childVars, queued>>,
         UNCHANGED <<hostVars, avail, faults>>
  PROVE  ClusterTypeOK'
<1>1. /\ objs' \in [Children -> ChildRecord] /\ cache' \in [Children -> ChildRecord]
      /\ synced' \subseteq Children /\ queued' \in BOOLEAN
  <2>1. CASE Put(k, Desired(k))
    BY <2>1, DesiredType, PutType
  <2>2. CASE UNCHANGED <<childVars, queued>>
    BY <2>2 DEF TypeOK, ClusterTypeOK, childVars
  <2>. QED BY <2>1, <2>2
<1>. QED BY <1>1 DEF TypeOK, ClusterTypeOK, hostVars

\* A step that leaves the cluster or the reconcile alone.
LEMMA ClusterSame ==
  ASSUME TypeOK, UNCHANGED clusterVars PROVE ClusterTypeOK'
BY DEF TypeOK, ClusterTypeOK, clusterVars, hostVars, childVars

\* So do steps that leave all of the reconciler alone.
LEMMA LocalSame ==
  ASSUME TypeOK, UNCHANGED localVars PROVE KDexHostTypeOK'
BY DEF TypeOK, KDexHostTypeOK, localVars

\* What users write is a host record.
LEMMA NoHostType == NoHost \in HostRecord
BY DEF HostRecord, NoHost, Readiness

\* What users and the reconciler write of the host is a host record.
LEMMA HostTypes ==
  ASSUME NEW h \in HostRecord, NEW n \in Nat, NEW R \in SUBSET Choices
  PROVE  /\ [h EXCEPT !.deleting = TRUE, !.generation = @ + 1] \in HostRecord
         /\ [h EXCEPT !.generation = @ + 1, !.refs = R] \in HostRecord
         /\ [NoHost EXCEPT !.uid = n + 1, !.generation = 1, !.refs = R] \in HostRecord
<1>1. R \in SUBSET Referents
  BY DEF Choices
<1>2. h.generation + 1 \in Nat /\ n + 1 \in Nat
  BY DEF HostRecord
<1>. QED BY <1>1, <1>2, NoHostType DEF HostRecord

\* What users do (Cluster) keeps the types.
LEMMA UsersType == TypeOK /\ Users => TypeOK'
<1>. SUFFICES ASSUME TypeOK, Users PROVE ClusterTypeOK'
  BY LocalSame DEF Users, TypeOK
<1>0. USE DEF TypeOK
<1>1. CASE CreateHost
  <2>1. PICK R \in SUBSET Choices :
          PutHost([NoHost EXCEPT !.uid = lastUid + 1, !.generation = 1, !.refs = R])
    BY <1>1 DEF CreateHost
  <2>2. [NoHost EXCEPT !.uid = lastUid + 1, !.generation = 1, !.refs = R] \in HostRecord
    BY HostTypes DEF ClusterTypeOK
  <2>. QED BY <1>1, <2>1, <2>2 DEF CreateHost, PutHost, ClusterTypeOK, childVars
<1>2. CASE EditSpec
  <2>1. PICK R \in SUBSET Choices :
          PutHost([host EXCEPT !.generation = @ + 1, !.refs = R])
    BY <1>2 DEF EditSpec
  <2>2. [host EXCEPT !.generation = @ + 1, !.refs = R] \in HostRecord
    BY HostTypes DEF ClusterTypeOK
  <2>. QED BY <1>2, <2>1, <2>2 DEF EditSpec, PutHost, ClusterTypeOK, childVars
<1>3. CASE DeleteHost
  <2>1. /\ [host EXCEPT !.deleting = TRUE, !.generation = @ + 1] \in HostRecord
        /\ NoHost \in HostRecord
    <3>1. {} \in SUBSET Choices
      OBVIOUS
    <3>. QED BY <3>1, HostTypes, NoHostType DEF ClusterTypeOK
  <2>. QED BY <1>3, <2>1 DEF DeleteHost, PutHost, ClusterTypeOK, childVars
<1>4. ASSUME NEW k \in Children, RemoveChild(k) PROVE ClusterTypeOK'
  <2>1. objs[k] \in ChildRecord
    BY DEF ClusterTypeOK
  <2>2. Deleted(objs[k]) \in ChildRecord
    BY <2>1, ChildTypes
  <2>3. /\ objs' \in [Children -> ChildRecord] /\ cache' \in [Children -> ChildRecord]
        /\ synced' \subseteq Children /\ queued' \in BOOLEAN
    BY <1>4, <2>2, PutType DEF RemoveChild
  <2>. QED BY <1>4, <2>3 DEF RemoveChild, ClusterTypeOK, hostVars
<1>5. ASSUME NEW r \in Referents, ChangeReferent(r) PROVE ClusterTypeOK'
  BY <1>5 DEF ChangeReferent, ClusterTypeOK, hostVars, childVars
<1>. QED BY <1>1, <1>2, <1>3, <1>4, <1>5 DEF Users

\* So does what other controllers do.
LEMMA ControllersType == TypeOK /\ Controllers => TypeOK'
<1>. SUFFICES ASSUME TypeOK, Controllers PROVE ClusterTypeOK'
  BY LocalSame DEF Controllers, TypeOK
<1>1. PICK k \in Children : \/ ReportCondition(k) \/ HoldInternal(k) \/ ReleaseInternal(k)
                            \/ CollectGarbage(k)
  BY DEF Controllers
<1>2. objs[k] \in ChildRecord
  BY DEF TypeOK, ClusterTypeOK
<1>3. PICK c \in ChildRecord : Put(k, c) /\ UNCHANGED <<hostVars, avail, faults>>
  <2>1. CASE ReportCondition(k)
    BY <2>1, <1>2, ChildTypes DEF ReportCondition, Conditions
  <2>2. CASE HoldInternal(k)
    BY <2>2, <1>2, ChildTypes DEF HoldInternal
  <2>3. CASE ReleaseInternal(k)
    BY <2>3, <1>2, ChildTypes DEF ReleaseInternal
  <2>4. CASE CollectGarbage(k)
    BY <2>4, <1>2, ChildTypes DEF CollectGarbage
  <2>. QED BY <1>1, <2>1, <2>2, <2>3, <2>4
<1>4. /\ objs' \in [Children -> ChildRecord] /\ cache' \in [Children -> ChildRecord]
      /\ synced' \subseteq Children /\ queued' \in BOOLEAN
  BY <1>3, PutType
<1>. QED BY <1>3, <1>4 DEF TypeOK, ClusterTypeOK, hostVars

\* So do the informers.
LEMMA DeliverType == TypeOK /\ Deliver => TypeOK'
<1>. SUFFICES ASSUME TypeOK, Deliver PROVE ClusterTypeOK'
  BY LocalSame DEF Deliver, TypeOK
<1>1. CASE SyncHost
  BY <1>1 DEF SyncHost, TypeOK, ClusterTypeOK, childVars
<1>2. ASSUME NEW k \in Children, SyncChild(k) PROVE ClusterTypeOK'
  BY <1>2 DEF SyncChild, TypeOK, ClusterTypeOK, hostVars
<1>. QED BY <1>1, <1>2 DEF Deliver

\* So do failed calls and restarts.
LEMMA FailureType == TypeOK /\ (Fail \/ Restart) => TypeOK'
<1>. SUFFICES ASSUME TypeOK, Fail \/ Restart PROVE TypeOK'
  OBVIOUS
<1>1. CASE Fail
  <2>. DEFINE r == IF pc \in Creation THEN "False" ELSE work.ready
  <2>0. work.ready \in Readiness
    BY DEF TypeOK, KDexHostTypeOK, HostRecord
  <2>1. r \in Readiness /\ Return(r, TRUE)
    BY <1>1, <2>0 DEF Fail, Readiness
  <2>. HIDE DEF r
  <2>2. KDexHostTypeOK'
    BY <2>1, ReturnType
  <2>3. ClusterTypeOK'
    BY <1>1 DEF Fail, TypeOK, ClusterTypeOK, hostVars, childVars
  <2>. QED BY <2>2, <2>3 DEF TypeOK
<1>2. CASE Restart
  <2>1. NoHost \in HostRecord
    BY NoHostType
  <2>2. KDexHostTypeOK'
    BY <1>2, <2>1 DEF Restart, KDexHostTypeOK, Conditions
  <2>3. ClusterTypeOK'
    <3>1. queued' \in BOOLEAN
      BY <1>2 DEF Restart
    <3>2. /\ fresh' = FALSE /\ faults' = faults + 1
          /\ hostCache' = host /\ hostSynced' = TRUE
          /\ cache' = objs /\ synced' = Children
          /\ UNCHANGED <<host, lastUid, objs, avail>>
      BY <1>2 DEF Restart
    <3>3. cache' \in [Children -> ChildRecord] /\ objs' \in [Children -> ChildRecord]
      BY <3>2 DEF TypeOK, ClusterTypeOK
    <3>4. faults' \in Nat /\ lastUid' \in Nat
      BY <3>2 DEF TypeOK, ClusterTypeOK
    <3>. QED BY <3>1, <3>2, <3>3, <3>4 DEF TypeOK, ClusterTypeOK
  <2>. QED BY <2>2, <2>3 DEF TypeOK
<1>. QED BY <1>1, <1>2


\* The first read of Reconcile, and its branch.
LEMMA BeginType == TypeOK /\ Begin => TypeOK'
<1>. SUFFICES ASSUME TypeOK, Begin PROVE TypeOK'
  OBVIOUS
<1>1. ClusterTypeOK'
  BY DEF Begin, TypeOK, ClusterTypeOK, childVars
<1>2. hostCache \in HostRecord /\ [hostCache EXCEPT !.ready = "Unknown"] \in HostRecord
  BY DEF TypeOK, ClusterTypeOK, HostRecord, Readiness
<1>3. (hostCache.refs \cap Pages) \cup DefaultPages \in SUBSET Referents
  BY ClusterAssumption DEF ClusterAssumption, Referents
<1>4. Branch(hostCache) \in Phases \ {"delete"}
  BY DEF Branch, Phases, Teardown, Creation
<1>5. KDexHostTypeOK'
  <2>1. CASE UNCHANGED localVars
    BY <2>1, LocalSame
  <2>2. CASE pc' = Branch(hostCache)
    BY <2>2, <1>2, <1>3, <1>4 DEF Begin, TypeOK, KDexHostTypeOK, Phases, localVars
  <2>. QED BY <2>1, <2>2 DEF Begin
<1>. QED BY <1>1, <1>5 DEF TypeOK

\* The deferred status update, and the first branch of Reconcile.
LEMMA StatusType == TypeOK /\ (UpdateStatus \/ AddFinalizer) => TypeOK'
<1>. SUFFICES ASSUME TypeOK, UpdateStatus \/ AddFinalizer PROVE TypeOK'
  OBVIOUS
<1>1. CASE UpdateStatus
  <2>1. [host EXCEPT !.ready = work.ready, !.observed = work.generation] \in HostRecord
    BY DEF TypeOK, ClusterTypeOK, KDexHostTypeOK, HostRecord
  <2>2. ClusterTypeOK'
    BY <1>1, <2>1 DEF UpdateStatus, TypeOK, ClusterTypeOK, childVars
  <2>3. KDexHostTypeOK'
    BY <1>1, NoHostType DEF UpdateStatus, TypeOK, KDexHostTypeOK
  <2>. QED BY <2>2, <2>3 DEF TypeOK
<1>2. CASE AddFinalizer
  <2>1. /\ [host EXCEPT !.finalizer = TRUE] \in HostRecord
        /\ [work EXCEPT !.finalizer = TRUE] \in HostRecord
    BY DEF TypeOK, ClusterTypeOK, KDexHostTypeOK, HostRecord
  <2>2. ClusterTypeOK'
    BY <1>2, <2>1 DEF AddFinalizer, PutHost, TypeOK, ClusterTypeOK, childVars
  <2>3. KDexHostTypeOK'
    BY <1>2, <2>1 DEF AddFinalizer, TypeOK, KDexHostTypeOK
  <2>. QED BY <2>2, <2>3 DEF TypeOK
<1>. QED BY <1>1, <1>2

\* The ways the loop over references goes on.
LEMMA SkipType ==
  ASSUME TypeOK, NEW r \in Referents, SkipMissing(r)
  PROVE  TypeOK'
<1>1. [work EXCEPT !.ready = "False"] \in HostRecord
  BY DEF TypeOK, KDexHostTypeOK, HostRecord, Readiness
<1>2. KDexHostTypeOK'
  BY <1>1 DEF SkipMissing, TypeOK, KDexHostTypeOK
<1>. QED BY <1>2, ClusterSame DEF SkipMissing, TypeOK

\* A reference that panics the reconcile.
LEMMA PanicType ==
  ASSUME TypeOK, NEW r \in Referents, Panic(r)
  PROVE  TypeOK'
<1>. DEFINE q == IF avail[r] = "missing" THEN "False" ELSE work.ready
<1>1. q \in Readiness /\ Return(q, TRUE)
  BY DEF Panic, TypeOK, KDexHostTypeOK, HostRecord, Readiness
<1>. HIDE DEF q
<1>2. KDexHostTypeOK'
  BY <1>1, ReturnType
<1>. QED BY <1>2, ClusterSame DEF Panic, TypeOK

\* A reference that is copied.
LEMMA CopyType ==
  ASSUME TypeOK, NEW r \in Pages \cup Translations, Ensure(r, Copied(r))
  PROVE  TypeOK'
<1>1. r \in Children
  BY DEF Children, Internals
<1>2. ClusterTypeOK' /\ (Copied(r) \/ Return("False", TRUE))
  BY <1>1, EnsureType DEF Ensure
<1>3. "False" \in Readiness
  BY DEF Readiness
<1>. QED BY <1>2, <1>3, CopiedType, ReturnType DEF TypeOK

\* The three loops over references.
LEMMA ResolveType ==
  ASSUME TypeOK, \/ \E p \in Pages : ResolvePage(p)
                 \/ \E r \in Direct : ResolveDirect(r)
                 \/ \E t \in Translations : ResolveTranslation(t)
  PROVE  TypeOK'
<1>0. Pages \cup Translations \cup Direct = Referents /\ "False" \in Readiness
  BY DEF Referents, Readiness
<1>1. ASSUME NEW p \in Pages, ResolvePage(p) PROVE TypeOK'
  <2>1. SkipMissing(p) \/ Panic(p) \/ Ensure(p, Copied(p))
    BY <1>1 DEF ResolvePage
  <2>. QED BY <1>0, <2>1, SkipType, PanicType, CopyType
<1>2. ASSUME NEW r \in Direct, ResolveDirect(r) PROVE TypeOK'
  <2>1. CASE Panic(r)
    BY <1>0, <2>1, PanicType
  <2>2. CASE UNCHANGED <<clusterVars, pc, work, made, seen, again>> /\ todo' = todo \ {r}
    <3>1. KDexHostTypeOK'
      BY <2>2 DEF TypeOK, KDexHostTypeOK
    <3>. QED BY <2>2, <3>1, ClusterSame DEF TypeOK
  <2>. QED BY <1>2, <2>1, <2>2 DEF ResolveDirect
<1>3. ASSUME NEW t \in Translations, ResolveTranslation(t) PROVE TypeOK'
  <2>1. CASE Return("False", TRUE) /\ UNCHANGED clusterVars
    BY <1>0, <2>1, ReturnType, ClusterSame DEF TypeOK
  <2>2. \/ SkipMissing(t) \/ Ensure(t, Copied(t))
        \/ Return("False", TRUE) /\ UNCHANGED clusterVars
    <3>. HIDE DEF TypeOK
    <3>. QED BY <1>3 DEF ResolveTranslation
  <2>. QED BY <1>0, <2>1, <2>2, SkipType, CopyType
<1>. QED BY <1>1, <1>2, <1>3

\* Between the phases.
LEMMA ResolvedType ==
  TypeOK /\ (PagesResolved \/ DirectResolved \/ TranslationsResolved) => TypeOK'
<1>. SUFFICES ASSUME TypeOK, PagesResolved \/ DirectResolved \/ TranslationsResolved
              PROVE  KDexHostTypeOK'
  BY ClusterSame DEF PagesResolved, DirectResolved, TranslationsResolved, TypeOK
<1>2. work.refs \in SUBSET Referents
  BY DEF TypeOK, KDexHostTypeOK, HostRecord
<1>3. DefaultTranslation \in Referents
  BY ClusterAssumption DEF ClusterAssumption, Referents
<1>4. CASE PagesResolved
  BY <1>2, <1>4 DEF PagesResolved, TypeOK, KDexHostTypeOK, Creation
<1>5. CASE DirectResolved
  BY <1>2, <1>3, <1>5 DEF DirectResolved, TypeOK, KDexHostTypeOK, Creation
<1>6. CASE TranslationsResolved
  BY <1>6, GotoType DEF TranslationsResolved, Phases, Creation
<1>. QED BY <1>4, <1>5, <1>6

\* The calls that create or update one child each.
LEMMA CreateType ==
  TypeOK /\ (\/ CreateConfigMap \/ CreateServiceAccount \/ CreateClusterRoleBinding
             \/ CreateDeployment \/ CreateService \/ CreateInternalHost) => TypeOK'
<1>. SUFFICES ASSUME TypeOK,
                     \/ CreateConfigMap \/ CreateServiceAccount \/ CreateClusterRoleBinding
                     \/ CreateDeployment \/ CreateService \/ CreateInternalHost
              PROVE  TypeOK'
  OBVIOUS
<1>0. {"False", "True"} \subseteq Readiness
  BY DEF Readiness
<1>1. {"configMap", "serviceAccount", "clusterRoleBinding", "deployment", "service",
       "internalHost"} \subseteq Children
  BY DEF Children, Rbac, Internals
<1>2. Return("False", TRUE) => KDexHostTypeOK'
  BY <1>0, ReturnType
<1>9. \A p \in Creation : Goto(p) => KDexHostTypeOK'
  <2>1. pc # "delete"
    BY DEF CreateConfigMap, CreateServiceAccount, CreateClusterRoleBinding,
           CreateDeployment, CreateService, CreateInternalHost
  <2>2. Creation \subseteq Phases \ {"delete"}
    BY DEF Phases, Creation
  <2>. QED BY <2>1, <2>2, GotoType
<1>3. CASE CreateConfigMap
  <2>1. ClusterTypeOK' /\ (Goto("serviceAccount") \/ Return("False", TRUE))
    BY <1>1, <1>3, EnsureType DEF Ensure, CreateConfigMap
  <2>. QED BY <1>2, <1>9, <2>1 DEF TypeOK, Creation
<1>4. CASE CreateServiceAccount
  <2>1. ClusterTypeOK' /\ (Goto("clusterRoleBinding") \/ Return("False", TRUE))
    BY <1>1, <1>4, EnsureType DEF Ensure, CreateServiceAccount
  <2>. QED BY <1>2, <1>9, <2>1 DEF TypeOK, Creation
<1>5. CASE CreateClusterRoleBinding
  <2>1. ClusterTypeOK' /\ (Goto("deployment") \/ Return("False", TRUE))
    BY <1>1, <1>5, EnsureType DEF Ensure, CreateClusterRoleBinding
  <2>. QED BY <1>2, <1>9, <2>1 DEF TypeOK, Creation
<1>6. CASE CreateService
  <2>1. ClusterTypeOK' /\ (Goto("internalHost") \/ Return("False", TRUE))
    BY <1>1, <1>6, EnsureType DEF Ensure, CreateService
  <2>. QED BY <1>2, <1>9, <2>1 DEF TypeOK, Creation
<1>7. CASE CreateInternalHost
  <2>1. ClusterTypeOK' /\ (\/ IF cache["internalHost"].cond = "False"
                                THEN Return("False", TRUE) ELSE Return("True", FALSE)
                           \/ Return("False", TRUE))
    BY <1>1, <1>7, EnsureType DEF Ensure, CreateInternalHost
  <2>2. Return("True", FALSE) => KDexHostTypeOK'
    BY <1>0, ReturnType
  <2>. QED BY <1>2, <2>1, <2>2 DEF TypeOK
<1>8. CASE CreateDeployment
  <2>. DEFINE T == /\ pc' = "service" /\ seen' = cache["deployment"].cond
                   /\ UNCHANGED <<work, todo, made, again>>
  <2>0. Ensure("deployment", T)
    BY <1>8 DEF CreateDeployment
  <2>1. T => KDexHostTypeOK'
    <3>1. cache["deployment"].cond \in Conditions
      BY <1>1 DEF TypeOK, ClusterTypeOK, ChildRecord
    <3>2. pc = "deployment"
      BY <1>8 DEF CreateDeployment
    <3>. QED BY <3>1, <3>2 DEF TypeOK, KDexHostTypeOK, Creation
  <2>. HIDE DEF T
  <2>2. ClusterTypeOK' /\ (T \/ Return("False", TRUE))
    BY <1>1, <2>0, EnsureType DEF Ensure
  <2>. QED BY <1>2, <2>1, <2>2 DEF TypeOK
<1>. QED BY <1>3, <1>4, <1>5, <1>6, <1>7, <1>8

\* Teardown.
LEMMA AwaitGoneType ==
  ASSUME TypeOK, NEW K \in SUBSET Children, pc # "delete", NEW p \in Phases \ {"delete"},
         AwaitGone(K, p)
  PROVE  TypeOK'
<1>1. KDexHostTypeOK'
  <2>1. CASE Goto(p)
    BY <2>1, GotoType
  <2>2. CASE /\ pc' = "delete" /\ todo' \in SUBSET Children
             /\ UNCHANGED <<work, made, seen, again>>
    BY <2>2 DEF TypeOK, KDexHostTypeOK, Teardown
  <2>. QED BY <2>1, <2>2 DEF AwaitGone
<1>. QED BY <1>1, ClusterSame DEF AwaitGone, TypeOK

\* One half of cleanupRbacFinalizers.
LEMMA ReleaseType ==
  ASSUME TypeOK, NEW k \in Children, pc # "delete", NEW p \in Phases \ {"delete"},
         Release(k, p)
  PROVE  TypeOK'
<1>1. work.ready \in Readiness /\ objs[k] \in ChildRecord
  BY DEF TypeOK, ClusterTypeOK, KDexHostTypeOK, HostRecord
<1>2. KDexHostTypeOK'
  BY <1>1, GotoType, ReturnType DEF Release
<1>3. /\ objs' \in [Children -> ChildRecord] /\ cache' \in [Children -> ChildRecord]
      /\ synced' \subseteq Children /\ queued' \in BOOLEAN
  <2>1. CASE Put(k, Released(objs[k]))
    BY <1>1, <2>1, ChildTypes, PutType
  <2>2. CASE UNCHANGED <<childVars, queued>>
    BY <2>2 DEF TypeOK, ClusterTypeOK, childVars
  <2>. QED BY <2>1, <2>2 DEF Release
<1>. QED BY <1>2, <1>3 DEF Release, TypeOK, ClusterTypeOK, hostVars

\* The deletions of a teardown block.
LEMMA DeleteType == TypeOK /\ DeleteNext => TypeOK'
<1>. SUFFICES ASSUME TypeOK, DeleteNext PROVE TypeOK'
  OBVIOUS
<1>1. CASE Return(work.ready, TRUE) /\ UNCHANGED <<childVars, queued>>
  <2>1. work.ready \in Readiness
    BY DEF TypeOK, KDexHostTypeOK, HostRecord
  <2>2. KDexHostTypeOK'
    BY <1>1, <2>1, ReturnType
  <2>. QED BY <1>1, <2>2 DEF DeleteNext, TypeOK, ClusterTypeOK, hostVars, childVars
<1>2. ASSUME NEW k \in todo, Put(k, Deleted(objs[k])), objs[k].state # "none",
             todo' = todo \ {k}, UNCHANGED <<pc, work, made, seen, again>>
      PROVE  TypeOK'
  <2>1. KDexHostTypeOK'
    BY <1>2 DEF TypeOK, KDexHostTypeOK
  <2>2. k \in Children
    BY <1>2 DEF DeleteNext, TypeOK, KDexHostTypeOK
  <2>3. /\ objs' \in [Children -> ChildRecord] /\ cache' \in [Children -> ChildRecord]
        /\ synced' \subseteq Children /\ queued' \in BOOLEAN
    BY <1>2, <2>2, ChildTypes, PutType DEF TypeOK, ClusterTypeOK
  <2>. QED BY <2>1, <2>3 DEF DeleteNext, TypeOK, ClusterTypeOK, hostVars
<1>. QED BY <1>1, <1>2 DEF DeleteNext

\* The four blocks of the teardown, and the two releases.
LEMMA TeardownType ==
  TypeOK /\ (\/ TearInternalHost \/ TearPages \/ TearTranslations \/ TearDeployment
             \/ ReleaseClusterRoleBinding \/ ReleaseServiceAccount) => TypeOK'
<1>. SUFFICES ASSUME TypeOK,
                     \/ TearInternalHost \/ TearPages \/ TearTranslations \/ TearDeployment
                     \/ ReleaseClusterRoleBinding \/ ReleaseServiceAccount
              PROVE  TypeOK'
  OBVIOUS
<1>1. /\ {"internalHost"} \subseteq Children /\ Pages \subseteq Children
      /\ Translations \subseteq Children /\ {"deployment"} \subseteq Children
      /\ Rbac \subseteq Children
  BY DEF Children, Internals, Rbac
<1>2. Teardown \ {"delete"} \subseteq Phases \ {"delete"}
  BY DEF Phases
<1>3. pc # "delete"
  BY DEF TearInternalHost, TearPages, TearTranslations, TearDeployment,
         ReleaseClusterRoleBinding, ReleaseServiceAccount
<1>4. CASE TearInternalHost
  BY <1>1, <1>2, <1>3, <1>4, AwaitGoneType DEF TearInternalHost, Teardown
<1>5. CASE TearPages
  BY <1>1, <1>2, <1>3, <1>5, AwaitGoneType DEF TearPages, Teardown
<1>6. CASE TearTranslations
  BY <1>1, <1>2, <1>3, <1>6, AwaitGoneType DEF TearTranslations, Teardown
<1>7. CASE TearDeployment
  BY <1>1, <1>2, <1>3, <1>7, AwaitGoneType DEF TearDeployment, Teardown
<1>8. CASE ReleaseClusterRoleBinding
  BY <1>1, <1>2, <1>3, <1>8, ReleaseType DEF ReleaseClusterRoleBinding, Teardown, Rbac
<1>9. CASE ReleaseServiceAccount
  BY <1>1, <1>2, <1>3, <1>9, ReleaseType DEF ReleaseServiceAccount, Teardown, Rbac
<1>. QED BY <1>4, <1>5, <1>6, <1>7, <1>8, <1>9

\* The end of the teardown.
LEMMA RemoveFinalizerType == TypeOK /\ RemoveFinalizer => TypeOK'
<1>. SUFFICES ASSUME TypeOK, RemoveFinalizer PROVE TypeOK'
  OBVIOUS
<1>1. work.ready \in Readiness
  BY DEF TypeOK, KDexHostTypeOK, HostRecord
<1>2. KDexHostTypeOK'
  BY <1>1, ReturnType DEF RemoveFinalizer
<1>3. ClusterTypeOK'
  BY NoHostType DEF RemoveFinalizer, PutHost, TypeOK, ClusterTypeOK, childVars
<1>. QED BY <1>2, <1>3 DEF TypeOK

\* The wait for the Deployment.
LEMMA AwaitDeploymentType == TypeOK /\ AwaitDeployment => TypeOK'
<1>. SUFFICES ASSUME TypeOK, AwaitDeployment PROVE TypeOK'
  OBVIOUS
<1>1. KDexHostTypeOK'
  BY ReturnType DEF AwaitDeployment, Readiness
<1>. QED BY <1>1, ClusterSame DEF AwaitDeployment, TypeOK

\* All steps of Reconcile.
LEMMA ReconcileType == TypeOK /\ Reconcile => TypeOK'
BY BeginType, StatusType, ResolveType, ResolvedType, CreateType, AwaitDeploymentType,
   TeardownType, DeleteType, RemoveFinalizerType
DEF Reconcile

\* Every variable keeps its type, however caches lag and calls fail: whatever
\* Reconcile writes is a record the API server could hold, and what is left to
\* delete is always a child.
THEOREM TypeCorrect == Spec => []TypeOK
<1>1. TypeOK /\ [Next]_vars => TypeOK'
  <2>. SUFFICES ASSUME TypeOK, [Next]_vars PROVE TypeOK'
    OBVIOUS
  <2>1. CASE UNCHANGED vars
    BY <2>1, ClusterSame, LocalSame DEF vars, TypeOK
  <2>. QED BY <2>1, ReconcileType, UsersType, ControllersType, DeliverType, FailureType
           DEF Next
<1>. QED BY InitType, <1>1, PTL DEF Spec

-----------------------------------------------------------------------------
(* The ServiceAccount and the ClusterRoleBinding outlive the Deployment    *)
(* when their caches and its cache do not lag.  Where each step leaves     *)
(* them says why: they are kept when the Deployment is written, and it is  *)
(* gone when they are let go of.                                           *)

Kept(k) == objs[k].state # "none" /\ objs[k].held

Unlagged == Rbac \cup {"deployment"}

RbacInv ==
  /\ \A k \in Unlagged : k \in synced /\ cache[k] = objs[k]
  /\ RbacOutlivesDeployment
  /\ pc \in {"clusterRoleBinding", "deployment"} => Kept("serviceAccount")
  /\ pc = "deployment" => Kept("clusterRoleBinding")
  /\ pc \in {"releaseClusterRoleBinding", "releaseServiceAccount", "removeFinalizer"} =>
       objs["deployment"].state = "none"

\* A write that neither unmakes a kept object nor makes the Deployment.
Harmless(k, c) ==
  /\ k \in Rbac /\ Kept(k) => c.state # "none" /\ c.held
  /\ k = "deployment" /\ objs[k].state = "none" => c.state = "none"

\* What such a write, or none, comes to.
Preserved ==
  /\ \A k \in Unlagged : k \in synced' /\ cache'[k] = objs'[k]
  /\ \A k \in Rbac : Kept(k) => Kept(k)'
  /\ objs["deployment"].state = "none" => objs'["deployment"].state = "none"

Guarded == {"clusterRoleBinding", "deployment", "releaseClusterRoleBinding",
            "releaseServiceAccount", "removeFinalizer"}

\* A write is seen at once in the caches that do not lag.
LEMMA PutSeen ==
  ASSUME TypeOK, RbacInv, Unlagged \cap Lagging = {},
         NEW k \in Children, NEW c \in ChildRecord, Put(k, c)
  PROVE  /\ \A j \in Unlagged : j \in synced' /\ cache'[j] = objs'[j]
         /\ objs' = [objs EXCEPT ![k] = c]
<1>1. Unlagged \subseteq Children
  BY DEF Unlagged, Children, Rbac
<1>2. objs \in [Children -> ChildRecord]
  BY DEF TypeOK, ClusterTypeOK
<1>. QED BY <1>1, <1>2 DEF Put, Store, RbacInv

\* A harmless write preserves what RbacInv says of objects.
LEMMA HarmlessPut ==
  ASSUME TypeOK, RbacInv, Unlagged \cap Lagging = {},
         NEW k \in Children, NEW c \in ChildRecord, Put(k, c), Harmless(k, c)
  PROVE  Preserved
<1>1. /\ \A j \in Unlagged : j \in synced' /\ cache'[j] = objs'[j]
      /\ objs' = [objs EXCEPT ![k] = c]
  BY PutSeen
<1>2. objs \in [Children -> ChildRecord] /\ Rbac \cup {"deployment"} \subseteq Children
  BY DEF TypeOK, ClusterTypeOK, Children, Rbac
<1>. QED BY <1>1, <1>2 DEF Preserved, Harmless, Kept

\* So does no write.
LEMMA QuietStep ==
  ASSUME RbacInv, UNCHANGED childVars
  PROVE  Preserved
BY DEF RbacInv, childVars, Preserved, Kept

\* It is enough to preserve it, unless the step enters a part of Reconcile that
\* relies on more.
LEMMA PreservedInv ==
  ASSUME RbacInv, Preserved, pc' = pc \/ pc' \notin Guarded
  PROVE  RbacInv'
<1>1. Rbac = {"serviceAccount", "clusterRoleBinding"}
  BY DEF Rbac
<1>2. RbacOutlivesDeployment'
  BY <1>1 DEF RbacInv, RbacOutlivesDeployment, Preserved, Kept
<1>. QED BY <1>1, <1>2 DEF RbacInv, Preserved, Kept, Guarded

\* Every write of the reconciler is harmless, but for those that make the
\* Deployment or let go of the others.
LEMMA DesiredHarmless ==
  ASSUME TypeOK, RbacInv, NEW k \in Children, k # "deployment"
  PROVE  Harmless(k, Desired(k))
BY DEF Harmless, Desired, RbacInv, Kept, Unlagged

\* CreateOrUpdate of anything but the Deployment.
LEMMA EnsurePreserves ==
  ASSUME TypeOK, RbacInv, Unlagged \cap Lagging = {}, NEW k \in Children, k # "deployment",
         Put(k, Desired(k)) \/ UNCHANGED <<childVars, queued>>
  PROVE  Preserved
BY DesiredType, DesiredHarmless, HarmlessPut, QuietStep

\* Deletion only marks a kept object.
LEMMA DeletedHarmless ==
  ASSUME TypeOK, NEW k \in Children, objs[k].state # "none"
  PROVE  Harmless(k, Deleted(objs[k]))
<1>1. objs[k] \in ChildRecord
  BY DEF TypeOK, ClusterTypeOK
<1>. QED BY <1>1 DEF Harmless, Deleted, Kept, ChildRecord

\* An object made or updated with its finalizer is kept.
LEMMA EnsuredKept ==
  ASSUME TypeOK, RbacInv, Unlagged \cap Lagging = {}, NEW k \in Rbac, Accepted(k),
         IF Desired(k) = cache[k] THEN UNCHANGED <<childVars, queued>>
                                  ELSE Put(k, Desired(k))
  PROVE  Kept(k)'
<1>1. k \in Children /\ k \in Unlagged
  BY DEF Children, Rbac, Unlagged
<1>2. Desired(k).state # "none" /\ Desired(k).held
  BY <1>1 DEF Desired
<1>3. CASE Desired(k) = cache[k]
  BY <1>1, <1>2, <1>3 DEF RbacInv, Kept, childVars
<1>4. CASE Put(k, Desired(k))
  <2>1. objs' = [objs EXCEPT ![k] = Desired(k)]
    BY <1>1, <1>4, DesiredType, PutSeen
  <2>. QED BY <1>1, <1>2, <2>1 DEF Kept, TypeOK, ClusterTypeOK
<1>. QED BY <1>3, <1>4

\* Nobody else breaks RbacInv.
LEMMA OthersKeep ==
  ASSUME TypeOK, RbacInv, Unlagged \cap Lagging = {}, Users \/ Controllers \/ Deliver
  PROVE  RbacInv'
<1>1. \A k \in Children : objs[k] \in ChildRecord
  BY DEF TypeOK, ClusterTypeOK
<1>2. pc' = pc
  BY DEF Users, Controllers, Deliver, localVars
<1>. SUFFICES Preserved
  BY <1>2, PreservedInv
<1>3. CASE Users
  <2>1. CASE UNCHANGED childVars
    BY <2>1, QuietStep
  <2>2. ASSUME NEW k \in Children, RemoveChild(k) PROVE Preserved
    BY <1>1, <2>2, ChildTypes, DeletedHarmless, HarmlessPut DEF RemoveChild
  <2>. QED BY <1>3, <2>1, <2>2 DEF Users, CreateHost, EditSpec, DeleteHost, ChangeReferent
<1>4. CASE Controllers
  <2>. SUFFICES ASSUME NEW k \in Children,
                       \/ ReportCondition(k) \/ HoldInternal(k) \/ ReleaseInternal(k)
                       \/ CollectGarbage(k)
                PROVE  Preserved
    BY <1>4 DEF Controllers
  <2>1. CASE ReportCondition(k)
    <3>1. PICK c \in Conditions : Put(k, [objs[k] EXCEPT !.cond = c])
      BY <2>1 DEF ReportCondition, Conditions
    <3>2. Harmless(k, [objs[k] EXCEPT !.cond = c])
      BY <1>1 DEF Harmless, Kept, ChildRecord
    <3>. QED BY <1>1, <3>1, <3>2, ChildTypes, HarmlessPut
  <2>2. CASE HoldInternal(k)
    <3>1. Harmless(k, [objs[k] EXCEPT !.held = TRUE])
      BY <1>1 DEF Harmless, Kept, ChildRecord
    <3>. QED BY <1>1, <2>2, <3>1, ChildTypes, HarmlessPut DEF HoldInternal
  <2>3. CASE ReleaseInternal(k)
    <3>1. k \notin Rbac /\ k # "deployment"
      BY <2>3, ClusterAssumption DEF ReleaseInternal, ClusterAssumption, Internals, Rbac
    <3>2. Harmless(k, Released(objs[k]))
      BY <3>1 DEF Harmless
    <3>. QED BY <1>1, <2>3, <3>2, ChildTypes, HarmlessPut DEF ReleaseInternal
  <2>4. CASE CollectGarbage(k)
    <3>1. objs[k].state # "none"
      BY <2>4 DEF CollectGarbage
    <3>. QED BY <1>1, <2>4, <3>1, ChildTypes, DeletedHarmless, HarmlessPut
             DEF CollectGarbage
  <2>. QED BY <2>1, <2>2, <2>3, <2>4
<1>5. CASE Deliver
  <2>1. CASE SyncHost
    BY <2>1, QuietStep DEF SyncHost
  <2>2. ASSUME NEW k \in Children, SyncChild(k) PROVE Preserved
    BY <2>2 DEF SyncChild, RbacInv, Preserved, Kept, TypeOK, ClusterTypeOK
  <2>. QED BY <1>5, <2>1, <2>2 DEF Deliver
<1>. QED BY <1>3, <1>4, <1>5

\* Nor do failed calls and restarts.
LEMMA FailuresKeep ==
  ASSUME TypeOK, RbacInv, Fail \/ Restart
  PROVE  RbacInv'
<1>1. pc' \notin Guarded
  BY DEF Fail, Restart, Return, Guarded
<1>2. CASE Fail
  BY <1>1, <1>2, QuietStep, PreservedInv DEF Fail
<1>3. CASE Restart
  <2>1. Unlagged \subseteq Children
    BY DEF Unlagged, Children, Rbac
  <2>. QED BY <1>1, <1>3, <2>1, PreservedInv DEF Restart, Preserved, Kept
<1>. QED BY <1>2, <1>3

\* Steps that write no child.
LEMMA QuietReconcileKeeps ==
  ASSUME TypeOK, RbacInv,
         \/ Begin \/ UpdateStatus \/ AddFinalizer \/ AwaitDeployment \/ RemoveFinalizer
         \/ PagesResolved \/ DirectResolved \/ TranslationsResolved
         \/ \E r \in Direct : ResolveDirect(r)
         \/ TearInternalHost \/ TearPages \/ TearTranslations
  PROVE  RbacInv'
<1>1. UNCHANGED childVars
  BY DEF Begin, UpdateStatus, AddFinalizer, AwaitDeployment, RemoveFinalizer,
         PagesResolved, DirectResolved, TranslationsResolved, ResolveDirect, Panic,
         TearInternalHost, TearPages, TearTranslations, AwaitGone, clusterVars
<1>2. pc' = pc \/ pc' \notin Guarded
  BY DEF Begin, Branch, localVars, UpdateStatus, AddFinalizer, AwaitDeployment,
         RemoveFinalizer, Return, PagesResolved, DirectResolved, TranslationsResolved,
         ResolveDirect, Panic, TearInternalHost, TearPages, TearTranslations, AwaitGone,
         Goto, Guarded
<1>. QED BY <1>1, <1>2, QuietStep, PreservedInv

\* The releases begin only when there is no Deployment.
LEMMA TearDeploymentKeeps ==
  ASSUME TypeOK, RbacInv, TearDeployment
  PROVE  RbacInv'
<1>1. UNCHANGED childVars
  BY DEF TearDeployment, AwaitGone, clusterVars
<1>2. CASE pc' = "delete"
  BY <1>1, <1>2, QuietStep, PreservedInv DEF Guarded
<1>3. CASE pc' = "releaseClusterRoleBinding" /\ cache["deployment"].state = "none"
  BY <1>1, <1>3 DEF RbacInv, RbacOutlivesDeployment, Unlagged, childVars
<1>. QED BY <1>2, <1>3 DEF TearDeployment, AwaitGone, Goto

\* Deletions are harmless.
LEMMA DeleteKeeps ==
  ASSUME TypeOK, RbacInv, Unlagged \cap Lagging = {}, DeleteNext
  PROVE  RbacInv'
<1>1. pc = "delete" /\ (pc' = pc \/ pc' = "status")
  BY DEF DeleteNext, Return
<1>2. CASE UNCHANGED <<childVars, queued>>
  BY <1>1, <1>2, QuietStep, PreservedInv DEF Guarded
<1>3. ASSUME NEW k \in todo, objs[k].state # "none", Put(k, Deleted(objs[k]))
      PROVE  RbacInv'
  <2>1. k \in Children
    BY <1>1 DEF TypeOK, KDexHostTypeOK
  <2>2. objs[k] \in ChildRecord
    BY <2>1 DEF TypeOK, ClusterTypeOK
  <2>3. Preserved
    BY <1>3, <2>1, <2>2, ChildTypes, DeletedHarmless, HarmlessPut
  <2>. QED BY <1>1, <2>3, PreservedInv DEF Guarded
<1>. QED BY <1>2, <1>3 DEF DeleteNext

\* Steps that write a child other than the three.
LEMMA CreateKeeps ==
  ASSUME TypeOK, RbacInv, Unlagged \cap Lagging = {},
         \/ \E p \in Pages : ResolvePage(p)
         \/ \E t \in Translations : ResolveTranslation(t)
         \/ CreateConfigMap \/ CreateService \/ CreateInternalHost
  PROVE  RbacInv'
<1>1. pc' = pc \/ pc' \notin Guarded
  BY DEF ResolvePage, ResolveTranslation, SkipMissing, Panic, Ensure, Copied, Goto, Return,
         CreateConfigMap, CreateService, CreateInternalHost, Guarded
<1>2. Pages \cup Translations \subseteq Children \ {"deployment"}
  BY ClusterAssumption DEF ClusterAssumption, Children, Internals
<1>3. {"configMap", "service", "internalHost"} \subseteq Children \ {"deployment"}
  BY DEF Children, Internals
<1>4. \/ UNCHANGED childVars
      \/ \E k \in Children \ {"deployment"} :
           Put(k, Desired(k)) \/ UNCHANGED <<childVars, queued>>
  BY <1>2, <1>3 DEF ResolvePage, ResolveTranslation, SkipMissing, Panic, Ensure,
         CreateConfigMap, CreateService, CreateInternalHost, clusterVars
<1>5. Preserved
  BY <1>4, QuietStep, EnsurePreserves
<1>. QED BY <1>1, <1>5, PreservedInv

\* The RBAC objects are kept from their creation on.
LEMMA CreateRbacKeeps ==
  ASSUME TypeOK, RbacInv, Unlagged \cap Lagging = {},
         CreateServiceAccount \/ CreateClusterRoleBinding
  PROVE  RbacInv'
<1>1. {"serviceAccount", "clusterRoleBinding"} \subseteq Children \ {"deployment"}
  BY DEF Children, Rbac
<1>2. Preserved
  BY <1>1, EnsurePreserves DEF CreateServiceAccount, CreateClusterRoleBinding, Ensure
<1>3. CASE pc' = "status"
  BY <1>2, <1>3, PreservedInv DEF Guarded
<1>4. RbacOutlivesDeployment'
  BY <1>2 DEF RbacInv, RbacOutlivesDeployment, Preserved, Kept
<1>5. CASE CreateServiceAccount /\ Goto("clusterRoleBinding")
  <2>1. Kept("serviceAccount")'
    BY <1>3, <1>5, EnsuredKept DEF CreateServiceAccount, Ensure, Rbac, Return, Goto
  <2>. QED BY <1>2, <1>4, <1>5, <2>1 DEF RbacInv, Preserved, Goto
<1>6. CASE CreateClusterRoleBinding /\ Goto("deployment")
  <2>1. Kept("clusterRoleBinding")'
    BY <1>3, <1>6, EnsuredKept DEF CreateClusterRoleBinding, Ensure, Rbac, Return, Goto
  <2>2. Kept("serviceAccount")'
    BY <1>2, <1>6 DEF CreateClusterRoleBinding, RbacInv, Preserved, Rbac
  <2>. QED BY <1>2, <1>4, <1>6, <2>1, <2>2 DEF RbacInv, Preserved, Goto
<1>. QED BY <1>3, <1>5, <1>6 DEF CreateServiceAccount, CreateClusterRoleBinding, Ensure, Return

\* The Deployment is made while both are kept.
LEMMA CreateDeploymentKeeps ==
  ASSUME TypeOK, RbacInv, Unlagged \cap Lagging = {}, CreateDeployment
  PROVE  RbacInv'
<1>1. /\ pc' \notin Guarded
      /\ Put("deployment", Desired("deployment")) \/ UNCHANGED <<childVars, queued>>
  BY DEF CreateDeployment, Ensure, Return, Guarded
<1>2. CASE UNCHANGED <<childVars, queued>>
  BY <1>1, <1>2, QuietStep, PreservedInv
<1>3. CASE Put("deployment", Desired("deployment"))
  <2>1. "deployment" \in Children
    BY DEF Children
  <2>2. /\ \A j \in Unlagged : j \in synced' /\ cache'[j] = objs'[j]
        /\ objs' = [objs EXCEPT !["deployment"] = Desired("deployment")]
    BY <1>3, <2>1, DesiredType, PutSeen
  <2>3. Kept("serviceAccount") /\ Kept("clusterRoleBinding")
    BY DEF CreateDeployment, RbacInv
  <2>4. RbacOutlivesDeployment'
    BY <2>2, <2>3 DEF RbacOutlivesDeployment, Kept, Rbac, TypeOK, ClusterTypeOK, Children
  <2>. QED BY <1>1, <2>2, <2>4 DEF RbacInv, Guarded
<1>. QED BY <1>1, <1>2, <1>3

\* A finalizer is removed while there is no Deployment.
LEMMA ReleaseKeeps ==
  ASSUME TypeOK, RbacInv, Unlagged \cap Lagging = {},
         ReleaseClusterRoleBinding \/ ReleaseServiceAccount
  PROVE  RbacInv'
<1>1. objs["deployment"].state = "none"
  BY DEF ReleaseClusterRoleBinding, ReleaseServiceAccount, RbacInv
<1>2. /\ pc' \in {"releaseServiceAccount", "removeFinalizer", "status"}
      /\ \/ UNCHANGED <<childVars, queued>>
         \/ \E k \in Rbac : Put(k, Released(objs[k]))
  BY DEF ReleaseClusterRoleBinding, ReleaseServiceAccount, Release, Goto, Return, Rbac
<1>3. CASE UNCHANGED <<childVars, queued>>
  BY <1>1, <1>2, <1>3 DEF RbacInv, childVars, RbacOutlivesDeployment
<1>4. ASSUME NEW k \in Rbac, Put(k, Released(objs[k])) PROVE RbacInv'
  <2>1. k \in Children /\ k # "deployment" /\ objs[k] \in ChildRecord
    BY DEF Children, Rbac, TypeOK, ClusterTypeOK
  <2>2. /\ \A j \in Unlagged : j \in synced' /\ cache'[j] = objs'[j]
        /\ objs' = [objs EXCEPT ![k] = Released(objs[k])]
    BY <1>4, <2>1, ChildTypes, PutSeen
  <2>3. objs'["deployment"].state = "none"
    BY <1>1, <2>1, <2>2 DEF TypeOK, ClusterTypeOK, Children
  <2>. QED BY <1>2, <2>2, <2>3 DEF RbacInv, RbacOutlivesDeployment
<1>. QED BY <1>2, <1>3, <1>4

\* The host manager never runs without its ServiceAccount and ClusterRoleBinding,
\* for every set of pages, translations and lagging caches, deletions by others and
\* failures, as long as the caches of these three objects do not lag: the teardown
\* of Reconcile decides by what they show.
THEOREM RbacCorrect ==
  ASSUME Unlagged \cap Lagging = {}
  PROVE  Spec => []RbacOutlivesDeployment
<1>1. Init => RbacInv
  BY DEF Init, ClusterInit, RbacInv, RbacOutlivesDeployment, Unlagged, Children, Rbac, NoChild
<1>2. TypeOK /\ RbacInv /\ [Next]_vars => RbacInv'
  <2>. SUFFICES ASSUME TypeOK, RbacInv, [Next]_vars PROVE RbacInv'
    OBVIOUS
  <2>1. CASE UNCHANGED vars
    BY <2>1, QuietStep, PreservedInv DEF vars, clusterVars, localVars
  <2>2. CASE Reconcile
    BY <2>2, QuietReconcileKeeps, TearDeploymentKeeps, DeleteKeeps, CreateKeeps,
       CreateRbacKeeps, CreateDeploymentKeeps, ReleaseKeeps
    DEF Reconcile
  <2>. QED BY <2>1, <2>2, OthersKeep, FailuresKeep DEF Next
<1>3. RbacInv => RbacOutlivesDeployment
  BY DEF RbacInv
<1>. QED BY <1>1, <1>2, <1>3, TypeCorrect, PTL DEF Spec

=============================================================================
