--------------------------- MODULE AdmissionProofs ---------------------------
(***************************************************************************)
(* Theorems about Admission: for any number of writes, of calls that are   *)
(* lost and of restarts.                                                   *)
(***************************************************************************)
EXTENDS Admission, TLAPS

TypeInv ==
  /\ kind \in Kinds /\ clustered \in BOOLEAN /\ (kind \in Namespaced => ~clustered)
  /\ spec \in Specs(kind) /\ asked \in Specs(kind)
  /\ stored \in BOOLEAN /\ finalizer \in BOOLEAN /\ deleting \in BOOLEAN
  /\ defaulted \in BOOLEAN /\ checked \in BOOLEAN /\ up \in BOOLEAN
  /\ edits \in 0..MaxEdits /\ lost \in 0..MaxLost

\* Nobody but the defaulter changes what a user gave, and it does so once, whether the
\* user's write reaches it or only one of the reconciler's.
FollowsAsked == spec \in {asked, Defaulted(asked)}

SeenInv ==
  /\ defaulted => Defaulted(spec) = spec
  /\ checked => Valid(spec)

AdmissionInv == TypeInv /\ FollowsAsked /\ SeenInv

-----------------------------------------------------------------------------
(* The defaulters                                                          *)

\* A kind that is filled in is filled in once, and none stays open but where the
\* defaulter does not look.
LEMMA RefSettles ==
  ASSUME NEW slot, NEW n \in Named
  PROVE  /\ DefaultedRef(slot, n) \in Named
         /\ DefaultedRef(slot, n) = "open" => slot \in Untouched /\ n = "open"
         /\ DefaultedRef(slot, DefaultedRef(slot, n)) = DefaultedRef(slot, n)
  BY DEF DefaultedRef, ScopedKind, Named

\* In an object of the cluster a kind of a namespace is one that the user named.
LEMMA RefIsAsked ==
  ASSUME clustered, NEW slot, NEW n \in Named, DefaultedRef(slot, n) = "plain"
  PROVE  n = "plain"
  BY DEF DefaultedRef, ScopedKind, Named

LEMMA PolicySettles ==
  ASSUME NEW image \in {"none", "pinned", "latest"}, NEW policy \in {"open", "Always", "IfNotPresent"}
  PROVE  /\ BackendDefaults(image, policy) \in {"open", "Always", "IfNotPresent"}
         /\ BackendDefaults(image, BackendDefaults(image, policy)) = BackendDefaults(image, policy)
  BY DEF BackendDefaults

\* What Defaulted is, field by field.
LEMMA DefaultedFields ==
  ASSUME NEW s \in Specs(kind)
  PROVE  /\ Defaulted(s) \in Specs(kind)
         /\ Defaulted(s).refs = [slot \in Slots[kind] |-> DefaultedRef(slot, s.refs[slot])]
         /\ Defaulted(s).image = s.image
         /\ Defaulted(s).policy =
              IF kind \in Providers THEN BackendDefaults(s.image, s.policy) ELSE s.policy
         /\ Defaulted(s).path = IF kind \in Providers THEN "own" ELSE s.path
         /\ Defaulted(s).urls = s.urls /\ Defaulted(s).sound = s.sound
<1> DEFINE provider == [s EXCEPT !.policy = BackendDefaults(s.image, @), !.path = IngressPath(@)]
           base     == IF kind \in Providers THEN provider ELSE s
           refs     == [slot \in DOMAIN base.refs |-> DefaultedRef(slot, base.refs[slot])]
<1>1. provider \in Specs(kind)
  BY PolicySettles DEF Specs, IngressPath
<1>2. /\ provider.refs = s.refs /\ provider.image = s.image
      /\ provider.policy = BackendDefaults(s.image, s.policy) /\ provider.path = "own"
      /\ provider.urls = s.urls /\ provider.sound = s.sound
  BY DEF Specs, IngressPath
<1>3. base \in Specs(kind) /\ base.refs = s.refs
  BY <1>1, <1>2
<1>4. refs = [slot \in Slots[kind] |-> DefaultedRef(slot, s.refs[slot])]
  BY <1>3 DEF Specs
<1>5. refs \in [Slots[kind] -> Named]
  BY <1>4, RefSettles DEF Specs
<1>6. Defaulted(s) = [base EXCEPT !.refs = refs]
  BY DEF Defaulted
<1> HIDE DEF provider, base, refs
<1>7. [base EXCEPT !.refs = refs] \in Specs(kind)
  BY <1>3, <1>5 DEF Specs
<1>8. /\ [base EXCEPT !.refs = refs].refs = refs
      /\ [base EXCEPT !.refs = refs].image = base.image
      /\ [base EXCEPT !.refs = refs].policy = base.policy
      /\ [base EXCEPT !.refs = refs].path = base.path
      /\ [base EXCEPT !.refs = refs].urls = base.urls
      /\ [base EXCEPT !.refs = refs].sound = base.sound
  BY <1>3 DEF Specs
<1>. QED  BY <1>2, <1>4, <1>6, <1>7, <1>8 DEF base

\* Two specs with the same fields are the same.
LEMMA SpecsEqual ==
  ASSUME NEW s \in Specs(kind), NEW t \in Specs(kind),
         \A slot \in Slots[kind] : s.refs[slot] = t.refs[slot],
         s.image = t.image, s.policy = t.policy, s.path = t.path, s.urls = t.urls, s.sound = t.sound
  PROVE  s = t
<1>1. s.refs = t.refs
  BY DEF Specs
<1>. QED  BY <1>1 DEF Specs

\* A defaulter that sees what it made leaves it alone.
LEMMA DefaultsSettle ==
  ASSUME NEW s \in Specs(kind)
  PROVE  Defaulted(s) \in Specs(kind) /\ Defaulted(Defaulted(s)) = Defaulted(s)
<1> DEFINE d == Defaulted(s)
<1>1. d \in Specs(kind)
  BY DefaultedFields
<1>2. \A slot \in Slots[kind] : s.refs[slot] \in Named
  BY DEF Specs
<1>3. s.image \in {"none", "pinned", "latest"} /\ s.policy \in {"open", "Always", "IfNotPresent"}
  BY DEF Specs
<1>4. \A slot \in Slots[kind] : Defaulted(d).refs[slot] = d.refs[slot]
  <2>. TAKE slot \in Slots[kind]
  <2>1. d.refs[slot] = DefaultedRef(slot, s.refs[slot])
    BY DefaultedFields
  <2>2. Defaulted(d).refs[slot] = DefaultedRef(slot, d.refs[slot])
    BY <1>1, DefaultedFields
  <2>. QED  BY <1>2, <2>1, <2>2, RefSettles
<1>5. Defaulted(d).policy = d.policy
  <2>1. d.image = s.image /\ d.policy = IF kind \in Providers THEN BackendDefaults(s.image, s.policy) ELSE s.policy
    BY DefaultedFields
  <2>2. Defaulted(d).policy = IF kind \in Providers THEN BackendDefaults(d.image, d.policy) ELSE d.policy
    BY <1>1, DefaultedFields
  <2>. QED  BY <1>3, <2>1, <2>2, PolicySettles
<1>6. /\ Defaulted(d) \in Specs(kind) /\ Defaulted(d).image = d.image
      /\ Defaulted(d).path = d.path /\ Defaulted(d).urls = d.urls /\ Defaulted(d).sound = d.sound
  BY <1>1, DefaultedFields
<1>. QED  BY <1>1, <1>4, <1>5, <1>6, SpecsEqual

-----------------------------------------------------------------------------
(* Every write keeps the invariant                                         *)

LEMMA MadeTyped ==
  ASSUME AdmissionAssumption, kind \in Kinds
  PROVE  Made \subseteq Specs(kind) /\ Empty \in Specs(kind)
<1>1. \A n \in Named : [slot \in Slots[kind] |-> n] \in [Slots[kind] -> Named]
  OBVIOUS
<1>. QED  BY <1>1 DEF Made, Empty, Specs, Named

\* One write of s, by a user who asked for it or by the reconciler who read it.
LEMMA AdmitKeeps ==
  ASSUME AdmissionInv, UNCHANGED object, NEW s \in Specs(kind), Admit(s),
         \/ asked' = s
         \/ asked' = asked /\ s = spec
  PROVE  /\ spec' \in Specs(kind) /\ asked' \in Specs(kind)
         /\ defaulted' \in BOOLEAN /\ checked' \in BOOLEAN /\ lost' \in 0..MaxLost
         /\ FollowsAsked' /\ SeenInv'
<1>1. PICK mutated \in BOOLEAN, validated \in BOOLEAN :
        LET new    == IF mutated THEN Defaulted(s) ELSE s
            missed == (IF mutated THEN 0 ELSE 1) + (IF validated THEN 0 ELSE 1)
        IN /\ validated => Valid(new)
           /\ IF up THEN lost' = lost + missed /\ lost' <= MaxLost
                    ELSE ~mutated /\ ~validated /\ UNCHANGED lost
           /\ spec' = new
           /\ defaulted' = (mutated \/ (defaulted /\ new = spec))
           /\ checked'   = (validated \/ (checked /\ new = spec))
  BY DEF Admit
<1> DEFINE new == IF mutated THEN Defaulted(s) ELSE s
<1>2. new \in Specs(kind) /\ (mutated => Defaulted(new) = new)
  BY DefaultsSettle
<1>3. lost' \in 0..MaxLost
  BY <1>1 DEF AdmissionInv, TypeInv
<1>4. new \in {asked', Defaulted(asked')}
  BY DefaultsSettle DEF AdmissionInv, TypeInv, FollowsAsked
<1>5. kind' = kind /\ clustered' = clustered
  BY DEF object
<1>6. /\ Defaulted(spec)' = Defaulted(spec') /\ Defaulted(asked)' = Defaulted(asked')
      /\ Valid(spec)' = Valid(spec')
  BY <1>5 DEF Defaulted, DefaultedRef, ScopedKind, BackendDefaults, IngressPath, Valid,
              ValidateResourceProvider
<1>7. spec' \in Specs(kind) /\ asked' \in Specs(kind)
  BY <1>1, <1>2 DEF AdmissionInv, TypeInv
<1>8. FollowsAsked'
  BY <1>1, <1>4, <1>6 DEF FollowsAsked
<1>9. defaulted' \in BOOLEAN /\ checked' \in BOOLEAN
  BY <1>1 DEF AdmissionInv, TypeInv
<1>10. SeenInv'
  BY <1>1, <1>2, <1>6 DEF AdmissionInv, SeenInv
<1>. QED  BY <1>3, <1>7, <1>8, <1>9, <1>10

LEMMA WriteKeeps ==
  ASSUME AdmissionAssumption, AdmissionInv, NEW s \in Specs(kind), UserWrites(s),
         deleting' \in BOOLEAN
  PROVE  AdmissionInv'
<1>1. UNCHANGED object /\ Admit(s) /\ asked' = s
  BY DEF UserWrites
<1>2. edits' \in 0..MaxEdits
  BY DEF UserWrites, AdmissionInv, TypeInv, AdmissionAssumption
<1>3. kind' = kind /\ clustered' = clustered
  BY <1>1 DEF object
<1>4. Specs(kind)' = Specs(kind)
  BY <1>3 DEF Specs
<1>5. /\ spec' \in Specs(kind) /\ asked' \in Specs(kind)
      /\ defaulted' \in BOOLEAN /\ checked' \in BOOLEAN /\ lost' \in 0..MaxLost
      /\ FollowsAsked' /\ SeenInv'
  BY <1>1, AdmitKeeps
<1>6. stored' \in BOOLEAN /\ finalizer' \in BOOLEAN /\ up' \in BOOLEAN
  BY DEF UserWrites, AdmissionInv, TypeInv
<1>. QED  BY <1>2, <1>3, <1>4, <1>5, <1>6 DEF AdmissionInv, TypeInv

LEMMA UpdateKeeps ==
  ASSUME AdmissionAssumption, AdmissionInv, Update
  PROVE  AdmissionInv'
<1>1. deleting' \in BOOLEAN
  BY DEF Update, AdmissionInv, TypeInv
<1>2. spec \in Specs(kind)
  BY DEF AdmissionInv, TypeInv
<1>3. ASSUME NEW slot \in Slots[kind], NEW n \in Named, UserWrites([spec EXCEPT !.refs[slot] = n])
      PROVE  AdmissionInv'
  <2>1. [spec EXCEPT !.refs[slot] = n] \in Specs(kind)
    BY <1>2 DEF Specs
  <2>. QED  BY <1>1, <1>3, <2>1, WriteKeeps
<1>4. ASSUME UserWrites([spec EXCEPT !.sound = ~@])
      PROVE  AdmissionInv'
  <2>1. [spec EXCEPT !.sound = ~@] \in Specs(kind)
    BY <1>2 DEF Specs
  <2>. QED  BY <1>1, <1>4, <2>1, WriteKeeps
<1>5. ASSUME NEW i \in {"none", "pinned", "latest"}, UserWrites([spec EXCEPT !.image = i])
      PROVE  AdmissionInv'
  <2>1. [spec EXCEPT !.image = i] \in Specs(kind)
    BY <1>2 DEF Specs
  <2>. QED  BY <1>1, <1>5, <2>1, WriteKeeps
<1>6. ASSUME NEW u \in {{}, {"absolute"}, {"absolute", "own"}, {"other"}},
             UserWrites([spec EXCEPT !.urls = u])
      PROVE  AdmissionInv'
  <2>1. u \in SUBSET {"absolute", "own", "other"}
    OBVIOUS
  <2>2. [spec EXCEPT !.urls = u] \in Specs(kind)
    BY <1>2, <2>1 DEF Specs
  <2>. QED  BY <1>1, <1>6, <2>2, WriteKeeps
<1>. QED  BY <1>3, <1>4, <1>5, <1>6 DEF Update

\* The reconciler writes back what it read.
LEMMA RewriteKeeps ==
  ASSUME AdmissionAssumption, AdmissionInv, AddFinalizer \/ RemoveFinalizer
  PROVE  AdmissionInv'
<1>1. UNCHANGED <<object, asked, up, edits>> /\ Admit(spec)
  BY DEF AddFinalizer, RemoveFinalizer
<1>2. kind' = kind /\ clustered' = clustered
  BY <1>1 DEF object
<1>3. Specs(kind)' = Specs(kind)
  BY <1>2 DEF Specs
<1>4. /\ spec' \in Specs(kind) /\ asked' \in Specs(kind)
      /\ defaulted' \in BOOLEAN /\ checked' \in BOOLEAN /\ lost' \in 0..MaxLost
      /\ FollowsAsked' /\ SeenInv'
  <2>1. spec \in Specs(kind)
    BY DEF AdmissionInv, TypeInv
  <2>. QED  BY <1>1, <2>1, AdmitKeeps
<1>5. stored' \in BOOLEAN /\ finalizer' \in BOOLEAN /\ deleting' \in BOOLEAN
  BY DEF AddFinalizer, RemoveFinalizer, AdmissionInv, TypeInv
<1>. QED  BY <1>1, <1>2, <1>3, <1>4, <1>5 DEF AdmissionInv, TypeInv

\* What writes no spec has no part in it.
LEMMA OthersKeep ==
  ASSUME AdmissionInv,
         UNCHANGED <<object, spec, asked, defaulted, checked, edits, lost>>,
         stored' \in BOOLEAN, finalizer' \in BOOLEAN, deleting' \in BOOLEAN, up' \in BOOLEAN
  PROVE  AdmissionInv'
<1>1. kind' = kind /\ clustered' = clustered
  BY DEF object
<1>2. TypeInv'
  BY <1>1 DEF AdmissionInv, TypeInv, Specs
<1>3. FollowsAsked'
  BY <1>1 DEF AdmissionInv, FollowsAsked, Defaulted, DefaultedRef, ScopedKind, BackendDefaults, IngressPath
<1>4. SeenInv'
  BY <1>1 DEF AdmissionInv, SeenInv, Defaulted, DefaultedRef, ScopedKind, BackendDefaults,
              IngressPath, Valid, ValidateResourceProvider
<1>. QED  BY <1>2, <1>3, <1>4 DEF AdmissionInv

\* The invariant is inductive.
LEMMA AdmissionStep ==
  ASSUME AdmissionAssumption, AdmissionInv, [Next]_vars
  PROVE  AdmissionInv'
<1>1. CASE Create
  <2>1. PICK s \in Made : UserWrites(s)
    BY <1>1 DEF Create
  <2>2. s \in Specs(kind)
    BY MadeTyped DEF AdmissionInv, TypeInv
  <2>. QED  BY <1>1, <2>1, <2>2, WriteKeeps DEF Create
<1>2. CASE Update
  BY <1>2, UpdateKeeps
<1>3. CASE AddFinalizer \/ RemoveFinalizer
  BY <1>3, RewriteKeeps
<1>4. CASE Delete
  <2>1. stored' \in BOOLEAN /\ finalizer' \in BOOLEAN /\ deleting' \in BOOLEAN /\ up' \in BOOLEAN
    BY <1>4 DEF Delete, AdmissionInv, TypeInv
  <2>. QED  BY <1>4, <2>1, OthersKeep DEF Delete
<1>5. CASE Stop \/ Start
  <2>1. stored' \in BOOLEAN /\ finalizer' \in BOOLEAN /\ deleting' \in BOOLEAN /\ up' \in BOOLEAN
    BY <1>5 DEF Stop, Start, AdmissionInv, TypeInv
  <2>. QED  BY <1>5, <2>1, OthersKeep DEF Stop, Start
<1>6. CASE UNCHANGED vars
  <2>1. stored' \in BOOLEAN /\ finalizer' \in BOOLEAN /\ deleting' \in BOOLEAN /\ up' \in BOOLEAN
    BY <1>6 DEF vars, AdmissionInv, TypeInv
  <2>. QED  BY <1>6, <2>1, OthersKeep DEF vars
<1>. QED  BY <1>1, <1>2, <1>3, <1>4, <1>5, <1>6 DEF Next

LEMMA AdmissionInit ==
  ASSUME AdmissionAssumption, Init
  PROVE  AdmissionInv
<1>1. kind \in Kinds /\ spec = Empty /\ asked = Empty /\ Empty \in Specs(kind)
  BY MadeTyped DEF Init
<1>2. spec \in Specs(kind) /\ asked \in Specs(kind)
  BY <1>1
<1>3. 0 \in 0..MaxEdits /\ 0 \in 0..MaxLost
  BY DEF AdmissionAssumption
<1>4. TypeInv
  BY <1>1, <1>2, <1>3 DEF Init, TypeInv
<1>. QED  BY <1>1, <1>4 DEF Init, AdmissionInv, FollowsAsked, SeenInv

LEMMA AdmissionAlways == Spec => []AdmissionInv
<1>1. Init => AdmissionInv
  BY AdmissionInit, AdmissionAssumption
<1>2. AdmissionInv /\ [Next]_vars => AdmissionInv'
  BY AdmissionStep, AdmissionAssumption
<1>. QED  BY <1>1, <1>2, PTL DEF Spec

-----------------------------------------------------------------------------
(* The theorems                                                            *)

\* The writes with which the reconciler adds and removes a host's finalizer change
\* nothing of a spec that both webhooks have seen, and they are not refused, whatever
\* was written, lost and restarted before (failurePolicy=Ignore, Default, validate).
THEOREM ReadmissionCorrect == Spec => []ReadmissionIsQuiet
<1>1. AdmissionInv => ReadmissionIsQuiet
  BY DEF AdmissionInv, SeenInv, ReadmissionIsQuiet
<1>. QED  BY <1>1, AdmissionAlways, PTL

\* A stored reference that the defaulter has seen names a kind that the resolver takes,
\* unless the user asked for the other one, or left it open in one of the two references
\* of a host that are not defaulted (the Default of each kind, ResolveKDexObjectReference).
THEOREM ReferencesCorrect == Spec => []ReferencesResolve
<1>1. AdmissionInv => ReferencesResolve
  <2>. SUFFICES ASSUME AdmissionInv, stored, defaulted, NEW slot \in Slots[kind],
                       spec.refs[slot] = "open" \/ (clustered /\ spec.refs[slot] = "plain")
                PROVE  /\ asked.refs[slot] = spec.refs[slot]
                       /\ spec.refs[slot] = "open" => slot \in Untouched
    BY DEF ReferencesResolve
  <2>1. spec = Defaulted(asked)
    BY DEF AdmissionInv, FollowsAsked, SeenInv
  <2>2. asked \in Specs(kind) /\ asked.refs[slot] \in Named
    BY DEF AdmissionInv, TypeInv, Specs
  <2>3. spec.refs[slot] = DefaultedRef(slot, asked.refs[slot])
    BY <2>1, <2>2, DefaultedFields
  <2>4. spec.refs[slot] = "open" => slot \in Untouched /\ asked.refs[slot] = "open"
    BY <2>2, <2>3, RefSettles
  <2>. QED  BY <2>2, <2>3, <2>4, RefIsAsked
<1>. QED  BY <1>1, AdmissionAlways, PTL
=============================================================================
