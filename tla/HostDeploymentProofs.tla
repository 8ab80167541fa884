------------------------ MODULE HostDeploymentProofs ------------------------
(***************************************************************************)
(* Theorems about HostDeployment, for environments, templates and specs of *)
(* any size.  The prover has no induction over data: that the loop of      *)
(* MergeEnvVars computes anything is shown from the least number at which  *)
(* it would fail.                                                          *)
(***************************************************************************)
EXTENDS HostDeployment, TLAPS, WellFoundedInduction

-----------------------------------------------------------------------------
(* Numbers                                                                 *)

LEMMA LeastNumber ==
  ASSUME NEW T, T \subseteq Nat, T # {}
  PROVE  \E x \in T : \A y \in T : x <= y
<1> DEFINE below == {p \in Nat \X Nat : p[1] < p[2]}
<1>1. IsWellFoundedOn(below, Nat)
  BY NatLessThanWellFounded DEF OpToRel
<1>2. PICK x \in T : \A y \in T : <<y, x>> \notin below
  <2> HIDE DEF below
  <2>. QED  BY <1>1, WFMin
<1>3. \A y \in T : ~ (y < x)
  BY <1>2
<1>. QED  BY <1>3

\* Induction up to n, on a set instead of a predicate.
LEMMA UpTo ==
  ASSUME NEW n \in Nat, NEW T, 0 \in T, \A i \in 0..n : i \in T /\ i # n => i + 1 \in T
  PROVE  \A i \in 0..n : i \in T
<1>. SUFFICES ASSUME NEW j \in 0..n, j \notin T
              PROVE  FALSE
  OBVIOUS
<1> DEFINE bad == {i \in 0..n : i \notin T}
<1>1. PICK i \in bad : \A k \in bad : i <= k
  <2>1. bad \subseteq Nat /\ bad # {}
    OBVIOUS
  <2>. QED  BY <2>1, LeastNumber
<1>2. i # 0 /\ i - 1 \in 0..n /\ i - 1 \notin bad
  BY <1>1
<1>. QED  BY <1>1, <1>2

LEMMA MaxIndex ==
  ASSUME NEW n \in Nat, NEW S, S \subseteq 1..n, S # {}
  PROVE  Max(S) \in S /\ \A y \in S : y <= Max(S)
<1> DEFINE bounds == {k \in Nat : \A y \in S : y <= k}
<1>1. n \in bounds
  OBVIOUS
<1>2. PICK k \in bounds : \A j \in bounds : k <= j
  BY <1>1, LeastNumber
<1>3. k \in S
  <2>. SUFFICES ASSUME k \notin S
                PROVE  FALSE
    OBVIOUS
  <2>1. \A y \in S : y \in Nat /\ y # 0 /\ y <= k /\ y # k
    BY <1>2
  <2>2. k \in Nat /\ k # 0
    <3>1. PICK y \in S : TRUE
      OBVIOUS
    <3>. QED  BY <2>1, <3>1
  <2>3. k - 1 \in Nat /\ \A y \in S : y <= k - 1
    BY <2>1, <2>2
  <2>4. k - 1 \in bounds
    BY <2>3
  <2>. QED  BY <1>2, <2>2, <2>4
<1>4. \E x \in S : \A y \in S : x >= y
  BY <1>2, <1>3
<1>5. Max(S) \in S /\ \A y \in S : Max(S) >= y
  BY <1>4 DEF Max
<1>. QED  BY <1>5

-----------------------------------------------------------------------------
(* MergeEnvVars                                                            *)

\* The loop: merged[i] is the list after i overrides.
Merges(merged, existing, overrides, n) ==
  merged = [i \in 0..n |-> IF i = 0 THEN existing ELSE Override(merged[i - 1], overrides[i])]

LEMMA LoopExists ==
  ASSUME NEW existing, NEW overrides, NEW n \in Nat
  PROVE  \E merged : Merges(merged, existing, overrides, n)
<1> DEFINE T == {i \in 0..n : \E merged : Merges(merged, existing, overrides, i)}
<1>1. 0 \in T
  <2>1. Merges([i \in 0..0 |-> existing], existing, overrides, 0)
    BY DEF Merges
  <2>. QED  BY <2>1
<1>2. ASSUME NEW i \in 0..n, i \in T, i # n
      PROVE  i + 1 \in T
  <2>1. PICK f : Merges(f, existing, overrides, i)
    BY <1>2
  <2> DEFINE g == [j \in 0..(i + 1) |-> IF j = i + 1 THEN Override(f[i], overrides[i + 1]) ELSE f[j]]
  <2>2. \A j \in 0..(i + 1) : g[j] = IF j = 0 THEN existing ELSE Override(g[j - 1], overrides[j])
    <3>. TAKE j \in 0..(i + 1)
    <3>1. CASE j = i + 1
      BY <3>1
    <3>2. CASE j # i + 1
      BY <2>1, <3>2 DEF Merges
    <3>. QED  BY <3>1, <3>2
  <2>3. Merges(g, existing, overrides, i + 1)
    BY <2>2 DEF Merges
  <2>4. i + 1 \in 0..n
    BY <1>2
  <2>. QED  BY <2>3, <2>4
<1>3. \A i \in 0..n : i \in T
  BY <1>1, <1>2, UpTo
<1>. QED  BY <1>3

LEMMA LoopMerges ==
  ASSUME NEW existing, NEW overrides, Len(overrides) \in Nat
  PROVE  \E merged : /\ Merges(merged, existing, overrides, Len(overrides))
                     /\ MergeEnvVars(existing, overrides) = merged[Len(overrides)]
<1> DEFINE merged == CHOOSE f : Merges(f, existing, overrides, Len(overrides))
<1>1. Merges(merged, existing, overrides, Len(overrides))
  BY LoopExists
<1>2. MergeEnvVars(existing, overrides) = merged[Len(overrides)]
  BY DEF MergeEnvVars, Merges
<1>. QED  BY <1>1, <1>2

\* The index map points to the last variable of a name, and to that only.
LEMMA IndexFound ==
  ASSUME NEW env \in Seq(Variable), NEW n \in NamesOf(env)
  PROVE  /\ IndexOf(env, n) \in DOMAIN env /\ env[IndexOf(env, n)].name = n
         /\ \A i \in DOMAIN env : env[i].name = n => i <= IndexOf(env, n)
<1> DEFINE S == {i \in DOMAIN env : env[i].name = n}
<1>1. S \subseteq 1..Len(env) /\ S # {} /\ Len(env) \in Nat
  BY DEF NamesOf
<1>2. Max(S) \in S /\ \A y \in S : y <= Max(S)
  BY <1>1, MaxIndex
<1>. QED  BY <1>2 DEF IndexOf

LEMMA IndexIs ==
  ASSUME NEW env \in Seq(Variable), NEW j \in DOMAIN env,
         \A i \in DOMAIN env : env[i].name = env[j].name => i <= j
  PROVE  IndexOf(env, env[j].name) = j
<1>1. env[j].name \in NamesOf(env)
  BY DEF NamesOf
<1>2. IndexOf(env, env[j].name) \in 1..Len(env) /\ j \in 1..Len(env)
  BY <1>1, IndexFound
<1>. QED  BY <1>1, <1>2, IndexFound

\* One override is seen, and nothing else changes or moves.
Overridden(new, old, v) ==
  /\ new \in Seq(Variable)
  /\ NamesOf(new) = NamesOf(old) \cup {v.name}
  /\ \A n \in NamesOf(new) : Seen(new)[n] = IF n = v.name THEN v.value ELSE Seen(old)[n]
  /\ \A i \in DOMAIN old : i \in DOMAIN new /\ new[i].name = old[i].name

LEMMA OverrideReplaces ==
  ASSUME NEW env \in Seq(Variable), NEW v \in Variable, v.name \in NamesOf(env)
  PROVE  Overridden(Override(env, v), env, v)
<1> DEFINE k   == IndexOf(env, v.name)
           new == [env EXCEPT ![k] = v]
<1>1. k \in DOMAIN env /\ env[k].name = v.name
  BY IndexFound
<1>2. new \in Seq(Variable) /\ DOMAIN new = DOMAIN env /\ new[k] = v
  BY <1>1
<1>3. \A i \in DOMAIN env : new[i].name = env[i].name /\ (i # k => new[i] = env[i])
  BY <1>1
<1>4. NamesOf(new) = NamesOf(env)
  BY <1>2, <1>3 DEF NamesOf
<1>5. \A n \in NamesOf(env) : IndexOf(new, n) = IndexOf(env, n)
  <2>. TAKE n \in NamesOf(env)
  <2>1. {i \in DOMAIN new : new[i].name = n} = {i \in DOMAIN env : env[i].name = n}
    BY <1>2, <1>3
  <2>. QED  BY <2>1 DEF IndexOf
<1>6. ASSUME NEW n \in NamesOf(new)
      PROVE  Seen(new)[n] = IF n = v.name THEN v.value ELSE Seen(env)[n]
  <2>1. n \in NamesOf(env) /\ Seen(new)[n] = new[IndexOf(env, n)].value /\ Seen(env)[n] = env[IndexOf(env, n)].value
    BY <1>4, <1>5, <1>6 DEF Seen, IndexOf
  <2>2. n # v.name => IndexOf(env, n) # k /\ IndexOf(env, n) \in DOMAIN env
    BY <1>1, <2>1, IndexFound
  <2>. QED  BY <1>2, <1>3, <2>1, <2>2
<1>7. Override(env, v) = new
  BY DEF Override
<1>8. NamesOf(new) = NamesOf(env) \cup {v.name}
  BY <1>4
<1> HIDE DEF new, k
<1>. QED  BY <1>2, <1>3, <1>6, <1>7, <1>8 DEF Overridden

LEMMA OverrideAppends ==
  ASSUME NEW env \in Seq(Variable), NEW v \in Variable, v.name \notin NamesOf(env)
  PROVE  Overridden(Override(env, v), env, v)
<1> DEFINE new  == Append(env, v)
           last == Len(env) + 1
<1>1. new \in Seq(Variable) /\ DOMAIN new = DOMAIN env \cup {last} /\ last \notin DOMAIN env
  OBVIOUS
<1>2. new[last] = v /\ \A i \in DOMAIN env : new[i] = env[i]
  OBVIOUS
<1>3. NamesOf(new) = NamesOf(env) \cup {v.name}
  BY <1>1, <1>2 DEF NamesOf
<1>4. ASSUME NEW n \in NamesOf(new)
      PROVE  Seen(new)[n] = IF n = v.name THEN v.value ELSE Seen(env)[n]
  <2>1. CASE n = v.name
    <3>1. \A i \in DOMAIN env : env[i].name # n
      BY <2>1 DEF NamesOf
    <3>2. \A i \in DOMAIN new : new[i].name = new[last].name => i <= last
      BY <1>1, <1>2, <2>1, <3>1
    <3>3. IndexOf(new, n) = last
      BY <1>1, <1>2, <2>1, <3>2, IndexIs
    <3>. QED  BY <1>2, <2>1, <3>3 DEF Seen, IndexOf
  <2>2. CASE n # v.name
    <3>1. n \in NamesOf(env)
      BY <1>3, <2>2
    <3>2. {i \in DOMAIN new : new[i].name = n} = {i \in DOMAIN env : env[i].name = n}
      BY <1>1, <1>2, <2>2
    <3>3. IndexOf(new, n) = IndexOf(env, n) /\ IndexOf(env, n) \in DOMAIN env
      BY <3>1, <3>2, IndexFound DEF IndexOf
    <3>4. Seen(new)[n] = new[IndexOf(new, n)].value /\ Seen(env)[n] = env[IndexOf(env, n)].value
      BY <1>3, <3>1 DEF Seen, IndexOf
    <3>. QED  BY <1>2, <2>2, <3>3, <3>4
  <2>. QED  BY <2>1, <2>2
<1>5. Override(env, v) = new
  BY DEF Override
<1> HIDE DEF new, last
<1>. QED  BY <1>1, <1>2, <1>3, <1>4, <1>5 DEF Overridden

\* What the first i overrides give, the last of a name counting.
Given(overrides, i)      == {overrides[j].name : j \in 1..i}
GivenAt(overrides, i, n) == Max({j \in 1..i : overrides[j].name = n})

\* The list after i overrides.
Combined(list, existing, overrides, i) ==
  /\ list \in Seq(Variable)
  /\ NamesOf(list) = NamesOf(existing) \cup Given(overrides, i)
  /\ \A n \in NamesOf(list) :
       Seen(list)[n] = IF n \in Given(overrides, i) THEN overrides[GivenAt(overrides, i, n)].value
                       ELSE Seen(existing)[n]
  /\ \A k \in DOMAIN existing : k \in DOMAIN list /\ list[k].name = existing[k].name

LEMMA OverrideCombines ==
  ASSUME NEW existing \in Seq(Variable), NEW overrides \in Seq(Variable), NEW list,
         NEW i \in Nat, i + 1 \in DOMAIN overrides, Combined(list, existing, overrides, i)
  PROVE  Combined(Override(list, overrides[i + 1]), existing, overrides, i + 1)
<1> DEFINE v    == overrides[i + 1]
           next == Override(list, v)
<1>1. v \in Variable
  OBVIOUS
<1>2. Overridden(next, list, v)
  BY <1>1, OverrideReplaces, OverrideAppends DEF Combined
<1>3. Given(overrides, i + 1) = Given(overrides, i) \cup {v.name}
  <2>1. 1..(i + 1) = 1..i \cup {i + 1}
    OBVIOUS
  <2>. QED  BY <2>1 DEF Given
<1>4. NamesOf(next) = NamesOf(existing) \cup Given(overrides, i + 1)
  BY <1>2, <1>3 DEF Overridden, Combined
<1>5. ASSUME NEW n \in NamesOf(next)
      PROVE  Seen(next)[n] = IF n \in Given(overrides, i + 1)
                               THEN overrides[GivenAt(overrides, i + 1, n)].value
                               ELSE Seen(existing)[n]
  <2>1. CASE n = v.name
    <3> DEFINE S == {j \in 1..(i + 1) : overrides[j].name = n}
    <3>1. i + 1 \in S /\ S \subseteq 1..(i + 1) /\ i + 1 \in Nat
      BY <2>1
    <3>2. Max(S) \in S /\ i + 1 <= Max(S)
      BY <3>1, MaxIndex
    <3>3. Max(S) = i + 1
      BY <3>1, <3>2
    <3>4. GivenAt(overrides, i + 1, n) = i + 1
      BY <3>3 DEF GivenAt
    <3>. QED  BY <1>2, <1>3, <2>1, <3>4 DEF Overridden
  <2>2. CASE n # v.name
    <3>1. n \in NamesOf(list) /\ Seen(next)[n] = Seen(list)[n]
      BY <1>2, <2>2 DEF Overridden
    <3>2. {j \in 1..(i + 1) : overrides[j].name = n} = {j \in 1..i : overrides[j].name = n}
      BY <2>2
    <3>3. GivenAt(overrides, i + 1, n) = GivenAt(overrides, i, n)
      BY <3>2 DEF GivenAt
    <3>4. n \in Given(overrides, i + 1) <=> n \in Given(overrides, i)
      BY <1>3, <2>2
    <3>. QED  BY <3>1, <3>3, <3>4 DEF Combined
  <2>. QED  BY <2>1, <2>2
<1>6. \A k \in DOMAIN existing : k \in DOMAIN next /\ next[k].name = existing[k].name
  BY <1>2 DEF Overridden, Combined
<1>7. next \in Seq(Variable)
  BY <1>2 DEF Overridden
<1> HIDE DEF next, v
<1>8. Combined(next, existing, overrides, i + 1)
  BY <1>4, <1>5, <1>6, <1>7 DEF Combined
<1>. QED  BY <1>8 DEF next, v

\* The whole of MergeEnvVars.
LEMMA MergeCombines ==
  ASSUME NEW existing \in Seq(Variable), NEW overrides \in Seq(Variable)
  PROVE  Combined(MergeEnvVars(existing, overrides), existing, overrides, Len(overrides))
<1> DEFINE N == Len(overrides)
<1>1. N \in Nat /\ DOMAIN overrides = 1..N
  OBVIOUS
<1>2. PICK merged : Merges(merged, existing, overrides, N) /\ MergeEnvVars(existing, overrides) = merged[N]
  BY <1>1, LoopMerges
<1> HIDE DEF N
<1> DEFINE T == {i \in 0..N : Combined(merged[i], existing, overrides, i)}
<1>3. merged[0] = existing /\ \A i \in 1..N : merged[i] = Override(merged[i - 1], overrides[i])
  BY <1>1, <1>2 DEF Merges
<1>4. 0 \in T
  <2>1. Given(overrides, 0) = {}
    BY DEF Given
  <2>2. Combined(existing, existing, overrides, 0)
    BY <2>1 DEF Combined
  <2>. QED  BY <1>1, <1>3, <2>2
<1>5. ASSUME NEW i \in 0..N, i \in T, i # N
      PROVE  i + 1 \in T
  <2>1. i \in Nat /\ i + 1 \in 1..N /\ i + 1 \in 0..N /\ (i + 1) - 1 = i
    BY <1>1, <1>5
  <2>2. merged[i + 1] = Override(merged[i], overrides[i + 1])
    BY <1>3, <2>1
  <2>3. Combined(merged[i + 1], existing, overrides, i + 1)
    BY <1>1, <1>5, <2>1, <2>2, OverrideCombines
  <2>. QED  BY <2>1, <2>3
<1>6. \A i \in 0..N : i \in T
  BY <1>1, <1>4, <1>5, UpTo
<1>7. Combined(merged[N], existing, overrides, N)
  BY <1>1, <1>6
<1>. QED  BY <1>2, <1>7 DEF N

\* What a container sees of the merged list is what it saw, overridden.
LEMMA MergeSeen ==
  ASSUME NEW existing \in Seq(Variable), NEW overrides \in Seq(Variable)
  PROVE  LET list == MergeEnvVars(existing, overrides)
         IN  /\ list \in Seq(Variable)
             /\ Seen(list) = [n \in NamesOf(overrides) \cup NamesOf(existing) |->
                                IF n \in NamesOf(overrides) THEN Seen(overrides)[n] ELSE Seen(existing)[n]]
             /\ \A k \in DOMAIN existing : k \in DOMAIN list /\ list[k].name = existing[k].name
<1> DEFINE list == MergeEnvVars(existing, overrides)
           N    == Len(overrides)
<1>1. Combined(list, existing, overrides, N)
  BY MergeCombines
<1>2. DOMAIN overrides = 1..N
  OBVIOUS
<1>3. Given(overrides, N) = NamesOf(overrides)
  BY <1>2 DEF Given, NamesOf
<1>4. \A n \in NamesOf(overrides) : Seen(overrides)[n] = overrides[GivenAt(overrides, N, n)].value
  BY <1>2 DEF GivenAt, Seen
<1> HIDE DEF list, N
<1>5. DOMAIN Seen(list) = NamesOf(list) /\ NamesOf(list) = NamesOf(overrides) \cup NamesOf(existing)
  BY <1>1, <1>3 DEF Combined, Seen
<1>6. \A n \in NamesOf(list) :
        Seen(list)[n] = IF n \in NamesOf(overrides) THEN Seen(overrides)[n] ELSE Seen(existing)[n]
  BY <1>1, <1>3, <1>4 DEF Combined
<1>7. Seen(list) = [n \in NamesOf(list) |-> Seen(list)[n]]
  BY DEF Seen
<1>8. Seen(list) = [n \in NamesOf(overrides) \cup NamesOf(existing) |->
                      IF n \in NamesOf(overrides) THEN Seen(overrides)[n] ELSE Seen(existing)[n]]
  BY <1>5, <1>6, <1>7
<1>. QED  BY <1>1, <1>8 DEF Combined, list

-----------------------------------------------------------------------------
(* The mutate function                                                     *)

LEMMA ArgumentType ==
  ASSUME NEW arg
  PROVE  arg \in Argument <=> /\ DOMAIN arg \subseteq Flags /\ arg = [f \in DOMAIN arg |-> arg[f]]
                             /\ \A f \in DOMAIN arg : arg[f] \in {"own", "other"}
<1>1. ASSUME arg \in Argument
      PROVE  /\ DOMAIN arg \subseteq Flags /\ arg = [f \in DOMAIN arg |-> arg[f]]
             /\ \A f \in DOMAIN arg : arg[f] \in {"own", "other"}
  <2>1. PICK F \in SUBSET Flags : arg \in [F -> {"own", "other"}]
    BY <1>1 DEF Argument
  <2>. QED  BY <2>1
<1>2. ASSUME DOMAIN arg \subseteq Flags, arg = [f \in DOMAIN arg |-> arg[f]],
             \A f \in DOMAIN arg : arg[f] \in {"own", "other"}
      PROVE  arg \in Argument
  <2>1. arg \in [DOMAIN arg -> {"own", "other"}]
    BY <1>2
  <2>. QED  BY <1>2, <2>1 DEF Argument
<1>. QED  BY <1>1, <1>2

LEMMA OwnType ==
  ASSUME NEW flag \in Flags
  PROVE  Own(flag) \in Argument /\ DOMAIN Own(flag) = {flag} /\ Own(flag)[flag] = "own"
<1>1. DOMAIN Own(flag) = {flag} /\ \A f \in {flag} : Own(flag)[f] = "own"
  BY DEF Own
<1>2. Own(flag) = [f \in DOMAIN Own(flag) |-> Own(flag)[f]]
  BY DEF Own
<1>. QED  BY <1>1, <1>2, ArgumentType

\* An argument that stays as it is has at most one flag, with the own name.
LEMMA RewrittenOwn ==
  ASSUME NEW arg \in Argument
  PROVE  /\ Rewritten(arg) \in Argument
         /\ Rewritten(arg) = arg => \A f \in DOMAIN arg : arg[f] = "own"
<1>1. DOMAIN arg \subseteq {"focal-host", "service-name"}
  BY ArgumentType DEF Flags
<1>2. CASE "service-name" \in DOMAIN arg
  <2>1. Rewritten(arg) = Own("service-name")
    BY <1>2 DEF Rewritten
  <2>. QED  BY <2>1, OwnType DEF Flags
<1>3. CASE DOMAIN arg = {"focal-host"}
  <2>1. Rewritten(arg) = Own("focal-host")
    BY <1>3 DEF Rewritten
  <2>. QED  BY <2>1, OwnType DEF Flags
<1>4. CASE DOMAIN arg = {}
  <2>1. Rewritten(arg) = arg
    BY <1>4 DEF Rewritten
  <2>. QED  BY <1>4, <2>1
<1>5. DOMAIN arg = {} \/ DOMAIN arg = {"focal-host"} \/ "service-name" \in DOMAIN arg
  BY <1>1
<1>. QED  BY <1>2, <1>3, <1>4, <1>5

LEMMA RewrittenAllType ==
  ASSUME NEW args \in Seq(Argument)
  PROVE  /\ RewrittenAll(args) \in Seq(Argument) /\ Len(RewrittenAll(args)) = Len(args)
         /\ \A i \in 1..Len(args) : RewrittenAll(args)[i] = Rewritten(args[i])
<1>1. \A i \in 1..Len(args) : Rewritten(args[i]) \in Argument
  BY RewrittenOwn
<1>2. RewrittenAll(args) = [i \in 1..Len(args) |-> Rewritten(args[i])] /\ Len(args) \in Nat
  BY DEF RewrittenAll
<1>. QED  BY <1>1, <1>2

LEMMA MissingType ==
  ASSUME NEW flag \in Flags, NEW d
  PROVE  Missing(flag, d) \in Seq(Argument) /\ (Missing(flag, d) = <<>> \/ Len(Missing(flag, d)) = 1)
         /\ (Len(Missing(flag, d)) = 0 => Found(flag, d))
<1>1. CASE Found(flag, d)
  BY <1>1 DEF Missing
<1>2. CASE ~Found(flag, d)
  <2>1. Missing(flag, d) = <<Own(flag)>> /\ Own(flag) \in Argument
    BY <1>2, OwnType DEF Missing
  <2>. QED  BY <2>1
<1>. QED  BY <1>1, <1>2

\* What Mutated makes of d, field by field.
Base(d) == IF d.present THEN d ELSE [template EXCEPT !.present = TRUE]

LEMMA BaseType ==
  ASSUME template \in Deployment, NEW d \in Deployment
  PROVE  Base(d) \in Deployment /\ Base(d).present
  BY DEF Base, Deployment

MutatedArgs(base) ==
  RewrittenAll(base.args) \o Missing("focal-host", base) \o Missing("service-name", base)

LEMMA MutatedFields ==
  ASSUME template \in Deployment, spec \in HostSpec, NEW d \in Deployment
  PROVE  /\ Mutated(d) \in Deployment /\ Mutated(d).present /\ Mutated(d).identity = "own"
         /\ Mutated(d).args = MutatedArgs(Base(d))
         /\ Mutated(d).command = RewrittenAll(Base(d).command)
         /\ Mutated(d).env = MergeEnvVars(Base(d).env, spec.env)
         /\ Mutated(d).resources = IF spec.resources = 0 THEN Base(d).resources ELSE spec.resources
         /\ Mutated(d).replicas = IF spec.replicas = 0 THEN Base(d).replicas ELSE spec.replicas
<1> DEFINE base == Base(d)
           args == MutatedArgs(base)
           command == RewrittenAll(base.command)
           env == MergeEnvVars(base.env, spec.env)
           resources == IF spec.resources = 0 THEN base.resources ELSE spec.resources
           replicas == IF spec.replicas = 0 THEN base.replicas ELSE spec.replicas
           new == [base EXCEPT !.args = args, !.command = command, !.identity = "own", !.env = env,
                               !.resources = resources, !.replicas = replicas]
<1>1. base \in Deployment /\ base.present
  BY BaseType
<1>2. args \in Seq(Argument) /\ command \in Seq(Argument)
  <2>1. base.args \in Seq(Argument) /\ base.command \in Seq(Argument)
    BY <1>1 DEF Deployment
  <2>2. RewrittenAll(base.args) \in Seq(Argument) /\ command \in Seq(Argument)
    BY <2>1, RewrittenAllType
  <2>3. Missing("focal-host", base) \in Seq(Argument) /\ Missing("service-name", base) \in Seq(Argument)
    BY MissingType DEF Flags
  <2> HIDE DEF base
  <2>. QED  BY <2>2, <2>3 DEF MutatedArgs
<1>3. env \in Seq(Variable)
  <2>1. base.env \in Seq(Variable) /\ spec.env \in Seq(Variable)
    BY <1>1 DEF Deployment, HostSpec
  <2>. QED  BY <2>1, MergeSeen
<1>4. resources \in Quantities /\ replicas \in Quantities
  BY <1>1 DEF Deployment, HostSpec
<1>5. Mutated(d) = new
  BY DEF Mutated, Base, MutatedArgs
<1> HIDE DEF base, args, command, env, resources, replicas
<1>6. new \in Deployment
  BY <1>1, <1>2, <1>3, <1>4 DEF Deployment
<1>7. /\ new.present = base.present /\ new.identity = "own" /\ new.args = args
      /\ new.command = command /\ new.env = env
      /\ new.resources = resources /\ new.replicas = replicas
  BY <1>1 DEF Deployment
<1>. QED  BY <1>1, <1>5, <1>6, <1>7 DEF base, args, command, env, resources, replicas

LEMMA ConcatIndex ==
  ASSUME NEW S, NEW a \in Seq(S), NEW b \in Seq(S), NEW i \in DOMAIN (a \o b)
  PROVE  \/ i \in 1..Len(a) /\ (a \o b)[i] = a[i]
         \/ i - Len(a) \in 1..Len(b) /\ (a \o b)[i] = b[i - Len(a)]
<1>1. a \o b \in Seq(S) /\ Len(a \o b) = Len(a) + Len(b)
  OBVIOUS
<1>2. i \in 1..(Len(a) + Len(b)) /\ Len(a) \in Nat /\ Len(b) \in Nat
  BY <1>1
<1>3. CASE i <= Len(a)
  BY <1>2, <1>3
<1>4. CASE Len(a) < i
  <2>1. i - Len(a) \in 1..Len(b)
    BY <1>2, <1>4
  <2>. QED  BY <1>2, <1>4, <2>1
<1>. QED  BY <1>2, <1>3, <1>4

\* What the mutate function leaves alone has what the spec asks for.
LEMMA UnchangedMatches ==
  ASSUME template \in Deployment, spec \in HostSpec, NEW d \in Deployment, Mutated(d) = d
  PROVE  /\ d.present /\ d.identity = "own"
         /\ \A n \in NamesOf(spec.env) : n \in NamesOf(d.env) /\ Seen(d.env)[n] = Seen(spec.env)[n]
         /\ spec.resources # 0 => d.resources = spec.resources
         /\ spec.replicas # 0 => d.replicas = spec.replicas
         /\ LET all == d.args \o d.command
            IN \A flag \in Flags :
                 /\ \E i \in DOMAIN all : flag \in DOMAIN all[i]
                 /\ \A i \in DOMAIN all : flag \in DOMAIN all[i] => all[i][flag] = "own"
<1>1. d.present /\ d.identity = "own" /\ Base(d) = d
  BY MutatedFields DEF Base
<1>2. \A n \in NamesOf(spec.env) : n \in NamesOf(d.env) /\ Seen(d.env)[n] = Seen(spec.env)[n]
  <2>1. d.env \in Seq(Variable) /\ spec.env \in Seq(Variable)
    BY DEF Deployment, HostSpec
  <2>2. d.env = MergeEnvVars(d.env, spec.env)
    BY <1>1, MutatedFields
  <2>3. Seen(d.env) = [n \in NamesOf(spec.env) \cup NamesOf(d.env) |->
                         IF n \in NamesOf(spec.env) THEN Seen(spec.env)[n] ELSE Seen(d.env)[n]]
    BY <2>1, <2>2, MergeSeen
  <2>4. DOMAIN Seen(d.env) = NamesOf(d.env)
    BY DEF Seen
  <2>. QED  BY <2>3, <2>4
<1>3. /\ spec.resources # 0 => d.resources = spec.resources
      /\ spec.replicas # 0 => d.replicas = spec.replicas
  BY <1>1, MutatedFields
<1>4. d.args \in Seq(Argument) /\ d.command \in Seq(Argument)
  BY DEF Deployment
<1>5. d.args = MutatedArgs(d) /\ d.command = RewrittenAll(d.command)
  BY <1>1, MutatedFields
<1>6. /\ Len(Missing("focal-host", d)) = 0 /\ Len(Missing("service-name", d)) = 0
      /\ d.args = RewrittenAll(d.args)
  <2> DEFINE r == RewrittenAll(d.args)
             m1 == Missing("focal-host", d)
             m2 == Missing("service-name", d)
  <2>1. r \in Seq(Argument) /\ m1 \in Seq(Argument) /\ m2 \in Seq(Argument) /\ Len(r) = Len(d.args)
    BY <1>4, RewrittenAllType, MissingType DEF Flags
  <2>2. d.args = r \o m1 \o m2
    BY <1>5 DEF MutatedArgs
  <2> HIDE DEF r, m1, m2
  <2>3. Len(d.args) = Len(r) + Len(m1) + Len(m2) /\ Len(m1) \in Nat /\ Len(m2) \in Nat /\ Len(r) \in Nat
    BY <2>1, <2>2
  <2>4. Len(m1) = 0 /\ Len(m2) = 0
    BY <2>1, <2>3
  <2>5. m1 = <<>> /\ m2 = <<>>
    BY <2>1, <2>4
  <2>6. r \o <<>> \o <<>> = r
    BY <2>1
  <2>. QED  BY <2>2, <2>4, <2>5, <2>6 DEF r, m1, m2
<1> DEFINE all == d.args \o d.command
<1>7. \A i \in DOMAIN all : all[i] \in Argument /\ Rewritten(all[i]) = all[i]
  <2>1. \A i \in 1..Len(d.args) : d.args[i] \in Argument /\ Rewritten(d.args[i]) = d.args[i]
    BY <1>4, <1>6, RewrittenAllType
  <2>2. \A i \in 1..Len(d.command) : d.command[i] \in Argument /\ Rewritten(d.command[i]) = d.command[i]
    BY <1>4, <1>5, RewrittenAllType
  <2>3. ASSUME NEW i \in DOMAIN all
        PROVE  \/ i \in 1..Len(d.args) /\ all[i] = d.args[i]
               \/ i - Len(d.args) \in 1..Len(d.command) /\ all[i] = d.command[i - Len(d.args)]
    BY <1>4, <2>3, ConcatIndex
  <2>. QED  BY <2>1, <2>2, <2>3
<1>8. ASSUME NEW flag \in Flags
      PROVE  /\ \E i \in DOMAIN all : flag \in DOMAIN all[i]
             /\ \A i \in DOMAIN all : flag \in DOMAIN all[i] => all[i][flag] = "own"
  <2>1. Found(flag, d)
    BY <1>6, MissingType DEF Flags
  <2>. QED  BY <1>7, <2>1, RewrittenOwn DEF Found
<1>. QED  BY <1>1, <1>2, <1>3, <1>8

-----------------------------------------------------------------------------
(* Two passes are enough                                                   *)

\* The list L while overrides it has already seen are applied again.
Again(list, L, overrides, i) ==
  /\ list \in Seq(Variable) /\ DOMAIN list = DOMAIN L
  /\ \A k \in DOMAIN L :
       /\ list[k].name = L[k].name
       /\ list[k] = IF L[k].name \in Given(overrides, i) /\ k = IndexOf(L, L[k].name)
                      THEN overrides[GivenAt(overrides, i, L[k].name)] ELSE L[k]

LEMMA OverridesAgain ==
  ASSUME NEW L \in Seq(Variable), NEW overrides \in Seq(Variable), NEW list, NEW i \in Nat,
         i + 1 \in DOMAIN overrides, overrides[i + 1].name \in NamesOf(L), Again(list, L, overrides, i)
  PROVE  Again(Override(list, overrides[i + 1]), L, overrides, i + 1)
<1> DEFINE v    == overrides[i + 1]
           at   == IndexOf(L, v.name)
           next == [list EXCEPT ![at] = v]
<1>1. v \in Variable
  OBVIOUS
<1>2. NamesOf(list) = NamesOf(L) /\ IndexOf(list, v.name) = at
  <2>1. {k \in DOMAIN list : list[k].name = v.name} = {k \in DOMAIN L : L[k].name = v.name}
    BY DEF Again
  <2>2. NamesOf(list) = NamesOf(L)
    BY DEF Again, NamesOf
  <2>. QED  BY <2>1, <2>2 DEF IndexOf
<1>3. Override(list, v) = next
  BY <1>2 DEF Override
<1>4. at \in DOMAIN L /\ L[at].name = v.name
  BY IndexFound
<1>5. next \in Seq(Variable) /\ DOMAIN next = DOMAIN L /\ next[at] = v
      /\ \A k \in DOMAIN L : k # at => next[k] = list[k]
  BY <1>1, <1>4 DEF Again
<1>6. Given(overrides, i + 1) = Given(overrides, i) \cup {v.name}
  <2>1. 1..(i + 1) = 1..i \cup {i + 1}
    OBVIOUS
  <2>. QED  BY <2>1 DEF Given
<1>7. GivenAt(overrides, i + 1, v.name) = i + 1
  <2> DEFINE S == {j \in 1..(i + 1) : overrides[j].name = v.name}
  <2>1. i + 1 \in S /\ S \subseteq 1..(i + 1) /\ i + 1 \in Nat
    OBVIOUS
  <2>2. Max(S) \in S /\ i + 1 <= Max(S)
    BY <2>1, MaxIndex
  <2>3. Max(S) = i + 1
    BY <2>1, <2>2
  <2>. QED  BY <2>3 DEF GivenAt
<1>8. ASSUME NEW n, n # v.name
      PROVE  GivenAt(overrides, i + 1, n) = GivenAt(overrides, i, n)
  <2>1. {j \in 1..(i + 1) : overrides[j].name = n} = {j \in 1..i : overrides[j].name = n}
    BY <1>8
  <2>. QED  BY <2>1 DEF GivenAt
<1> HIDE DEF next, at, v
<1>9. ASSUME NEW k \in DOMAIN L
      PROVE  /\ next[k].name = L[k].name
             /\ next[k] = IF L[k].name \in Given(overrides, i + 1) /\ k = IndexOf(L, L[k].name)
                            THEN overrides[GivenAt(overrides, i + 1, L[k].name)] ELSE L[k]
  <2>1. CASE k = at
    BY <1>4, <1>5, <1>6, <1>7, <2>1 DEF at, v
  <2>2. CASE k # at /\ L[k].name = v.name
    <3>1. k # IndexOf(L, L[k].name)
      BY <2>2 DEF at
    <3>. QED  BY <1>5, <2>2, <3>1 DEF Again
  <2>3. CASE L[k].name # v.name
    <3>1. k # at /\ (L[k].name \in Given(overrides, i + 1) <=> L[k].name \in Given(overrides, i))
      BY <1>4, <1>6, <2>3
    <3>. QED  BY <1>5, <1>8, <2>3, <3>1 DEF Again
  <2>. QED  BY <2>1, <2>2, <2>3
<1>10. Again(next, L, overrides, i + 1)
  BY <1>5, <1>9 DEF Again
<1>. QED  BY <1>3, <1>10 DEF v

LEMMA VariablesEqual ==
  ASSUME NEW v \in Variable, NEW w \in Variable, v.name = w.name, v.value = w.value
  PROVE  v = w
  BY DEF Variable

\* MergeEnvVars does nothing the second time.
LEMMA MergeSettles ==
  ASSUME NEW existing \in Seq(Variable), NEW overrides \in Seq(Variable)
  PROVE  LET L == MergeEnvVars(existing, overrides) IN MergeEnvVars(L, overrides) = L
<1> DEFINE L == MergeEnvVars(existing, overrides)
           N == Len(overrides)
<1>1. N \in Nat /\ DOMAIN overrides = 1..N
  OBVIOUS
<1>2. Combined(L, existing, overrides, N)
  BY MergeCombines
<1>3. L \in Seq(Variable) /\ Given(overrides, N) \subseteq NamesOf(L)
  BY <1>2 DEF Combined
<1> HIDE DEF L
<1>4. PICK merged : Merges(merged, L, overrides, N) /\ MergeEnvVars(L, overrides) = merged[N]
  BY <1>1, LoopMerges
<1> HIDE DEF N
<1>5. merged[0] = L /\ \A i \in 1..N : merged[i] = Override(merged[i - 1], overrides[i])
  BY <1>1, <1>4 DEF Merges
<1> DEFINE T == {i \in 0..N : Again(merged[i], L, overrides, i)}
<1>6. 0 \in T
  <2>1. Given(overrides, 0) = {}
    BY DEF Given
  <2>2. Again(L, L, overrides, 0)
    BY <1>3, <2>1 DEF Again
  <2>. QED  BY <1>1, <1>5, <2>2
<1>7. ASSUME NEW i \in 0..N, i \in T, i # N
      PROVE  i + 1 \in T
  <2>1. i \in Nat /\ i + 1 \in 1..N /\ i + 1 \in 0..N /\ (i + 1) - 1 = i
    BY <1>1, <1>7
  <2>2. merged[i + 1] = Override(merged[i], overrides[i + 1])
    BY <1>5, <2>1
  <2>3. overrides[i + 1].name \in NamesOf(L)
    BY <1>3, <2>1 DEF Given
  <2>4. Again(merged[i + 1], L, overrides, i + 1)
    BY <1>1, <1>3, <1>7, <2>1, <2>2, <2>3, OverridesAgain
  <2>. QED  BY <2>1, <2>4
<1>8. Again(merged[N], L, overrides, N)
  <2>1. \A i \in 0..N : i \in T
    BY <1>1, <1>6, <1>7, UpTo
  <2>. QED  BY <1>1, <2>1
<1>9. ASSUME NEW k \in DOMAIN L
      PROVE  merged[N][k] = L[k]
  <2> DEFINE n == L[k].name
  <2>1. CASE n \in Given(overrides, N) /\ k = IndexOf(L, n)
    <3>1. merged[N][k] = overrides[GivenAt(overrides, N, n)] /\ merged[N][k].name = n
      BY <1>8, <2>1 DEF Again
    <3>2. Seen(L)[n] = overrides[GivenAt(overrides, N, n)].value
      BY <1>2, <1>3, <2>1 DEF Combined
    <3>3. Seen(L)[n] = L[k].value
      BY <1>3, <2>1 DEF Seen, IndexOf
    <3>4. merged[N][k] \in Variable /\ L[k] \in Variable
      BY <1>3, <1>8 DEF Again
    <3>. QED  BY <3>1, <3>2, <3>3, <3>4, VariablesEqual
  <2>2. CASE ~ (n \in Given(overrides, N) /\ k = IndexOf(L, n))
    BY <1>8, <2>2 DEF Again
  <2>. QED  BY <2>1, <2>2
<1>10. merged[N] = L
  <2>1. merged[N] \in Seq(Variable) /\ DOMAIN merged[N] = DOMAIN L
    BY <1>8 DEF Again
  <2>. QED  BY <1>3, <1>9, <2>1
<1>. QED  BY <1>4, <1>10 DEF L

\* Arguments a pass has made: another leaves them alone.
Plain(args) == args \in Seq(Argument) /\ RewrittenAll(args) = args

Has(flag, args) == \E i \in DOMAIN args : flag \in DOMAIN args[i]

LEMMA RewrittenTwice ==
  ASSUME NEW arg \in Argument
  PROVE  Rewritten(Rewritten(arg)) = Rewritten(arg)
<1>1. DOMAIN arg \subseteq {"focal-host", "service-name"}
  BY ArgumentType DEF Flags
<1>2. DOMAIN arg = {} \/ DOMAIN arg = {"focal-host"} \/ "service-name" \in DOMAIN arg
  BY <1>1
<1>3. Rewritten(arg) = arg \/ Rewritten(arg) = Own("service-name") \/ Rewritten(arg) = Own("focal-host")
  BY <1>2 DEF Rewritten
<1>4. Rewritten(Own("service-name")) = Own("service-name") /\ Rewritten(Own("focal-host")) = Own("focal-host")
  BY OwnType DEF Rewritten, Flags
<1>. QED  BY <1>3, <1>4

LEMMA PlainRewritten ==
  ASSUME NEW args \in Seq(Argument)
  PROVE  Plain(RewrittenAll(args))
<1> DEFINE r == RewrittenAll(args)
<1>1. r \in Seq(Argument) /\ Len(r) = Len(args) /\ \A i \in 1..Len(args) : r[i] = Rewritten(args[i])
  BY RewrittenAllType
<1>2. \A i \in 1..Len(args) : Rewritten(r[i]) = r[i]
  BY <1>1, RewrittenTwice
<1> HIDE DEF r
<1>3. /\ RewrittenAll(r) \in Seq(Argument) /\ Len(RewrittenAll(r)) = Len(r)
      /\ \A i \in 1..Len(r) : RewrittenAll(r)[i] = Rewritten(r[i])
  BY <1>1, RewrittenAllType
<1>4. RewrittenAll(r) = r
  BY <1>1, <1>2, <1>3
<1>. QED  BY <1>1, <1>4 DEF Plain, r

\* Plain, argument by argument.
LEMMA PlainEach ==
  ASSUME NEW args \in Seq(Argument)
  PROVE  Plain(args) <=> \A i \in 1..Len(args) : Rewritten(args[i]) = args[i]
<1>1. /\ RewrittenAll(args) \in Seq(Argument) /\ Len(RewrittenAll(args)) = Len(args)
      /\ \A i \in 1..Len(args) : RewrittenAll(args)[i] = Rewritten(args[i])
  BY RewrittenAllType
<1>2. ASSUME \A i \in 1..Len(args) : Rewritten(args[i]) = args[i]
      PROVE  RewrittenAll(args) = args
  BY <1>1, <1>2
<1>. QED  BY <1>1, <1>2 DEF Plain

LEMMA PlainMissing ==
  ASSUME NEW flag \in Flags, NEW d
  PROVE  Plain(Missing(flag, d)) /\ (Found(flag, d) \/ Has(flag, Missing(flag, d)))
<1>1. CASE Found(flag, d)
  <2>1. Missing(flag, d) = <<>>
    BY <1>1 DEF Missing
  <2>2. <<>> \in Seq(Argument) /\ Len(<<>>) = 0
    OBVIOUS
  <2>3. Plain(Missing(flag, d))
    <3>1. ASSUME NEW args \in Seq(Argument), Len(args) = 0
          PROVE  Plain(args)
      <4>1. \A i \in 1..Len(args) : Rewritten(args[i]) = args[i]
        BY <3>1
      <4>. QED  BY <4>1, PlainEach
    <3>. QED  BY <2>1, <2>2, <3>1
  <2>. QED  BY <1>1, <2>1, <2>3
<1>2. CASE ~Found(flag, d)
  <2>1. Missing(flag, d) = <<Own(flag)>> /\ Own(flag) \in Argument /\ flag \in DOMAIN Own(flag)
    BY <1>2, OwnType DEF Missing
  <2>2. Rewritten(Own(flag)) = Own(flag)
    BY OwnType DEF Rewritten, Flags
  <2>3. <<Own(flag)>> \in Seq(Argument) /\ Len(<<Own(flag)>>) = 1 /\ <<Own(flag)>>[1] = Own(flag)
    BY <2>1
  <2>4. Plain(Missing(flag, d))
    <3>1. ASSUME NEW args \in Seq(Argument), Len(args) = 1, args[1] = Own(flag)
          PROVE  Plain(args)
      BY <2>2, <3>1, PlainEach
    <3>. QED  BY <2>1, <2>3, <3>1
  <2>5. Has(flag, <<Own(flag)>>)
    BY <2>1, <2>3 DEF Has
  <2>. QED  BY <2>1, <2>4, <2>5
<1>. QED  BY <1>1, <1>2

LEMMA PlainConcat ==
  ASSUME NEW a, NEW b, Plain(a), Plain(b)
  PROVE  Plain(a \o b)
<1>1. a \in Seq(Argument) /\ b \in Seq(Argument) /\ a \o b \in Seq(Argument)
  BY DEF Plain
<1>2. \A i \in DOMAIN (a \o b) : Rewritten((a \o b)[i]) = (a \o b)[i]
  BY <1>1, ConcatIndex, PlainEach
<1>3. DOMAIN (a \o b) = 1..Len(a \o b)
  BY <1>1
<1>. QED  BY <1>1, <1>2, <1>3, PlainEach

LEMMA HasConcat ==
  ASSUME NEW a \in Seq(Argument), NEW b \in Seq(Argument), NEW flag
  PROVE  Has(flag, a \o b) <=> Has(flag, a) \/ Has(flag, b)
<1>1. Has(flag, a \o b) => Has(flag, a) \/ Has(flag, b)
  BY ConcatIndex DEF Has
<1>2. ASSUME NEW i \in DOMAIN a
      PROVE  i \in DOMAIN (a \o b) /\ (a \o b)[i] = a[i]
  OBVIOUS
<1>3. ASSUME NEW i \in DOMAIN b
      PROVE  Len(a) + i \in DOMAIN (a \o b) /\ (a \o b)[Len(a) + i] = b[i]
  OBVIOUS
<1>. QED  BY <1>1, <1>2, <1>3 DEF Has

\* The first pass makes the arguments plain.
LEMMA FirstPass ==
  ASSUME template \in Deployment, spec \in HostSpec, NEW d \in Deployment
  PROVE  LET once == Mutated(d)
         IN /\ once \in Deployment /\ once.present /\ once.identity = "own"
            /\ Plain(once.args) /\ Plain(once.command)
            /\ MergeEnvVars(once.env, spec.env) = once.env
            /\ spec.resources # 0 => once.resources = spec.resources
            /\ spec.replicas # 0 => once.replicas = spec.replicas
<1> DEFINE base == Base(d)
<1>1. base \in Deployment
  BY BaseType
<1>2. base.args \in Seq(Argument) /\ base.command \in Seq(Argument) /\ base.env \in Seq(Variable)
      /\ spec.env \in Seq(Variable)
  BY <1>1 DEF Deployment, HostSpec
<1>3. Plain(MutatedArgs(base))
  BY <1>2, PlainRewritten, PlainMissing, PlainConcat DEF MutatedArgs, Flags
<1>4. Plain(RewrittenAll(base.command))
  BY <1>2, PlainRewritten
<1>5. MergeEnvVars(MergeEnvVars(base.env, spec.env), spec.env) = MergeEnvVars(base.env, spec.env)
  BY <1>2, MergeSettles
<1>. QED  BY <1>3, <1>4, <1>5, MutatedFields

LEMMA DeploymentsEqual ==
  ASSUME NEW d \in Deployment, NEW e \in Deployment,
         d.present = e.present, d.args = e.args, d.command = e.command, d.env = e.env,
         d.resources = e.resources, d.replicas = e.replicas, d.identity = e.identity
  PROVE  d = e
  BY DEF Deployment

\* Passes after the first only add flags that are missing.
LEMMA LaterPass ==
  ASSUME template \in Deployment, spec \in HostSpec, NEW d \in Deployment,
         d.present, d.identity = "own", Plain(d.args), Plain(d.command),
         MergeEnvVars(d.env, spec.env) = d.env,
         spec.resources # 0 => d.resources = spec.resources,
         spec.replicas # 0 => d.replicas = spec.replicas
  PROVE  LET next == Mutated(d)
         IN /\ next \in Deployment
            /\ next = [d EXCEPT !.args = d.args \o Missing("focal-host", d) \o Missing("service-name", d)]
<1> DEFINE args == d.args \o Missing("focal-host", d) \o Missing("service-name", d)
           next == Mutated(d)
           this == [d EXCEPT !.args = args]
<1>1. Base(d) = d
  BY DEF Base
<1>2. MutatedArgs(d) = args /\ RewrittenAll(d.command) = d.command
  BY DEF MutatedArgs, Plain
<1>3. /\ next \in Deployment /\ next.present /\ next.identity = "own" /\ next.args = args
      /\ next.command = d.command /\ next.env = d.env /\ next.resources = d.resources
      /\ next.replicas = d.replicas
  BY <1>1, <1>2, MutatedFields
<1>4. next.present = d.present
  BY <1>3 DEF Deployment
<1> HIDE DEF next, args
<1>5. this \in Deployment
  <2>1. args \in Seq(Argument)
    BY <1>3 DEF Deployment
  <2>. QED  BY <2>1 DEF Deployment
<1>6. /\ this.present = d.present /\ this.args = args /\ this.command = d.command /\ this.env = d.env
      /\ this.resources = d.resources /\ this.replicas = d.replicas /\ this.identity = d.identity
  BY DEF Deployment
<1>7. next = this
  BY <1>3, <1>4, <1>5, <1>6, DeploymentsEqual
<1>. QED  BY <1>3, <1>7 DEF next, args

LEMMA TwicePassed ==
  ASSUME template \in Deployment, spec \in HostSpec, NEW d \in Deployment
  PROVE  LET twice == Mutated(Mutated(d)) IN Mutated(twice) = twice
<1> DEFINE once  == Mutated(d)
           twice == Mutated(once)
           m1    == Missing("focal-host", once)
           m2    == Missing("service-name", once)
<1>1. /\ once \in Deployment /\ once.present /\ once.identity = "own"
      /\ Plain(once.args) /\ Plain(once.command)
      /\ MergeEnvVars(once.env, spec.env) = once.env
      /\ spec.resources # 0 => once.resources = spec.resources
      /\ spec.replicas # 0 => once.replicas = spec.replicas
  BY FirstPass
<1> HIDE DEF once, m1, m2
<1>2. twice \in Deployment /\ twice = [once EXCEPT !.args = once.args \o m1 \o m2]
  BY <1>1, LaterPass DEF m1, m2
<1>3. Plain(m1) /\ Plain(m2)
  BY PlainMissing DEF Flags, m1, m2
<1>4. /\ twice.present /\ twice.identity = "own" /\ twice.command = once.command /\ twice.env = once.env
      /\ twice.resources = once.resources /\ twice.replicas = once.replicas
      /\ twice.args = once.args \o m1 \o m2
  BY <1>1, <1>2 DEF Deployment
<1>5. Plain(twice.args)
  BY <1>1, <1>3, <1>4, PlainConcat
<1>6. ASSUME NEW flag \in Flags
      PROVE  Found(flag, twice)
  <2>1. once.args \in Seq(Argument) /\ once.command \in Seq(Argument) /\ m1 \in Seq(Argument) /\ m2 \in Seq(Argument)
    BY <1>1, <1>3 DEF Plain
  <2>2. twice.args \in Seq(Argument) /\ once.args \o m1 \in Seq(Argument)
    BY <1>5, <2>1 DEF Plain
  <2>3. Has(flag, once.args \o once.command) \/ Has(flag, m1) \/ Has(flag, m2)
    BY PlainMissing DEF Flags, Found, Has, m1, m2
  <2>4. Has(flag, once.args \o once.command) => Has(flag, once.args) \/ Has(flag, once.command)
    BY <2>1, HasConcat
  <2>5. Has(flag, twice.args) <=> Has(flag, once.args) \/ Has(flag, m1) \/ Has(flag, m2)
    <3>1. Has(flag, once.args \o m1) <=> Has(flag, once.args) \/ Has(flag, m1)
      BY <2>1, HasConcat
    <3>2. Has(flag, once.args \o m1 \o m2) <=> Has(flag, once.args \o m1) \/ Has(flag, m2)
      BY <2>1, <2>2, HasConcat
    <3>. QED  BY <1>4, <3>1, <3>2
  <2>6. Has(flag, twice.args \o twice.command)
    BY <1>4, <2>1, <2>2, <2>3, <2>4, <2>5, HasConcat
  <2>. QED  BY <2>6 DEF Has, Found
<1> HIDE DEF twice
<1>7. Mutated(twice) = [twice EXCEPT !.args = twice.args \o Missing("focal-host", twice) \o Missing("service-name", twice)]
  BY <1>1, <1>2, <1>4, <1>5, LaterPass
<1>8. Missing("focal-host", twice) = <<>> /\ Missing("service-name", twice) = <<>>
  BY <1>6 DEF Missing, Flags
<1>9. twice.args \o <<>> \o <<>> = twice.args
  BY <1>5 DEF Plain
<1>10. [twice EXCEPT !.args = twice.args] = twice
  BY <1>2 DEF Deployment
<1>. QED  BY <1>7, <1>8, <1>9, <1>10 DEF twice, once

-----------------------------------------------------------------------------
(* The theorems                                                            *)

TypeInv ==
  /\ spec \in Specs /\ template \in Templates
  /\ deploy \in Deployment /\ cached \in Deployment
  /\ synced \in BOOLEAN /\ queued \in BOOLEAN

\* A host that is not queued was last looked at as it is.
DeploymentInv ==
  /\ TypeInv
  /\ synced => cached = deploy
  /\ synced /\ ~queued => Mutated(deploy) = deploy

LEMMA ConstantTypes ==
  ASSUME HostDeploymentAssumption, TypeInv
  PROVE  template \in Deployment /\ spec \in HostSpec
  BY DEF HostDeploymentAssumption, TypeInv

LEMMA DeploymentInit ==
  ASSUME HostDeploymentAssumption, Init
  PROVE  DeploymentInv
<1>1. NoDeployment \in Deployment
  BY DEF NoDeployment, Deployment, HostDeploymentAssumption
<1>. QED  BY <1>1 DEF Init, DeploymentInv, TypeInv

LEMMA ReconcileKeeps ==
  ASSUME HostDeploymentAssumption, DeploymentInv, Reconcile
  PROVE  DeploymentInv'
<1>1. Mutated(cached) \in Deployment
  BY ConstantTypes, MutatedFields DEF DeploymentInv, TypeInv
<1>2. TypeInv'
  BY <1>1 DEF Reconcile, DeploymentInv, TypeInv
<1>3. synced' => synced /\ cached' = cached /\ deploy' = deploy /\ cached = deploy
  BY DEF Reconcile, DeploymentInv
<1>4. synced' /\ ~queued' => Mutated(deploy)' = deploy'
  BY <1>3 DEF Reconcile, DeploymentInv, TypeInv, Mutated
<1>. QED  BY <1>2, <1>3, <1>4 DEF DeploymentInv

LEMMA MeddleKeeps ==
  ASSUME HostDeploymentAssumption, DeploymentInv, Meddle
  PROVE  DeploymentInv'
<1>1. deploy' \in Deployment
  <2>1. ASSUME NEW q \in Quantities \ {0}
        PROVE  [deploy EXCEPT !.replicas = q] \in Deployment
    BY DEF DeploymentInv, TypeInv, Deployment
  <2>2. ASSUME NEW e \in OtherEnvs
        PROVE  [deploy EXCEPT !.env = e, !.args = <<>>, !.identity = "other"] \in Deployment
    <3>1. e \in Seq(Variable) /\ <<>> \in Seq(Argument)
      BY DEF HostDeploymentAssumption
    <3>. QED  BY <3>1 DEF DeploymentInv, TypeInv, Deployment
  <2>3. NoDeployment \in Deployment
    BY DEF NoDeployment, Deployment, HostDeploymentAssumption
  <2>. QED  BY <2>1, <2>2, <2>3 DEF Meddle
<1>. QED  BY <1>1 DEF Meddle, DeploymentInv, TypeInv

\* The invariant is inductive.
LEMMA DeploymentStep ==
  ASSUME HostDeploymentAssumption, DeploymentInv, [Next]_vars
  PROVE  DeploymentInv'
<1>1. CASE Reconcile
  BY <1>1, ReconcileKeeps
<1>2. CASE Deliver
  BY <1>2 DEF Deliver, DeploymentInv, TypeInv
<1>3. CASE EditSpec
  BY <1>3 DEF EditSpec, DeploymentInv, TypeInv
<1>4. CASE Meddle
  BY <1>4, MeddleKeeps
<1>5. CASE Restart
  BY <1>5 DEF Restart, DeploymentInv, TypeInv
<1>6. CASE UNCHANGED vars
  BY <1>6 DEF vars, DeploymentInv, TypeInv, Mutated
<1>. QED  BY <1>1, <1>2, <1>3, <1>4, <1>5, <1>6 DEF Next

LEMMA DeploymentAlways == Spec => []DeploymentInv
<1>1. Init => DeploymentInv
  BY DeploymentInit, HostDeploymentAssumption
<1>2. DeploymentInv /\ [Next]_vars => DeploymentInv'
  BY DeploymentStep, HostDeploymentAssumption
<1>. QED  BY <1>1, <1>2, PTL DEF Spec

\* A host at rest has a Deployment that is as its spec asks: own identity, the spec's
\* variables as the container sees them, its resources and replicas, both flags with
\* the own name wherever they are (createOrUpdateDeployment).
THEOREM RestCorrect == Spec => []RestMatchesSpec
<1>1. DeploymentInv => RestMatchesSpec
  BY ConstantTypes, UnchangedMatches, HostDeploymentAssumption
     DEF DeploymentInv, TypeInv, RestMatchesSpec
<1>. QED  BY <1>1, DeploymentAlways, PTL

\* Two passes of the mutate function make of any Deployment what a third leaves alone, so
\* that the events of its own writes do not keep a host busy for ever
\* (createOrUpdateDeployment).
THEOREM SettlesCorrect == Spec => []TwoPassesSettle
<1>1. DeploymentInv => TwoPassesSettle
  BY ConstantTypes, TwicePassed, HostDeploymentAssumption
     DEF DeploymentInv, TypeInv, TwoPassesSettle
<1>. QED  BY <1>1, DeploymentAlways, PTL

\* A reconcile that writes overrides what the container sees with what the spec gives,
\* and neither drops nor moves a variable (MergeEnvVars).
THEOREM EnvironmentCorrect == Spec => MergesEnvironment
<1>1. ASSUME DeploymentInv, Reconcile, deploy' # deploy, deploy.present
      PROVE  /\ Seen(deploy'.env) =
                  [n \in NamesOf(spec.env) \cup NamesOf(deploy.env) |->
                     IF n \in NamesOf(spec.env) THEN Seen(spec.env)[n] ELSE Seen(deploy.env)[n]]
             /\ \A i \in DOMAIN deploy.env : deploy'.env[i].name = deploy.env[i].name
  <2>1. deploy' = Mutated(deploy)
    BY <1>1 DEF Reconcile, DeploymentInv
  <2>2. template \in Deployment /\ spec \in HostSpec /\ deploy \in Deployment
    BY <1>1, ConstantTypes, HostDeploymentAssumption DEF DeploymentInv, TypeInv
  <2>3. deploy'.env = MergeEnvVars(deploy.env, spec.env)
    BY <1>1, <2>1, <2>2, MutatedFields DEF Base
  <2>4. deploy.env \in Seq(Variable) /\ spec.env \in Seq(Variable)
    BY <2>2 DEF Deployment, HostSpec
  <2> DEFINE list == MergeEnvVars(deploy.env, spec.env)
  <2>5. /\ Seen(list) = [n \in NamesOf(spec.env) \cup NamesOf(deploy.env) |->
                           IF n \in NamesOf(spec.env) THEN Seen(spec.env)[n] ELSE Seen(deploy.env)[n]]
        /\ \A i \in DOMAIN deploy.env : list[i].name = deploy.env[i].name
    BY <2>4, MergeSeen
  <2>6. deploy'.env = list
    BY <2>3
  <2> HIDE DEF list
  <2>. QED  BY <2>5, <2>6
<1>2. DeploymentInv =>
        [Reconcile /\ deploy' # deploy /\ deploy.present =>
           /\ Seen(deploy'.env) =
                [n \in NamesOf(spec.env) \cup NamesOf(deploy.env) |->
                   IF n \in NamesOf(spec.env) THEN Seen(spec.env)[n] ELSE Seen(deploy.env)[n]]
           /\ \A i \in DOMAIN deploy.env : deploy'.env[i].name = deploy.env[i].name]_vars
  BY <1>1
<1>. QED  BY <1>2, DeploymentAlways, PTL DEF MergesEnvironment
=============================================================================
