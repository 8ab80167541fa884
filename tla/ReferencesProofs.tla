--------------------------- MODULE ReferencesProofs ---------------------------
(***************************************************************************)
(* Theorems about References, for all sets of objects and references, with *)
(* any informers and handlers that lag.                                    *)
(***************************************************************************)
EXTENDS References, TLAPS

\* What an informer and the API server hold, and what is told of it.
StoreTypeOK ==
  /\ api \in [Objects -> Record] /\ cache \in [Objects -> Record]
  /\ unsent \subseteq Lagging /\ notices \subseteq Objects \X Slow
  /\ queue \subseteq Reconciled

\* What the workers do.
WorkTypeOK ==
  /\ work \in [Kinds -> Work]
  /\ \A k \in Kinds : work[k] = Idle \/
       /\ work[k].on \in Reconciled /\ Kind(work[k].on) = k
       /\ work[k].copy.generation # 0
       /\ work[k].result = "retry" => work[k].todo = {}

\* Objects and their kinds; nobody is no object.
LEMMA ReconciledKinds ==
  /\ Nobody \notin Objects /\ Reconciled \subseteq Objects
  /\ \A o \in Reconciled : Kind(o) \in Kinds
<1>1. \A o \in Objects : Kind(o) \in Kinds \cup {"secret"}
  BY ReferencesAssumption DEF Kind
<1>2. Kind(Nobody) \notin Kinds \cup {"secret"}
  BY DEF Kind, Nobody, Kinds
<1>. QED BY <1>1, <1>2 DEF Reconciled

\* What is absent or made is a record.
LEMMA Records ==
  /\ Absent \in Record /\ Made \subseteq Record
  /\ Idle \in Work
<1>1. Absent \in Record
  BY DEF Absent, Record, Readiness
<1>2. ASSUME NEW o \in Objects, NEW R \in Choices[o] PROVE R \subseteq Reference
  BY ReferencesAssumption
<1>3. ASSUME NEW R \in SUBSET Reference
      PROVE  [Absent EXCEPT !.generation = 1, !.refs = R] \in Record
  BY <1>1 DEF Absent, Record
<1>4. UNION {Choices[o] : o \in Objects} \subseteq SUBSET Reference
  BY <1>2
<1>5. Made \subseteq Record
  BY <1>3, <1>4 DEF Made
<1>. QED BY <1>1, <1>5 DEF Idle, Work

-----------------------------------------------------------------------------
(* Types                                                                   *)

\* A handler enqueues objects of its controller.
LEMMA MappedType ==
  ASSUME NEW x \in Objects, NEW k \in Kinds, NEW s
  PROVE  Mapped(x, k, s) \subseteq Reconciled
<1>1. "secret" \notin Kinds
  BY DEF Kinds
<1>. QED BY <1>1 DEF Mapped, Reconciled

\* What an informer has is well typed.
LEMMA InformedType ==
  ASSUME StoreTypeOK, NEW o \in Objects, NEW s \in [Objects -> Record], Informed(o, s)
  PROVE  /\ cache' \in [Objects -> Record] /\ notices' \subseteq Objects \X Slow
         /\ queue' \subseteq Reconciled
<1>. DEFINE told == {k \in Kinds : k = Kind(o) \/ Kind(o) \in Watches[k]}
<1>1. cache' = [cache EXCEPT ![o] = s[o]] /\ notices' = notices \cup ({o} \X (told \cap Slow))
      /\ queue' = queue \cup UNION {Mapped(o, k, cache') : k \in told \ Slow}
  BY DEF Informed
<1>2. UNION {Mapped(o, k, cache') : k \in told \ Slow} \subseteq Reconciled
  BY MappedType
<1>3. cache' \in [Objects -> Record]
  BY <1>1 DEF StoreTypeOK
<1>4. {o} \X (told \cap Slow) \subseteq Objects \X Slow
  OBVIOUS
<1>. QED BY <1>1, <1>2, <1>3, <1>4 DEF StoreTypeOK

\* So is what a write leaves.
LEMMA StoreType ==
  ASSUME StoreTypeOK, NEW o \in Objects, NEW new \in Record, Store(o, new)
  PROVE  StoreTypeOK'
<1>1. api' \in [Objects -> Record]
  BY DEF Store, StoreTypeOK
<1>2. CASE o \in Lagging /\ unsent' = unsent \cup {o} /\ UNCHANGED <<cache, notices, queue>>
  BY <1>1, <1>2 DEF StoreTypeOK
<1>3. CASE UNCHANGED unsent /\ Informed(o, api')
  BY <1>1, <1>3, InformedType DEF StoreTypeOK
<1>. QED BY <1>2, <1>3 DEF Store

\* The work of a running reconcile.
Busy(k, w) ==
  /\ w \in Work /\ w.on \in Reconciled /\ Kind(w.on) = k
  /\ w.copy.generation # 0
  /\ w.result = "retry" => w.todo = {}

\* One worker goes on.
LEMMA WorkStep ==
  ASSUME WorkTypeOK, NEW k \in Kinds, NEW w, w = Idle \/ Busy(k, w),
         work' = [work EXCEPT ![k] = w]
  PROVE  WorkTypeOK'
BY Records DEF WorkTypeOK, Busy

\* What a running reconcile works on.
LEMMA RunningWork ==
  ASSUME WorkTypeOK, NEW o \in Reconciled, Running(o)
  PROVE  Kind(o) \in Kinds /\ Busy(Kind(o), work[Kind(o)])
<1>1. work[Kind(o)] # Idle
  BY ReconciledKinds DEF Running, Idle
<1>. QED BY <1>1, ReconciledKinds DEF WorkTypeOK, Busy

\* An outdated copy is of the same type.
LEMMA OutdatedType ==
  ASSUME WorkTypeOK, NEW o \in Objects, work' = Outdated(o)
  PROVE  /\ WorkTypeOK'
         /\ \A k \in Kinds : work'[k] = IF work[k].on = o
                                          THEN [work[k] EXCEPT !.current = FALSE] ELSE work[k]
<1>1. work' = [k \in Kinds |-> IF work[k].on = o
                                THEN [work[k] EXCEPT !.current = FALSE] ELSE work[k]]
  BY DEF Outdated
<1>2. \A k \in Kinds : work[k] \in Work
  BY DEF WorkTypeOK
<1>3. ASSUME NEW k \in Kinds
      PROVE  /\ work'[k] \in Work /\ work'[k].on = work[k].on /\ work'[k].copy = work[k].copy
             /\ work'[k].todo = work[k].todo /\ work'[k].result = work[k].result
  <2>1. work[k] \in Work /\ work'[k] \in {work[k], [work[k] EXCEPT !.current = FALSE]}
    BY <1>1, <1>2, <1>3
  <2>. QED BY <2>1 DEF Work
<1>4. \A k \in Kinds : work[k] = Idle => work'[k] = Idle
  <2>1. Idle.on # o
    BY ReconciledKinds DEF Idle
  <2>. QED BY <1>1, <2>1
<1>5. work' \in [Kinds -> Work]
  BY <1>1, <1>3
<1>. QED BY <1>1, <1>3, <1>4, <1>5 DEF WorkTypeOK

\* A running reconcile does not report what it works on as Ready, and knows what
\* each reference it is done with resolved to.
Sound(w) ==
  /\ w.copy.ready # "True"
  /\ w.result = "none" =>
       \A r \in w.copy.refs \ w.todo : r.kind # "secret" => w.copy.seen[r.kind] # 0

\* How the work w of a controller may go on.
Follows(k, w, v) ==
  /\ Busy(k, v) /\ v.on = w.on /\ v.current = w.current
  /\ v.copy.generation = w.copy.generation /\ v.copy.refs = w.copy.refs
  /\ Sound(w) => Sound(v)

\* Three ways in which it does: it gives up, a secret is found, another reference is.
LEMMA GivesUp ==
  ASSUME NEW k, NEW w, Busy(k, w), NEW x \in {"Unknown", "False"}
  PROVE  /\ Follows(k, w, [w EXCEPT !.copy.ready = x, !.todo = {}, !.result = "retry"])
         /\ Follows(k, w, [w EXCEPT !.todo = {}, !.result = "retry"])
<1>1. w \in Work /\ w.copy \in Record
  BY DEF Busy, Work
<1>2. Follows(k, w, [w EXCEPT !.copy.ready = x, !.todo = {}, !.result = "retry"])
  BY <1>1 DEF Follows, Busy, Sound, Work, Record, Readiness
<1>3. Follows(k, w, [w EXCEPT !.todo = {}, !.result = "retry"])
  BY <1>1 DEF Follows, Busy, Sound, Work
<1>. QED BY <1>2, <1>3

LEMMA FindsSecret ==
  ASSUME NEW k, NEW w, Busy(k, w), NEW r, r.kind = "secret"
  PROVE  Follows(k, w, [w EXCEPT !.todo = @ \ {r}])
<1>1. w \in Work /\ w.copy \in Record /\ w.todo \ {r} \subseteq Reference
  BY DEF Busy, Work
<1>2. Busy(k, [w EXCEPT !.todo = @ \ {r}])
  BY <1>1 DEF Busy, Work
<1>3. ASSUME Sound(w) PROVE Sound([w EXCEPT !.todo = @ \ {r}])
  BY <1>1, <1>3 DEF Sound, Work
<1>. QED BY <1>1, <1>2, <1>3 DEF Follows, Work

LEMMA FindsObject ==
  ASSUME NEW k, NEW w, Busy(k, w), w.result = "none", NEW r \in Reference, r.kind # "secret",
         NEW g \in Nat \ {0}, NEW more \in SUBSET Reference
  PROVE  Follows(k, w, [w EXCEPT !.todo = (@ \ {r}) \cup more, !.copy.seen[r.kind] = g])
<1>. DEFINE v == [w EXCEPT !.todo = (@ \ {r}) \cup more, !.copy.seen[r.kind] = g]
<1>1. w \in Work /\ w.copy \in Record /\ (w.todo \ {r}) \cup more \subseteq Reference
  BY DEF Busy, Work
<1>2. r.kind \in Kinds
  BY DEF Reference
<1>3. Busy(k, v)
  <2>1. [w.copy EXCEPT !.seen[r.kind] = g] \in Record
    BY <1>1, <1>2 DEF Record
  <2>2. v = [w EXCEPT !.todo = (w.todo \ {r}) \cup more, !.copy = [w.copy EXCEPT !.seen[r.kind] = g]]
    BY <1>1 DEF Work
  <2>3. [w.copy EXCEPT !.seen[r.kind] = g].generation = w.copy.generation
    BY <1>1 DEF Record
  <2>. QED BY <1>1, <2>1, <2>2, <2>3 DEF Busy, Work
<1>4. /\ v.todo = (w.todo \ {r}) \cup more /\ v.copy.ready = w.copy.ready
      /\ v.copy.refs = w.copy.refs /\ v.copy.generation = w.copy.generation
      /\ v.result = w.result /\ v.on = w.on /\ v.current = w.current
      /\ v.copy.seen = [w.copy.seen EXCEPT ![r.kind] = g]
  BY <1>1 DEF Work, Record
<1>5. \A q \in w.copy.refs : q.kind # "secret" =>
        v.copy.seen[q.kind] = IF q.kind = r.kind THEN g ELSE w.copy.seen[q.kind]
  <2>1. \A q \in w.copy.refs : q.kind # "secret" => q.kind \in Kinds
    BY <1>1 DEF Record, Reference
  <2>2. w.copy.seen \in [Kinds -> Nat]
    BY <1>1 DEF Record
  <2>. QED BY <1>2, <1>4, <2>1, <2>2
<1>6. Sound(w) => Sound(v)
  BY <1>4, <1>5 DEF Sound
<1>. QED BY <1>3, <1>4, <1>6 DEF Follows

\* The steps of a reconcile.
LEMMA ResolveType ==
  ASSUME TypeOK, NEW o \in Reconciled, Resolve(o) \/ GetFails(o) \/ Invalid(o)
  PROVE  /\ WorkTypeOK' /\ work' = [work EXCEPT ![Kind(o)] = work'[Kind(o)]] /\ Running(o)
         /\ Follows(Kind(o), work[Kind(o)], work'[Kind(o)])
<1>. DEFINE k == Kind(o)
            w == work[k]
<1>0. WorkTypeOK /\ StoreTypeOK
  BY DEF TypeOK, WorkTypeOK, StoreTypeOK
<1>1. Running(o) /\ k \in Kinds /\ Busy(k, w) /\ w.result = "none" /\ w.on = o
  BY <1>0, RunningWork DEF Resolve, GetFails, Invalid, Running
<1>2. w \in Work /\ w.copy \in Record /\ w.todo \subseteq Reference
  BY <1>1 DEF Busy, Work
<1>3. ASSUME NEW v, Follows(k, w, v), work' = [work EXCEPT ![k] = v]
      PROVE  WorkTypeOK' /\ work' = [work EXCEPT ![k] = work'[k]] /\ Follows(k, w, work'[k])
  <2>1. work'[k] = v /\ Busy(k, v)
    BY <1>0, <1>1, <1>3 DEF WorkTypeOK, Follows
  <2>. QED BY <1>0, <1>1, <1>3, <2>1, WorkStep
<1>5. CASE Invalid(o)
  <2>1. work' = [work EXCEPT ![k] = [w EXCEPT !.copy.ready = "False", !.todo = {}, !.result = "retry"]]
    <3>1. w.todo = {}
      BY <1>5 DEF Invalid
    <3>2. [w EXCEPT !.result = "retry", !.copy.ready = "False"]
            = [w EXCEPT !.copy.ready = "False", !.todo = {}, !.result = "retry"]
      BY <1>2, <3>1 DEF Work
    <3>3. work' = [work EXCEPT ![k] = [w EXCEPT !.result = "retry", !.copy.ready = "False"]]
      BY <1>1, <1>5 DEF Invalid, WorkTypeOK
    <3>. QED BY <3>2, <3>3
  <2>. QED BY <1>1, <1>3, <2>1, GivesUp
<1>6. CASE GetFails(o)
  <2>1. PICK r \in w.todo :
          work' = [work EXCEPT ![k] = IF r.kind = "secret" THEN [w EXCEPT !.todo = @ \ {r}]
                                      ELSE [w EXCEPT !.todo = {}, !.result = "retry"]]
    BY <1>6 DEF GetFails
  <2>. QED BY <1>1, <1>3, <2>1, GivesUp, FindsSecret
<1>7. CASE Resolve(o)
  <2>1. PICK r \in w.todo :
          \/ \E x \in {"Unknown", "False"} :
               work' = [work EXCEPT ![k] = [w EXCEPT !.copy.ready = x, !.todo = {}, !.result = "retry"]]
          \/ r.kind = "secret" /\ work' = [work EXCEPT ![k].todo = @ \ {r}]
          \/ /\ r.kind # "secret" /\ Present(cache, Key(o, r))
             /\ work' = [work EXCEPT
                          ![k].todo = (@ \ {r}) \cup Lent(o, Key(o, r), w.copy.refs),
                          ![k].copy.seen[r.kind] = cache[Key(o, r)].generation]
    BY <1>7 DEF Resolve
  <2>2. CASE \E x \in {"Unknown", "False"} :
               work' = [work EXCEPT ![k] = [w EXCEPT !.copy.ready = x, !.todo = {}, !.result = "retry"]]
    BY <1>1, <1>3, <2>2, GivesUp
  <2>3. CASE r.kind = "secret" /\ work' = [work EXCEPT ![k].todo = @ \ {r}]
    <3>1. work' = [work EXCEPT ![k] = [w EXCEPT !.todo = @ \ {r}]]
      BY <1>0, <1>1, <2>3 DEF WorkTypeOK
    <3>. QED BY <1>1, <1>3, <2>3, <3>1, FindsSecret
  <2>4. CASE /\ r.kind # "secret" /\ Present(cache, Key(o, r))
             /\ work' = [work EXCEPT
                          ![k].todo = (@ \ {r}) \cup Lent(o, Key(o, r), w.copy.refs),
                          ![k].copy.seen[r.kind] = cache[Key(o, r)].generation]
    <3>1. work' = [work EXCEPT ![k] =
                     [w EXCEPT !.todo = (@ \ {r}) \cup Lent(o, Key(o, r), w.copy.refs),
                               !.copy.seen[r.kind] = cache[Key(o, r)].generation]]
      BY <1>0, <1>1, <2>4 DEF WorkTypeOK
    <3>2. cache[Key(o, r)] \in Record /\ cache[Key(o, r)].generation # 0
      BY <1>0, <2>4 DEF Present, StoreTypeOK
    <3>3. cache[Key(o, r)].generation \in Nat \ {0}
      BY <3>2 DEF Record
    <3>4. Lent(o, Key(o, r), w.copy.refs) \in SUBSET Reference
      BY <3>2 DEF Lent, Record
    <3>. QED BY <1>1, <1>2, <1>3, <2>4, <3>1, <3>3, <3>4, FindsObject
  <2>. QED BY <2>1, <2>2, <2>3, <2>4
<1>. QED BY <1>1, <1>5, <1>6, <1>7

\* What the worker of an object begins with.
Begun(o) ==
  [on |-> o, copy |-> [cache[o] EXCEPT !.ready = "Unknown"], current |-> o \notin unsent,
   todo |-> cache[o].refs, result |-> "none"]

LEMMA BeginType ==
  ASSUME TypeOK, NEW o \in Reconciled, Begin(o)
  PROVE  /\ WorkTypeOK' /\ queue' = queue \ {o} /\ UNCHANGED <<api, cache, unsent, notices, later>>
         /\ \/ ~Present(cache, o) /\ work' = work
            \/ /\ Present(cache, o) /\ work' = [work EXCEPT ![Kind(o)] = Begun(o)]
               /\ work'[Kind(o)] = Begun(o)
<1>0. WorkTypeOK /\ cache[o] \in Record /\ Kind(o) \in Kinds
  BY ReconciledKinds DEF TypeOK, WorkTypeOK
<1>1. CASE ~Present(cache, o)
  BY <1>0, <1>1 DEF Begin, WorkTypeOK
<1>2. CASE Present(cache, o)
  <2>1. work' = [work EXCEPT ![Kind(o)] = Begun(o)]
    BY <1>2 DEF Begin, Begun
  <2>2. Busy(Kind(o), Begun(o))
    BY <1>0, <1>2 DEF Busy, Begun, Present, Work, Record, Readiness
  <2>. QED BY <1>0, <1>2, <2>1, <2>2, WorkStep DEF Begin, WorkTypeOK
<1>. QED BY <1>1, <1>2

\* The record a reconcile reports.
Done(o) ==
  LET w == work[Kind(o)]
  IN [api[o] EXCEPT !.observed = w.copy.generation, !.seen = w.copy.seen,
                    !.ready = IF w.result = "none" THEN "True" ELSE w.copy.ready]

LEMMA UpdateType ==
  ASSUME TypeOK, NEW o \in Reconciled, UpdateStatus(o)
  PROVE  /\ StoreTypeOK' /\ WorkTypeOK' /\ Done(o) \in Record /\ Running(o)
         /\ work' = [work EXCEPT ![Kind(o)] = Idle] /\ later' \subseteq Reconciled
         /\ later' = later \cup Requeued(work[Kind(o)])
         /\ \/ ~Conflicts(work[Kind(o)]) /\ Store(o, Done(o))
            \/ /\ Conflicts(work[Kind(o)]) \/ Done(o) = api[o]
               /\ UNCHANGED <<api, cache, unsent, notices, queue>>
<1>0. WorkTypeOK /\ StoreTypeOK /\ Kind(o) \in Kinds /\ api[o] \in Record /\ o \in Objects
  BY ReconciledKinds DEF TypeOK, WorkTypeOK, StoreTypeOK
<1>1. Running(o) /\ Busy(Kind(o), work[Kind(o)]) /\ work[Kind(o)].on = o
  BY <1>0, RunningWork DEF UpdateStatus, Running
<1>2. Done(o) \in Record
  BY <1>0, <1>1 DEF Done, Busy, Work, Record, Readiness
<1>3. work' = [work EXCEPT ![Kind(o)] = Idle] /\ later' = later \cup Requeued(work[Kind(o)])
  BY DEF UpdateStatus
<1>4. \/ ~Conflicts(work[Kind(o)]) /\ Store(o, Done(o))
      \/ /\ Conflicts(work[Kind(o)]) \/ Done(o) = api[o]
         /\ UNCHANGED <<api, cache, unsent, notices, queue>>
  BY DEF UpdateStatus, Done
<1>5. StoreTypeOK'
  BY <1>0, <1>2, <1>4, StoreType DEF StoreTypeOK
<1>6. later' \subseteq Reconciled
  BY <1>1, <1>3 DEF Requeued, TypeOK
<1>. QED BY <1>0, <1>1, <1>2, <1>3, <1>4, <1>5, <1>6, WorkStep

\* A write of a user.
LEMMA WriteType ==
  ASSUME TypeOK, NEW o \in Objects, NEW new \in Record, Write(o, new)
  PROVE  StoreTypeOK' /\ WorkTypeOK' /\ later' = later /\ edits' \in 0..MaxEdits /\ faults' = faults
<1>1. StoreTypeOK /\ WorkTypeOK
  BY DEF TypeOK, StoreTypeOK, WorkTypeOK
<1>2. edits' \in 0..MaxEdits
  BY ReferencesAssumption DEF TypeOK, Write
<1>. QED BY <1>1, <1>2, StoreType, OutdatedType DEF Write

\* Users write records.
LEMMA UserWrites ==
  ASSUME TypeOK, NEW o \in Objects, Create(o) \/ Edit(o) \/ Delete(o)
  PROVE  \E new \in Record :
           /\ Write(o, new)
           /\ new.ready = "True" => new.observed = api[o].observed /\ new.generation = api[o].generation + 1
           /\ new.observed = 0 \/ (new.observed = api[o].observed /\ new.generation = api[o].generation + 1)
           /\ new.refs \in Choices[o] \cup {{}}
<1>0. api[o] \in Record
  BY DEF TypeOK
<1>1. CASE Create(o)
  <2>1. PICK new \in Made : Write(o, new) /\ new.refs \in Choices[o]
    BY <1>1 DEF Create
  <2>2. new.ready = "unset" /\ new.observed = 0 /\ new.generation = 1
    BY <2>1 DEF Made, Absent
  <2>. QED BY <2>1, <2>2, Records
<1>2. CASE Edit(o)
  <2>1. PICK R \in Choices[o] : Write(o, [api[o] EXCEPT !.generation = @ + 1, !.refs = R])
    BY <1>2 DEF Edit
  <2>2. R \subseteq Reference
    BY ReferencesAssumption
  <2>3. [api[o] EXCEPT !.generation = @ + 1, !.refs = R] \in Record
    <3>1. api[o].generation + 1 \in Nat
      BY <1>0 DEF Record
    <3>. QED BY <1>0, <2>2, <3>1 DEF Record
  <2>4. /\ [api[o] EXCEPT !.generation = @ + 1, !.refs = R].observed = api[o].observed
        /\ [api[o] EXCEPT !.generation = @ + 1, !.refs = R].generation = api[o].generation + 1
        /\ [api[o] EXCEPT !.generation = @ + 1, !.refs = R].refs = R
        /\ api[o].generation + 1 # 0
    BY <1>0 DEF Record
  <2>. QED BY <2>1, <2>3, <2>4
<1>3. CASE Delete(o)
  BY <1>3, Records DEF Delete, Absent
<1>. QED BY <1>1, <1>2, <1>3

\* Every variable keeps its type, however caches and handlers lag: a reconcile works
\* on an object of its controller that existed, and one that gives up resolves no
\* more (the Reconcile functions of the nine controllers).
THEOREM ReferencesTypeCorrect == Spec => []TypeOK
<1>1. Init => TypeOK
  BY Records, ReferencesAssumption DEF Init, TypeOK, Reconciled
<1>2. TypeOK /\ [Next]_vars => TypeOK'
  <2>. SUFFICES ASSUME TypeOK, [Next]_vars PROVE TypeOK'
    OBVIOUS
  <2>0. StoreTypeOK /\ WorkTypeOK /\ later \subseteq Reconciled
        /\ edits \in 0..MaxEdits /\ faults \in 0..MaxFaults
    BY DEF TypeOK, StoreTypeOK, WorkTypeOK
  <2>. SUFFICES /\ StoreTypeOK' /\ WorkTypeOK' /\ later' \subseteq Reconciled
                /\ edits' \in 0..MaxEdits /\ faults' \in 0..MaxFaults
    BY DEF TypeOK, StoreTypeOK, WorkTypeOK
  <2>1. CASE UNCHANGED vars
    BY <2>0, <2>1 DEF vars, StoreTypeOK, WorkTypeOK
  <2>2. ASSUME NEW o \in Reconciled, Begin(o) PROVE TypeOK'
    BY <2>0, <2>2, BeginType DEF Begin, TypeOK, StoreTypeOK, WorkTypeOK
  <2>3. ASSUME NEW o \in Reconciled, Resolve(o) \/ GetFails(o) \/ Invalid(o) PROVE TypeOK'
    <3>1. UNCHANGED <<api, cache, unsent, notices, queue, later, edits>>
      BY <2>3 DEF Resolve, GetFails, Invalid
    <3>2. faults' \in 0..MaxFaults
      BY <2>0, <2>3, ReferencesAssumption DEF Resolve, GetFails, Invalid
    <3>. QED BY <2>0, <2>3, <3>1, <3>2, ResolveType DEF TypeOK, StoreTypeOK, WorkTypeOK
  <2>4. ASSUME NEW o \in Reconciled, UpdateStatus(o) PROVE TypeOK'
    <3>1. UNCHANGED <<edits, faults>>
      BY <2>4 DEF UpdateStatus
    <3>. QED BY <2>0, <2>4, <3>1, UpdateType DEF TypeOK, StoreTypeOK, WorkTypeOK
  <2>5. ASSUME NEW o \in Objects, Deliver(o) PROVE TypeOK'
    <3>1. /\ cache' \in [Objects -> Record] /\ notices' \subseteq Objects \X Slow
          /\ queue' \subseteq Reconciled
      BY <2>0, <2>5, InformedType DEF Deliver, TypeOK
    <3>. QED BY <2>0, <2>5, <3>1 DEF Deliver, TypeOK, WorkTypeOK
  <2>6. ASSUME NEW x \in Objects, NEW k \in Kinds, Notify(x, k) PROVE TypeOK'
    BY <2>0, <2>6, MappedType DEF Notify, TypeOK, WorkTypeOK
  <2>7. ASSUME NEW o \in Reconciled, Fire(o) PROVE TypeOK'
    BY <2>0, <2>7 DEF Fire, TypeOK, WorkTypeOK
  <2>8. ASSUME NEW o \in Objects, Create(o) \/ Edit(o) \/ Delete(o) PROVE TypeOK'
    BY <2>0, <2>8, UserWrites, WriteType DEF TypeOK, StoreTypeOK, WorkTypeOK
  <2>9. CASE Restart
    <3>1. faults' \in 0..MaxFaults
      BY <2>0, <2>9, ReferencesAssumption DEF Restart
    <3>2. WorkTypeOK'
      BY <2>9, Records DEF Restart, WorkTypeOK
    <3>3. StoreTypeOK' /\ later' \subseteq Reconciled /\ edits' = edits
      BY <2>0, <2>9 DEF Restart, StoreTypeOK, Reconciled
    <3>. QED BY <2>0, <3>1, <3>2, <3>3 DEF TypeOK, StoreTypeOK, WorkTypeOK
  <2>. QED BY <2>1, <2>2, <2>3, <2>4, <2>5, <2>6, <2>7, <2>8, <2>9
           DEF Next, Reconcile, TypeOK, StoreTypeOK, WorkTypeOK
<1>. QED BY <1>1, <1>2, PTL DEF Spec

-----------------------------------------------------------------------------
(* Nothing that is not Ready is forgotten                                  *)

\* A cached copy that no event is on the way for is the current one.
SyncedInv == \A o \in Objects \ unsent : cache[o] = api[o]

\* An object is under way, or is going to be tried again.
Awake(o) ==
  \/ o \in unsent \cup queue \cup later \/ <<o, Kind(o)>> \in notices
  \/ Running(o)

\* What has been told stays so.
Grows == unsent \subseteq unsent' /\ queue \subseteq queue' /\ notices \subseteq notices'

\* An event of an object reaches its own controller.
LEMMA InformedWakes ==
  ASSUME NEW o \in Objects, NEW s, Informed(o, s)
  PROVE  /\ queue \subseteq queue' /\ notices \subseteq notices'
         /\ o \in Reconciled => o \in queue' \/ <<o, Kind(o)>> \in notices'
<1>. DEFINE told == {k \in Kinds : k = Kind(o) \/ Kind(o) \in Watches[k]}
<1>1. /\ notices' = notices \cup ({o} \X (told \cap Slow))
      /\ queue' = queue \cup UNION {Mapped(o, k, cache') : k \in told \ Slow}
  BY DEF Informed
<1>2. Mapped(o, Kind(o), cache') = {o}
  BY DEF Mapped
<1>3. o \in Reconciled => Kind(o) \in told
  BY ReconciledKinds
<1>. HIDE DEF told
<1>. QED BY <1>1, <1>2, <1>3

\* So does that of a write.
LEMMA StoreWakes ==
  ASSUME StoreTypeOK, SyncedInv, NEW o \in Objects, NEW new, Store(o, new)
  PROVE  /\ SyncedInv' /\ Grows /\ api'[o] = new /\ \A q \in Objects \ {o} : api'[q] = api[q]
         /\ o \in Reconciled =>
              o \in unsent' \cup queue' \/ <<o, Kind(o)>> \in notices'
<1>1. api'[o] = new /\ \A q \in Objects \ {o} : api'[q] = api[q]
  BY DEF Store, StoreTypeOK
<1>2. CASE o \in Lagging /\ unsent' = unsent \cup {o} /\ UNCHANGED <<cache, notices, queue>>
  BY <1>1, <1>2 DEF SyncedInv, Grows
<1>3. CASE UNCHANGED unsent /\ Informed(o, api')
  <2>1. cache' = [cache EXCEPT ![o] = api'[o]]
    BY <1>3 DEF Informed
  <2>2. SyncedInv'
    BY <1>1, <1>3, <2>1 DEF SyncedInv, StoreTypeOK
  <2>. QED BY <1>1, <1>3, <2>2, InformedWakes DEF Grows
<1>. QED BY <1>1, <1>2, <1>3 DEF Store

\* An object that is written is awake, and the others stay so.
LEMMA WriteKeeps ==
  ASSUME StoreTypeOK, SyncedInv, UnreadyRetries, NEW o \in Objects, NEW new, Store(o, new),
         later \subseteq later', \A q \in Reconciled \ {o} : Running(q) => Running(q)'
  PROVE  SyncedInv' /\ UnreadyRetries'
<1>1. \A q \in Reconciled \ {o} : Awake(q) => Awake(q)'
  BY StoreWakes DEF Awake, Grows
<1>2. \A q \in Reconciled \ {o} : api'[q] = api[q]
  BY ReconciledKinds, StoreWakes
<1>3. o \in Reconciled => Awake(o)'
  BY StoreWakes DEF Awake
<1>. QED BY <1>1, <1>2, <1>3, StoreWakes DEF UnreadyRetries, Awake

\* An object that is not Ready is always under way or going to be tried again: no
\* order of events, conflicts, failures and restarts makes a controller forget one
\* (the RequeueAfter and the error of every Reconcile).
THEOREM RetriesCorrect == Spec => []UnreadyRetries
<1>1. Init => SyncedInv /\ UnreadyRetries
  <2>1. \A a, o : api = a /\ a[o].generation # 0 /\ o \in Objects => Present(api, o)
    BY DEF Present
  <2>. QED BY <2>1 DEF Init, SyncedInv, UnreadyRetries, Reconciled
<1>2. TypeOK /\ SyncedInv /\ UnreadyRetries /\ [Next]_vars => (SyncedInv /\ UnreadyRetries)'
  <2>. SUFFICES ASSUME TypeOK, SyncedInv, UnreadyRetries, [Next]_vars
                PROVE  SyncedInv' /\ UnreadyRetries'
    OBVIOUS
  <2>0. StoreTypeOK /\ WorkTypeOK
    BY DEF TypeOK, StoreTypeOK, WorkTypeOK
  <2>1. ASSUME UNCHANGED <<api, cache, unsent>>,
               \A q \in Reconciled : api[q].generation # 0 /\ Awake(q) => Awake(q)'
        PROVE  SyncedInv' /\ UnreadyRetries'
    BY <2>1 DEF SyncedInv, UnreadyRetries, Awake
  <2>2. CASE UNCHANGED vars
    BY <2>1, <2>2 DEF vars, Awake, Running
  <2>3. ASSUME NEW o \in Reconciled, Begin(o) PROVE SyncedInv' /\ UnreadyRetries'
    <3>1. Present(cache, o) => Running(o)'
      <4>1. Begun(o).on = o
        BY DEF Begun
      <4>. QED BY <2>3, <4>1, BeginType DEF Running
    <3>2. ~Present(cache, o) => api[o].generation = 0 \/ o \in unsent
      BY ReconciledKinds DEF Present, SyncedInv
    <3>3. \A q \in Reconciled : Running(q) => Running(q)'
      <4>1. work[Kind(o)] = Idle
        BY <2>3 DEF Begin
      <4>2. \A q \in Reconciled : Kind(q) = Kind(o) => ~Running(q)
        BY <4>1, ReconciledKinds DEF Running, Idle
      <4>. QED BY <2>0, <2>3, <4>2, BeginType, ReconciledKinds DEF Running, WorkTypeOK
    <3>. QED BY <2>1, <2>3, <3>1, <3>2, <3>3, BeginType DEF Awake
  <2>4. ASSUME NEW o \in Reconciled, Resolve(o) \/ GetFails(o) \/ Invalid(o)
        PROVE  SyncedInv' /\ UnreadyRetries'
    <3>1. UNCHANGED <<api, cache, unsent, notices, queue, later>>
      BY <2>4 DEF Resolve, GetFails, Invalid
    <3>2. \A q \in Reconciled : Running(q) => Running(q)'
      BY <2>0, <2>4, ResolveType, ReconciledKinds DEF Running, Follows, WorkTypeOK
    <3>. QED BY <2>1, <3>1, <3>2 DEF Awake
  <2>5. ASSUME NEW o \in Reconciled, UpdateStatus(o) PROVE SyncedInv' /\ UnreadyRetries'
    <3>1. /\ o \in Objects /\ later \subseteq later'
          /\ \A q \in Reconciled \ {o} : Running(q) => Running(q)'
      BY <2>0, <2>5, UpdateType, ReconciledKinds DEF Running, WorkTypeOK
    <3>2. CASE Store(o, Done(o))
      BY <2>0, <3>1, <3>2, WriteKeeps
    <3>3. CASE /\ Conflicts(work[Kind(o)]) \/ Done(o) = api[o]
               /\ UNCHANGED <<api, cache, unsent, notices, queue>>
      <4>1. Done(o).ready = IF work[Kind(o)].result = "none" THEN "True" ELSE work[Kind(o)].copy.ready
        <5>1. api[o] \in Record
          BY <3>1 DEF TypeOK
        <5>. QED BY <5>1 DEF Done, Record
      <4>2. work[Kind(o)].on = o /\ work[Kind(o)].result \in {"none", "retry"}
        BY <2>0, <2>5, UpdateType, RunningWork DEF Running, Busy, Work
      <4>3. api[o].ready = "True" \/ o \in later'
        BY <2>5, <3>3, <4>1, <4>2, UpdateType DEF Requeued
      <4>. QED BY <3>1, <3>3, <4>3 DEF SyncedInv, UnreadyRetries
    <3>. QED BY <2>5, <3>2, <3>3, UpdateType
  <2>6. ASSUME NEW o \in Objects, Deliver(o) PROVE SyncedInv' /\ UnreadyRetries'
    <3>1. /\ unsent' = unsent \ {o} /\ UNCHANGED <<api, later, work>>
          /\ cache' = [cache EXCEPT ![o] = api[o]]
      BY <2>6 DEF Deliver, Informed
    <3>2. SyncedInv'
      BY <2>0, <3>1 DEF SyncedInv, StoreTypeOK
    <3>3. \A q \in Reconciled : Awake(q) => Awake(q)'
      BY <2>6, <3>1, InformedWakes DEF Deliver, Awake, Running
    <3>. QED BY <3>1, <3>2, <3>3 DEF UnreadyRetries, Awake
  <2>7. ASSUME NEW x \in Objects, NEW k \in Kinds, Notify(x, k)
        PROVE  SyncedInv' /\ UnreadyRetries'
    <3>1. x \in queue' \/ k # Kind(x)
      BY <2>7 DEF Notify, Mapped
    <3>. QED BY <2>1, <2>7, <3>1 DEF Notify, Awake, Running
  <2>8. ASSUME NEW o \in Reconciled, Fire(o) PROVE SyncedInv' /\ UnreadyRetries'
    BY <2>1, <2>8 DEF Fire, Awake, Running
  <2>9. ASSUME NEW o \in Objects, Create(o) \/ Edit(o) \/ Delete(o)
        PROVE  SyncedInv' /\ UnreadyRetries'
    <3>1. PICK new \in Record : Write(o, new)
      BY <2>9, UserWrites
    <3>2. \A q \in Reconciled : Running(q) => Running(q)'
      <4>1. \A k \in Kinds : work'[k].on = work[k].on
        <5>1. ASSUME NEW w \in Work PROVE [w EXCEPT !.current = FALSE].on = w.on
          BY DEF Work
        <5>. QED BY <2>0, <3>1, <5>1, OutdatedType DEF Write, WorkTypeOK
      <4>. QED BY <4>1, ReconciledKinds DEF Running
    <3>. QED BY <2>0, <3>1, <3>2, WriteKeeps DEF Write
  <2>10. CASE Restart
    BY <2>10 DEF Restart, SyncedInv, UnreadyRetries, Present, Reconciled
  <2>. QED BY <2>2, <2>3, <2>4, <2>5, <2>6, <2>7, <2>8, <2>9, <2>10 DEF Next, Reconcile
<1>. QED BY <1>1, <1>2, ReferencesTypeCorrect, PTL DEF Spec

-----------------------------------------------------------------------------
(* Ready means resolved                                                    *)

\* A copy that is not out of date has the current spec.
CopyOf(w) ==
  w.current => /\ w.copy.generation = api[w.on].generation
               /\ w.copy.refs = api[w.on].refs

ResolvedInv ==
  /\ SyncedInv /\ ReadyMeansResolved
  /\ \A o \in Objects : api[o].observed <= api[o].generation
  /\ \A k \in Kinds : work[k] = Idle \/ (Sound(work[k]) /\ CopyOf(work[k]))

\* A reconcile knows nothing yet when it begins, and what it is done with after.
LEMMA ReconcileSound ==
  ASSUME TypeOK, ResolvedInv, NEW o \in Reconciled,
         Begin(o) \/ Resolve(o) \/ GetFails(o) \/ Invalid(o)
  PROVE  ResolvedInv'
<1>0. WorkTypeOK /\ cache[o] \in Record /\ o \in Objects /\ Kind(o) \in Kinds
  BY ReconciledKinds DEF TypeOK, WorkTypeOK
<1>1. UNCHANGED <<api, cache, unsent>>
  BY DEF Begin, Resolve, GetFails, Invalid
<1>2. ASSUME NEW w, Sound(w), CopyOf(w), work' = [work EXCEPT ![Kind(o)] = w]
      PROVE  ResolvedInv'
  BY <1>0, <1>1, <1>2 DEF ResolvedInv, SyncedInv, ReadyMeansResolved, CopyOf, WorkTypeOK
<1>3. CASE Begin(o)
  <2>1. Sound(Begun(o))
    BY <1>0 DEF Begun, Sound, Record
  <2>2. CopyOf(Begun(o))
    BY <1>0 DEF Begun, CopyOf, Record, ResolvedInv, SyncedInv
  <2>3. CASE UNCHANGED work
    BY <1>1, <2>3 DEF ResolvedInv, SyncedInv, ReadyMeansResolved, CopyOf
  <2>. QED BY <1>2, <1>3, <2>1, <2>2, <2>3, BeginType
<1>4. CASE Resolve(o) \/ GetFails(o) \/ Invalid(o)
  <2>1. Follows(Kind(o), work[Kind(o)], work'[Kind(o)]) /\ Running(o)
        /\ work' = [work EXCEPT ![Kind(o)] = work'[Kind(o)]]
    BY <1>4, ResolveType
  <2>2. work[Kind(o)] # Idle
    BY <1>0, <2>1, ReconciledKinds DEF Running, Idle
  <2>3. Sound(work'[Kind(o)]) /\ CopyOf(work'[Kind(o)])
    BY <1>0, <2>1, <2>2 DEF Follows, ResolvedInv, CopyOf
  <2>. QED BY <1>2, <2>1, <2>3
<1>. QED BY <1>3, <1>4

\* What is reported of a current copy is what was resolved for it.
LEMMA UpdateSound ==
  ASSUME TypeOK, ResolvedInv, NEW o \in Reconciled, UpdateStatus(o)
  PROVE  ResolvedInv'
<1>. DEFINE w == work[Kind(o)]
<1>0. /\ StoreTypeOK /\ WorkTypeOK /\ api[o] \in Record /\ o \in Objects /\ Kind(o) \in Kinds
  BY ReconciledKinds DEF TypeOK, StoreTypeOK, WorkTypeOK
<1>1. /\ Busy(Kind(o), w) /\ w.on = o /\ w.todo = {} /\ w # Idle /\ w.copy \in Record
  <2>1. Running(o) /\ w.todo = {}
    BY DEF UpdateStatus
  <2>2. Idle.on # o
    BY ReconciledKinds DEF Idle
  <2>. QED BY <1>0, <2>1, <2>2, RunningWork DEF Running, Busy, Work
<1>2. work' = [work EXCEPT ![Kind(o)] = Idle]
  BY UpdateType
<1>3. CASE UNCHANGED <<api, cache, unsent>>
  BY <1>0, <1>2, <1>3 DEF ResolvedInv, SyncedInv, ReadyMeansResolved, CopyOf, WorkTypeOK
<1>4. CASE ~Conflicts(w) /\ Store(o, Done(o))
  <2>1. /\ SyncedInv' /\ api'[o] = Done(o) /\ \A q \in Objects \ {o} : api'[q] = api[q]
    BY <1>0, <1>4, StoreWakes DEF ResolvedInv
  <2>2. /\ Done(o).generation = api[o].generation /\ Done(o).refs = api[o].refs
        /\ Done(o).observed = w.copy.generation /\ Done(o).seen = w.copy.seen
        /\ Done(o).ready = IF w.result = "none" THEN "True" ELSE w.copy.ready
    BY <1>0 DEF Done, Record
  <2>3. w.copy.generation = api[o].generation /\ w.copy.refs = api[o].refs /\ Sound(w)
    BY <1>0, <1>1, <1>4 DEF ResolvedInv, CopyOf, Conflicts
  <2>4. ASSUME Done(o).ready = "True", NEW r \in api[o].refs, r.kind # "secret"
        PROVE  Done(o).seen[r.kind] # 0
    BY <1>1, <2>2, <2>3, <2>4 DEF Sound
  <2>5. ReadyMeansResolved'
    BY <2>1, <2>2, <2>4, ReconciledKinds DEF ResolvedInv, ReadyMeansResolved
  <2>6. \A q \in Objects : api'[q].observed <= api'[q].generation
    BY <1>0, <1>1, <2>1, <2>2, <2>3 DEF ResolvedInv, Record
  <2>7. ASSUME NEW k \in Kinds PROVE (work[k] = Idle \/ (Sound(work[k]) /\ CopyOf(work[k])))'
    <3>1. k = Kind(o) \/ work'[k] = work[k]
      BY <1>0, <1>2 DEF WorkTypeOK
    <3>2. work[k] = Idle \/ (work[k].on \in Objects /\ Sound(work[k]) /\ CopyOf(work[k]))
      BY <1>0, ReconciledKinds DEF ResolvedInv, WorkTypeOK
    <3>3. \A q \in Objects : api'[q].generation = api[q].generation /\ api'[q].refs = api[q].refs
      BY <2>1, <2>2
    <3>. QED BY <1>0, <1>2, <3>1, <3>2, <3>3 DEF CopyOf, WorkTypeOK
  <2>. QED BY <2>1, <2>5, <2>6, <2>7 DEF ResolvedInv
<1>. QED BY <1>3, <1>4, UpdateType

\* A user's write raises the generation, and the running copy is out of date.
LEMMA UserSound ==
  ASSUME TypeOK, ResolvedInv, NEW o \in Objects, Create(o) \/ Edit(o) \/ Delete(o)
  PROVE  ResolvedInv'
<1>0. StoreTypeOK /\ WorkTypeOK /\ api[o] \in Record
  BY DEF TypeOK, StoreTypeOK, WorkTypeOK
<1>1. PICK new \in Record :
        /\ Write(o, new)
        /\ new.ready = "True" => new.observed = api[o].observed /\ new.generation = api[o].generation + 1
        /\ new.observed = 0 \/ (new.observed = api[o].observed /\ new.generation = api[o].generation + 1)
  BY UserWrites
<1>2. /\ SyncedInv' /\ api'[o] = new /\ \A q \in Objects \ {o} : api'[q] = api[q]
  BY <1>0, <1>1, StoreWakes DEF Write, ResolvedInv
<1>3. /\ api[o].observed \in Nat /\ api[o].generation \in Nat /\ api[o].observed <= api[o].generation
      /\ new.generation \in Nat
  BY <1>0 DEF ResolvedInv, Record
<1>4. new.ready = "True" => new.observed # new.generation
  BY <1>1, <1>3
<1>5. new.observed <= new.generation
  BY <1>1, <1>3
<1>6. ReadyMeansResolved'
  BY <1>2, <1>4, ReconciledKinds DEF ReadyMeansResolved, ResolvedInv
<1>7. \A q \in Objects : api'[q].observed <= api'[q].generation
  BY <1>2, <1>5 DEF ResolvedInv
<1>8. ASSUME NEW k \in Kinds PROVE (work[k] = Idle \/ (Sound(work[k]) /\ CopyOf(work[k])))'
  <2>1. work'[k] = IF work[k].on = o THEN [work[k] EXCEPT !.current = FALSE] ELSE work[k]
    BY <1>0, <1>1, OutdatedType DEF Write
  <2>2. work[k] = Idle \/ (work[k].on \in Objects /\ Sound(work[k]) /\ CopyOf(work[k]))
    BY <1>0, ReconciledKinds DEF ResolvedInv, WorkTypeOK
  <2>3. CASE work[k] = Idle
    <3>1. work[k].on # o
      BY <2>3, ReconciledKinds DEF Idle
    <3>. QED BY <2>1, <2>3, <3>1
  <2>4. CASE work[k] # Idle /\ work[k].on # o
    <3>1. api'[work[k].on] = api[work[k].on]
      BY <1>2, <2>2, <2>4
    <3>. QED BY <2>1, <2>2, <2>4, <3>1 DEF CopyOf
  <2>5. CASE work[k] # Idle /\ work[k].on = o
    <3>1. work[k] \in Work
      BY <1>0 DEF WorkTypeOK
    <3>2. work'[k].copy = work[k].copy /\ work'[k].result = work[k].result
          /\ work'[k].todo = work[k].todo /\ work'[k].current = FALSE
      BY <2>1, <2>5, <3>1 DEF Work
    <3>. QED BY <2>2, <2>5, <3>2 DEF Sound, CopyOf
  <2>. QED BY <2>3, <2>4, <2>5
<1>. QED BY <1>2, <1>6, <1>7, <1>8 DEF ResolvedInv

\* At first nothing has been reported; and every step keeps the invariant.
LEMMA ResolvedInit ==
  ASSUME Init
  PROVE  ResolvedInv
<1>1. \A o \in Objects : api[o].observed = 0 /\ api[o].generation = 1 /\ api[o].ready = "unset"
  <2>1. \A m \in Made : m.observed = 0 /\ m.generation = 1 /\ m.ready = "unset"
    BY DEF Made, Absent
  <2>. QED BY <2>1 DEF Init
<1>2. SyncedInv /\ \A k \in Kinds : work[k] = Idle
  BY DEF Init, SyncedInv
<1>. QED BY <1>1, <1>2, ReconciledKinds DEF ResolvedInv, ReadyMeansResolved

LEMMA ResolvedKept ==
  ASSUME TypeOK, ResolvedInv, [Next]_vars
  PROVE  ResolvedInv'
<1>1. CASE UNCHANGED <<api, cache, unsent, work>>
  BY <1>1 DEF ResolvedInv, SyncedInv, ReadyMeansResolved, CopyOf
<1>2. ASSUME NEW o \in Objects, Deliver(o) PROVE ResolvedInv'
  <2>1. /\ unsent' = unsent \ {o} /\ UNCHANGED <<api, work>>
        /\ cache' = [cache EXCEPT ![o] = api[o]]
    BY <1>2 DEF Deliver, Informed
  <2>2. SyncedInv'
    BY <2>1 DEF SyncedInv, ResolvedInv, TypeOK
  <2>. QED BY <2>1, <2>2 DEF ResolvedInv, ReadyMeansResolved, CopyOf
<1>3. CASE Restart
  <2>1. SyncedInv' /\ \A k \in Kinds : work'[k] = Idle
    BY <1>3 DEF Restart, SyncedInv
  <2>. QED BY <1>3, <2>1 DEF Restart, ResolvedInv, ReadyMeansResolved
<1>4. ASSUME NEW o \in Reconciled, Reconcile(o) PROVE ResolvedInv'
  BY <1>4, ReconcileSound, UpdateSound DEF Reconcile
<1>5. ASSUME NEW o \in Objects, Create(o) \/ Edit(o) \/ Delete(o) PROVE ResolvedInv'
  BY <1>5, UserSound
<1>6. \/ UNCHANGED <<api, cache, unsent, work>> \/ Restart
      \/ \E o \in Reconciled : Reconcile(o)
      \/ \E o \in Objects : Deliver(o)
      \/ \E o \in Objects : Create(o) \/ Edit(o) \/ Delete(o)
  BY DEF Next, Fire, Notify, vars
<1>. QED BY <1>1, <1>2, <1>3, <1>4, <1>5, <1>6

\* An object that is Ready for its current generation was found to refer to objects that
\* exist, in the versions its status records: its spec was not edited meanwhile, for the
\* update of an outdated copy is refused (the deferred status update of the Reconciles).
THEOREM ResolvedCorrect == Spec => []ReadyMeansResolved
<1>1. Init => ResolvedInv
  BY ResolvedInit
<1>2. TypeOK /\ ResolvedInv /\ [Next]_vars => ResolvedInv'
  BY ResolvedKept
<1>3. ResolvedInv => ReadyMeansResolved
  BY DEF ResolvedInv
<1>. QED BY <1>1, <1>2, <1>3, ReferencesTypeCorrect, PTL DEF Spec

-----------------------------------------------------------------------------
(* No wake-up is lost                                                      *)

\* The object will be reconciled, for an event of its own or one mapped to it.
Roused(o) == o \in queue \cup unsent \/ <<o, Kind(o)>> \in notices

\* An event of x is on its way to controller k.
Expected(x, k) == x \in unsent \/ <<x, k>> \in notices

\* What o knows of the object it refers to, in seen, is what that object is, or an
\* event will tell its controller.
Meets(o, r, seen) ==
  IF r.kind = "secret" THEN Present(api, Key(o, r)) \/ faults > 0
  ELSE Available(o, r) /\ seen[r.kind] = api[Key(o, r)].generation

Tracked(o, r, seen) ==
  /\ r.kind \in Watches[Kind(o)] /\ ~Misscoped(o, r)
  /\ Meets(o, r, seen) \/ Expected(Key(o, r), Kind(o))

\* Who works on an outdated copy will be reconciled once more; what it is done with, and
\* what a status that says Ready was computed from, is kept track of.
Rest(o) ==
  LET w == work[Kind(o)]
  IN Roused(o) \/
       /\ Running(o) => w.current
       /\ Running(o) /\ w.result = "none" =>
            \A r \in w.copy.refs \ w.todo : ~Foreign(o, r) => Tracked(o, r, w.copy.seen)
       /\ ~Running(o) /\ api[o].ready = "True" =>
            \A r \in api[o].refs : ~Foreign(o, r) => Tracked(o, r, api[o].seen)

\* Wherever a spec is held, it refers to one object of a kind; and what a reconcile adds
\* to what is left to resolve is of a kind its own spec does not refer to.
Single(R) == \A r, q \in R : r.kind = q.kind => r = q

SingleInv ==
  /\ \A o \in Objects : Single(api[o].refs) /\ Single(cache[o].refs)
  /\ \A k \in Kinds :
       /\ Single(work[k].copy.refs)
       /\ \A q \in work[k].todo :
            q \in work[k].copy.refs \/ \A r \in work[k].copy.refs : r.kind # q.kind

RestInv ==
  /\ ResolvedInv /\ SingleInv
  /\ \A o \in Objects : api[o].ready = "True" => api[o].generation # 0
  /\ \A o \in Reconciled : Rest(o)

\* What a controller reads it watches, and its own kind is not among it.
LEMMA ReadsWatched ==
  \A k \in Kinds :
    k \notin Watches[k] /\ \A i \in 1..Len(Reads[k]) : Reads[k][i] \in Watches[k]
<1>1. \A k \in Kinds : k \notin Watches[k]
  BY DEF Kinds, Watches, AppWatches, LibraryWatches, ThemeWatches, TranslationWatches,
         HeaderWatches, FooterWatches, NavigationWatches, ArchetypeWatches, PageWatches
<1>2. \A i \in 1..Len(AppReads) : AppReads[i] \in AppWatches
  BY DEF AppReads, AppWatches
<1>3. \A i \in 1..Len(LibraryReads) : LibraryReads[i] \in LibraryWatches
  BY DEF LibraryReads, LibraryWatches
<1>4. \A i \in 1..Len(ThemeReads) : ThemeReads[i] \in ThemeWatches
  BY DEF ThemeReads, ThemeWatches
<1>5. \A i \in 1..Len(TranslationReads) : TranslationReads[i] \in TranslationWatches
  BY DEF TranslationReads, TranslationWatches
<1>6. \A i \in 1..Len(HeaderReads) : HeaderReads[i] \in HeaderWatches
  BY DEF HeaderReads, HeaderWatches
<1>7. \A i \in 1..Len(FooterReads) : FooterReads[i] \in FooterWatches
  BY DEF FooterReads, FooterWatches
<1>8. \A i \in 1..Len(NavigationReads) : NavigationReads[i] \in NavigationWatches
  BY DEF NavigationReads, NavigationWatches
<1>9. \A i \in 1..Len(ArchetypeReads) : ArchetypeReads[i] \in ArchetypeWatches
  BY DEF ArchetypeReads, ArchetypeWatches
<1>10. \A i \in 1..Len(PageReads) : PageReads[i] \in PageWatches
  BY DEF PageReads, PageWatches
<1>. QED BY <1>1, <1>2, <1>3, <1>4, <1>5, <1>6, <1>7, <1>8, <1>9, <1>10
         DEF Kinds, Reads, Watches

\* Where a reference is looked up, and that events of what is there find it.
LEMMA KeyFound ==
  ASSUME NEW o, NEW r \in Reference
  PROVE  /\ Kind(Key(o, r)) = r.kind
         /\ ~Foreign(o, r) /\ ~Misscoped(o, r) => Finds(Key(o, r), o, r)
<1>1. r.clustered \in BOOLEAN
  BY DEF Reference
<1>2. CASE r.kind = "secret"
  BY <1>2 DEF Key, Kind, Namespace, Finds
<1>3. CASE r.kind # "secret" /\ r.clustered
  BY <1>3 DEF Key, Kind, Namespace, Finds, Foreign
<1>4. CASE r.kind # "secret" /\ ~r.clustered
  <2>. DEFINE ns == IF r.namespace # "" THEN r.namespace ELSE Namespace(o)
  <2>1. Key(o, r) = <<ns, r.kind>> /\ (~Foreign(o, r) => ns = Namespace(o))
    BY <1>4 DEF Key, Foreign
  <2>. HIDE DEF ns
  <2>2. Kind(Key(o, r)) = r.kind
    BY <2>1 DEF Kind
  <2>3. ~Foreign(o, r) => Namespace(Key(o, r)) = Namespace(o)
    <3>1. Namespace(<<ns, r.kind>>) = ns
      BY DEF Namespace
    <3>. QED BY <2>1, <3>1
  <2>4. ~Foreign(o, r) /\ ~Misscoped(o, r) =>
          Namespace(o) # "" /\ r.clustered = FALSE /\ r.namespace \in {"", Namespace(o)}
    BY <1>1, <1>4 DEF Foreign, Misscoped
  <2>. QED BY <2>2, <2>3, <2>4 DEF Finds
<1>. QED BY <1>1, <1>2, <1>3, <1>4

\* An event that is mapped enqueues who refers to the object, or waits for its handler.
LEMMA InformedTells ==
  ASSUME NEW o \in Reconciled, NEW r \in Reference, NEW s, Informed(Key(o, r), s),
         r.kind \in Watches[Kind(o)], ~Misscoped(o, r), ~Foreign(o, r),
         Present(cache', o), r \in cache'[o].refs
  PROVE  o \in queue' \/ <<Key(o, r), Kind(o)>> \in notices'
<1>. DEFINE x == Key(o, r)
            told == {k \in Kinds : k = Kind(x) \/ Kind(x) \in Watches[k]}
<1>1. /\ notices' = notices \cup ({x} \X (told \cap Slow))
      /\ queue' = queue \cup UNION {Mapped(x, k, cache') : k \in told \ Slow}
  BY DEF Informed
<1>2. Kind(o) \in told
  BY KeyFound, ReconciledKinds
<1>3. o \in Mapped(x, Kind(o), cache')
  <2>1. Kind(o) # Kind(x)
    BY KeyFound, ReadsWatched, ReconciledKinds
  <2>. QED BY <2>1, KeyFound DEF Mapped
<1>. HIDE DEF told, x
<1>. QED BY <1>1, <1>2, <1>3 DEF x

\* What a reconcile that goes on has found, or failed to read.
LEMMA ResolveFinds ==
  ASSUME TypeOK, NEW o \in Reconciled, Resolve(o) \/ GetFails(o) \/ Invalid(o),
         work'[Kind(o)].result = "none"
  PROVE  LET w == work[Kind(o)]
             v == work'[Kind(o)]
         IN \E q \in w.todo :
              /\ IsNext(q, w) /\ ~Misscoped(o, q) /\ v.copy.refs = w.copy.refs
              /\ \/ /\ q.kind = "secret" /\ (Present(cache, Key(o, q)) \/ faults' > 0)
                    /\ v.todo = w.todo \ {q} /\ v.copy = w.copy
                 \/ /\ q.kind # "secret" /\ Present(cache, Key(o, q))
                    /\ cache[Key(o, q)].ready = "True"
                    /\ v.todo = (w.todo \ {q}) \cup Lent(o, Key(o, q), w.copy.refs)
                    /\ v.copy.seen = [w.copy.seen EXCEPT ![q.kind] = cache[Key(o, q)].generation]
<1>. DEFINE k == Kind(o)
            w == work[k]
            v == work'[k]
<1>0. WorkTypeOK
  BY DEF TypeOK, WorkTypeOK
<1>1. k \in Kinds /\ Busy(k, w) /\ work \in [Kinds -> Work]
  BY <1>0, RunningWork, ResolveType DEF WorkTypeOK
<1>2. w \in Work /\ w.copy \in Record /\ w.todo \subseteq Reference
  BY <1>1 DEF Busy, Work
<1>3. \A u : work' = [work EXCEPT ![k] = u] => v = u
  BY <1>1
<1>4. ~Invalid(o)
  <2>1. SUFFICES ASSUME Invalid(o) PROVE FALSE
    OBVIOUS
  <2>2. work' = [work EXCEPT ![k] = [w EXCEPT !.result = "retry", !.copy.ready = "False"]]
    BY <1>1, <2>1 DEF Invalid
  <2>3. v = [w EXCEPT !.result = "retry", !.copy = [w.copy EXCEPT !.ready = "False"]]
    BY <1>2, <1>3, <2>2 DEF Work
  <2>4. v.result = "retry"
    BY <1>2, <2>3 DEF Work
  <2>. QED BY <2>4
<1>5. CASE GetFails(o)
  <2>1. PICK q \in w.todo :
          /\ IsNext(q, w) /\ ~Misscoped(o, q)
          /\ work' = [work EXCEPT ![k] = IF q.kind = "secret" THEN [w EXCEPT !.todo = @ \ {q}]
                                         ELSE [w EXCEPT !.todo = {}, !.result = "retry"]]
    BY <1>5 DEF GetFails
  <2>2. v = IF q.kind = "secret" THEN [w EXCEPT !.todo = @ \ {q}]
            ELSE [w EXCEPT !.todo = {}, !.result = "retry"]
    BY <1>3, <2>1
  <2>3. q.kind = "secret"
    BY <1>2, <2>2 DEF Work
  <2>4. v.todo = w.todo \ {q} /\ v.copy = w.copy
    BY <1>2, <2>2, <2>3 DEF Work
  <2>5. faults' > 0
    BY <1>5 DEF GetFails, TypeOK
  <2>. QED BY <2>1, <2>3, <2>4, <2>5
<1>6. CASE Resolve(o)
  <2>1. PICK q \in w.todo :
          /\ IsNext(q, w)
          /\ \/ \E x \in {"Unknown", "False"} :
                  work' = [work EXCEPT ![k] = [w EXCEPT !.copy.ready = x, !.todo = {}, !.result = "retry"]]
             \/ /\ q.kind = "secret" /\ Present(cache, Key(o, q))
                /\ work' = [work EXCEPT ![k].todo = @ \ {q}]
             \/ /\ ~Misscoped(o, q) /\ q.kind # "secret" /\ Present(cache, Key(o, q))
                /\ cache[Key(o, q)].ready = "True"
                /\ work' = [work EXCEPT
                             ![k].todo = (@ \ {q}) \cup Lent(o, Key(o, q), w.copy.refs),
                             ![k].copy.seen[q.kind] = cache[Key(o, q)].generation]
    BY <1>6 DEF Resolve
  <2>2. CASE \E x \in {"Unknown", "False"} :
               work' = [work EXCEPT ![k] = [w EXCEPT !.copy.ready = x, !.todo = {}, !.result = "retry"]]
    <3>1. v.result = "retry"
      BY <1>2, <1>3, <2>2 DEF Work
    <3>. QED BY <3>1
  <2>3. CASE /\ q.kind = "secret" /\ Present(cache, Key(o, q))
             /\ work' = [work EXCEPT ![k].todo = @ \ {q}]
    <3>1. v = [w EXCEPT !.todo = w.todo \ {q}]
      BY <1>1, <2>3
    <3>2. v.todo = w.todo \ {q} /\ v.copy = w.copy
      BY <1>2, <3>1 DEF Work
    <3>. QED BY <2>1, <2>3, <3>2 DEF Misscoped
  <2>4. CASE /\ ~Misscoped(o, q) /\ q.kind # "secret" /\ Present(cache, Key(o, q))
             /\ cache[Key(o, q)].ready = "True"
             /\ work' = [work EXCEPT
                          ![k].todo = (@ \ {q}) \cup Lent(o, Key(o, q), w.copy.refs),
                          ![k].copy.seen[q.kind] = cache[Key(o, q)].generation]
    <3>. DEFINE g == cache[Key(o, q)].generation
                more == Lent(o, Key(o, q), w.copy.refs)
    <3>1. v = [w EXCEPT !.todo = (w.todo \ {q}) \cup more, !.copy.seen[q.kind] = g]
      BY <1>1, <2>4
    <3>. HIDE DEF g, more
    <3>2. v.todo = (w.todo \ {q}) \cup more /\ v.copy = [w.copy EXCEPT !.seen[q.kind] = g]
      BY <1>2, <3>1 DEF Work
    <3>3. v.copy.refs = w.copy.refs /\ v.copy.seen = [w.copy.seen EXCEPT ![q.kind] = g]
      BY <1>2, <3>2 DEF Record
    <3>. QED BY <2>1, <2>4, <3>2, <3>3 DEF g, more
  <2>. QED BY <2>1, <2>2, <2>3, <2>4
<1>. QED BY <1>4, <1>5, <1>6

\* A write keeps to it when what is written does.
LEMMA StoreSingle ==
  ASSUME StoreTypeOK, NEW o \in Objects, NEW new, Store(o, new), Single(new.refs),
         \A q \in Objects : Single(api[q].refs) /\ Single(cache[q].refs)
  PROVE  \A q \in Objects : Single(api'[q].refs) /\ Single(cache'[q].refs)
<1>1. api' = [api EXCEPT ![o] = new]
  BY DEF Store
<1>2. UNCHANGED cache \/ cache' = [cache EXCEPT ![o] = api'[o]]
  BY DEF Store, Informed
<1>3. \A q \in Objects : Single(api'[q].refs)
  BY <1>1 DEF StoreTypeOK
<1>. QED BY <1>2, <1>3 DEF StoreTypeOK

\* Every step keeps to it.
LEMMA SingleKept ==
  ASSUME TypeOK, SingleInv, [Next]_vars
  PROVE  SingleInv'
<1>0. StoreTypeOK /\ WorkTypeOK
  BY DEF TypeOK, StoreTypeOK, WorkTypeOK
<1>. DEFINE Fine(w) == /\ Single(w.copy.refs)
                       /\ \A q \in w.todo : q \in w.copy.refs \/ \A r \in w.copy.refs : r.kind # q.kind
            Specs == \A o \in Objects : Single(api[o].refs) /\ Single(cache[o].refs)
<1>1. Specs /\ \A k \in Kinds : Fine(work[k])
  BY DEF SingleInv
<1>2. SUFFICES Specs' /\ \A k \in Kinds : Fine(work'[k])
  BY DEF SingleInv
<1>3. Fine(Idle)
  BY DEF Idle, Absent, Single
<1>4. ASSUME NEW k \in Kinds, NEW w, Fine(w), work' = [work EXCEPT ![k] = w]
      PROVE  \A j \in Kinds : Fine(work'[j])
  BY <1>0, <1>1, <1>4 DEF WorkTypeOK
<1>5. CASE UNCHANGED <<api, cache, work>>
  BY <1>1, <1>5
<1>6. ASSUME NEW o \in Reconciled, Begin(o) PROVE Specs' /\ \A k \in Kinds : Fine(work'[k])
  <2>1. UNCHANGED <<api, cache>>
    BY <1>6 DEF Begin
  <2>2. Fine(Begun(o)) /\ Kind(o) \in Kinds
    <3>1. cache[o] \in Record /\ o \in Objects
      BY <1>0, ReconciledKinds DEF StoreTypeOK
    <3>2. Begun(o).copy.refs = cache[o].refs /\ Begun(o).todo = cache[o].refs
      BY <3>1 DEF Begun, Record
    <3>. QED BY <1>1, <3>1, <3>2, ReconciledKinds
  <2>. HIDE DEF Fine
  <2>3. CASE UNCHANGED work
    BY <1>1, <2>1, <2>3
  <2>. QED BY <1>1, <1>4, <1>6, <2>1, <2>2, <2>3, BeginType
<1>7. ASSUME NEW o \in Reconciled, Resolve(o) \/ GetFails(o) \/ Invalid(o)
      PROVE  Specs' /\ \A k \in Kinds : Fine(work'[k])
  <2>. DEFINE w == work[Kind(o)]
              v == work'[Kind(o)]
  <2>1. UNCHANGED <<api, cache>>
    BY <1>7 DEF Resolve, GetFails, Invalid
  <2>2. /\ Kind(o) \in Kinds /\ work' = [work EXCEPT ![Kind(o)] = v]
        /\ Busy(Kind(o), v) /\ v.copy.refs = w.copy.refs
    BY <1>7, ResolveType, ReconciledKinds DEF Follows
  <2>3. CASE v.result # "none"
    <3>1. v.todo = {}
      BY <2>2, <2>3 DEF Busy, Work
    <3>2. Fine(v)
      BY <1>1, <2>2, <3>1
    <3>. HIDE DEF Fine
    <3>. QED BY <1>1, <1>4, <2>1, <2>2, <3>2
  <2>4. CASE v.result = "none"
    <3>1. PICK q \in w.todo :
            v.todo = w.todo \ {q} \/ v.todo = (w.todo \ {q}) \cup Lent(o, Key(o, q), w.copy.refs)
      BY <1>7, <2>4, ResolveFinds
    <3>2. \A p \in Lent(o, Key(o, q), w.copy.refs) : \A r \in w.copy.refs : r.kind # p.kind
      BY DEF Lent
    <3>3. Fine(v)
      BY <1>1, <2>2, <3>1, <3>2
    <3>. HIDE DEF Fine
    <3>. QED BY <1>1, <1>4, <2>1, <2>2, <3>3
  <2>. QED BY <2>3, <2>4
<1>8. ASSUME NEW o \in Reconciled, UpdateStatus(o) PROVE Specs' /\ \A k \in Kinds : Fine(work'[k])
  <2>1. o \in Objects /\ Kind(o) \in Kinds /\ work' = [work EXCEPT ![Kind(o)] = Idle]
    BY <1>8, UpdateType, ReconciledKinds
  <2>2. Done(o).refs = api[o].refs
    <3>1. api[o] \in Record
      BY <1>0, <2>1 DEF StoreTypeOK
    <3>. QED BY <3>1 DEF Done, Record
  <2>3. \A k \in Kinds : Fine(work'[k])
    <3>. HIDE DEF Fine
    <3>. QED BY <1>3, <1>4, <2>1
  <2>4. Specs'
    BY <1>0, <1>1, <1>8, <2>1, <2>2, UpdateType, StoreSingle
  <2>. QED BY <2>3, <2>4
<1>9. ASSUME NEW o \in Objects, Deliver(o) PROVE Specs' /\ \A k \in Kinds : Fine(work'[k])
  <2>1. UNCHANGED <<api, work>> /\ cache' = [cache EXCEPT ![o] = api[o]]
    BY <1>9 DEF Deliver, Informed
  <2>. QED BY <1>0, <1>1, <2>1 DEF StoreTypeOK
<1>10. ASSUME NEW o \in Objects, Create(o) \/ Edit(o) \/ Delete(o)
       PROVE  Specs' /\ \A k \in Kinds : Fine(work'[k])
  <2>1. PICK new \in Record : Write(o, new) /\ new.refs \in Choices[o] \cup {{}}
    BY <1>10, UserWrites
  <2>2. Single(new.refs)
    BY <2>1, OneOfAKind DEF Single
  <2>3. Specs'
    BY <1>0, <1>1, <2>1, <2>2, StoreSingle DEF Write
  <2>4. ASSUME NEW k \in Kinds PROVE Fine(work'[k])
    <3>1. work[k] \in Work /\ work'[k] \in {work[k], [work[k] EXCEPT !.current = FALSE]}
      BY <1>0, <2>1, OutdatedType DEF Write, WorkTypeOK
    <3>2. work'[k].copy = work[k].copy /\ work'[k].todo = work[k].todo
      BY <3>1 DEF Work
    <3>. QED BY <1>1, <3>2
  <2>. QED BY <2>3, <2>4
<1>11. CASE Restart
  <2>1. Specs'
    BY <1>1, <1>11 DEF Restart
  <2>2. \A k \in Kinds : Fine(work'[k])
    <3>. HIDE DEF Fine
    <3>. QED BY <1>3, <1>11 DEF Restart
  <2>. QED BY <2>1, <2>2
<1>12. \/ UNCHANGED <<api, cache, work>> \/ Restart
       \/ \E o \in Reconciled : Reconcile(o)
       \/ \E o \in Objects : Deliver(o)
       \/ \E o \in Objects : Create(o) \/ Edit(o) \/ Delete(o)
  BY DEF Next, Fire, Notify, vars
<1>. HIDE DEF Fine, Specs
<1>. QED BY <1>5, <1>6, <1>7, <1>8, <1>9, <1>10, <1>11, <1>12 DEF Reconcile

\* A step after which o is still roused, or keeps track of what it kept track of.
Kept(o) ==
  /\ Roused(o) => Roused(o)'
  /\ \A r \in api[o].refs, seen \in [Kinds -> Nat] :
       api[o].generation # 0 /\ ~Foreign(o, r) /\ Tracked(o, r, seen) =>
         Roused(o)' \/ Tracked(o, r, seen)'

\* A step that changes no object keeps it, if it forgets no event.
LEMMA QuietKeeps ==
  ASSUME TypeOK, NEW o \in Reconciled, UNCHANGED <<api, unsent, notices>>,
         faults > 0 => faults' > 0, o \in queue => o \in queue'
  PROVE  Kept(o)
BY DEF Kept, Roused, Tracked, Meets, Available, Present, Expected

\* When another object is written, either o does not refer to it or will be told.
LEMMA StoreKeeps ==
  ASSUME TypeOK, SyncedInv, NEW o \in Reconciled, NEW y \in Objects, y # o,
         NEW new, Store(y, new), UNCHANGED faults
  PROVE  Kept(o)
<1>0. StoreTypeOK /\ o \in Objects
  BY ReconciledKinds DEF TypeOK, StoreTypeOK
<1>1. /\ Grows /\ \A q \in Objects \ {y} : api'[q] = api[q]
  BY <1>0, StoreWakes
<1>2. Roused(o) => Roused(o)'
  BY <1>1 DEF Grows, Roused
<1>3. ASSUME NEW r \in api[o].refs, NEW seen \in [Kinds -> Nat], api[o].generation # 0,
             ~Foreign(o, r), Tracked(o, r, seen), ~Roused(o)
      PROVE  Roused(o)' \/ Tracked(o, r, seen)'
  <2>0. r \in Reference
    BY <1>0 DEF StoreTypeOK, Record
  <2>1. CASE y # Key(o, r)
    <3>1. Present(api', Key(o, r)) = Present(api, Key(o, r))
          /\ (Key(o, r) \in Objects => api'[Key(o, r)] = api[Key(o, r)])
      BY <1>1, <2>1 DEF Present
    <3>. QED BY <1>1, <1>3, <3>1 DEF Tracked, Meets, Available, Expected, Grows, Present
  <2>2. CASE y = Key(o, r) /\ unsent' = unsent \cup {y}
    BY <1>3, <2>2 DEF Tracked, Expected
  <2>3. CASE y = Key(o, r) /\ Informed(y, api')
    <3>1. cache'[o] = api[o]
      BY <1>0, <1>3, <2>3 DEF Informed, SyncedInv, StoreTypeOK, Roused
    <3>2. o \in queue' \/ <<y, Kind(o)>> \in notices'
      BY <1>0, <1>3, <2>0, <2>3, <3>1, InformedTells DEF Tracked, Present
    <3>. QED BY <1>3, <2>3, <3>2 DEF Tracked, Expected, Roused
  <2>. QED BY <2>1, <2>2, <2>3 DEF Store
<1>. QED BY <1>2, <1>3 DEF Kept

\* When an event is delivered, its object is told of itself and who refers to it.
LEMMA DeliverKeeps ==
  ASSUME TypeOK, SyncedInv, NEW o \in Reconciled, NEW y \in Objects, Deliver(y)
  PROVE  Kept(o)
<1>0. StoreTypeOK /\ o \in Objects /\ UNCHANGED <<api, faults>> /\ unsent' = unsent \ {y}
      /\ Informed(y, api) /\ cache' = [cache EXCEPT ![y] = api[y]]
  BY ReconciledKinds DEF TypeOK, StoreTypeOK, Deliver, Informed
<1>1. /\ queue \subseteq queue' /\ notices \subseteq notices'
      /\ y \in Reconciled => y \in queue' \/ <<y, Kind(y)>> \in notices'
  BY <1>0, InformedWakes
<1>2. Roused(o) => Roused(o)'
  BY <1>0, <1>1 DEF Roused
<1>3. ASSUME NEW r \in api[o].refs, NEW seen \in [Kinds -> Nat], api[o].generation # 0,
             ~Foreign(o, r), Tracked(o, r, seen), ~Roused(o)
      PROVE  Roused(o)' \/ Tracked(o, r, seen)'
  <2>0. r \in Reference
    BY <1>0 DEF StoreTypeOK, Record
  <2>1. Meets(o, r, seen) => Meets(o, r, seen)'
    BY <1>0 DEF Meets, Available, Present
  <2>2. CASE y # Key(o, r)
    BY <1>0, <1>1, <1>3, <2>1, <2>2 DEF Tracked, Expected
  <2>3. CASE y = Key(o, r)
    <3>1. cache'[o] = api[o]
      BY <1>0, <1>3 DEF SyncedInv, StoreTypeOK, Roused
    <3>2. o \in queue' \/ <<y, Kind(o)>> \in notices'
      BY <1>0, <1>3, <2>0, <2>3, <3>1, InformedTells DEF Tracked, Present
    <3>. QED BY <1>3, <2>3, <3>2 DEF Tracked, Expected, Roused
  <2>. QED BY <2>2, <2>3
<1>. QED BY <1>2, <1>3 DEF Kept

\* A handler that is called enqueues who refers to the object.
LEMMA NotifyKeeps ==
  ASSUME TypeOK, SyncedInv, NEW o \in Reconciled, NEW y \in Objects, NEW k \in Kinds,
         Notify(y, k)
  PROVE  Kept(o)
<1>0. /\ o \in Objects /\ UNCHANGED <<api, cache, unsent, faults>>
      /\ notices' = notices \ {<<y, k>>} /\ queue' = queue \cup Mapped(y, k, cache)
  BY ReconciledKinds DEF Notify
<1>1. Roused(o) => Roused(o)'
  <2>1. Mapped(o, Kind(o), cache) = {o}
    BY DEF Mapped
  <2>. QED BY <1>0, <2>1 DEF Roused
<1>2. ASSUME NEW r \in api[o].refs, NEW seen \in [Kinds -> Nat], api[o].generation # 0,
             ~Foreign(o, r), Tracked(o, r, seen), ~Roused(o)
      PROVE  Roused(o)' \/ Tracked(o, r, seen)'
  <2>0. r \in Reference /\ cache[o] = api[o]
    BY <1>0, <1>2 DEF TypeOK, Record, Roused, SyncedInv
  <2>1. Meets(o, r, seen) => Meets(o, r, seen)'
    BY <1>0 DEF Meets, Available, Present
  <2>2. CASE y = Key(o, r) /\ k = Kind(o)
    <3>1. Kind(y) # k /\ Finds(y, o, r)
      BY <1>2, <2>0, <2>2, KeyFound, ReadsWatched, ReconciledKinds DEF Tracked
    <3>2. o \in Mapped(y, k, cache)
      BY <1>0, <1>2, <2>0, <2>2, <3>1 DEF Mapped, Present
    <3>. QED BY <1>0, <3>2 DEF Roused
  <2>3. CASE <<y, k>> # <<Key(o, r), Kind(o)>>
    BY <1>0, <1>2, <2>1, <2>3 DEF Tracked, Expected
  <2>. QED BY <2>2, <2>3
<1>. QED BY <1>1, <1>2 DEF Kept

\* What o works on does not change, nor o itself, and it keeps track: it is at rest.
LEMMA RestKept ==
  ASSUME TypeOK, ResolvedInv, NEW o \in Reconciled, Rest(o), Kept(o), api'[o] = api[o],
         api[o].ready = "True" => api[o].generation # 0,
         Running(o)' = Running(o), Running(o) => work'[Kind(o)] = work[Kind(o)]
  PROVE  Rest(o)'
<1>0. WorkTypeOK /\ o \in Objects /\ api[o].seen \in [Kinds -> Nat]
  BY ReconciledKinds DEF TypeOK, WorkTypeOK, Record
<1>1. CASE Roused(o)
  BY <1>1 DEF Kept, Rest
<1>2. CASE ~Roused(o) /\ Running(o)
  <2>0. PICK w : w = work[Kind(o)]
    OBVIOUS
  <2>1. /\ w.current /\ w.on = o /\ Kind(o) \in Kinds /\ w.copy.generation # 0
        /\ w.copy.seen \in [Kinds -> Nat]
    BY <1>0, <1>2, <2>0, RunningWork DEF Rest, Running, Busy, Work, Record
  <2>2. w # Idle
    BY <1>2, <2>0, ReconciledKinds DEF Running, Idle
  <2>3. w.copy.refs = api[o].refs /\ api[o].generation # 0
    BY <2>0, <2>1, <2>2 DEF ResolvedInv, CopyOf
  <2>4. w.result = "none" =>
          \A r \in w.copy.refs \ w.todo : ~Foreign(o, r) => Tracked(o, r, w.copy.seen)
    BY <1>2, <2>0 DEF Rest
  <2>5. w.result = "none" =>
          \A r \in w.copy.refs \ w.todo : ~Foreign(o, r) =>
             Roused(o)' \/ Tracked(o, r, w.copy.seen)'
    BY <2>1, <2>3, <2>4 DEF Kept
  <2>6. work'[Kind(o)] = w /\ Running(o)'
    BY <1>2, <2>0
  <2>. QED BY <2>1, <2>5, <2>6 DEF Rest
<1>3. CASE ~Roused(o) /\ ~Running(o)
  <2>1. api[o].ready = "True" =>
          \A r \in api[o].refs : ~Foreign(o, r) => Roused(o)' \/ Tracked(o, r, api[o].seen)'
    BY <1>0, <1>3 DEF Rest, Kept
  <2>. QED BY <1>3, <2>1 DEF Rest
<1>. QED BY <1>1, <1>2, <1>3

\* The work of other objects goes on while one is begun, resolved or finished.
LEMMA OthersRun ==
  ASSUME TypeOK, NEW o \in Reconciled, NEW v,
         Running(o) \/ work[Kind(o)] = Idle, v = Idle \/ v.on = o,
         work' = work \/ work' = [work EXCEPT ![Kind(o)] = v],
         NEW q \in Reconciled \ {o}
  PROVE  Running(q)' = Running(q) /\ (Running(q) => work'[Kind(q)] = work[Kind(q)])
<1>0. WorkTypeOK /\ Idle.on # q
  BY ReconciledKinds DEF TypeOK, WorkTypeOK, Idle
<1>1. CASE Kind(q) = Kind(o) /\ work' # work
  BY <1>0, <1>1, ReconciledKinds DEF Running, WorkTypeOK
<1>2. CASE Kind(q) # Kind(o) \/ work' = work
  BY <1>0, <1>2, ReconciledKinds DEF Running, WorkTypeOK
<1>. QED BY <1>1, <1>2

\* A reconcile begins with the current spec, or an event of it is on the way; an object
\* that is gone is not Ready.
LEMMA BeginRests ==
  ASSUME TypeOK, RestInv, NEW o \in Reconciled, Begin(o)
  PROVE  \A q \in Reconciled : Rest(q)'
<1>0. /\ o \in Objects /\ UNCHANGED <<api, cache, unsent, notices, faults>>
      /\ queue' = queue \ {o} /\ work[Kind(o)] = Idle
      /\ \/ ~Present(cache, o) /\ work' = work
         \/ work' = [work EXCEPT ![Kind(o)] = Begun(o)] /\ work'[Kind(o)] = Begun(o)
  BY BeginType, ReconciledKinds DEF Begin
<1>1. ASSUME NEW q \in Reconciled \ {o} PROVE Rest(q)'
  <2>1. Kept(q)
    BY <1>0, QuietKeeps
  <2>2. Running(q)' = Running(q) /\ (Running(q) => work'[Kind(q)] = work[Kind(q)])
    <3>1. Begun(o).on = o
      BY DEF Begun
    <3>. QED BY <1>0, <3>1, OthersRun
  <2>. QED BY <1>0, <2>1, <2>2, RestKept, ReconciledKinds DEF RestInv
<1>2. Rest(o)'
  <2>1. CASE o \in unsent
    BY <1>0, <2>1 DEF Rest, Roused
  <2>2. CASE o \notin unsent /\ ~Present(cache, o) /\ work' = work
    <3>1. api'[o].ready # "True"
      BY <1>0, <2>2 DEF RestInv, ResolvedInv, SyncedInv, Present
    <3>2. ~Running(o)'
      BY <1>0, <2>2, ReconciledKinds DEF Running, Idle
    <3>. QED BY <3>1, <3>2 DEF Rest
  <2>3. CASE o \notin unsent /\ work'[Kind(o)] = Begun(o)
    <3>1. cache[o] \in Record
      BY <1>0 DEF TypeOK
    <3>2. /\ Begun(o).current /\ Begun(o).copy.refs \ Begun(o).todo = {} /\ Begun(o).on = o
      BY <2>3, <3>1 DEF Begun, Record
    <3>. QED BY <2>3, <3>2 DEF Rest, Running
  <2>. QED BY <1>0, <2>1, <2>2, <2>3
<1>. QED BY <1>1, <1>2

\* What a reconcile finds it keeps track of: the cached copy it read is the current one,
\* or an event of it is on the way to the controller, which watches what it reads.
LEMMA ResolveTracks ==
  ASSUME TypeOK, RestInv, NEW o \in Reconciled, Resolve(o) \/ GetFails(o) \/ Invalid(o),
         ~Roused(o)
  PROVE  Rest(o)'
<1>0. PICK w, v : w = work[Kind(o)] /\ v = work'[Kind(o)]
  OBVIOUS
<1>1. /\ Running(o) /\ Kind(o) \in Kinds /\ Busy(Kind(o), w) /\ w.on = o
      /\ v.current = w.current /\ v.on = o /\ w.result = "none"
  <2>1. Running(o) /\ Follows(Kind(o), w, v)
    BY <1>0, ResolveType
  <2>2. w.result = "none"
    BY <1>0 DEF Resolve, GetFails, Invalid
  <2>3. WorkTypeOK
    BY DEF TypeOK, WorkTypeOK
  <2>. QED BY <1>0, <2>1, <2>2, <2>3, RunningWork DEF Follows, Running
<1>2. /\ UNCHANGED <<api, cache, unsent, notices, queue>> /\ (faults > 0 => faults' > 0)
      /\ Running(o)' /\ ~Roused(o)'
  <2>1. UNCHANGED <<api, cache, unsent, notices, queue>> /\ (faults > 0 => faults' > 0)
    BY DEF Resolve, GetFails, Invalid, TypeOK
  <2>. QED BY <1>0, <1>1, <2>1 DEF Running, Roused
<1>3. w.current /\ \A r \in w.copy.refs \ w.todo : ~Foreign(o, r) => Tracked(o, r, w.copy.seen)
  BY <1>0, <1>1 DEF RestInv, Rest
<1>4. w.todo \subseteq Reference /\ w.copy.refs \subseteq Reference /\ w.copy \in Record
  BY <1>1 DEF Busy, Work, Record
<1>5. SUFFICES ASSUME v.result = "none", NEW r \in v.copy.refs \ v.todo, ~Foreign(o, r)
               PROVE  Tracked(o, r, v.copy.seen)'
  <2>1. Rest(o)' <=> \/ Roused(o)'
                     \/ /\ v.current
                        /\ v.result = "none" =>
                             \A r \in v.copy.refs \ v.todo : ~Foreign(o, r) =>
                                Tracked(o, r, v.copy.seen)'
    BY <1>0, <1>2 DEF Rest
  <2>. QED BY <1>1, <1>3, <1>5, <2>1
<1>6. PICK q \in w.todo :
        /\ IsNext(q, w) /\ ~Misscoped(o, q) /\ v.copy.refs = w.copy.refs
        /\ \/ /\ q.kind = "secret" /\ (Present(cache, Key(o, q)) \/ faults' > 0)
              /\ v.todo = w.todo \ {q} /\ v.copy = w.copy
           \/ /\ q.kind # "secret" /\ Present(cache, Key(o, q))
              /\ cache[Key(o, q)].ready = "True"
              /\ v.todo = (w.todo \ {q}) \cup Lent(o, Key(o, q), w.copy.refs)
              /\ v.copy.seen = [w.copy.seen EXCEPT ![q.kind] = cache[Key(o, q)].generation]
  BY <1>0, <1>5, ResolveFinds
<1>7. CASE r # q
  <2>1. r \in w.copy.refs \ w.todo
    BY <1>5, <1>6, <1>7
  <2>2. r.kind # q.kind
    BY <1>0, <1>1, <1>6, <1>7, <2>1 DEF RestInv, SingleInv, Single
  <2>3. r.kind # "secret" => v.copy.seen[r.kind] = w.copy.seen[r.kind]
    <3>1. r.kind # "secret" => r.kind \in Kinds
      BY <1>4, <2>1 DEF Reference
    <3>2. w.copy.seen \in [Kinds -> Nat]
      BY <1>4 DEF Record
    <3>. QED BY <1>6, <2>2, <3>1, <3>2
  <2>. QED BY <1>2, <1>3, <1>5, <2>1, <2>3 DEF Tracked, Meets, Available, Present, Expected
<1>8. CASE r = q
  <2>1. r.kind \in Watches[Kind(o)] /\ ~Misscoped(o, r)
    BY <1>1, <1>6, <1>8, ReadsWatched DEF IsNext
  <2>2. CASE Key(o, r) \in unsent
    BY <1>2, <2>1, <2>2 DEF Tracked, Expected
  <2>3. CASE Key(o, r) \notin unsent
    <3>1. Present(cache, Key(o, r)) => Present(api, Key(o, r)) /\ cache[Key(o, r)] = api[Key(o, r)]
      BY <2>3 DEF Present, RestInv, ResolvedInv, SyncedInv
    <3>2. CASE q.kind = "secret"
      BY <1>2, <1>6, <1>8, <2>1, <3>1, <3>2 DEF Tracked, Meets, Present
    <3>3. CASE q.kind # "secret"
      <4>1. q.kind \in Kinds /\ w.copy.seen \in [Kinds -> Nat]
        BY <1>4, <1>6, <3>3 DEF Reference, Record
      <4>2. v.copy.seen[q.kind] = cache[Key(o, q)].generation
        BY <1>6, <3>3, <4>1
      <4>. QED BY <1>2, <1>6, <1>8, <2>1, <3>1, <3>3, <4>2 DEF Tracked, Meets, Available, Present
    <3>. QED BY <3>2, <3>3
  <2>. QED BY <2>2, <2>3
<1>. QED BY <1>7, <1>8

LEMMA ResolveRests ==
  ASSUME TypeOK, RestInv, NEW o \in Reconciled, Resolve(o) \/ GetFails(o) \/ Invalid(o)
  PROVE  \A q \in Reconciled : Rest(q)'
<1>1. /\ UNCHANGED <<api, cache, unsent, notices, queue>> /\ (faults > 0 => faults' > 0)
  BY DEF Resolve, GetFails, Invalid, TypeOK
<1>2. \A q \in Reconciled : Kept(q)
  BY <1>1, QuietKeeps
<1>3. ASSUME NEW q \in Reconciled \ {o} PROVE Rest(q)'
  <2>1. Running(q)' = Running(q) /\ (Running(q) => work'[Kind(q)] = work[Kind(q)])
    <3>1. Running(o) /\ work'[Kind(o)].on = o /\ work' = [work EXCEPT ![Kind(o)] = work'[Kind(o)]]
      BY ResolveType DEF Follows, Running
    <3>. QED BY <3>1, OthersRun
  <2>. QED BY <1>1, <1>2, <2>1, RestKept, ReconciledKinds DEF RestInv
<1>4. Rest(o)'
  <2>1. CASE Roused(o)
    BY <1>2, <2>1 DEF Kept, Rest
  <2>. QED BY <2>1, ResolveTracks
<1>. QED BY <1>3, <1>4

\* A status that is written is an event of its own; what is reported again is what the
\* reconcile kept track of.
LEMMA UpdateRests ==
  ASSUME TypeOK, RestInv, NEW o \in Reconciled, UpdateStatus(o)
  PROVE  \A q \in Reconciled : Rest(q)'
<1>0. StoreTypeOK /\ WorkTypeOK /\ SyncedInv /\ o \in Objects /\ Kind(o) \in Kinds
      /\ api[o] \in Record
  BY ReconciledKinds DEF TypeOK, StoreTypeOK, WorkTypeOK, RestInv, ResolvedInv
<1>1. PICK w : w = work[Kind(o)]
  OBVIOUS
<1>2. /\ Running(o) /\ Busy(Kind(o), w) /\ w.todo = {} /\ w.on = o
      /\ work' = [work EXCEPT ![Kind(o)] = Idle] /\ UNCHANGED faults
      /\ \/ Store(o, Done(o))
         \/ /\ ~w.current \/ Done(o) = api[o]
            /\ UNCHANGED <<api, cache, unsent, notices, queue>>
  BY <1>0, <1>1, UpdateType, RunningWork DEF UpdateStatus, Running, Conflicts
<1>3. ASSUME NEW q \in Reconciled \ {o} PROVE Rest(q)'
  <2>1. Kept(q) /\ api'[q] = api[q]
    BY <1>0, <1>2, StoreKeeps, StoreWakes, QuietKeeps, ReconciledKinds
  <2>2. Running(q)' = Running(q) /\ (Running(q) => work'[Kind(q)] = work[Kind(q)])
    BY <1>2, OthersRun
  <2>. QED BY <2>1, <2>2, RestKept, ReconciledKinds DEF RestInv
<1>4. CASE Store(o, Done(o))
  <2>1. Roused(o)'
    BY <1>0, <1>4, StoreWakes DEF Roused
  <2>. QED BY <1>3, <2>1 DEF Rest
<1>5. CASE UNCHANGED <<api, cache, unsent, notices, queue>> /\ Roused(o)
  BY <1>3, <1>5 DEF Rest, Roused
<1>6. CASE /\ UNCHANGED <<api, cache, unsent, notices, queue, faults>>
           /\ ~Roused(o) /\ w.current /\ Done(o) = api[o]
  <2>1. w # Idle
    BY <1>2, ReconciledKinds DEF Idle
  <2>2. Sound(w) /\ w.copy.refs = api[o].refs
    BY <1>0, <1>1, <1>2, <1>6, <2>1 DEF RestInv, ResolvedInv, CopyOf
  <2>3. /\ api[o].ready = IF w.result = "none" THEN "True" ELSE w.copy.ready
        /\ api[o].seen = w.copy.seen
    BY <1>0, <1>1, <1>6 DEF Done, Record
  <2>4. api[o].ready = "True" =>
          \A r \in api[o].refs : ~Foreign(o, r) => Tracked(o, r, api[o].seen)
    BY <1>1, <1>2, <1>6, <2>2, <2>3 DEF Sound, RestInv, Rest
  <2>5. ~Running(o)'
    BY <1>0, <1>2, ReconciledKinds DEF Running, WorkTypeOK, Idle
  <2>6. api'[o].ready = "True" =>
          \A r \in api'[o].refs : ~Foreign(o, r) => Tracked(o, r, api[o].seen)'
    BY <1>6, <2>4 DEF Tracked, Meets, Available, Present, Expected
  <2>. QED BY <1>3, <2>5, <2>6 DEF Rest
<1>. QED BY <1>2, <1>4, <1>5, <1>6, <1>1 DEF RestInv, Rest

\* So is what a user writes, and the others go on.
LEMMA UserRests ==
  ASSUME TypeOK, RestInv, NEW o \in Objects, Create(o) \/ Edit(o) \/ Delete(o)
  PROVE  \A q \in Reconciled : Rest(q)'
<1>0. StoreTypeOK /\ WorkTypeOK /\ SyncedInv
  BY DEF TypeOK, StoreTypeOK, WorkTypeOK, RestInv, ResolvedInv
<1>1. PICK new \in Record : Write(o, new)
  BY UserWrites
<1>2. Store(o, new) /\ UNCHANGED faults /\ work' = Outdated(o)
  BY <1>1 DEF Write
<1>3. ASSUME NEW q \in Reconciled \ {o} PROVE Rest(q)'
  <2>1. Kept(q) /\ api'[q] = api[q]
    BY <1>0, <1>2, StoreKeeps, StoreWakes, ReconciledKinds
  <2>2. work[Kind(q)] \in Work
        /\ work'[Kind(q)] = IF work[Kind(q)].on = o
                               THEN [work[Kind(q)] EXCEPT !.current = FALSE] ELSE work[Kind(q)]
    BY <1>0, <1>2, OutdatedType, ReconciledKinds DEF WorkTypeOK
  <2>3. Running(q)' = Running(q) /\ (Running(q) => work'[Kind(q)] = work[Kind(q)])
    <3>1. work'[Kind(q)].on = work[Kind(q)].on
      BY <2>2 DEF Work
    <3>. QED BY <2>2, <3>1 DEF Running
  <2>. QED BY <2>1, <2>3, RestKept, ReconciledKinds DEF RestInv
<1>4. ASSUME NEW q \in Reconciled PROVE Rest(q)'
  <2>1. CASE q = o
    <3>1. Roused(o)'
      BY <1>0, <1>2, <2>1, StoreWakes DEF Roused
    <3>. QED BY <2>1, <3>1 DEF Rest
  <2>. QED BY <1>3, <2>1
<1>. QED BY <1>4

\* Who is Ready exists: only what exists is reported on, and it keeps its generation.
LEMMA ReadyExists ==
  ASSUME TypeOK, RestInv, [Next]_vars
  PROVE  \A q \in Objects : api'[q].ready = "True" => api'[q].generation # 0
<1>0. StoreTypeOK /\ WorkTypeOK /\ SyncedInv
  BY DEF TypeOK, StoreTypeOK, WorkTypeOK, RestInv, ResolvedInv
<1>1. CASE UNCHANGED api
  BY <1>1 DEF RestInv
<1>2. ASSUME NEW o \in Objects, NEW new \in Record, Store(o, new),
             new.ready = "True" => new.generation # 0
      PROVE  \A q \in Objects : api'[q].ready = "True" => api'[q].generation # 0
  BY <1>0, <1>2, StoreWakes DEF RestInv
<1>3. ASSUME NEW o \in Reconciled, UpdateStatus(o)
      PROVE  \A q \in Objects : api'[q].ready = "True" => api'[q].generation # 0
  <2>. DEFINE w == work[Kind(o)]
  <2>1. /\ o \in Objects /\ Kind(o) \in Kinds /\ Busy(Kind(o), w) /\ w.on = o /\ w # Idle
        /\ Done(o) \in Record /\ api[o] \in Record
    BY <1>0, <1>3, UpdateType, RunningWork, ReconciledKinds
       DEF Running, Idle, StoreTypeOK
  <2>2. Done(o).generation = api[o].generation
    BY <2>1 DEF Done, Record
  <2>3. CASE ~Conflicts(w) /\ Store(o, Done(o))
    <3>1. Done(o).generation # 0
      BY <2>1, <2>2, <2>3 DEF Conflicts, RestInv, ResolvedInv, CopyOf, Busy
    <3>. QED BY <1>2, <2>1, <2>3, <3>1
  <2>. QED BY <1>1, <1>3, <2>3, UpdateType
<1>4. ASSUME NEW o \in Objects, Create(o) \/ Edit(o) \/ Delete(o)
      PROVE  \A q \in Objects : api'[q].ready = "True" => api'[q].generation # 0
  <2>1. api[o].generation \in Nat
    BY <1>0 DEF StoreTypeOK, Record
  <2>. QED BY <1>2, <1>4, <2>1, UserWrites DEF Write
<1>5. \/ UNCHANGED api
      \/ \E o \in Reconciled : UpdateStatus(o)
      \/ \E o \in Objects : Create(o) \/ Edit(o) \/ Delete(o)
  BY DEF Next, Reconcile, Begin, Resolve, GetFails, Invalid, Fire, Deliver, Notify, Restart, vars
<1>. QED BY <1>1, <1>3, <1>4, <1>5

\* Every step keeps track of what the objects that are Ready refer to.
LEMMA RestStep ==
  ASSUME TypeOK, RestInv, [Next]_vars
  PROVE  RestInv'
<1>1. (ResolvedInv /\ SingleInv)' /\ \A q \in Objects : api'[q].ready = "True" => api'[q].generation # 0
  BY ResolvedKept, SingleKept, ReadyExists DEF RestInv
<1>2. SUFFICES \A q \in Reconciled : Rest(q)'
  BY <1>1 DEF RestInv
<1>3. ASSUME NEW q \in Reconciled, Kept(q), UNCHANGED <<api, work>> PROVE Rest(q)'
  <2>1. Running(q)' = Running(q)
    BY <1>3 DEF Running
  <2>. QED BY <1>3, <2>1, RestKept, ReconciledKinds DEF RestInv
<1>4. CASE UNCHANGED vars
  BY <1>3, <1>4, QuietKeeps DEF vars
<1>5. ASSUME NEW o \in Reconciled, Reconcile(o) PROVE \A q \in Reconciled : Rest(q)'
  BY <1>5, BeginRests, ResolveRests, UpdateRests DEF Reconcile
<1>6. ASSUME NEW o \in Reconciled, Fire(o) PROVE \A q \in Reconciled : Rest(q)'
  BY <1>3, <1>6, QuietKeeps DEF Fire
<1>7. ASSUME NEW o \in Objects, Deliver(o) PROVE \A q \in Reconciled : Rest(q)'
  <2>1. SyncedInv
    BY DEF RestInv, ResolvedInv
  <2>. QED BY <1>3, <1>7, <2>1, DeliverKeeps DEF Deliver
<1>8. ASSUME NEW o \in Objects, NEW k \in Kinds, Notify(o, k) PROVE \A q \in Reconciled : Rest(q)'
  <2>1. SyncedInv
    BY DEF RestInv, ResolvedInv
  <2>. QED BY <1>3, <1>8, <2>1, NotifyKeeps DEF Notify
<1>9. ASSUME NEW o \in Objects, Create(o) \/ Edit(o) \/ Delete(o) PROVE \A q \in Reconciled : Rest(q)'
  BY <1>9, UserRests
<1>10. ASSUME Restart, NEW q \in Reconciled PROVE Rest(q)'
  <2>1. q \in Objects /\ Kind(q) \in Kinds /\ api'[q] = api[q]
    BY <1>10, ReconciledKinds DEF Restart
  <2>2. api[q].ready = "True" => q \in queue'
    BY <1>10, <2>1 DEF Restart, RestInv, Present
  <2>3. ~Running(q)'
    BY <1>10, <2>1, ReconciledKinds DEF Restart, Running, Idle
  <2>. QED BY <2>1, <2>2, <2>3 DEF Rest, Roused
<1>. QED BY <1>4, <1>5, <1>6, <1>7, <1>8, <1>9, <1>10 DEF Next

\* At rest no object is roused and no event expected.
LEMMA RestReady ==
  ASSUME TypeOK, RestInv
  PROVE  ReadyAtRest
<1>. SUFFICES ASSUME Quiet, NEW o \in Reconciled, api[o].ready = "True", Followed(o),
                     NEW r \in api[o].refs
              PROVE  /\ Holds(o, r)
                     /\ \A q \in Borrowed(o, r) : Followed(Key(o, r)) => Available(o, q)
  BY DEF ReadyAtRest
<1>1. \A q \in Objects : api[q] \in Record
  BY DEF TypeOK
<1>2. ASSUME NEW p \in Reconciled, api[p].ready = "True", Followed(p), NEW q \in api[p].refs
      PROVE  Holds(p, q)
  <2>1. ~Running(p) /\ ~Roused(p)
    BY ReconciledKinds DEF Quiet, Running, Roused, Idle
  <2>2. Tracked(p, q, api[p].seen)
    BY <1>2, <2>1 DEF RestInv, Rest, Followed
  <2>. QED BY <2>2 DEF Tracked, Expected, Meets, Holds, Quiet
<1>3. ASSUME NEW q \in Borrowed(o, r), Followed(Key(o, r)) PROVE Available(o, q)
  <2>. DEFINE key == Key(o, r)
  <2>1. /\ r.kind = "archetype" /\ key \in Objects /\ q \in api[key].refs
        /\ q.kind = "navigation"
    BY <1>3 DEF Borrowed
  <2>2. r \in Reference /\ q \in Reference /\ o \in Objects
    BY <1>1, <2>1, ReconciledKinds DEF Record
  <2>3. Kind(key) = "archetype" /\ key \in Reconciled
    BY <2>1, <2>2, KeyFound DEF Reconciled
  <2>4. Holds(o, r)
    BY <1>2
  <2>5. api[key].ready = "True" /\ ~Misscoped(o, r)
    BY <2>1, <2>4 DEF Holds, Available
  <2>6. Holds(key, q)
    BY <1>2, <1>3, <2>1, <2>3, <2>5
  <2>7. Available(key, q) /\ ~Foreign(key, q) /\ ~Foreign(o, r)
    BY <1>3, <2>1, <2>6 DEF Holds, Followed
  <2>8. Finds(key, o, r)
    BY <2>2, <2>5, <2>7, KeyFound
  <2>9. Namespace(key) = Namespace(o) \/ Namespace(key) = ""
    BY <2>1, <2>8 DEF Finds
  <2>10. q.clustered \/ (Namespace(key) # "" /\ Namespace(o) = Namespace(key))
    BY <2>1, <2>2, <2>7, <2>9 DEF Available, Misscoped, Reference
  <2>11. Key(o, q) = Key(key, q) /\ ~Misscoped(o, q)
    BY <2>1, <2>10 DEF Key, Misscoped
  <2>. QED BY <2>7, <2>11 DEF Available
<1>. QED BY <1>2, <1>3

\* No wake-up is lost, whatever lags, is refused, fails or restarts: when nothing is under
\* way, an object that is Ready refers to objects that are, in the generations its status
\* records, and a page that borrows a navigation borrows one that is Ready (the watches of
\* every controller, MakeHandlerByReferencePath, the conflict of the deferred update).
THEOREM RestCorrect == Spec => []ReadyAtRest
<1>1. Init => RestInv
  <2>. SUFFICES ASSUME Init PROVE RestInv
    OBVIOUS
  <2>1. \A o \in Objects : api[o].generation = 1 /\ api[o].ready = "unset" /\ api[o].refs \in Choices[o]
    <3>1. \A m \in Made : m.generation = 1 /\ m.ready = "unset"
      BY DEF Made, Absent
    <3>. QED BY <3>1 DEF Init
  <2>2. /\ \A o \in Reconciled : o \in queue
        /\ \A k \in Kinds : work[k] = Idle
        /\ cache = api
    BY <2>1 DEF Init, Present, Reconciled
  <2>3. SingleInv
    BY <2>1, <2>2, OneOfAKind DEF SingleInv, Single, Idle, Absent
  <2>. QED BY <2>1, <2>2, <2>3, ResolvedInit DEF RestInv, Rest, Roused
<1>2. TypeOK /\ RestInv /\ [Next]_vars => RestInv'
  BY RestStep
<1>3. TypeOK /\ RestInv => ReadyAtRest
  BY RestReady
<1>. QED BY <1>1, <1>2, <1>3, ReferencesTypeCorrect, PTL DEF Spec
=============================================================================
