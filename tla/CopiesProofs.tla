----------------------------- MODULE CopiesProofs -----------------------------
(***************************************************************************)
(* Theorems about Copies, for any hosts, specs and names, however many of  *)
(* these mean the same copy.                                               *)
(***************************************************************************)
EXTENDS Copies, TLAPS

Copy == [owner : Hosts \cup {Nobody}, from : Translations \cup {None}]

HostsTypeOK ==
  /\ state \in [Hosts -> {"none", "here", "deleting", "gone"}]
  /\ spec \in [Hosts -> Seq(Translations)]
  /\ served \in [Hosts -> Seq(Names)] /\ ready \in [Hosts -> BOOLEAN]
  /\ queue \subseteq Hosts

CopiesTypeOK ==
  /\ copies \in [Names -> Copy] /\ cached \in [Names -> Copy]
  /\ events \in [Names -> SUBSET (Hosts \cup {Nobody})]

\* A running reconcile is of a host that is not gone.
WorkTypeOK ==
  work = Idle \/
    /\ work \in [on : Hosts, todo : Seq(Translations), names : Seq(Names)]
    /\ state[work.on] \in {"here", "deleting"}

TypeInv == HostsTypeOK /\ CopiesTypeOK /\ WorkTypeOK

\* A copy without events is in the cache; one with events has among them who owned it
\* when the cache got it and who owns it now.
SyncedInv ==
  \A n \in Names :
    IF events[n] = {} THEN cached[n] = copies[n]
    ELSE cached[n].owner \in events[n] /\ copies[n].owner \in events[n]

\* The copy of t for h is as h made it, or an event will tell h that it is not.
Kept(h, t) ==
  \/ copies[NameOf(h, t)] = [owner |-> h, from |-> t]
  \/ h \in events[NameOf(h, t)]

Wanted(h) == spec[h] \o <<Default>>

\* What a host that waits for its turn no more has made.
HostKept(h) ==
  state[h] = "here" /\ h \notin queue /\ work.on # h =>
    /\ ready[h] /\ served[h] = [i \in DOMAIN Wanted(h) |-> NameOf(h, Wanted(h)[i])]
    /\ \A i \in DOMAIN Wanted(h) : Kept(h, Wanted(h)[i])

\* What a reconcile has made, and has to make, of the spec it began with.
Progress(h, wanted, todo, names) ==
  /\ Len(names) + Len(todo) = Len(wanted)
  /\ \A i \in 1..Len(todo) : todo[i] = wanted[Len(names) + i]
  /\ \A i \in 1..Len(names) : names[i] = NameOf(h, wanted[i]) /\ Kept(h, wanted[i])

WorkKept ==
  work # Idle /\ work.on \notin queue =>
    Progress(work.on, Wanted(work.on), work.todo, work.names)

CopiesInv == TypeInv /\ SyncedInv /\ WorkKept /\ \A h \in Hosts : HostKept(h)

-----------------------------------------------------------------------------
(* Names and copies                                                        *)

LEMMA HostNames ==
  /\ Nobody \notin Hosts /\ Default \in Translations /\ Idle.on \notin Hosts
  /\ \A h \in Hosts, t \in Translations : NameOf(h, t) \in Names
  /\ NoCopy \in Copy /\ NoCopy.owner = Nobody
  /\ \A h \in Hosts, t \in Translations : [owner |-> h, from |-> t] \in Copy
<1>1. Nobody \notin Hosts
  BY CopiesAssumption DEF Nobody
<1>2. Default \in Translations
  BY DEF Translations
<1>3. \A h \in Hosts, t \in Translations : NameOf(h, t) \in Names
  BY DEF Names
<1>4. NoCopy \in Copy /\ NoCopy.owner = Nobody /\ Idle.on = Nobody
  BY DEF NoCopy, Copy, Idle
<1>. QED BY <1>1, <1>2, <1>3, <1>4 DEF Copy

\* All that a host is to copy, the default last.
LEMMA WantedType ==
  ASSUME HostsTypeOK, NEW h \in Hosts
  PROVE  Wanted(h) \in Seq(Translations) /\ DOMAIN Wanted(h) = 1..Len(Wanted(h))
BY HostNames DEF HostsTypeOK, Wanted

\* What is written is announced to the owner before and to the one after: a host whose
\* copy is replaced or deleted is told.
LEMMA WriteTells ==
  ASSUME CopiesTypeOK, SyncedInv, NEW new \in [Names -> Copy], Write(new), UNCHANGED cached
  PROVE  /\ CopiesTypeOK' /\ SyncedInv' /\ copies' = new
         /\ \A n \in Names : events[n] \subseteq events'[n]
         /\ \A h \in Hosts, t \in Translations : Kept(h, t) => Kept(h, t)'
<1>1. /\ copies' = new
      /\ events' = [n \in Names |-> IF new[n] = copies[n] THEN events[n]
                                    ELSE events[n] \cup {copies[n].owner, new[n].owner}]
  BY DEF Write
<1>2. \A n \in Names : copies[n].owner \in Hosts \cup {Nobody} /\ new[n].owner \in Hosts \cup {Nobody}
  BY DEF CopiesTypeOK, Copy
<1>3. CopiesTypeOK'
  BY <1>1, <1>2 DEF CopiesTypeOK
<1>4. \A n \in Names : events[n] \subseteq events'[n]
  BY <1>1
<1>5. SyncedInv'
  BY <1>1 DEF SyncedInv
<1>6. ASSUME NEW h \in Hosts, NEW t \in Translations, Kept(h, t) PROVE Kept(h, t)'
  <2>1. NameOf(h, t) \in Names
    BY HostNames
  <2>2. NameOf(h, t)' = NameOf(h, t)
    BY DEF NameOf
  <2>. HIDE DEF NameOf
  <2>. QED BY <1>1, <1>6, <2>1, <2>2 DEF Kept
<1>. QED BY <1>1, <1>3, <1>4, <1>5, <1>6

\* What a host that nothing happens to has made stays.
LEMMA HostStays ==
  ASSUME TypeInv, NEW h \in Hosts, HostKept(h),
         \A t \in Translations : Kept(h, t) => Kept(h, t)',
         state'[h] = state[h], spec'[h] = spec[h], served'[h] = served[h], ready'[h] = ready[h],
         h \notin queue' => h \notin queue, work'.on # h => work.on # h
  PROVE  HostKept(h)'
<1>1. /\ Wanted(h)' = Wanted(h) /\ \A i \in DOMAIN Wanted(h) : Wanted(h)[i] \in Translations
  BY WantedType DEF TypeInv, Wanted
<1>2. SUFFICES ASSUME state'[h] = "here", h \notin queue', work'.on # h
               PROVE  /\ ready'[h]
                      /\ served'[h] = [i \in DOMAIN Wanted(h) |-> NameOf(h, Wanted(h)[i])]
                      /\ \A i \in DOMAIN Wanted(h) : Kept(h, Wanted(h)[i])'
  <2>1. [i \in DOMAIN Wanted(h) |-> NameOf(h, Wanted(h)[i])]'
          = [i \in DOMAIN Wanted(h) |-> NameOf(h, Wanted(h)[i])]
    BY <1>1 DEF NameOf
  <2>2. (\A i \in DOMAIN Wanted(h) : Kept(h, Wanted(h)[i]))'
          <=> \A i \in DOMAIN Wanted(h) : Kept(h, Wanted(h)[i])'
    BY <1>1 DEF Kept, NameOf
  <2>. QED BY <1>2, <2>1, <2>2 DEF HostKept
<1>3. /\ ready[h] /\ served[h] = [i \in DOMAIN Wanted(h) |-> NameOf(h, Wanted(h)[i])]
      /\ \A i \in DOMAIN Wanted(h) : Kept(h, Wanted(h)[i])
  BY <1>2 DEF HostKept
<1>. QED BY <1>1, <1>3

\* So does what the running reconcile has made.
LEMMA ProgressStays ==
  ASSUME NEW h \in Hosts, NEW wanted \in Seq(Translations), NEW todo \in Seq(Translations),
         NEW names \in Seq(Names), Progress(h, wanted, todo, names),
         \A t \in Translations : Kept(h, t) => Kept(h, t)'
  PROVE  Progress(h, wanted, todo, names)'
<1>1. \A i \in 1..Len(names) : wanted[i] \in Translations
  <2>1. Len(names) \in Nat /\ Len(todo) \in Nat /\ Len(names) <= Len(wanted)
    BY DEF Progress
  <2>. QED BY <2>1
<1>2. \A i \in 1..Len(names) : Kept(h, wanted[i])'
  BY <1>1 DEF Progress
<1>. QED BY <1>2 DEF Progress, NameOf

\* A step that neither a reconcile nor a teardown takes: the queue grows, and for whom
\* something changes waits in it.
LEMMA OutsideKeeps ==
  ASSUME CopiesInv, HostsTypeOK', CopiesTypeOK', SyncedInv', UNCHANGED <<served, ready, work>>,
         queue \subseteq queue',
         \A h \in Hosts, t \in Translations :
           state[h] \in {"here", "deleting"} /\ Kept(h, t) => Kept(h, t)' \/ h \in queue',
         \A h \in Hosts : (state'[h] = state[h] /\ spec'[h] = spec[h]) \/ h \in queue',
         \A h \in Hosts : state[h] \in {"here", "deleting"} => state'[h] \in {"here", "deleting"}
  PROVE  CopiesInv'
<1>1. WorkTypeOK'
  BY DEF CopiesInv, TypeInv, WorkTypeOK
<1>2. ASSUME NEW h \in Hosts PROVE HostKept(h)'
  <2>1. CASE h \in queue'
    BY <2>1 DEF HostKept
  <2>2. CASE h \notin queue' /\ state[h] # "here"
    BY <2>2 DEF HostKept
  <2>3. CASE h \notin queue' /\ state[h] = "here"
    <3>1. \A t \in Translations : Kept(h, t) => Kept(h, t)'
      BY <2>3
    <3>. QED BY <2>3, <3>1, HostStays DEF CopiesInv
  <2>. QED BY <2>1, <2>2, <2>3
<1>3. WorkKept'
  <2>. SUFFICES ASSUME work # Idle, work.on \notin queue' PROVE WorkKept'
    BY DEF WorkKept
  <2>1. PICK h, W, w : h = work.on /\ W = Wanted(h) /\ w = work
    OBVIOUS
  <2>2. /\ h \in Hosts /\ W \in Seq(Translations)
        /\ w.todo \in Seq(Translations) /\ w.names \in Seq(Names)
    BY <2>1, WantedType DEF CopiesInv, TypeInv, WorkTypeOK
  <2>3. Progress(h, W, w.todo, w.names) /\ \A t \in Translations : Kept(h, t) => Kept(h, t)'
    <3>1. state[h] \in {"here", "deleting"}
      BY <2>1 DEF CopiesInv, TypeInv, WorkTypeOK
    <3>. QED BY <2>1, <2>2, <3>1 DEF CopiesInv, WorkKept
  <2>4. Progress(h, W, w.todo, w.names)'
    BY <2>2, <2>3, ProgressStays
  <2>5. h = work'.on /\ W = Wanted(h)' /\ w = work'
    BY <2>1, <2>2 DEF Wanted
  <2>. QED BY <2>4, <2>5 DEF WorkKept
<1>. QED BY <1>1, <1>2, <1>3 DEF CopiesInv, TypeInv

LEMMA DeliverKeeps ==
  ASSUME CopiesInv, NEW n \in Names, Deliver(n)
  PROVE  CopiesInv'
<1>0. HostsTypeOK /\ CopiesTypeOK /\ SyncedInv
  BY DEF CopiesInv, TypeInv
<1>1. /\ UNCHANGED <<state, spec, served, ready, copies, work>>
      /\ events' = [events EXCEPT ![n] = {}] /\ cached' = [cached EXCEPT ![n] = copies[n]]
      /\ queue' = queue \cup {h \in events[n] \ {Nobody} : state[h] \in {"here", "deleting"}}
  BY DEF Deliver
<1>2. HostsTypeOK' /\ CopiesTypeOK'
  BY <1>0, <1>1 DEF HostsTypeOK, CopiesTypeOK
<1>3. SyncedInv'
  BY <1>0, <1>1 DEF SyncedInv, CopiesTypeOK
<1>4. ASSUME NEW h \in Hosts, NEW t \in Translations, state[h] \in {"here", "deleting"}, Kept(h, t)
      PROVE  Kept(h, t)' \/ h \in queue'
  <2>1. NameOf(h, t) \in Names /\ NameOf(h, t)' = NameOf(h, t) /\ h # Nobody
    BY HostNames DEF NameOf
  <2>. HIDE DEF NameOf
  <2>. QED BY <1>0, <1>1, <1>4, <2>1 DEF Kept, CopiesTypeOK
<1>. QED BY <1>1, <1>2, <1>3, <1>4, OutsideKeeps

\* A step outside that writes copies.
LEMMA RemovedKeeps ==
  ASSUME CopiesInv, NEW n \in Names, RemoveCopy(n) \/ Collect(n)
  PROVE  CopiesInv'
<1>0. HostsTypeOK /\ CopiesTypeOK /\ SyncedInv
  BY DEF CopiesInv, TypeInv
<1>1. /\ Write([copies EXCEPT ![n] = NoCopy])
      /\ UNCHANGED <<state, spec, served, ready, cached, queue, work>>
  BY DEF RemoveCopy, Collect
<1>2. [copies EXCEPT ![n] = NoCopy] \in [Names -> Copy]
  BY <1>0, HostNames DEF CopiesTypeOK
<1>3. HostsTypeOK'
  BY <1>0, <1>1 DEF HostsTypeOK
<1>. QED BY <1>0, <1>1, <1>2, <1>3, WriteTells, OutsideKeeps

\* What users do to a host puts it in the queue.
LEMMA UserKeeps ==
  ASSUME CopiesInv, NEW h \in Hosts, Create(h) \/ Edit(h) \/ Delete(h)
  PROVE  CopiesInv'
<1>0. HostsTypeOK /\ CopiesTypeOK /\ SyncedInv
  BY DEF CopiesInv, TypeInv
<1>1. /\ queue' = queue \cup {h} /\ UNCHANGED <<served, ready, copies, cached, events, work>>
      /\ \/ spec' = spec /\ \E x \in {"here", "deleting"} : state' = [state EXCEPT ![h] = x]
         \/ state' = state /\ \E c \in SpecsOf[h] : spec' = [spec EXCEPT ![h] = c]
  BY DEF Create, Edit, Delete
<1>2. HostsTypeOK'
  BY <1>0, <1>1, CopiesAssumption DEF HostsTypeOK
<1>3. CopiesTypeOK' /\ SyncedInv' /\ \A g \in Hosts, t \in Translations : Kept(g, t) => Kept(g, t)'
  BY <1>0, <1>1 DEF CopiesTypeOK, SyncedInv, Kept, NameOf
<1>4. \A g \in Hosts : (state'[g] = state[g] /\ spec'[g] = spec[g]) \/ g \in queue'
  BY <1>0, <1>1 DEF HostsTypeOK
<1>5. \A g \in Hosts : state[g] \in {"here", "deleting"} => state'[g] \in {"here", "deleting"}
  BY <1>0, <1>1 DEF HostsTypeOK
<1>. QED BY <1>1, <1>2, <1>3, <1>4, <1>5, OutsideKeeps

\* A reconcile begins with all that its host wants to do.
LEMMA BeginKeeps ==
  ASSUME CopiesInv, NEW h \in Hosts, Begin(h)
  PROVE  CopiesInv'
<1>0. HostsTypeOK /\ CopiesTypeOK /\ SyncedInv
  BY DEF CopiesInv, TypeInv
<1>1. /\ UNCHANGED <<state, spec, served, ready, copies, cached, events>>
      /\ queue' = queue \ {h} /\ work = Idle /\ state[h] = "here"
      /\ work' = [on |-> h, todo |-> Wanted(h), names |-> <<>>]
  BY DEF Begin, Wanted
<1>2. TypeInv' /\ SyncedInv'
  BY <1>0, <1>1, WantedType DEF TypeInv, HostsTypeOK, CopiesTypeOK, SyncedInv, WorkTypeOK
<1>3. \A g \in Hosts, t \in Translations : Kept(g, t) => Kept(g, t)'
  BY <1>1 DEF Kept, NameOf
<1>4. ASSUME NEW g \in Hosts PROVE HostKept(g)'
  <2>1. CASE g = h
    BY <1>1, <2>1 DEF HostKept
  <2>2. CASE g # h
    <3>1. work.on # g
      BY <1>1, HostNames
    <3>. QED BY <1>1, <1>3, <2>2, <3>1, HostStays DEF CopiesInv
  <2>. QED BY <2>1, <2>2
<1>5. WorkKept'
  <2>1. PICK W : W = Wanted(h) /\ W \in Seq(Translations)
    BY <1>0, WantedType
  <2>2. Progress(h, W, W, <<>>)'
    BY <2>1 DEF Progress
  <2>3. work'.on = h /\ W = Wanted(h)' /\ work'.todo = W /\ work'.names = <<>>
    BY <1>1, <2>1 DEF Wanted
  <2>. QED BY <2>2, <2>3 DEF WorkKept
<1>. QED BY <1>2, <1>4, <1>5 DEF CopiesInv

\* What a reconcile does with the next translation: its copy is there or is written,
\* or the reconcile ends with an error.
LEMMA CopyNextSteps ==
  ASSUME CopiesInv, CopyNext
  PROVE  LET h == work.on
             t == Head(work.todo)
             n == NameOf(h, t)
             c == [owner |-> h, from |-> t]
         IN /\ h \in Hosts /\ t \in Translations /\ n \in Names /\ c \in Copy
            /\ work.todo \in Seq(Translations) /\ work.todo # <<>> /\ work.names \in Seq(Names)
            /\ work # Idle /\ state[h] \in {"here", "deleting"}
            /\ UNCHANGED <<state, spec, served, cached>>
            /\ \/ /\ \/ cached[n] = c /\ UNCHANGED <<copies, events>>
                     \/ /\ events[n] = {} /\ copies[n].owner \in {h, Nobody}
                        /\ Write([copies EXCEPT ![n] = c])
                  /\ work' = [work EXCEPT !.todo = Tail(@), !.names = Append(@, n)]
                  /\ UNCHANGED <<ready, queue>>
               \/ /\ work' = Idle /\ queue' = queue \cup {h} /\ ready' = [ready EXCEPT ![h] = FALSE]
                  /\ UNCHANGED <<copies, events>>
<1>. DEFINE h == work.on
            t == Head(work.todo)
            n == NameOf(h, t)
            c == [owner |-> h, from |-> t]
<1>1. work # Idle
  BY DEF CopyNext, Idle
<1>2. /\ h \in Hosts /\ state[h] \in {"here", "deleting"} /\ work.names \in Seq(Names)
      /\ work.todo \in Seq(Translations) /\ work.todo # <<>>
  BY <1>1 DEF CopyNext, CopiesInv, TypeInv, WorkTypeOK
<1>3. t \in Translations
  BY <1>2
<1>4. n \in Names /\ c \in Copy
  BY <1>2, <1>3, HostNames
<1>5. events[n] = {} => cached[n] = copies[n]
  BY <1>4 DEF CopiesInv, SyncedInv
<1>. HIDE DEF h, t, n, c
<1>6. \/ /\ \/ cached[n] = c /\ UNCHANGED <<copies, events>>
            \/ /\ events[n] = {} /\ cached[n].owner \in {h, Nobody}
               /\ Write([copies EXCEPT ![n] = c])
         /\ work' = [work EXCEPT !.todo = Tail(@), !.names = Append(@, n)]
         /\ UNCHANGED <<ready, queue>>
      \/ /\ work' = Idle /\ queue' = queue \cup {h} /\ ready' = [ready EXCEPT ![h] = FALSE]
         /\ UNCHANGED <<copies, events>>
  BY DEF CopyNext, AlreadyOwned, Outdated, Retried, h, t, n, c
<1>7. UNCHANGED <<state, spec, served, cached>>
  BY DEF CopyNext
<1>. QED BY <1>1, <1>2, <1>3, <1>4, <1>5, <1>6, <1>7 DEF h, t, n, c

LEMMA CopyNextKeeps ==
  ASSUME CopiesInv, CopyNext
  PROVE  CopiesInv'
<1>0. PICK h, t, n, c : h = work.on /\ t = Head(work.todo) /\ n = NameOf(h, t)
                        /\ c = [owner |-> h, from |-> t]
  OBVIOUS
<1>1. /\ h \in Hosts /\ t \in Translations /\ n \in Names /\ c \in Copy
      /\ work.todo \in Seq(Translations) /\ work.todo # <<>> /\ work.names \in Seq(Names)
      /\ work # Idle /\ state[h] \in {"here", "deleting"}
      /\ UNCHANGED <<state, spec, served, cached>>
      /\ HostsTypeOK /\ CopiesTypeOK /\ SyncedInv
  BY <1>0, CopyNextSteps DEF CopiesInv, TypeInv
<1>2. CASE /\ \/ cached[n] = c /\ UNCHANGED <<copies, events>>
              \/ events[n] = {} /\ Write([copies EXCEPT ![n] = c])
           /\ work' = [work EXCEPT !.todo = Tail(@), !.names = Append(@, n)]
           /\ UNCHANGED <<ready, queue>>
  <2>1. [copies EXCEPT ![n] = c] \in [Names -> Copy]
    BY <1>1 DEF CopiesTypeOK
  <2>2. /\ CopiesTypeOK' /\ SyncedInv'
        /\ \A g \in Hosts, u \in Translations : Kept(g, u) => Kept(g, u)'
    <3>1. CASE UNCHANGED <<copies, events>>
      BY <1>1, <3>1 DEF CopiesTypeOK, SyncedInv, Kept, NameOf
    <3>2. CASE Write([copies EXCEPT ![n] = c])
      BY <1>1, <2>1, <3>2, WriteTells
    <3>. QED BY <1>2, <3>1, <3>2
  <2>3. Kept(h, t)'
    <3>1. CASE UNCHANGED <<copies, events>> /\ cached[n] = c
      <4>1. copies[n] = c \/ c.owner \in events[n]
        BY <1>1, <3>1 DEF SyncedInv
      <4>2. c.owner = h
        BY <1>0
      <4>. QED BY <1>0, <3>1, <4>1, <4>2 DEF Kept, NameOf
    <3>2. CASE Write([copies EXCEPT ![n] = c])
      BY <1>0, <1>1, <3>2 DEF Write, CopiesTypeOK, Kept, NameOf
    <3>. QED BY <1>2, <3>1, <3>2
  <2>4. /\ work' = [on |-> h, todo |-> Tail(work.todo), names |-> Append(work.names, n)]
        /\ Tail(work.todo) \in Seq(Translations) /\ Append(work.names, n) \in Seq(Names)
    <3>1. work \in [on : Hosts, todo : Seq(Translations), names : Seq(Names)]
      BY <1>1 DEF CopiesInv, TypeInv, WorkTypeOK
    <3>2. PICK more, made : more = Tail(work.todo) /\ made = Append(work.names, n)
      OBVIOUS
    <3>3. work' = [work EXCEPT !.todo = more, !.names = made]
      BY <1>2, <3>2
    <3>4. more \in Seq(Translations) /\ made \in Seq(Names)
      BY <1>1, <3>2
    <3>. QED BY <1>0, <3>1, <3>2, <3>3, <3>4
  <2>5. TypeInv'
    <3>1. WorkTypeOK'
      <4>1. PICK more, made : more = Tail(work.todo) /\ made = Append(work.names, n)
        OBVIOUS
      <4>. QED BY <1>1, <2>4, <4>1 DEF WorkTypeOK
    <3>2. HostsTypeOK'
      BY <1>1, <1>2 DEF HostsTypeOK
    <3>. QED BY <2>2, <3>1, <3>2 DEF TypeInv
  <2>6. ASSUME NEW g \in Hosts PROVE HostKept(g)'
    <3>1. work'.on = work.on
      BY <1>0, <2>4
    <3>. QED BY <1>1, <1>2, <2>2, <3>1, HostStays DEF CopiesInv
  <2>7. WorkKept'
    <3>. SUFFICES ASSUME work'.on \notin queue' PROVE WorkKept'
      BY DEF WorkKept
    <3>0. work'.on = h /\ h \notin queue
      <4>1. work'.on = h
        BY <2>4
      <4>2. queue' = queue
        BY <1>2
      <4>. QED BY <4>1, <4>2
    <3>1. PICK W, todo, names : W = Wanted(h) /\ todo = work.todo /\ names = work.names
      OBVIOUS
    <3>2. /\ W \in Seq(Translations) /\ todo \in Seq(Translations) /\ names \in Seq(Names)
          /\ todo # <<>> /\ W = Wanted(h)' /\ t = Head(todo)
          /\ work'.todo = Tail(todo) /\ work'.names = Append(names, n)
      BY <1>0, <1>1, <2>4, <3>1, WantedType DEF Wanted
    <3>3. Progress(h, W, todo, names)
      BY <1>0, <1>1, <3>0, <3>1 DEF CopiesInv, WorkKept
    <3>4. Progress(h, W, todo, names)'
      BY <1>1, <2>2, <3>2, <3>3, ProgressStays
    <3>5. t = W[Len(names) + 1] /\ Len(todo) \in Nat \ {0} /\ Len(names) \in Nat
      <4>1. Len(todo) \in Nat \ {0} /\ Len(names) \in Nat /\ t = todo[1]
        BY <3>2
      <4>. QED BY <3>3, <4>1 DEF Progress
    <3>6. Len(Append(names, n)) + Len(Tail(todo)) = Len(W)
      BY <3>2, <3>3, <3>5 DEF Progress
    <3>7. ASSUME NEW i \in 1..Len(Tail(todo)) PROVE Tail(todo)[i] = W[Len(Append(names, n)) + i]
      <4>1. Tail(todo)[i] = todo[i + 1] /\ i + 1 \in 1..Len(todo) /\ Len(Append(names, n)) = Len(names) + 1
        BY <3>2, <3>5
      <4>2. todo[i + 1] = W[Len(names) + (i + 1)]
        BY <3>3, <4>1 DEF Progress
      <4>3. Len(names) + (i + 1) = (Len(names) + 1) + i
        BY <3>5
      <4>. QED BY <4>1, <4>2, <4>3
    <3>8. ASSUME NEW i \in 1..Len(Append(names, n))
          PROVE  Append(names, n)[i] = NameOf(h, W[i]) /\ Kept(h, W[i])'
      <4>1. CASE i \in 1..Len(names)
        <5>1. Append(names, n)[i] = names[i]
          BY <3>2, <4>1
        <5>. QED BY <3>4, <4>1, <5>1 DEF Progress, NameOf
      <4>2. CASE i = Len(names) + 1
        <5>1. Append(names, n)[i] = n
          BY <3>2, <4>2
        <5>2. W[i] = t
          BY <3>5, <4>2
        <5>. QED BY <1>0, <2>3, <5>1, <5>2
      <4>. QED BY <3>2, <4>1, <4>2
    <3>9. Progress(h, W, Tail(todo), Append(names, n))'
      BY <3>6, <3>7, <3>8 DEF Progress, NameOf
    <3>. QED BY <3>0, <3>2, <3>9 DEF WorkKept
  <2>. QED BY <2>2, <2>5, <2>6, <2>7 DEF CopiesInv
<1>3. CASE /\ work' = Idle /\ queue' = queue \cup {h} /\ ready' = [ready EXCEPT ![h] = FALSE]
           /\ UNCHANGED <<copies, events>>
  <2>1. TypeInv' /\ SyncedInv'
    BY <1>1, <1>3 DEF TypeInv, HostsTypeOK, CopiesTypeOK, SyncedInv, WorkTypeOK
  <2>2. \A g \in Hosts, u \in Translations : Kept(g, u) => Kept(g, u)'
    BY <1>3 DEF Kept, NameOf
  <2>3. ASSUME NEW g \in Hosts PROVE HostKept(g)'
    <3>1. CASE g = h
      BY <1>3, <3>1 DEF HostKept
    <3>2. CASE g # h
      BY <1>0, <1>1, <1>3, <2>2, <3>2, HostStays DEF CopiesInv, HostsTypeOK
    <3>. QED BY <3>1, <3>2
  <2>. QED BY <1>3, <2>1, <2>3 DEF CopiesInv, WorkKept
<1>. QED BY <1>0, <1>2, <1>3, CopyNextSteps

\* A reconcile that has made all copies serves what its host wants.
LEMMA ServeKeeps ==
  ASSUME CopiesInv, Serve
  PROVE  CopiesInv'
<1>0. PICK h, w, W : h = work.on /\ w = work /\ W = Wanted(h)
  OBVIOUS
<1>1. /\ h \in Hosts /\ w.names \in Seq(Names) /\ HostsTypeOK /\ CopiesTypeOK /\ SyncedInv
      /\ served' = [served EXCEPT ![h] = w.names] /\ ready' = [ready EXCEPT ![h] = TRUE]
      /\ work # Idle /\ work' = Idle /\ w.todo = <<>>
      /\ UNCHANGED <<state, spec, copies, cached, events, queue>>
  BY <1>0 DEF Serve, CopiesInv, TypeInv, WorkTypeOK
<1>2. TypeInv' /\ SyncedInv'
  BY <1>1 DEF TypeInv, HostsTypeOK, CopiesTypeOK, SyncedInv, WorkTypeOK
<1>3. \A g \in Hosts, u \in Translations : Kept(g, u) => Kept(g, u)'
  BY <1>1 DEF Kept, NameOf
<1>4. ASSUME NEW g \in Hosts, g # h PROVE HostKept(g)'
  BY <1>0, <1>1, <1>3, <1>4, HostStays DEF CopiesInv, HostsTypeOK
<1>5. HostKept(h)'
  <2>. SUFFICES ASSUME h \notin queue PROVE HostKept(h)'
    BY <1>1 DEF HostKept
  <2>1. Progress(h, W, <<>>, w.names) /\ W \in Seq(Translations) /\ DOMAIN W = 1..Len(W)
    BY <1>0, <1>1, WantedType DEF CopiesInv, WorkKept
  <2>2. Len(w.names) = Len(W) /\ Len(w.names) \in Nat
    BY <1>1, <2>1 DEF Progress
  <2>3. \A i \in DOMAIN W : w.names[i] = NameOf(h, W[i]) /\ Kept(h, W[i])
    BY <2>1, <2>2 DEF Progress
  <2>4. w.names = [i \in DOMAIN W |-> NameOf(h, W[i])]
    <3>. HIDE DEF NameOf
    <3>1. DOMAIN w.names = DOMAIN W /\ w.names = [i \in DOMAIN w.names |-> w.names[i]]
      BY <1>1, <2>1, <2>2
    <3>. QED BY <2>3, <3>1, Zenon
  <2>5. \A i \in DOMAIN W : Kept(h, W[i])'
    BY <1>3, <1>1, <2>1, <2>3
  <2>6. ready'[h] /\ served'[h] = w.names /\ W = Wanted(h)'
    BY <1>0, <1>1 DEF HostsTypeOK, Wanted
  <2>. QED BY <2>4, <2>5, <2>6 DEF HostKept, NameOf, Kept
<1>. QED BY <1>1, <1>2, <1>4, <1>5 DEF CopiesInv, WorkKept

\* A teardown is of a host that is served no more; others are told if it deletes theirs.
LEMMA TearDownKeeps ==
  ASSUME CopiesInv, NEW h \in Hosts, TearDown(h)
  PROVE  CopiesInv'
<1>0. /\ HostsTypeOK /\ CopiesTypeOK /\ SyncedInv /\ work = Idle /\ state[h] = "deleting"
      /\ UNCHANGED <<spec, served, ready, cached, work>>
  BY DEF TearDown, CopiesInv, TypeInv
<1>1. CASE /\ Write([n \in Names |-> IF n \in Torn(h) THEN NoCopy ELSE copies[n]])
           /\ UNCHANGED <<state, queue>>
  <2>1. [n \in Names |-> IF n \in Torn(h) THEN NoCopy ELSE copies[n]] \in [Names -> Copy]
    BY <1>0, HostNames DEF CopiesTypeOK
  <2>2. /\ CopiesTypeOK' /\ SyncedInv'
        /\ \A g \in Hosts, u \in Translations : Kept(g, u) => Kept(g, u)'
    BY <1>0, <1>1, <2>1, WriteTells
  <2>3. HostsTypeOK' /\ WorkTypeOK'
    BY <1>0, <1>1 DEF HostsTypeOK, WorkTypeOK
  <2>4. \A g \in Hosts : HostKept(g)'
    BY <1>0, <1>1, <2>2, HostStays DEF CopiesInv
  <2>. QED BY <1>0, <2>2, <2>3, <2>4 DEF CopiesInv, TypeInv, WorkKept
<1>2. CASE /\ state' = [state EXCEPT ![h] = "gone"] /\ queue' = queue \ {h}
           /\ UNCHANGED <<copies, events>>
  <2>1. TypeInv' /\ SyncedInv'
    BY <1>0, <1>2 DEF TypeInv, HostsTypeOK, CopiesTypeOK, WorkTypeOK, SyncedInv
  <2>2. \A g \in Hosts, u \in Translations : Kept(g, u) => Kept(g, u)'
    BY <1>2 DEF Kept, NameOf
  <2>3. ASSUME NEW g \in Hosts PROVE HostKept(g)'
    <3>1. CASE g = h
      BY <1>0, <1>2, <3>1 DEF HostKept, HostsTypeOK
    <3>2. CASE g # h
      BY <1>0, <1>2, <2>2, <3>2, HostStays DEF CopiesInv, HostsTypeOK
    <3>. QED BY <3>1, <3>2
  <2>. QED BY <1>0, <2>1, <2>3 DEF CopiesInv, WorkKept
<1>. QED BY <1>1, <1>2 DEF TearDown

-----------------------------------------------------------------------------
(* The theorems                                                            *)

LEMMA CopiesInit ==
  ASSUME Init
  PROVE  CopiesInv
<1>1. HostsTypeOK
  <2>1. \A h \in Hosts : SpecsOf[h] \subseteq Seq(Translations)
    BY CopiesAssumption
  <2>2. spec \in [Hosts -> Seq(Translations)]
    BY <2>1 DEF Init
  <2>3. <<>> \in Seq(Names)
    OBVIOUS
  <2>. QED BY <2>2, <2>3 DEF Init, HostsTypeOK
<1>2. CopiesTypeOK /\ WorkTypeOK /\ SyncedInv
  BY HostNames DEF Init, CopiesTypeOK, WorkTypeOK, SyncedInv
<1>3. WorkKept /\ \A h \in Hosts : HostKept(h)
  BY DEF Init, WorkKept, HostKept
<1>. QED BY <1>1, <1>2, <1>3 DEF CopiesInv, TypeInv

LEMMA CopiesStep ==
  ASSUME CopiesInv, [Next]_vars
  PROVE  CopiesInv'
<1>1. CASE UNCHANGED vars
  <2>1. TypeInv' /\ SyncedInv'
    BY <1>1 DEF vars, CopiesInv, TypeInv, HostsTypeOK, CopiesTypeOK, WorkTypeOK, SyncedInv
  <2>2. \A h \in Hosts, t \in Translations : Kept(h, t) => Kept(h, t)'
    BY <1>1 DEF vars, Kept, NameOf
  <2>. QED BY <1>1, <2>1, <2>2, OutsideKeeps DEF vars, TypeInv
<1>. QED BY <1>1, BeginKeeps, CopyNextKeeps, ServeKeeps, TearDownKeeps, DeliverKeeps,
            RemovedKeeps, UserKeeps DEF Next

\* A copy never passes from one host to another, whatever versions of it the cache has
\* missed when a reconcile decides to write it: it is written only when the cache has it
\* as it is, and then only for its owner (SetControllerReference, CreateOrUpdate).
THEOREM OwnerCorrect == Spec => NeverTakenOver
<1>1. CopiesInv /\ [Next]_vars =>
        [\A n \in Names :
           copies[n].owner # Nobody /\ copies'[n].owner # Nobody =>
             copies'[n].owner = copies[n].owner]_vars
  <2>. SUFFICES ASSUME CopiesInv, [Next]_vars, NEW m \in Names,
                       copies[m].owner # Nobody, copies'[m].owner # Nobody
                PROVE  copies'[m].owner = copies[m].owner
    OBVIOUS
  <2>1. copies \in [Names -> Copy] /\ NoCopy.owner = Nobody
    BY HostNames DEF CopiesInv, TypeInv, CopiesTypeOK
  <2>2. CASE UNCHANGED copies
    BY <2>2
  <2>3. ASSUME NEW n \in Names, RemoveCopy(n) \/ Collect(n)
        PROVE  copies'[m].owner = copies[m].owner
    BY <2>1, <2>3 DEF RemoveCopy, Collect, Write
  <2>4. ASSUME NEW h \in Hosts, TearDown(h)
        PROVE  copies'[m].owner = copies[m].owner
    BY <2>1, <2>4 DEF TearDown, Write
  <2>5. CASE CopyNext
    <3>1. PICK h, t, n, c : h = work.on /\ t = Head(work.todo) /\ n = NameOf(h, t)
                            /\ c = [owner |-> h, from |-> t]
      OBVIOUS
    <3>2. \/ UNCHANGED copies
          \/ copies[n].owner \in {h, Nobody} /\ Write([copies EXCEPT ![n] = c])
      BY <2>5, <3>1, CopyNextSteps
    <3>. QED BY <2>1, <3>1, <3>2 DEF Write
  <2>6. UNCHANGED copies \/ CopyNext \/ (\E h \in Hosts : TearDown(h))
        \/ \E n \in Names : RemoveCopy(n) \/ Collect(n)
    BY DEF Next, vars, Begin, Create, Edit, Delete, Serve, Deliver
  <2>. QED BY <2>2, <2>3, <2>4, <2>5, <2>6
<1>. QED BY <1>1, CopiesInit, CopiesStep, PTL DEF Spec, NeverTakenOver

\* A host that nothing will reconcile again is served just the copies that its spec names,
\* each its own, however many hosts, or names of one spec, mean the same copy: whoever
\* loses a copy is told of it (the watch of owned objects), and a refusal is an error.
THEOREM ServedCorrect == Spec => []ServedAtRest
<1>1. CopiesInv => ServedAtRest
  <2>. SUFFICES ASSUME CopiesInv, NEW h \in Hosts, state[h] = "here", h \notin queue, work.on # h,
                       \A n \in Names : h \notin events[n]
                PROVE  /\ ready[h] /\ served[h] = [i \in DOMAIN Wanted(h) |-> NameOf(h, Wanted(h)[i])]
                       /\ \A i \in DOMAIN Wanted(h) :
                            copies[served[h][i]] = [owner |-> h, from |-> Wanted(h)[i]]
    BY DEF ServedAtRest, Wanted
  <2>1. PICK W : W = Wanted(h) /\ \A i \in DOMAIN W : W[i] \in Translations
    BY WantedType DEF CopiesInv, TypeInv
  <2>2. /\ ready[h] /\ served[h] = [i \in DOMAIN W |-> NameOf(h, W[i])]
        /\ \A i \in DOMAIN W : Kept(h, W[i])
    BY <2>1 DEF CopiesInv, HostKept
  <2>3. ASSUME NEW i \in DOMAIN W PROVE copies[served[h][i]] = [owner |-> h, from |-> W[i]]
    <3>1. served[h][i] = NameOf(h, W[i]) /\ NameOf(h, W[i]) \in Names
      BY <2>1, <2>2, HostNames
    <3>. QED BY <2>2, <3>1 DEF Kept
  <2>. QED BY <2>1, <2>2, <2>3
<1>. QED BY <1>1, CopiesInit, CopiesStep, PTL DEF Spec
=============================================================================
