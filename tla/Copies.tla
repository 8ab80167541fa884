------------------------------- MODULE Copies -------------------------------
(***************************************************************************)
(* Several hosts of a namespace and the copies of translations they make.  *)
(* A copy is called after the host and the translation with a dash between *)
(* them, so that two hosts, or the two scopes of one translation, may mean *)
(* the same copy.  A name is the sequence of its parts between dashes.     *)
(*                                                                         *)
(* One worker takes the hosts in turn and reads copies through a cache.    *)
(* All translations are there and ready; everything else a host needs is   *)
(* in KDexHost.                                                            *)
(***************************************************************************)
EXTENDS Naturals, Sequences, SequencesExt

CONSTANTS
  Hosts,        \* names of hosts
  SpecsOf,      \* SpecsOf[h]: the sequences of translations h's spec may name
  Default,      \* the default translation, which every host copies last
  MaxChanges    \* bound: what users do

Scopes       == {"namespace", "cluster"}
Translations == (UNION {ToSet(c) : c \in UNION {SpecsOf[h] : h \in Hosts}}) \cup {Default}

ASSUME CopiesAssumption ==
  /\ Hosts \subseteq Seq(STRING) \ {<<>>}
  /\ \A t \in Translations : t[1] \in Scopes /\ t[2] \in Seq(STRING)
  /\ \A h \in Hosts : SpecsOf[h] \subseteq Seq(Translations)
  /\ MaxChanges \in Nat

\* The name of the internal translation of host h for the translation t.
NameOf(h, t) == h \o t[2]
Names        == {NameOf(h, t) : h \in Hosts, t \in Translations}

Nobody == <<>>
None   == <<"none", <<>>>>

\* owner: the controller reference, and with it spec.hostRef
NoCopy == [owner |-> Nobody, from |-> None]

VARIABLES
  state,   \* of a host: "none", "here", "deleting" (with the finalizer), "gone"
  spec,    \* the translations it names
  served,  \* the copies its internal host names
  ready,   \* its Ready condition
  copies, cached,
  events,  \* of a copy: the owners in versions the cache has yet to get
  queue,   \* hosts in the work queue, or to be put there after a delay
  work,    \* the host the worker is at, translations to copy, names of the copies
  changes

vars == <<state, spec, served, ready, copies, cached, events, queue, work, changes>>

Idle   == [on |-> Nobody, todo |-> <<>>, names |-> <<>>]

Init ==
  /\ state = [h \in Hosts |-> "none"] /\ spec \in [Hosts -> UNION {SpecsOf[h] : h \in Hosts}]
  /\ \A h \in Hosts : spec[h] \in SpecsOf[h]
  /\ served = [h \in Hosts |-> <<>>] /\ ready = [h \in Hosts |-> FALSE]
  /\ copies = [n \in Names |-> NoCopy] /\ cached = copies
  /\ events = [n \in Names |-> {}]
  /\ queue = {} /\ work = Idle /\ changes = 0

Outdated(n) == events[n] # {}

\* Copies are written, replaced or deleted; a watch leaves no version out.
Write(new) ==
  /\ copies' = new
  /\ events' = [n \in Names |-> IF new[n] = copies[n] THEN events[n]
                                ELSE events[n] \cup {copies[n].owner, new[n].owner}]

-----------------------------------------------------------------------------
(* The reconciler                                                          *)

\* A host that is there has all its translations and the default to copy, a
\* deleted one its copies to delete.
Begin(h) ==
  /\ work = Idle /\ h \in queue /\ state[h] = "here"
  /\ queue' = queue \ {h}
  /\ work' = [on |-> h, todo |-> spec[h] \o <<Default>>, names |-> <<>>]
  /\ UNCHANGED <<state, spec, served, ready, copies, cached, events, changes>>

\* Mutant: the owner of a copy is overwritten.
NeverOwned(h, c) == FALSE

\* SetControllerReference refuses a copy that has another controller.
AlreadyOwned(h, c) == c.owner \notin {h, Nobody}

\* Mutant: an error is not tried again.
NotRetried(h) == queue

Retried(h) == queue \cup {h}

\* resolveTranslations for the next translation, and CreateOrUpdate for its copy.
CopyNext ==
  LET h == work.on
      t == Head(work.todo)
      n == NameOf(h, t)
      c == [owner |-> h, from |-> t]
  IN /\ work.todo # <<>>
     /\ \/ /\ ~AlreadyOwned(h, cached[n]) /\ (cached[n] = c \/ ~Outdated(n))
           /\ IF cached[n] = c THEN UNCHANGED <<copies, events>>
              ELSE Write([copies EXCEPT ![n] = c])
           /\ work' = [work EXCEPT !.todo = Tail(@), !.names = Append(@, n)]
           /\ UNCHANGED <<ready, queue>>
        \/ /\ AlreadyOwned(h, cached[n]) \/ (cached[n] # c /\ Outdated(n))
           /\ work' = Idle /\ queue' = Retried(h) /\ ready' = [ready EXCEPT ![h] = FALSE]
           /\ UNCHANGED <<copies, events>>
     /\ UNCHANGED <<state, spec, served, cached, changes>>

\* The internal host gets the names of the copies.
Serve ==
  /\ work # Idle /\ work.todo = <<>>
  /\ served' = [served EXCEPT ![work.on] = work.names]
  /\ ready' = [ready EXCEPT ![work.on] = TRUE]
  /\ work' = Idle
  /\ UNCHANGED <<state, spec, copies, cached, events, queue, changes>>

\* Mutant: the copies that the specs of all hosts name are kept.
TornUnnamed(h) ==
  {n \in Names : cached[n].owner = h /\ ~\E g \in Hosts : \E t \in ToSet(spec[g]) : n = NameOf(g, t)}

\* Those the index of spec.hostRef.name lists.
Torn(h) == {n \in Names : cached[n].owner = h}

\* The teardown deletes the copies it sees until it sees none.
TearDown(h) ==
  /\ work = Idle /\ h \in queue /\ state[h] = "deleting"
  /\ IF \E n \in Names : cached[n].owner = h
       THEN /\ Write([n \in Names |-> IF n \in Torn(h) THEN NoCopy ELSE copies[n]])
            /\ UNCHANGED <<state, queue>>
       ELSE /\ state' = [state EXCEPT ![h] = "gone"] /\ queue' = queue \ {h}
            /\ UNCHANGED <<copies, events>>
  /\ UNCHANGED <<spec, served, ready, cached, work, changes>>

\* The informer delivers the state of a copy; its events enqueue the
\* owners before and after.
Deliver(n) ==
  /\ Outdated(n) /\ events' = [events EXCEPT ![n] = {}]
  /\ cached' = [cached EXCEPT ![n] = copies[n]]
  /\ queue' = queue \cup {h \in events[n] \ {Nobody} : state[h] \in {"here", "deleting"}}
  /\ UNCHANGED <<state, spec, served, ready, copies, work, changes>>

-----------------------------------------------------------------------------
(* Users and the garbage collector                                         *)

Change == changes < MaxChanges /\ changes' = changes + 1

Create(h) ==
  /\ state[h] = "none" /\ state' = [state EXCEPT ![h] = "here"]
  /\ queue' = queue \cup {h}
  /\ UNCHANGED <<spec, served, ready, copies, cached, events, work, changes>>

Edit(h) ==
  /\ state[h] = "here" /\ Change
  /\ \E c \in SpecsOf[h] \ {spec[h]} : spec' = [spec EXCEPT ![h] = c]
  /\ queue' = queue \cup {h}
  /\ UNCHANGED <<state, served, ready, copies, cached, events, work>>

Delete(h) ==
  /\ state[h] = "here" /\ Change
  /\ state' = [state EXCEPT ![h] = "deleting"] /\ queue' = queue \cup {h}
  /\ UNCHANGED <<spec, served, ready, copies, cached, events, work>>

\* Somebody deletes a copy.
RemoveCopy(n) ==
  /\ copies[n] # NoCopy /\ Change
  /\ Write([copies EXCEPT ![n] = NoCopy])
  /\ UNCHANGED <<state, spec, served, ready, cached, queue, work>>

\* The copy of a host that is gone goes as well.
Collect(n) ==
  /\ copies[n].owner # Nobody /\ state[copies[n].owner] = "gone"
  /\ Write([copies EXCEPT ![n] = NoCopy])
  /\ UNCHANGED <<state, spec, served, ready, cached, queue, work, changes>>

Next ==
  \/ \E h \in Hosts : Begin(h) \/ TearDown(h) \/ Create(h) \/ Edit(h) \/ Delete(h)
  \/ CopyNext \/ Serve
  \/ \E n \in Names : Deliver(n) \/ RemoveCopy(n) \/ Collect(n)

\* The worker takes every host that waits, which queues behind others.
Fairness ==
  /\ \A h \in Hosts : SF_vars(Begin(h)) /\ SF_vars(TearDown(h))
  /\ WF_vars(CopyNext) /\ WF_vars(Serve)
  /\ \A n \in Names : WF_vars(Deliver(n)) /\ WF_vars(Collect(n))

Spec     == Init /\ [][Next]_vars
FairSpec == Spec /\ Fairness

-----------------------------------------------------------------------------
(* Properties                                                              *)

\* A copy does not pass from one host to another: it is deleted in between, although
\* the hosts decide on copies the cache may not have yet (SetControllerReference,
\* and the resourceVersion of the write).
NeverTakenOver ==
  [][\A n \in Names :
       copies[n].owner # Nobody /\ copies'[n].owner # Nobody =>
         copies'[n].owner = copies[n].owner]_vars

\* A host that nothing will reconcile again is Ready, and what its internal host
\* names are its own copies of just what the spec names: when a copy is another host's,
\* or the spec means another copy by the same name, the host goes on trying
\* (createOrUpdateInternalTranslation).
ServedAtRest ==
  \A h \in Hosts :
    state[h] = "here" /\ h \notin queue /\ work.on # h
      /\ (\A n \in Names : h \notin events[n]) =>
      LET wanted == spec[h] \o <<Default>>
      IN /\ ready[h] /\ served[h] = [i \in DOMAIN wanted |-> NameOf(h, wanted[i])]
         /\ \A i \in DOMAIN wanted :
              copies[served[h][i]] = [owner |-> h, from |-> wanted[i]]

\* One spec names translations of both scopes with one name, which share a copy.
NamesTwice(h) ==
  LET wanted == ToSet(spec[h] \o <<Default>>) IN \E t, u \in wanted : t # u /\ t[2] = u[2]

\* A copy that the host needs belongs to another one that stays.
Blocked(h) ==
  \E t \in ToSet(spec[h] \o <<Default>>) : AlreadyOwned(h, copies[NameOf(h, t)])

\* When no host names a translation of both scopes, and none needs what another one
\* has, which one that is gone no longer does, there is an end to reconciling, and
\* deleted hosts are gone.
Settles ==
  <>[](\A h \in Hosts : state[h] = "here" => ~NamesTwice(h) /\ ~Blocked(h)) =>
    <>[](queue = {} /\ work = Idle /\ (\A n \in Names : ~Outdated(n))
          /\ \A h \in Hosts : state[h] # "deleting")

\* A host that is blocked by one that is deleted gets its copies.
Freed ==
  \A g, h \in Hosts :
    g # h =>
      (<>[](state[h] = "here" /\ state[g] \in {"none", "gone"} /\ ~NamesTwice(h)) =>
         <>[]ready[h])
=============================================================================
