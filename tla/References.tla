----------------------------- MODULE References -----------------------------
(***************************************************************************)
(* The objects a host is put together from, and the reconcilers that keep  *)
(* their readiness: an object is Ready when what it refers to is.  Nine    *)
(* controllers, one worker each, read through the informer caches; a change *)
(* of an object reaches its referrers only by the watches, and a referrer  *)
(* that was not satisfied also tries again later.                          *)
(*                                                                         *)
(* An object is <<namespace, kind>>, "" being the namespace of the cluster *)
(* scoped: there is at most one of a kind in a namespace.                  *)
(***************************************************************************)
EXTENDS Naturals, Sequences

CONSTANTS
  Objects,     \* the objects that may exist
  Choices,     \* Choices[o]: the sets of references o's spec may have
  Lagging,     \* objects whose informer may lag behind the API server
  Slow,        \* controllers whose handlers may lag behind their caches
  MaxEdits,    \* bound: what users do after making the objects
  MaxFaults    \* bound: failed reads and validations, and restarts

Kinds == {"app", "library", "theme", "translation", "header", "footer", "navigation",
          "archetype", "page"}

\* A reference gives the kind, with its scope, and maybe a namespace; a secret
\* is given by its name only.
Reference ==
  [kind : Kinds \cup {"secret"}, clustered : BOOLEAN, namespace : STRING]

ASSUME ReferencesAssumption ==
  /\ \A o \in Objects : o[2] \in Kinds \cup {"secret"}
  /\ \A o \in Objects : \A R \in Choices[o] : \A r \in R : r \in Reference
  /\ Lagging \subseteq Objects /\ Slow \subseteq Kinds
  /\ MaxEdits \in Nat /\ MaxFaults \in Nat

\* The slots of a spec, under which the status records what was resolved, are not told
\* apart: a spec refers to one object of each kind.
ASSUME OneOfAKind ==
  \A o \in Objects : \A R \in Choices[o] : \A r, q \in R : r.kind = q.kind => r = q

Kind(o)      == o[2]
Namespace(o) == o[1]
Reconciled   == {o \in Objects : Kind(o) # "secret"}

VARIABLES
  api,      \* the objects in the API server; generation 0 is an absent object
  cache,    \* their cached copies
  unsent,   \* objects whose cached copy is not the current one
  notices,  \* <<object, controller>>: events a controller has yet to map
  queue,    \* objects in their controller's work queue
  later,    \* objects that will be put there after a delay
  work,     \* work[k]: what the worker of controller k is doing
  edits, faults

vars == <<api, cache, unsent, notices, queue, later, work, edits, faults>>

Readiness == {"unset", "Unknown", "False", "True"}

\* seen: the generation of what was resolved, by kind, as the status records it.
Record ==
  [generation : Nat, refs : SUBSET Reference, ready : Readiness, observed : Nat,
   seen : [Kinds -> Nat]]

Absent ==
  [generation |-> 0, refs |-> {}, ready |-> "unset", observed |-> 0,
   seen |-> [k \in Kinds |-> 0]]

Made == {[Absent EXCEPT !.generation = 1, !.refs = R] : R \in UNION {Choices[o] : o \in Objects}}

Nobody == <<"", "nobody">>
Idle   == [on |-> Nobody, copy |-> Absent, current |-> FALSE, todo |-> {}, result |-> "none"]

Work ==
  [on : Reconciled \cup {Nobody}, copy : Record, current : BOOLEAN,
   todo : SUBSET Reference, result : {"none", "retry"}]

TypeOK ==
  /\ api \in [Objects -> Record] /\ cache \in [Objects -> Record]
  /\ unsent \subseteq Lagging /\ notices \subseteq Objects \X Slow
  /\ queue \subseteq Reconciled /\ later \subseteq Reconciled
  /\ work \in [Kinds -> Work]
  /\ \A k \in Kinds : work[k] = Idle \/
       /\ work[k].on \in Reconciled /\ Kind(work[k].on) = k
       /\ work[k].copy.generation # 0
       /\ work[k].result = "retry" => work[k].todo = {}
  /\ edits \in 0..MaxEdits /\ faults \in 0..MaxFaults

-----------------------------------------------------------------------------
(* What each Reconcile resolves, in order, and what its controller watches *)

AppReads         == <<"secret">>
LibraryReads     == <<"secret">>
ThemeReads       == <<"library">>
TranslationReads == <<>>
HeaderReads      == <<"library">>
FooterReads      == <<"library">>
NavigationReads  == <<"library">>
ArchetypeReads   == <<"footer", "header", "navigation", "library">>
PageReads        == <<"archetype", "app", "header", "footer", "navigation", "library">>

Reads ==
  [app |-> AppReads, library |-> LibraryReads, theme |-> ThemeReads,
   translation |-> TranslationReads, header |-> HeaderReads, footer |-> FooterReads,
   navigation |-> NavigationReads, archetype |-> ArchetypeReads, page |-> PageReads]

AppWatches         == {"secret"}
LibraryWatchesNone == {}   \* mutant
LibraryWatches     == {"secret"}
ThemeWatches       == {"library"}
TranslationWatches == {}
HeaderWatches      == {"library"}
FooterWatches      == {"library"}
NavigationWatches  == {"library"}
ArchetypeWatchesFew == {"footer", "header", "library"}   \* mutant
ArchetypeWatches   == {"footer", "header", "navigation", "library"}
PageWatches        == {"app", "archetype", "footer", "header", "navigation", "library"}

Watches ==
  [app |-> AppWatches, library |-> LibraryWatches, theme |-> ThemeWatches,
   translation |-> TranslationWatches, header |-> HeaderWatches, footer |-> FooterWatches,
   navigation |-> NavigationWatches, archetype |-> ArchetypeWatches, page |-> PageWatches]

-----------------------------------------------------------------------------
(* References                                                              *)

\* Where a referrer looks a reference up: a secret in its own namespace, which
\* the cluster scoped do not have.
Key(o, r) ==
  CASE r.kind = "secret"                      -> <<Namespace(o), r.kind>>
    [] r.kind # "secret" /\ r.clustered       -> <<"", r.kind>>
    [] r.kind # "secret" /\ ~r.clustered      ->
         <<IF r.namespace # "" THEN r.namespace ELSE Namespace(o), r.kind>>

\* A cluster scoped referrer may not name what has a namespace.
Misscoped(o, r) == r.kind # "secret" /\ Namespace(o) = "" /\ ~r.clustered

Present(state, key) == key \in Objects /\ state[key].generation # 0

\* Mutant: whatever namespace the reference names, the referrer's own is meant.
FindsAlone(x, o, r) == r.kind = Kind(x) /\ Namespace(o) = Namespace(x)

\* Whether an event of x finds the reference r of o: o must be in the list of x's
\* namespace, and a reference with a namespace must name o's own.
Finds(x, o, r) ==
  /\ r.kind = Kind(x)
  /\ Namespace(o) = Namespace(x) \/ Namespace(x) = ""
       \/ (r.kind = "secret" /\ Namespace(o) = "")
  /\ r.kind # "secret" =>
       r.clustered = (Namespace(x) = "") /\ r.namespace \in {"", Namespace(o)}

-----------------------------------------------------------------------------
(* Writes, events and their mapping                                        *)

\* The running copy of an object that is written is out of date.
Outdated(o) ==
  [k \in Kinds |-> IF work[k].on = o THEN [work[k] EXCEPT !.current = FALSE] ELSE work[k]]

\* Mutant: the object itself is enqueued instead.
MappedItself(x, k, state) == {x}

\* The objects the handler of controller k enqueues for an event of x.
Mapped(x, k, state) ==
  IF k = Kind(x) THEN {x}
  ELSE {o \in Reconciled : /\ Kind(o) = k /\ Present(state, o)
                           /\ \E r \in state[o].refs : Finds(x, o, r)}

\* An informer has the state s: the cached copy of o is replaced, and handlers
\* look up who refers to o.
Informed(o, s) ==
  LET told == {k \in Kinds : k = Kind(o) \/ Kind(o) \in Watches[k]}
  IN /\ cache' = [cache EXCEPT ![o] = s[o]]
     /\ notices' = notices \cup ({o} \X (told \cap Slow))
     /\ queue' = queue \cup UNION {Mapped(o, k, cache') : k \in told \ Slow}

Deliver(o) ==
  /\ o \in unsent /\ unsent' = unsent \ {o}
  /\ Informed(o, api)
  /\ UNCHANGED <<api, later, work, edits, faults>>

\* A write of an object, with its event on the way or delivered.
Store(o, new) ==
  /\ api' = [api EXCEPT ![o] = new]
  /\ \/ o \in Lagging /\ unsent' = unsent \cup {o} /\ UNCHANGED <<cache, notices, queue>>
     \/ o \notin Lagging /\ UNCHANGED unsent /\ Informed(o, api')

Notify(x, k) ==
  /\ <<x, k>> \in notices /\ notices' = notices \ {<<x, k>>}
  /\ queue' = queue \cup Mapped(x, k, cache)
  /\ UNCHANGED <<api, cache, unsent, later, work, edits, faults>>

Fire(o) ==
  /\ o \in later /\ later' = later \ {o} /\ queue' = queue \cup {o}
  /\ UNCHANGED <<api, cache, unsent, notices, work, edits, faults>>

-----------------------------------------------------------------------------
(* The reconcilers                                                         *)

Begin(o) ==
  /\ o \in queue /\ work[Kind(o)] = Idle
  /\ queue' = queue \ {o}
  /\ work' = IF ~Present(cache, o) THEN work
             ELSE [work EXCEPT ![Kind(o)] =
                     [on |-> o, copy |-> [cache[o] EXCEPT !.ready = "Unknown"],
                      current |-> o \notin unsent, todo |-> cache[o].refs,
                      result |-> "none"]]
  /\ UNCHANGED <<api, cache, unsent, notices, later, edits, faults>>

Running(o) == work[Kind(o)].on = o

\* A page also resolves the navigation of its archetype, unless it has its own.
Lent(o, key, own) ==
  IF Kind(o) = "page" /\ Kind(key) = "archetype" /\ ~\E r \in own : r.kind = "navigation"
    THEN {r \in cache[key].refs : r.kind = "navigation"} ELSE {}

\* The next reference to resolve: kinds go in the order of Reads.
IsNext(r, w) ==
  LET reads == Reads[Kind(w.on)]
  IN \E i \in 1..Len(reads) :
       /\ reads[i] = r.kind
       /\ \A j \in 1..(i - 1) : \A q \in w.todo : q.kind # reads[j]

\* ResolveKDexObjectReference and ResolveSecret, and what the caller does.
Resolve(o) ==
  LET k == Kind(o)
      w == work[k]
      Retry(ready) == [w EXCEPT !.copy.ready = ready, !.todo = {}, !.result = "retry"]
  IN /\ Running(o) /\ w.result = "none"
     /\ \E r \in w.todo :
          LET key == Key(o, r)
          IN /\ IsNext(r, w)
             /\ \/ Misscoped(o, r) /\ work' = [work EXCEPT ![k] = Retry("Unknown")]
                \/ /\ ~Misscoped(o, r) /\ ~Present(cache, key)
                   /\ work' = [work EXCEPT ![k] = Retry("False")]
                \/ /\ ~Misscoped(o, r) /\ Present(cache, key)
                   /\ r.kind # "secret" /\ cache[key].ready # "True"
                   /\ work' = [work EXCEPT ![k] = Retry("Unknown")]
                \/ /\ r.kind = "secret" /\ Present(cache, key)
                   /\ work' = [work EXCEPT ![k].todo = @ \ {r}]
                \/ /\ ~Misscoped(o, r) /\ Present(cache, key)
                   /\ r.kind # "secret" /\ cache[key].ready = "True"
                   /\ work' = [work EXCEPT
                        ![k].todo = (@ \ {r}) \cup Lent(o, key, w.copy.refs),
                        ![k].copy.seen[r.kind] = cache[key].generation]
     /\ UNCHANGED <<api, cache, unsent, notices, queue, later, edits, faults>>

\* A Get fails otherwise than by NotFound, which both resolvers ignore: what a
\* reference names is an empty object and so not ready, a secret counts as found.
GetFails(o) ==
  LET k == Kind(o)
      w == work[k]
  IN /\ Running(o) /\ w.result = "none"
     /\ faults < MaxFaults /\ faults' = faults + 1
     /\ \E r \in w.todo :
          /\ IsNext(r, w) /\ ~Misscoped(o, r)
          /\ work' = [work EXCEPT ![k] =
               IF r.kind = "secret" THEN [w EXCEPT !.todo = @ \ {r}]
               ELSE [w EXCEPT !.todo = {}, !.result = "retry"]]
     /\ UNCHANGED <<api, cache, unsent, notices, queue, later, edits>>

\* The package of an app or a library does not validate.
Invalid(o) ==
  /\ Running(o) /\ Kind(o) \in {"app", "library"}
  /\ work[Kind(o)].todo = {} /\ work[Kind(o)].result = "none"
  /\ faults < MaxFaults /\ faults' = faults + 1
  /\ work' = [work EXCEPT ![Kind(o)].result = "retry", ![Kind(o)].copy.ready = "False"]
  /\ UNCHANGED <<api, cache, unsent, notices, queue, later, edits>>

\* Mutants: the status is written without a look at the version, as a patch would be;
\* nothing is tried again.
NeverConflicts(w) == api[w.on].generation = 0
NeverRequeued(w)  == {}

\* An update of an outdated copy is refused, and the object is tried again after
\* that, after an error, and after the delay a resolver asks for.
Conflicts(w) == ~w.current
Requeued(w)  == IF Conflicts(w) \/ w.result = "retry" THEN {w.on} ELSE {}

\* The deferred status update, which leaves the spec alone.  It may write although
\* nothing it reports is new (transition times move); a conflict, or an object that
\* is gone, is an error.
UpdateStatus(o) ==
  LET w    == work[Kind(o)]
      done == [api[o] EXCEPT !.observed = w.copy.generation, !.seen = w.copy.seen,
                             !.ready = IF w.result = "none" THEN "True" ELSE w.copy.ready]
  IN /\ Running(o) /\ w.todo = {}
     /\ \/ ~Conflicts(w) /\ (done # api[o] \/ done.ready # "Unknown") /\ Store(o, done)
        \/ /\ Conflicts(w) \/ done = api[o]
           /\ UNCHANGED <<api, cache, unsent, notices, queue>>
     /\ later' = later \cup Requeued(w)
     /\ work' = [work EXCEPT ![Kind(o)] = Idle]
     /\ UNCHANGED <<edits, faults>>

Reconcile(o) == Begin(o) \/ Resolve(o) \/ GetFails(o) \/ Invalid(o) \/ UpdateStatus(o)

-----------------------------------------------------------------------------
(* Users and restarts                                                      *)

\* An object is made, its spec is edited, or it is deleted; a secret has no
\* spec to edit.
Write(o, new) ==
  /\ edits < MaxEdits /\ edits' = edits + 1
  /\ Store(o, new) /\ work' = Outdated(o)
  /\ UNCHANGED <<later, faults>>

Create(o) ==
  /\ api[o].generation = 0
  /\ \E new \in Made : new.refs \in Choices[o] /\ Write(o, new)

Edit(o) ==
  /\ api[o].generation # 0 /\ Kind(o) # "secret"
  /\ \E R \in Choices[o] : Write(o, [api[o] EXCEPT !.generation = @ + 1, !.refs = R])

Delete(o) ==
  api[o].generation # 0 /\ Write(o, Absent)

\* The manager stops and starts: the caches are filled from the API server and
\* every object is enqueued.
Restart ==
  /\ faults < MaxFaults /\ faults' = faults + 1
  /\ cache' = api /\ unsent' = {} /\ notices' = {} /\ later' = {}
  /\ queue' = {o \in Reconciled : Present(api, o)}
  /\ work' = [k \in Kinds |-> Idle]
  /\ UNCHANGED <<api, edits>>

-----------------------------------------------------------------------------
\* The objects were made before the manager started.
Init ==
  /\ api \in {a \in [Objects -> Made] : \A o \in Objects : a[o].refs \in Choices[o]}
  /\ cache = api /\ unsent = {} /\ notices = {}
  /\ queue = {o \in Reconciled : Present(api, o)} /\ later = {}
  /\ work = [k \in Kinds |-> Idle]
  /\ edits = 0 /\ faults = 0

Next ==
  \/ \E o \in Reconciled : Reconcile(o) \/ Fire(o)
  \/ \E o \in Objects : Deliver(o) \/ Create(o) \/ Edit(o) \/ Delete(o)
  \/ \E x \in Objects, k \in Kinds : Notify(x, k)
  \/ Restart

\* Workers run, informers deliver, handlers are called and timers fire.  The
\* queues are first in, first out: a waiting object gets its turn.
Fairness ==
  /\ \A o \in Reconciled : SF_vars(Begin(o)) /\ WF_vars(Resolve(o) \/ UpdateStatus(o))
  /\ \A o \in Objects : WF_vars(Deliver(o)) /\ WF_vars(Fire(o))
  /\ \A x \in Objects, k \in Kinds : WF_vars(Notify(x, k))

Spec == Init /\ [][Next]_vars
FairSpec == Spec /\ Fairness

-----------------------------------------------------------------------------
(* Properties                                                              *)

\* What the archetypes of a page lend it, and all an object refers to.
Borrowed(o, r) ==
  LET key == Key(o, r)
  IN IF Kind(o) = "page" /\ r.kind = "archetype" /\ key \in Objects
          /\ ~\E q \in api[o].refs : q.kind = "navigation"
       THEN {q \in api[key].refs : q.kind = "navigation"} ELSE {}

Uses(o) == api[o].refs \cup UNION {Borrowed(o, r) : r \in api[o].refs}

\* A reference that names a namespace other than the referrer's.
Foreign(o, r) ==
  r.kind # "secret" /\ r.namespace \notin {"", Namespace(o)}

\* A reference into another namespace is not followed (MakeHandlerByReferencePath).
Followed(o) == \A r \in api[o].refs : ~Foreign(o, r)

Available(o, r) ==
  ~Misscoped(o, r) /\ Present(api, Key(o, r)) /\ api[Key(o, r)].ready = "True"

Holds(o, r) ==
  IF r.kind = "secret" THEN Present(api, Key(o, r)) \/ faults > 0
  ELSE Available(o, r) /\ api[o].seen[r.kind] = api[Key(o, r)].generation

Quiet ==
  unsent = {} /\ notices = {} /\ queue = {} /\ \A k \in Kinds : work[k] = Idle

\* No wake-up is lost: when nothing is under way, an object that is Ready refers to
\* objects that are Ready, and its status records their current generations; and a
\* navigation that a page borrows is Ready, though no watch of pages leads to it
\* (the watches of every controller, the deferred status update).  Objects with a
\* reference that is not followed are left out, and a secret that was not there may
\* have counted as found when its Get failed.
ReadyAtRest ==
  Quiet => \A o \in Reconciled :
    api[o].ready = "True" /\ Followed(o) =>
      \A r \in api[o].refs :
        /\ Holds(o, r)
        /\ \A q \in Borrowed(o, r) : Followed(Key(o, r)) => Available(o, q)

\* Nor is one lost the other way: an object that is not Ready is under way, or is
\* going to be tried again.
UnreadyRetries ==
  \A o \in Reconciled : api[o].generation # 0 /\ api[o].ready # "True" =>
    \/ o \in unsent \cup queue \cup later \/ <<o, Kind(o)>> \in notices
    \/ Running(o)

\* Ready for the current generation means that the references of that generation
\* were resolved, whatever was written while they were (the conflict of the
\* deferred status update).
ReadyMeansResolved ==
  \A o \in Reconciled :
    api[o].ready = "True" /\ api[o].observed = api[o].generation =>
      \A r \in api[o].refs : r.kind # "secret" => api[o].seen[r.kind] # 0

\* When all an object refers to exists and stays, it becomes Ready for its
\* generation and stays so, and with it what refers to it, also from another
\* namespace: only the secret of a cluster scoped object is never found.
Complete ==
  \A o \in Reconciled : api[o].generation # 0 =>
    \A r \in Uses(o) : ~Misscoped(o, r) /\ Present(api, Key(o, r))

EventuallyReady ==
  <>[]Complete =>
    <>[](\A o \in Reconciled : api[o].generation # 0 =>
           api[o].ready = "True" /\ api[o].observed = api[o].generation)
=============================================================================
