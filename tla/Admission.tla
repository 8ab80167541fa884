----------------------------- MODULE Admission -----------------------------
(***************************************************************************)
(* How an object of kdex.dev gets into the API server: what a user or the  *)
(* host's reconciler writes goes through the defaulter and the validator   *)
(* of its kind, which the manager itself serves.  The webhooks are         *)
(* registered with failurePolicy=Ignore, so a call that does not get       *)
(* through is skipped, and what is stored may have seen neither of them.   *)
(***************************************************************************)
EXTENDS Naturals

CONSTANTS
  Kinds,     \* kinds of the object
  MaxEdits,  \* bound: what users write
  MaxLost    \* bound: calls lost while the manager is up

\* The references a spec has that name a kind, the three utility pages of a host and
\* its several translations, and the several navigations and apps, being one each.
Slots ==
  [host       |-> {"theme", "library", "page", "translation", "adaptor"},
   archetype  |-> {"footer", "header", "navigation", "library"},
   page       |-> {"app", "archetype", "footer", "header", "navigation", "library"},
   binding    |-> {"app", "archetype", "footer", "header", "navigation", "library"},
   footer     |-> {"library"},
   header     |-> {"library"},
   navigation |-> {"library"},
   theme      |-> {"library"},
   library    |-> {},
   app        |-> {}]

\* Those of a host whose kind no defaulter fills in.
Untouched == {"translation", "adaptor"}

Providers  == {"host", "app", "library", "theme"}   \* with a backend and an ingress path
Namespaced == {"host", "binding"}                   \* no such kind of the cluster

ASSUME AdmissionAssumption ==
  Kinds \subseteq DOMAIN Slots /\ MaxEdits \in Nat /\ MaxLost \in Nat

\* Which kind a reference names: "open" is the empty string.
Named == {"none", "open", "plain", "cluster"}

\* "own" is the path of the object's kind and name.  A relative url is under
\* that path, or under the other one.  A spec is sound when its templates
\* render, its package is scoped, its names are there.
Specs(k) ==
  [refs : [Slots[k] -> Named], image : {"none", "pinned", "latest"},
   policy : {"open", "Always", "IfNotPresent"}, path : {"open", "own", "other"},
   urls : SUBSET {"absolute", "own", "other"}, sound : BOOLEAN]

VARIABLES
  kind, clustered,  \* of the object
  stored,           \* it is in the API server
  spec, asked,      \* its spec, and what the user last gave
  finalizer, deleting,
  defaulted,        \* the defaulter saw the spec as it is
  checked,          \* and the validator
  up,               \* the manager runs
  edits, lost

object == <<kind, clustered>>
vars   == <<object, stored, spec, asked, finalizer, deleting, defaulted, checked, up, edits, lost>>

-----------------------------------------------------------------------------
(* Defaulters                                                              *)

UnscopedKind == "plain"   \* mutant
ScopedKind   == IF clustered THEN "cluster" ELSE "plain"

\* A kind left open is one of the object's own scope.  The default utility pages
\* are of the cluster, and there is always one; the kind of a utility page's app is
\* not the user's to choose.  A host's translations and its adaptor stay as they are.
DefaultedRef(slot, named) ==
  CASE slot \in Untouched                                         -> named
    [] kind = "host" /\ slot = "page" /\ named \in {"none", "open"} -> "cluster"
    [] kind = "page" /\ slot = "app" /\ named # "none"              -> ScopedKind
    [] OTHER -> IF named = "open" THEN ScopedKind ELSE named

BackendDefaults(image, policy) ==
  CASE image = "latest" /\ policy = "open" -> "Always"
    [] image = "pinned" /\ policy = "open" -> "IfNotPresent"
    [] OTHER                               -> policy

\* Mutant: the prefix goes before the path that is there.
PrefixedPath(path) == IF path = "open" THEN "own" ELSE "other"

IngressPath(path) == "own"

Defaulted(s) ==
  LET provider == [s EXCEPT !.policy = BackendDefaults(s.image, @), !.path = IngressPath(@)]
  IN [IF kind \in Providers THEN provider ELSE s
        EXCEPT !.refs = [slot \in DOMAIN @ |-> DefaultedRef(slot, @[slot])]]

-----------------------------------------------------------------------------
(* Validators                                                              *)

ValidateResourceProvider(s) ==
  /\ s.image = "none" => s.urls \subseteq {"absolute"}
  /\ s.image # "none" => s.path # "open" /\ s.urls \subseteq {"absolute", s.path}

Valid(s) ==
  s.sound /\ (kind \in Providers => ValidateResourceProvider(s))

-----------------------------------------------------------------------------
\* A write of s goes through the two webhooks, as far as they are reached.
Admit(s) ==
  \E mutated, validated \in BOOLEAN :
    LET new    == IF mutated THEN Defaulted(s) ELSE s
        missed == (IF mutated THEN 0 ELSE 1) + (IF validated THEN 0 ELSE 1)
    IN /\ validated => Valid(new)
       /\ IF up THEN lost' = lost + missed /\ lost' <= MaxLost
                ELSE ~mutated /\ ~validated /\ UNCHANGED lost
       /\ spec' = new
       /\ defaulted' = (mutated \/ (defaulted /\ new = spec))
       /\ checked'   = (validated \/ (checked /\ new = spec))

UserWrites(s) ==
  /\ edits < MaxEdits /\ edits' = edits + 1
  /\ Admit(s) /\ asked' = s /\ stored' = TRUE
  /\ UNCHANGED <<object, finalizer, up>>

\* New objects have all their references, with kinds or without, or none.
Made ==
  LET backed == kind \in Providers
  IN [refs : {[slot \in Slots[kind] |-> n] : n \in Named},
      image : IF backed THEN {"none", "pinned", "latest"} ELSE {"none"},
      policy : {"open"}, path : IF backed THEN {"open", "other"} ELSE {"open"},
      urls : IF backed THEN {{}, {"absolute"}, {"own"}, {"other"}} ELSE {{}},
      sound : BOOLEAN]

Create ==
  /\ ~stored
  /\ \E s \in Made : UserWrites(s)
  /\ deleting' = FALSE

\* A user changes a field of what is there, also while the object goes.
Update ==
  /\ stored
  /\ \/ \E slot \in Slots[kind], n \in Named : UserWrites([spec EXCEPT !.refs[slot] = n])
     \/ UserWrites([spec EXCEPT !.sound = ~@])
     \/ /\ kind \in Providers
        /\ \/ \E i \in {"none", "pinned", "latest"} : UserWrites([spec EXCEPT !.image = i])
           \/ \E u \in {{}, {"absolute"}, {"absolute", "own"}, {"other"}} : UserWrites([spec EXCEPT !.urls = u])
  /\ UNCHANGED deleting

\* No webhook is asked about a deletion, and a finalizer delays it.
Delete ==
  /\ stored /\ ~deleting
  /\ stored' = finalizer /\ deleting' = finalizer
  /\ UNCHANGED <<object, spec, asked, finalizer, defaulted, checked, up, edits, lost>>

\* The reconciler of hosts writes the whole object to add and to remove its
\* finalizer; a write that is refused is tried again.
AddFinalizer ==
  /\ kind = "host" /\ up /\ stored /\ ~deleting /\ ~finalizer
  /\ Admit(spec) /\ finalizer' = TRUE
  /\ UNCHANGED <<object, stored, asked, deleting, up, edits>>

RemoveFinalizer ==
  /\ kind = "host" /\ up /\ stored /\ deleting /\ finalizer
  /\ Admit(spec) /\ finalizer' = FALSE /\ stored' = FALSE /\ deleting' = FALSE
  /\ UNCHANGED <<object, asked, up, edits>>

Stop == up /\ up' = FALSE
        /\ UNCHANGED <<object, stored, spec, asked, finalizer, deleting, defaulted, checked, edits, lost>>

Start == ~up /\ up' = TRUE
         /\ UNCHANGED <<object, stored, spec, asked, finalizer, deleting, defaulted, checked, edits, lost>>

-----------------------------------------------------------------------------
Empty ==
  [refs |-> [s \in Slots[kind] |-> "none"], image |-> "none", policy |-> "open",
   path |-> "open", urls |-> {}, sound |-> TRUE]

Init ==
  /\ kind \in Kinds /\ clustered \in BOOLEAN /\ (kind \in Namespaced => ~clustered)
  /\ stored = FALSE /\ spec = Empty /\ asked = Empty
  /\ finalizer = FALSE /\ deleting = FALSE /\ defaulted = FALSE /\ checked = FALSE
  /\ up = TRUE /\ edits = 0 /\ lost = 0

Next ==
  Create \/ Update \/ Delete \/ AddFinalizer \/ RemoveFinalizer \/ Stop \/ Start

Spec == Init /\ [][Next]_vars

\* The manager is started again and runs for long enough that the reconciler,
\* which retries, gets its turns.
FairSpec == Spec /\ WF_vars(Start) /\ SF_vars(AddFinalizer) /\ SF_vars(RemoveFinalizer)

-----------------------------------------------------------------------------
(* Properties                                                              *)

\* What both webhooks have seen they leave alone and accept when it is written
\* again: the reconciler's writes of finalizers neither change a spec, and with it
\* the generation, nor are they refused (failurePolicy=Ignore, Default, validate).
ReadmissionIsQuiet ==
  stored /\ defaulted /\ checked => Defaulted(spec) = spec /\ Valid(spec)

\* A reference that the resolver refuses (ResolveKDexObjectReference: a kind it does
\* not know, or one of a namespace in an object of the cluster) is just what the user
\* asked for, or the defaulter was not reached.  What he left open is filled in so that
\* the resolver takes it, except in a host's translations and its adaptor.
ReferencesResolve ==
  stored /\ defaulted =>
    \A slot \in Slots[kind] :
      spec.refs[slot] = "open" \/ (clustered /\ spec.refs[slot] = "plain") =>
        /\ asked.refs[slot] = spec.refs[slot]
        /\ spec.refs[slot] = "open" => slot \in Untouched

\* Whatever was stored while the webhooks were away, a host that is deleted goes,
\* though its finalizer is removed by a write they see: except when the spec is
\* not sound or names a url that its backend does not serve.
Servable == spec.urls \subseteq ({"absolute"} \cup (IF spec.image = "none" THEN {} ELSE {"own"}))

DeletedGoes ==
  (deleting ~> ~deleting \/ ~spec.sound \/ ~Servable)
=============================================================================
