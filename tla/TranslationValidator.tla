------------------------ MODULE TranslationValidator ------------------------
(***************************************************************************)
(* The admission of KDexTranslations: a spec is a sequence of languages,   *)
(* and of a language only the keys it translates matter here.              *)
(***************************************************************************)
EXTENDS Sequences, FiniteSets, Naturals

CONSTANTS
  Keys,         \* keys of messages
  MaxLanguages  \* bound: languages of a spec

Specs == UNION {[1..n -> SUBSET Keys] : n \in 0..MaxLanguages}

VARIABLE admitted  \* the spec in the API server; <<>> when there is none

\* The keys of the first language that a language does not have.
Missing(spec, i) == spec[1] \ spec[i]

\* The keys counted are those of the first language, so that the comparison of the
\* counts comes out equal for every language that misses none.
SameCount(spec, i) ==
  LET count == Cardinality(spec[1] \ Missing(spec, i)) IN count = Cardinality(spec[1])

Valid(spec) ==
  /\ Len(spec) # 0
  /\ \A i \in 1..Len(spec) : Missing(spec, i) = {} /\ SameCount(spec, i)

Init == admitted = <<>>

\* ValidateCreate and ValidateUpdate look at the new spec only.
Admit == \E spec \in Specs : Valid(spec) /\ admitted' = spec

Delete == admitted # <<>> /\ admitted' = <<>>

Next == Admit \/ Delete

Spec == Init /\ [][Next]_admitted

\* "ensure that every language has the same keys as the first language"
\* (kdextranslation_validator.go:49)
SameKeys ==
  \A i \in 1..Len(admitted) : admitted[i] = admitted[1]
=============================================================================
