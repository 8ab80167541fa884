---------------------------- MODULE MCReferences ----------------------------
(***************************************************************************)
(* Instances of References: which objects there are and what they may name *)
(***************************************************************************)
EXTENDS References

Here(kind)      == [kind |-> kind, clustered |-> FALSE, namespace |-> ""]
There(kind, ns) == [kind |-> kind, clustered |-> FALSE, namespace |-> ns]
Clustered(kind) == [kind |-> kind, clustered |-> TRUE, namespace |-> ""]

\* A page in a namespace, an archetype of the cluster, which may refer to a navigation
\* with the wrong scope, and the navigation that it lends the page.
ChainChoices ==
  [o \in {<<"", "navigation">>, <<"", "archetype">>, <<"a", "page">>} |->
     CASE Kind(o) = "navigation" -> {{}}
       [] Kind(o) = "archetype"  -> {{Clustered("navigation")}, {Here("navigation")}}
       [] Kind(o) = "page"       -> {{Clustered("archetype")},
                                     {Clustered("archetype"), Clustered("navigation")}}]
ChainObjects == DOMAIN ChainChoices

\* A package with a secret, and what may refer to it from another namespace.
RetryChoices ==
  [o \in {<<"b", "secret">>, <<"b", "library">>, <<"a", "footer">>} |->
     CASE Kind(o) = "secret"  -> {{}}
       [] Kind(o) = "library" -> {{Here("secret")}}
       [] Kind(o) = "footer"  -> {{}, {There("library", "b")}}]
RetryObjects == DOMAIN RetryChoices

\* A value of Lagging.
LaggingNavigation == {<<"", "navigation">>}
=============================================================================
