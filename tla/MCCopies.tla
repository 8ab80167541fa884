------------------------------ MODULE MCCopies ------------------------------
(* Two hosts, "a" and "a-b": the copy of "b-default" for the one and that of     *)
(* the default translation for the other have one name, and so have the copies *)
(* of a translation called like the default one and of the default itself.      *)
EXTENDS Copies

MCHosts   == {<<"a">>, <<"a", "b">>}
MCDefault == <<"cluster", <<"default">>>>

MCSpecsOf ==
  (<<"a">> :> {<<>>, <<<<"namespace", <<"b", "default">>>>>>}) @@
  (<<"a", "b">> :> {<<>>, <<<<"namespace", <<"default">>>>>>})
=============================================================================
