-------------------------- MODULE MCHostDeployment --------------------------
(***************************************************************************)
(* An instance of HostDeployment: templates without flags, with one flag   *)
(* in the command, and with both in one argument; the last one also has a  *)
(* variable twice.                                                         *)
(***************************************************************************)
EXTENDS HostDeployment

Var(n, v) == [name |-> n, value |-> v]

Template(args, command, env) ==
  [present |-> FALSE, args |-> args, command |-> command, env |-> env,
   resources |-> 0, replicas |-> 1, identity |-> "other"]

\* Nothing, a variable of the template's, several of a name and in either order.
MCSpecs ==
  {[env |-> e, resources |-> q[1], replicas |-> q[2]] :
     e \in {<<>>, <<Var("PORT", "two")>>, <<Var("HOME", "one"), Var("PORT", "one")>>,
            <<Var("HOME", "one"), Var("HOME", "two")>>},
     q \in {<<0, 0>>, <<1, 0>>, <<2, 2>>}}

MCOtherEnvs == {<<>>, <<Var("HOME", "two"), Var("PORT", "two"), Var("HOME", "one")>>}

Other(F) == [f \in F |-> "other"]

MCTemplates ==
  {Template(<<>>, <<>>, <<Var("PORT", "one")>>),
   Template(<<Other({})>>, <<Other({"focal-host"})>>, <<>>),
   Template(<<Other(Flags)>>, <<Other({})>>,
            <<Var("HOME", "one"), Var("PORT", "one"), Var("HOME", "two")>>)}
=============================================================================
