------------------------------ MODULE HostLife ------------------------------
(***************************************************************************)
(* What the host reconciler promises, whatever it reads, loses or is told  *)
(* too late: a host is accepted before anything is made for it, it departs *)
(* after what it waits for, and a part never exists without the parts it   *)
(* cannot do without.  KDexHost implements this.                           *)
(***************************************************************************)

CONSTANTS
  Parts,    \* what may be made for a host
  Awaited   \* the parts that are gone before the host is

VARIABLES
  life,     \* of the host: "absent", "requested", "accepted" or "leaving"
  needs     \* the parts that exist, each with the parts it cannot do without

lifeVars == <<life, needs>>

Existing == DOMAIN needs

Init == life = "absent" /\ needs = [p \in {} |-> {}]

-----------------------------------------------------------------------------
(* The host                                                                *)

Become(old, new) == life = old /\ life' = new /\ UNCHANGED needs

Request  == Become("absent", "requested")
Withdraw == Become("requested", "absent")
Accept   == Become("requested", "accepted")
Leave    == Become("accepted", "leaving")
Depart   == Become("leaving", "absent") /\ Awaited \cap Existing = {}

-----------------------------------------------------------------------------
(* Its parts.  Making one that exists gives it other needs; a part may be  *)
(* lost at any time, also after the host, when no other part needs it.     *)

Make(p) ==
  /\ life \in {"accepted", "leaving"}
  /\ DOMAIN needs' = Existing \cup {p}
  /\ needs'[p] \subseteq Existing \ {p}
  /\ \A q \in Existing \ {p} : needs'[q] = needs[q]
  /\ UNCHANGED life

Lose(p) ==
  /\ p \in Existing
  /\ \A q \in Existing \ {p} : p \notin needs[q]
  /\ needs' = [q \in Existing \ {p} |-> needs[q]]
  /\ UNCHANGED life

Next ==
  \/ Request \/ Withdraw \/ Accept \/ Leave \/ Depart
  \/ \E p \in Parts : Make(p) \/ Lose(p)

Spec == Init /\ [][Next]_lifeVars
=============================================================================
