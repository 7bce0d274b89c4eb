------------------------------- MODULE MCAgent -------------------------------
(***************************************************************************)
(* Small instances of Agent: the actions of a bring-up, and one behind an  *)
(* approval.                                                               *)
(***************************************************************************)
EXTENDS Agent

CONSTANTS tab, other, alice, bob

MCKnown == BringupActions \cup {"update_fleet_code"}

MCTarget ==
  [a \in MCKnown |-> IF a = "update_fleet_code" THEN "approval" ELSE "autonomous"]

MCActorOf == [s \in Session |-> IF s = tab THEN alice ELSE bob]

Build(live, wired, promoted) == [live |-> live, wired |-> wired, promoted |-> promoted]

\* Everything promoted; all but the modes; all but the point; no executor; and a rehearsal.
MCPolicies ==
  {Build(TRUE, TRUE, MCKnown), Build(TRUE, TRUE, CriticalBringup),
   Build(TRUE, TRUE, MCKnown \ {"point_array"}),
   Build(TRUE, FALSE, MCKnown), Build(FALSE, TRUE, MCKnown)}
=============================================================================
