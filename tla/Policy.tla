------------------------------- MODULE Policy -------------------------------
(***************************************************************************)
(* The capability policy (policy.py): which gate a control action stands   *)
(* behind, and how many approvers it needs.  An action here is an action   *)
(* name with its parameters, the pair that params_hash() tells apart.  The *)
(* loader takes any word for a gate: one that is none of the three ranks   *)
(* as the strictest.                                                       *)
(***************************************************************************)
EXTENDS Naturals

CONSTANTS
  Action,         \* every action a caller may name
  Known,          \* those the policy lists
  Target,         \* the stated goal of each, a word
  Commissioning,  \* the gate before promotion, a word
  Promoted,       \* the actions promoted in config/local.yaml
  TwoPerson       \* the actions that need a second approver

ASSUME PolicyAssumption ==
  /\ Known \subseteq Action
  /\ DOMAIN Target = Known
  /\ DOMAIN Commissioning = Known

Rank(g) ==
  CASE g = "autonomous" -> 1 [] g = "approval" -> 2 [] g = "forbidden" -> 3 [] OTHER -> 99

Stricter(g, h) == IF Rank(g) >= Rank(h) THEN g ELSE h

\* Mutant: whatever is promoted goes by itself.
PromotedIsFree(a) ==
  CASE a \notin Known -> "forbidden"
    [] a \in Known /\ a \in Promoted -> "autonomous"
    [] a \in Known /\ a \notin Promoted -> Stricter(Commissioning[a], Target[a])

GateFor(a) ==
  CASE a \notin Known -> "forbidden"
    [] a \in Known /\ a \in Promoted -> Target[a]
    [] a \in Known /\ a \notin Promoted -> Stricter(Commissioning[a], Target[a])

RequiredApprovers(a) == IF a \in TwoPerson THEN 2 ELSE 1
=============================================================================
