--------------------------- MODULE MCControlEngine --------------------------
(***************************************************************************)
(* Small instances of ControlEngine: edit is behind an approval of two     *)
(* people, and live, in two units; code is behind an approval of one;      *)
(* point is autonomous, and never is forbidden.  A person has two tabs.    *)
(***************************************************************************)
EXTENDS ControlEngine, TLC

CONSTANTS point, code, edit, never, tab, other, alice, bob, carol

MCTarget ==
  [a \in Known |-> CASE a = point -> "autonomous"
                     [] a \in {code, edit} -> "approval"
                     [] a = never -> "forbidden"]

MCCommissioning == [a \in Known |-> IF a = point THEN "autonomous" ELSE "approval"]

MCActorOf == [s \in Session |-> alice]

MCUnits == [a \in Action |-> IF a = edit THEN 2 ELSE 1]

\* Evaluations are interchangeable; so are operators who act for no session.
MCSymmetry ==
  Permutations(Evaluation)
    \cup Permutations(Operator \ {ActorOf[s] : s \in Session})
=============================================================================
