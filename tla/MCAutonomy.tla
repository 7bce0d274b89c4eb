----------------------------- MODULE MCAutonomy ------------------------------
(***************************************************************************)
(* Small instances of Autonomy: two corr nodes and a search node, one      *)
(* capture stream, and two observatories between which it may change.      *)
(***************************************************************************)
EXTENDS Autonomy

CONSTANTS standing, console, sup, paused, corr1, corr2, search1, stream1

\* Every warning there is, and nothing that deserves an alert.
Poor == [beat |-> {corr1, corr2, search1}, sky |-> "stale", sefd |-> {"old", "high", "dead"},
         dropping |-> {}, degraded |-> {stream1},
         flagged |-> [n \in {corr1, corr2} |-> IF n = corr1 THEN 7 ELSE 0],
         troubled |-> {search1}, moving |-> 1, overrun |-> FALSE, failing |-> {}]

\* Everything that deserves an alert, and reads that fail.
Dead == [beat |-> {corr1}, sky |-> "none", sefd |-> {}, dropping |-> {stream1},
         degraded |-> {}, flagged |-> [n \in {corr1} |-> 8], troubled |-> {},
         moving |-> 0, overrun |-> TRUE, failing |-> {"injections", "sefd"}]

MCSites == {Poor, Dead}
=============================================================================
