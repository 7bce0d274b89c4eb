--------------------------- MODULE MCExecutorLease ---------------------------
(***************************************************************************)
(* Small instances of ExecutorLease.  A thread is named by a model value;  *)
(* these definitions say which process it belongs to.                      *)
(***************************************************************************)
EXTENDS ExecutorLease

CONSTANTS c1, c2, s1,                \* processes: two consoles, a supervisor
          req1, ka1, req2,           \* console threads
          main1, hb1,                \* supervisor threads
          alice, bob, supervisor     \* sessions

MCProcessOf ==
  [t \in Thread |-> CASE t \in {req1, ka1}  -> c1
                      [] t = req2           -> c2
                      [] t \in {main1, hb1} -> s1]

MCSessionsOf ==
  [p \in Process |-> CASE p = c1 -> {alice} [] p = c2 -> {bob}
                       [] OTHER -> {supervisor}]

MCHeartbeat == Thread \cap {ka1, hb1}
==============================================================================
