-------------------------------- MODULE Laptop -------------------------------
(***************************************************************************)
(* A console on a laptop: the tunnel, and the audit trail whose copies go  *)
(* to etcd through it.                                                     *)
(***************************************************************************)
EXTENDS Tunnel, AuditTrail

vars == <<tunnel, audit>>

TypeOK == TunnelTypeOK /\ AuditTypeOK

Init == TunnelInit /\ AuditInit

Next ==
  \/ TunnelNext /\ UNCHANGED audit
  \/ AuditNext(Forwarding) /\ UNCHANGED tunnel

Spec == Init /\ [][Next]_vars

Fairness ==
  /\ TunnelFairness
  /\ \A t \in Thread : WF_vars((Post(t) \/ Mirror(t, Forwarding)) /\ UNCHANGED tunnel)

FairSpec == Spec /\ Fairness
=============================================================================
