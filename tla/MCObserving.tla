----------------------------- MODULE MCObserving ----------------------------
(***************************************************************************)
(* Small instances of Observing: a console, whose autopilot and manual     *)
(* steps act for its session tab, and the standing supervisor of session   *)
(* sup.  early and late follow one another at two declinations; early has  *)
(* a mode to set; odd, in the slot of late, has a mode without applier.    *)
(***************************************************************************)
EXTENDS Observing

CONSTANTS tab, sup, auto, super, hand, early, late, odd, north, south, line, wild

MCSessionOf == [d \in Driver |-> IF d = super THEN sup ELSE tab]

MCDecOf == [g \in Segment |-> IF g = early THEN north ELSE south]

MCSetupOf ==
  [g \in Segment |-> CASE g = early -> {line} [] g = late -> {} [] g = odd -> {wild}]

MCSlotOf == [g \in Segment |-> IF g = early THEN 0 ELSE LastSlot]

Live == [live |-> TRUE, wired |-> TRUE, relaxed |-> TRUE, promoted |-> Action]

\* Live, where a few moving dishes do not matter; live with one action not promoted;
\* live without an executor; a rehearsal.
MCPolicies ==
  {Live, [Live EXCEPT !.relaxed = FALSE, !.promoted = @ \ {"utc_start"}],
   [Live EXCEPT !.wired = FALSE], [Live EXCEPT !.live = FALSE]}

MCLive == {Live}
=============================================================================
