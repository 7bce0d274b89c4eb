--------------------------- MODULE SingleExecutor ---------------------------
(***************************************************************************)
(* What the executor lease promises, and no more: the right to control the *)
(* array is a single place.  A session enters it only while it is empty,   *)
(* so the right never passes from one session straight to another.         *)
(***************************************************************************)
CONSTANTS
  Session,      \* every session that may ask for control
  NoSession     \* nobody holds the right

VARIABLE
  holder        \* the session in control, or NoSession

SETypeOK == holder \in Session \cup {NoSession}

SEInit == holder = NoSession

Claim(s) ==
  /\ holder = NoSession
  /\ holder' = s

Vacate ==
  /\ holder # NoSession
  /\ holder' = NoSession

SENext == Vacate \/ \E s \in Session : Claim(s)

SESpec == SEInit /\ [][SENext]_holder
=============================================================================
