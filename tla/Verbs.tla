--------------------------------- MODULE Verbs --------------------------------
(***************************************************************************)
(* The control verbs (control/verbs.py): what becomes of the parameters of *)
(* an action.  A verb answers with a plan, refuses them (VerbError), or    *)
(* lets a conversion raise, which evaluate() does not catch.               *)
(***************************************************************************)

\* What can be wrong with the parameters: nothing; the one the verb is about is absent,
\* not of its type, or out of range; or a list that goes with it has a member that is no
\* number.
Flaw == {"none", "absent", "type", "range", "list"}

ByPost ==
  {"fire_injection", "inject_calibrate", "utc_start", "utc_stop", "set_dumps_enabled",
   "dump_now", "start_fleet", "stop_fleet", "bounce_search", "restart_all",
   "build_fstable", "deploy_fstable", "set_spectral_line", "delete_snr_cal",
   "update_fleet_code"}

Registry == ByPost \cup {"point_array", "set_policy"}

\* What carries the plan out: etcd puts to the antennas, a post to the dashboard, a person.
Carrier(a) == CASE a = "point_array" -> "etcd"
                [] a = "set_policy"  -> "hand"
                [] a \in ByPost      -> "post"

\* A declination outside the envelope is not pointed at; a file name has no slash.
Refuses(a) ==
  CASE a = "point_array" -> {"absent", "type", "range"}
    [] a \in {"build_fstable", "set_dumps_enabled"} -> {"absent", "type"}
    [] a = "deploy_fstable" -> {"absent", "range"}
    [] a = "set_spectral_line" -> {"absent"}
    [] OTHER -> {}

\* The antennas of a pointing, the margin, the declination of a start.
Raises(a) ==
  CASE a = "point_array" -> {"list"}
    [] a \in {"utc_start", "start_fleet", "restart_all"} -> {"type"}
    [] OTHER -> {}

PlanOf(a, flaw) ==
  CASE flaw \in Refuses(a) -> "refused"
    [] flaw \in Raises(a)  -> "raises"
    [] OTHER               -> Carrier(a)
=============================================================================
