-------------------------------- MODULE Health -------------------------------
(***************************************************************************)
(* What the monitoring says about the observatory: the rollups of the      *)
(* read-only tools (tools/readonly.py), the findings the supervisor makes  *)
(* of them (monitor/health.py), the report card a person or the agent asks *)
(* for, which judges the same rollups by a second set of rules, the        *)
(* remedies (monitor/recovery.py), and the history rebuilt from audit rows.*)
(***************************************************************************)
EXTENDS Integers, FiniteSets, FiniteSetsExt, Sequences, SequencesExt

CONSTANTS
  CorrNode, SearchNode,     \* CORR_CNS, SEARCH_CNS
  Stream,                   \* capture streams: a corr node and a port
  MinCorr, MinSearch,       \* HealthThresholds.fleet_min_corr, fleet_min_search
  FlagWarn, FlagAlert,      \* rfi_flag_fraction_warn, _alert, in tenths
  Sites                     \* observatories to look at

Tool == {"fleet", "pointing", "sky", "sefd", "capture", "rfi", "search",
         "injections", "observation"}

\* What there is to be read: heartbeats present in etcd; how old frame and scan are;
\* streams that drop or are degraded; the fraction each node that reports it flags;
\* search nodes in trouble; antennas not settled; a recording over its cap; and the
\* tools whose reads fail.
Site == [beat : SUBSET (CorrNode \cup SearchNode),
         sky : {"fresh", "stale", "none"},
         sefd : SUBSET {"old", "high", "dead"},
         dropping : SUBSET Stream, degraded : SUBSET Stream,
         flagged : UNION {[N -> 0..10] : N \in SUBSET CorrNode},
         troubled : SUBSET SearchNode, moving : Nat, overrun : BOOLEAN,
         failing : SUBSET Tool]

ASSUME HealthAssumption ==
  /\ IsFiniteSet(CorrNode) /\ IsFiniteSet(SearchNode) /\ IsFiniteSet(Stream)
  /\ MinCorr \in Nat /\ MinSearch \in Nat
  /\ FlagWarn \in 0..FlagAlert /\ FlagAlert \in 0..10
  /\ Sites \subseteq Site

\* HealthThresholds(): every node must be up, as for the report card.
DefaultThresholds ==
  MinCorr = Cardinality(CorrNode) /\ MinSearch = Cardinality(SearchNode) /\ FlagAlert = 7

Level == {"ok", "warn", "alert"}

Rank(l) == CASE l = "ok" -> 0 [] l = "warn" -> 1 [] l = "alert" -> 2

\* The worst of a set of levels; ok if there is none.
WorstOf(L) == CHOOSE l \in L \cup {"ok"} : \A m \in L : Rank(m) <= Rank(l)

-----------------------------------------------------------------------------
(* The rollups.                                                            *)

Fails(site, tool) == tool \in site.failing

\* get_fleet_status: a node is up if its key is there.
Reporting(site, N) == Cardinality(site.beat \cap N)

\* get_array_pointing: antennas whose drive has not settled.
Unsettled(site) == site.moving > 0

\* get_capture_health: counts of streams.
Capture(site) == [dropping |-> Cardinality(site.dropping),
                  degraded |-> Cardinality(site.degraded)]

\* get_rfi_detail: the worst fraction, if a node reports one.
FlagMax(site) == IF DOMAIN site.flagged = {} THEN -1
                 ELSE Max({site.flagged[n] : n \in DOMAIN site.flagged})

\* get_search_health: clamped, dropping dumps or too late.
InTrouble(site) == site.troubled # {}

-----------------------------------------------------------------------------
(* evaluate_health.  A finding of level ok is not kept: it changes neither *)
(* the level of the report nor its codes.                                  *)

AlertCode == {"corr_nodes_down", "search_nodes_down", "capture_kernel_drops",
              "rfi_high", "obs_overrun"}

WarnCode == {"sky_no_data", "sky_stale", "sefd_stale", "sefd_high", "capture_degraded",
             "rfi_elevated", "tool_error"}

Code == AlertCode \cup WarnCode

Finding == [level : {"warn", "alert"}, code : Code]

Warn(c)  == [level |-> "warn", code |-> c]
Alert(c) == [level |-> "alert", code |-> c]

When(condition, finding) == IF condition THEN {finding} ELSE {}

\* Mutant: as many nodes as must be up are too few.
FleetFindingsAtLimit(site) ==
  When(Reporting(site, CorrNode) <= MinCorr, Alert("corr_nodes_down"))
    \cup When(Reporting(site, SearchNode) <= MinSearch, Alert("search_nodes_down"))

FleetFindings(site) ==
  When(Reporting(site, CorrNode) < MinCorr, Alert("corr_nodes_down"))
    \cup When(Reporting(site, SearchNode) < MinSearch, Alert("search_nodes_down"))

SkyFindings(site) ==
  When(site.sky = "none", Warn("sky_no_data"))
    \cup When(site.sky = "stale", Warn("sky_stale"))

SefdFindings(site) ==
  When("old" \in site.sefd, Warn("sefd_stale"))
    \cup When("high" \in site.sefd, Warn("sefd_high"))

CaptureFindings(site) ==
  LET c == Capture(site) IN
  IF c.dropping > 0 THEN {Alert("capture_kernel_drops")}
  ELSE When(c.degraded > 0, Warn("capture_degraded"))

RfiFindings(site) ==
  IF FlagMax(site) > FlagAlert THEN {Alert("rfi_high")}
  ELSE When(FlagMax(site) > FlagWarn, Warn("rfi_elevated"))

\* Without an answer about the observation there is nothing to say about it.
CapFindings(site) ==
  When(site.overrun /\ ~Fails(site, "observation"), Alert("obs_overrun"))

\* A section whose tool fails says that, and nothing else.
Section(site, tool, findings) ==
  IF Fails(site, tool) THEN {Warn("tool_error")} ELSE findings

EvaluateHealth(site) ==
  UNION {Section(site, "fleet", FleetFindings(site)),
         Section(site, "sky", SkyFindings(site)),
         Section(site, "sefd", SefdFindings(site)),
         Section(site, "capture", CaptureFindings(site)),
         Section(site, "rfi", RfiFindings(site)),
         CapFindings(site)}

LevelOf(report) == WorstOf({f.level : f \in report})

Codes(report) == {f.code : f \in report}

AlertCodes(report) == {f.code : f \in {g \in report : g.level = "alert"}}

\* RecoveryPlaybook.propose: the one condition with a safe remedy.
Propose(report) ==
  IF "search_nodes_down" \in Codes(report) THEN {"bounce_search"} ELSE {}

-----------------------------------------------------------------------------
(* health_report: a level for each section, with thresholds of its own     *)
(* (every node must be up).  A rollup that fails reads as an empty one: no *)
(* node is up, and nothing else is wrong.                                  *)

Card(site) ==
  LET reads(tool) == ~Fails(site, tool)
      troubled(tool, condition) == IF reads(tool) /\ condition THEN "warn" ELSE "ok"
  IN [fleet |-> IF reads("fleet") /\ CorrNode \cup SearchNode \subseteq site.beat
                THEN "ok" ELSE "alert",
      pointing |-> troubled("pointing", Unsettled(site)),
      capture |-> IF reads("capture") /\ site.dropping # {} THEN "alert"
                  ELSE troubled("capture", site.degraded # {}),
      rfi |-> IF reads("rfi") /\ FlagMax(site) > 7 THEN "alert"
              ELSE troubled("rfi", FlagMax(site) > 4),
      search |-> troubled("search", InTrouble(site)),
      sefd |-> IF reads("sefd") /\ "dead" \notin site.sefd THEN "ok" ELSE "warn",
      sky |-> IF reads("sky") THEN "ok" ELSE "warn"]

Overall(site) == WorstOf({Card(site)[k] : k \in DOMAIN Card(site)})

-----------------------------------------------------------------------------
(* get_health_history: what the changes of health of a window tell.        *)

History(edges) ==
  [worst |-> WorstOf({e.level : e \in ToSet(edges)}),
   alertEdges |-> Cardinality({i \in DOMAIN edges : edges[i].level = "alert"}),
   alertCodes |-> UNION {AlertCodes(e.report) : e \in ToSet(edges)}]
=============================================================================
