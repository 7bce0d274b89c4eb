----------------------------- MODULE HealthProofs ----------------------------
(***************************************************************************)
(* What Autonomy says of the health, for any observatories, supervisors    *)
(* and windows: the report card and the supervisor agree, the audit rows   *)
(* tell the state that was seen last, and every variable keeps its type.   *)
(***************************************************************************)
EXTENDS AutonomyProofs, FiniteSetTheorems, SequenceTheorems

-----------------------------------------------------------------------------
(* Levels and findings.                                                    *)

\* The level of a report is that of a finding, or ok, and none is worse.
LEMMA WorstIsWorst ==
  ASSUME NEW L, L \subseteq Level
  PROVE  /\ WorstOf(L) \in L \cup {"ok"}
         /\ \A m \in L : Rank(m) <= Rank(WorstOf(L))
  <1>1. \E l \in L \cup {"ok"} : \A m \in L : Rank(m) <= Rank(l)
    <2>1. CASE "alert" \in L
      BY <2>1 DEF Level, Rank
    <2>2. CASE "alert" \notin L /\ "warn" \in L
      BY <2>2 DEF Level, Rank
    <2>3. CASE "alert" \notin L /\ "warn" \notin L
      BY <2>3 DEF Level, Rank
    <2> QED
      BY <2>1, <2>2, <2>3
  <1> QED
    BY <1>1 DEF WorstOf

LEMMA AlertIsWorst ==
  ASSUME NEW L, L \subseteq Level
  PROVE  (WorstOf(L) = "alert") <=> ("alert" \in L)
  BY WorstIsWorst DEF Level, Rank

\* The findings there are: the code of one tells its level.
Kind == {Alert(c) : c \in AlertCode} \cup {Warn(c) : c \in WarnCode}

LEMMA CodesTellLevels ==
  \A f \in Kind :
    /\ f \in Finding
    /\ \/ f.level = "alert" /\ f.code \in AlertCode
       \/ f.level = "warn" /\ f.code \in Code \ AlertCode
  <1>1. AlertCode \cap WarnCode = {}
    BY DEF AlertCode, WarnCode
  <1>2. \A c \in AlertCode : /\ Alert(c) \in Finding
                            /\ Alert(c).level = "alert" /\ Alert(c).code = c
    BY DEF Alert, Finding, Code
  <1>3. \A c \in WarnCode : /\ Warn(c) \in Finding
                           /\ Warn(c).level = "warn" /\ Warn(c).code = c
    BY DEF Warn, Finding, Code
  <1> QED
    BY <1>1, <1>2, <1>3 DEF Kind, Code

LEMMA WhenKind ==
  ASSUME NEW condition, NEW f \in Kind
  PROVE  When(condition, f) \subseteq Kind
  BY DEF When

LEMMA FindingsAreKinds ==
  ASSUME NEW s
  PROVE  EvaluateHealth(s) \subseteq Kind
  <1>1. /\ \A c \in AlertCode : Alert(c) \in Kind
        /\ \A c \in WarnCode : Warn(c) \in Kind
    BY DEF Kind
  <1>2. FleetFindings(s) \subseteq Kind
    BY <1>1, WhenKind DEF FleetFindings, AlertCode
  <1>3. SkyFindings(s) \subseteq Kind
    BY <1>1, WhenKind DEF SkyFindings, WarnCode
  <1>4. SefdFindings(s) \subseteq Kind
    BY <1>1, WhenKind DEF SefdFindings, WarnCode
  <1>5. CaptureFindings(s) \subseteq Kind
    BY <1>1, WhenKind DEF CaptureFindings, AlertCode, WarnCode
  <1>6. RfiFindings(s) \subseteq Kind
    BY <1>1, WhenKind DEF RfiFindings, AlertCode, WarnCode
  <1>7. CapFindings(s) \subseteq Kind
    BY <1>1, WhenKind DEF CapFindings, AlertCode
  <1>8. ASSUME NEW tool, NEW F \in SUBSET Kind
        PROVE  Section(s, tool, F) \subseteq Kind
    BY <1>1 DEF Section, WarnCode
  <1> QED
    BY <1>2, <1>3, <1>4, <1>5, <1>6, <1>7, <1>8 DEF EvaluateHealth

\* A report is made of findings; which of its codes are alerts the codes themselves tell.
LEMMA ReportType ==
  ASSUME NEW s
  PROVE  /\ EvaluateHealth(s) \subseteq Finding
         /\ AlertCodes(EvaluateHealth(s)) = Codes(EvaluateHealth(s)) \cap AlertCode
         /\ Codes(EvaluateHealth(s)) \subseteq Code
         /\ LevelOf(EvaluateHealth(s)) \in Level
  <1> DEFINE R == EvaluateHealth(s)
  <1>1. \A f \in R : /\ f \in Finding
                     /\ \/ f.level = "alert" /\ f.code \in AlertCode
                        \/ f.level = "warn" /\ f.code \in Code \ AlertCode
    BY FindingsAreKinds, CodesTellLevels
  <1> HIDE DEF R
  <1>2. R \subseteq Finding
    BY <1>1
  <1>3. AlertCodes(R) = Codes(R) \cap AlertCode
    BY <1>1 DEF AlertCodes, Codes
  <1>4. Codes(R) \subseteq Code
    BY <1>1 DEF Codes, Code
  <1>5. {f.level : f \in R} \subseteq Level
    BY <1>1 DEF Level
  <1>6. LevelOf(R) \in Level
    BY <1>5, WorstIsWorst DEF LevelOf, Level
  <1> QED
    BY <1>2, <1>3, <1>4, <1>6 DEF R

-----------------------------------------------------------------------------
(* The report card.                                                        *)

\* Fewer nodes than there are, if and only if one is missing.
LEMMA FewerIfMissing ==
  ASSUME NEW N, IsFiniteSet(N), NEW up
  PROVE  (Cardinality(up \cap N) < Cardinality(N)) <=> ~(N \subseteq up)
  <1>1. /\ IsFiniteSet(up \cap N) /\ Cardinality(up \cap N) <= Cardinality(N)
        /\ Cardinality(N) = Cardinality(up \cap N) => N = up \cap N
    BY FS_Subset
  <1>2. Cardinality(N) \in Nat /\ Cardinality(up \cap N) \in Nat
    BY <1>1, FS_CardinalityType
  <1>3. CASE N \subseteq up
    <2>1. up \cap N = N
      BY <1>3
    <2> QED
      BY <1>2, <1>3, <2>1
  <1>4. CASE ~(N \subseteq up)
    <2>1. Cardinality(N) # Cardinality(up \cap N)
      BY <1>1, <1>4
    <2> QED
      BY <1>1, <1>2, <1>4, <2>1
  <1> QED
    BY <1>3, <1>4

\* What deserves an alert by the supervisor's rules: the same as by those of the card.
Deserves(s) ==
  \/ ~Fails(s, "fleet") /\ ~(CorrNode \cup SearchNode \subseteq s.beat)
  \/ ~Fails(s, "capture") /\ s.dropping # {}
  \/ ~Fails(s, "rfi") /\ FlagMax(s) > 7

LEMMA CardAlert ==
  ASSUME NEW s \in Site
  PROVE  (Overall(s) = "alert") <=> (Fails(s, "fleet") \/ Deserves(s))
  <1> DEFINE levels == {Card(s)[k] : k \in DOMAIN Card(s)}
  <1>1. DOMAIN Card(s) = {"fleet", "pointing", "capture", "rfi", "search", "sefd", "sky"}
    BY DEF Card
  <1>2. /\ Card(s).fleet = IF ~Fails(s, "fleet") /\ CorrNode \cup SearchNode \subseteq s.beat
                           THEN "ok" ELSE "alert"
        /\ Card(s).capture = "alert" <=> (~Fails(s, "capture") /\ s.dropping # {})
        /\ Card(s).capture \in Level
        /\ Card(s).rfi = "alert" <=> (~Fails(s, "rfi") /\ FlagMax(s) > 7)
        /\ Card(s).rfi \in Level
        /\ Card(s).pointing \in {"ok", "warn"} /\ Card(s).search \in {"ok", "warn"}
        /\ Card(s).sefd \in {"ok", "warn"} /\ Card(s).sky \in {"ok", "warn"}
    BY DEF Card, Level
  <1>3. levels = {Card(s).fleet, Card(s).pointing, Card(s).capture, Card(s).rfi,
                  Card(s).search, Card(s).sefd, Card(s).sky}
    BY <1>1
  <1>4. levels \subseteq Level
    BY <1>2, <1>3 DEF Level
  <1>5. ("alert" \in levels) <=> (Fails(s, "fleet") \/ Deserves(s))
    BY <1>2, <1>3 DEF Deserves
  <1> HIDE DEF levels
  <1>6. Overall(s) = WorstOf(levels)
    BY DEF Overall, levels
  <1> QED
    BY <1>4, <1>5, <1>6, AlertIsWorst

LEMMA SupervisorAlert ==
  ASSUME DefaultThresholds, NEW s \in Site
  PROVE  (AlertCodes(EvaluateHealth(s)) \ {"obs_overrun"} # {}) <=> Deserves(s)
  <1> DEFINE R == EvaluateHealth(s)
  <1>1. (AlertCodes(R) \ {"obs_overrun"} # {})
          <=> \E c \in AlertCode \ {"obs_overrun"} : Alert(c) \in R
    <2>1. \A f \in R : f.level = "alert" => f = Alert(f.code) /\ f.code \in AlertCode
      BY FindingsAreKinds, CodesTellLevels DEF Alert, Finding
    <2>2. \A c : Alert(c).level = "alert" /\ Alert(c).code = c
      BY DEF Alert
    <2> HIDE DEF R
    <2> QED
      BY <2>1, <2>2 DEF AlertCodes
  <1>2. \A c, d : /\ Alert(c) = Alert(d) <=> c = d
                 /\ Alert(c) # Warn(d)
    BY DEF Alert, Warn
  <1>3. \A c : Alert(c) \in FleetFindings(s)
                 <=> (\/ c = "corr_nodes_down" /\ ~(CorrNode \subseteq s.beat)
                      \/ c = "search_nodes_down" /\ ~(SearchNode \subseteq s.beat))
    <2>1. (Reporting(s, CorrNode) < MinCorr) <=> ~(CorrNode \subseteq s.beat)
      BY FewerIfMissing, HealthAssumption DEF DefaultThresholds, Reporting
    <2>2. (Reporting(s, SearchNode) < MinSearch) <=> ~(SearchNode \subseteq s.beat)
      BY FewerIfMissing, HealthAssumption DEF DefaultThresholds, Reporting
    <2> QED
      BY <1>2, <2>1, <2>2 DEF FleetFindings, When
  <1>4. \A c : Alert(c) \notin SkyFindings(s) /\ Alert(c) \notin SefdFindings(s)
    BY <1>2 DEF SkyFindings, SefdFindings, When
  <1>5. \A c : Alert(c) \in CaptureFindings(s)
                 <=> c = "capture_kernel_drops" /\ s.dropping # {}
    <2>1. IsFiniteSet(s.dropping)
      BY FS_Subset, HealthAssumption DEF Site
    <2>2. (Cardinality(s.dropping) > 0) <=> s.dropping # {}
      BY <2>1, FS_EmptySet, FS_CardinalityType
    <2> QED
      BY <1>2, <2>2 DEF CaptureFindings, Capture, When
  <1>6. \A c : Alert(c) \in RfiFindings(s) <=> c = "rfi_high" /\ FlagMax(s) > 7
    BY <1>2 DEF RfiFindings, DefaultThresholds, When
  <1>7. \A c : Alert(c) \in CapFindings(s) => c = "obs_overrun"
    BY <1>2 DEF CapFindings, When
  <1>8. \A c, tool, F : Alert(c) \in Section(s, tool, F) <=> ~Fails(s, tool) /\ Alert(c) \in F
    BY <1>2 DEF Section
  <1>9. \A c : Alert(c) \in R
                 <=> (\/ Alert(c) \in Section(s, "fleet", FleetFindings(s))
                      \/ Alert(c) \in Section(s, "sky", SkyFindings(s))
                      \/ Alert(c) \in Section(s, "sefd", SefdFindings(s))
                      \/ Alert(c) \in Section(s, "capture", CaptureFindings(s))
                      \/ Alert(c) \in Section(s, "rfi", RfiFindings(s))
                      \/ Alert(c) \in CapFindings(s))
    BY DEF EvaluateHealth
  <1>10. \A c \in AlertCode \ {"obs_overrun"} :
           Alert(c) \in R
             <=> (\/ /\ ~Fails(s, "fleet")
                     /\ \/ c = "corr_nodes_down" /\ ~(CorrNode \subseteq s.beat)
                        \/ c = "search_nodes_down" /\ ~(SearchNode \subseteq s.beat)
                  \/ ~Fails(s, "capture") /\ c = "capture_kernel_drops" /\ s.dropping # {}
                  \/ ~Fails(s, "rfi") /\ c = "rfi_high" /\ FlagMax(s) > 7)
    <2> HIDE DEF R
    <2> QED
      BY <1>3, <1>4, <1>5, <1>6, <1>7, <1>8, <1>9
  <1> QED
    <2> HIDE DEF R
    <2>1. {"corr_nodes_down", "search_nodes_down", "capture_kernel_drops", "rfi_high"}
            = AlertCode \ {"obs_overrun"}
      BY DEF AlertCode
    <2>2. (\E c \in AlertCode \ {"obs_overrun"} : Alert(c) \in R) <=> Deserves(s)
      BY <1>10, <2>1 DEF Deserves
    <2> QED
      BY <1>1, <2>2 DEF R

SiteKnown == site \in Sites

LEMMA SiteStays ==
  ASSUME SiteKnown, [Next]_vars
  PROVE  SiteKnown'
  <1>1. UNCHANGED site \/ site' \in Sites
    BY DEF Next, vars, world, LeaseChanges, StopsChange, SiteChanges, MatchComes, MatchesGo,
           WindowMoves, Tick, Look, Recover, Verify, BeginFire, Fire, NothingToFire,
           TickRaises, Restart, ProbeRipens, IntervalPasses
  <1> QED
    BY <1>1 DEF SiteKnown

\* The report card and the supervisor agree on what deserves an alert, for any
\* observatories, whichever reads fail (health.py:128-216, readonly.py:539-611).
THEOREM CardTheorem == Spec => []CardAgrees
  <1>1. ASSUME DefaultThresholds, NEW s \in Site
        PROVE  Agrees(s)
    BY <1>1, CardAlert, SupervisorAlert DEF Agrees
  <1>2. SiteKnown => CardAgrees
    <2> SUFFICES ASSUME site \in Site, DefaultThresholds, NEW t \in {"fleet", "capture"}
                 PROVE  /\ Agrees([site EXCEPT !.failing = @ \ {t}])
                        /\ Agrees([site EXCEPT !.failing = @ \cup {t}])
      BY HealthAssumption DEF SiteKnown, CardAgrees
    <2>1. /\ [site EXCEPT !.failing = @ \ {t}] \in Site
          /\ [site EXCEPT !.failing = @ \cup {t}] \in Site
      BY DEF Site, Tool
    <2> QED
      BY <1>1, <2>1
  <1>3. Init => SiteKnown
    BY DEF Init, SiteKnown
  <1>4. SiteKnown /\ [Next]_vars => SiteKnown'
    BY SiteStays
  <1> QED
    BY <1>2, <1>3, <1>4, PTL DEF Spec

-----------------------------------------------------------------------------
(* The audit rows.                                                         *)

\* A sequence without its first k elements.
Drops(t, s, k) == /\ Len(t) = Len(s) - k
                  /\ \A i \in 1..Len(t) : t[i] = s[i + k]

LEMMA MaxOfTwo ==
  ASSUME NEW n \in Int
  PROVE  Max({1, n}) = IF n > 1 THEN n ELSE 1
  <1>1. \E x \in {1, n} : \A y \in {1, n} : x >= y
    OBVIOUS
  <1>2. Max({1, n}) \in {1, n} /\ \A y \in {1, n} : Max({1, n}) >= y
    BY <1>1 DEF Max
  <1> QED
    BY <1>2

\* The window takes the new row at its end, loses rows at its start, and stays in bounds.
LEMMA PushDrops ==
  ASSUME NEW S, NEW s \in Seq(S), NEW r \in S
  PROVE  /\ Push(s, r) \in Seq(S) /\ Len(Push(s, r)) <= MaxRows
         /\ \E k \in 0..Len(s) + 1 : Drops(Push(s, r), Append(s, r), k)
  <1> DEFINE t == Append(s, r)
             first == Max({1, Len(t) - MaxRows + 1})
  <1>1. t \in Seq(S) /\ Len(t) = Len(s) + 1 /\ Len(s) \in Nat
    OBVIOUS
  <1>2. first = IF Len(t) - MaxRows + 1 > 1 THEN Len(t) - MaxRows + 1 ELSE 1
    BY <1>1, MaxOfTwo, AutonomyAssumption
  <1>3. first \in 1..Len(t) + 1 /\ Len(t) - first + 1 <= MaxRows
    BY <1>1, <1>2, AutonomyAssumption
  <1>4. Push(s, r) = SubSeq(t, first, Len(t))
    BY DEF Push
  <1> HIDE DEF t, first
  <1>5. \A i \in first..Len(t) : t[i] \in S
    BY <1>1, <1>3
  <1>6. /\ SubSeq(t, first, Len(t)) \in Seq(S)
        /\ Len(SubSeq(t, first, Len(t))) = IF first <= Len(t) THEN Len(t) - first + 1 ELSE 0
        /\ \A i \in 1..Len(t) - first + 1 : SubSeq(t, first, Len(t))[i] = t[first + i - 1]
    BY <1>1, <1>3, <1>5, SubSeqProperties
  <1>7. Len(SubSeq(t, first, Len(t))) = Len(t) - first + 1
    BY <1>1, <1>3, <1>6
  <1>8. Drops(Push(s, r), t, first - 1)
    BY <1>1, <1>3, <1>4, <1>6, <1>7 DEF Drops
  <1>9. first - 1 \in 0..Len(s) + 1
    BY <1>1, <1>3
  <1> QED
    BY <1>3, <1>4, <1>6, <1>7, <1>8, <1>9 DEF t

\* Every row tells of the report it was made for.
RowTells(r) == /\ r.level = LevelOf(r.report)
               /\ AlertCodes(r.report) = Codes(r.report) \cap AlertCode

\* The last row of a supervisor is the state it has seen last, unless it could not be
\* written.
LastIn(s, p, i) == s[i].by = p /\ \A j \in DOMAIN s : s[j].by = p => j <= i

LastTells(s, p, state) ==
  \A i \in DOMAIN s : LastIn(s, p, i) => StateOf(s[i].report) = state

RowsInv ==
  /\ rows \in Seq(Row)
  /\ \A i \in DOMAIN rows : RowTells(rows[i])

StateInv ==
  /\ DOMAIN lastState = Supervisor /\ DOMAIN active = Supervisor
  /\ unwritten \in [Supervisor -> BOOLEAN]
  /\ \A p \in Supervisor : lastState[p] # NoReport => active[p] = lastState[p][2] \cap AlertCode
  /\ \A p \in Supervisor :
       lastState[p] # NoReport /\ ~unwritten[p] => LastTells(rows, p, lastState[p])

HistoryInv == RowsInv /\ StateInv

\* What the rows tell of the others stays when old rows are dropped.
LEMMA DropsTell ==
  ASSUME NEW s \in Seq(Row), NEW t \in Seq(Row), NEW k \in 0..Len(s), Drops(t, s, k),
         NEW p, NEW state, LastTells(s, p, state)
  PROVE  LastTells(t, p, state)
  <1> SUFFICES ASSUME NEW i \in DOMAIN t, LastIn(t, p, i)
               PROVE  StateOf(t[i].report) = state
    BY DEF LastTells
  <1>1. /\ i \in 1..Len(t) /\ i + k \in DOMAIN s /\ t[i] = s[i + k]
        /\ Len(s) \in Nat /\ DOMAIN s = 1..Len(s) /\ DOMAIN t = 1..Len(t)
    BY DEF Drops
  <1>2. ASSUME NEW j \in DOMAIN s, s[j].by = p
        PROVE  j <= i + k
    <2>1. CASE j <= k
      BY <1>1, <2>1
    <2>2. CASE j > k
      <3>1. j - k \in DOMAIN t /\ t[j - k] = s[j]
        <4>1. j - k \in 1..Len(t) /\ (j - k) + k = j
          BY <1>1, <2>2 DEF Drops
        <4> QED
          BY <1>1, <4>1 DEF Drops
      <3> QED
        BY <1>1, <1>2, <3>1 DEF LastIn
    <2> QED
      BY <1>1, <2>1, <2>2
  <1>3. LastIn(s, p, i + k)
    BY <1>1, <1>2 DEF LastIn
  <1> QED
    BY <1>1, <1>3 DEF LastTells

LEMMA DropsRows ==
  ASSUME NEW s \in Seq(Row), NEW t \in Seq(Row), NEW k \in 0..Len(s), Drops(t, s, k),
         \A i \in DOMAIN s : RowTells(s[i])
  PROVE  \A i \in DOMAIN t : RowTells(t[i])
  BY DEF Drops

\* A row that is appended is the last of its supervisor; those of the others stay.
LEMMA AppendTells ==
  ASSUME NEW s \in Seq(Row), NEW r \in Row, NEW p
  PROVE  /\ r.by = p => LastTells(Append(s, r), p, StateOf(r.report))
         /\ r.by # p => \A state : LastTells(s, p, state) => LastTells(Append(s, r), p, state)
  <1>1. /\ DOMAIN Append(s, r) = 1..Len(s) + 1 /\ DOMAIN s = 1..Len(s) /\ Len(s) \in Nat
        /\ Append(s, r)[Len(s) + 1] = r
        /\ \A i \in 1..Len(s) : Append(s, r)[i] = s[i]
    OBVIOUS
  <1>2. ASSUME r.by = p, NEW i \in DOMAIN Append(s, r), LastIn(Append(s, r), p, i)
        PROVE  Append(s, r)[i] = r
    <2>1. Len(s) + 1 <= i
      BY <1>1, <1>2 DEF LastIn
    <2> QED
      BY <1>1, <1>2, <2>1
  <1>3. ASSUME r.by # p, NEW i \in DOMAIN Append(s, r), LastIn(Append(s, r), p, i)
        PROVE  i \in DOMAIN s /\ LastIn(s, p, i) /\ Append(s, r)[i] = s[i]
    <2>1. i \in 1..Len(s)
      BY <1>1, <1>3 DEF LastIn
    <2> QED
      BY <1>1, <1>3, <2>1 DEF LastIn
  <1> QED
    BY <1>2, <1>3 DEF LastTells

LEMMA RecordTells ==
  ASSUME HistoryInv, NEW p \in Supervisor, NEW written \in BOOLEAN,
         RecordHealth(p, HealthOf[site], written), site \in Sites
  PROVE  HistoryInv'
  <1> DEFINE f == HealthOf[site]
             r == [level |-> LevelOf(f), report |-> f, by |-> p]
  <1>1. /\ f \subseteq Finding /\ AlertCodes(f) = Codes(f) \cap AlertCode
        /\ LevelOf(f) \in Level
    BY ReportType DEF HealthOf
  <1> HIDE DEF f
  <1>2. r \in Row /\ RowTells(r) /\ StateOf(r.report) = StateOf(f) /\ r.by = p
    BY <1>1 DEF Row, RowTells
  <1>3. /\ lastState' = [lastState EXCEPT ![p] = StateOf(f)]
        /\ active' = [active EXCEPT ![p] = AlertCodes(f)]
        /\ \/ /\ Edge(p, f) /\ written
              /\ rows' = Push(rows, r) /\ unwritten' = [unwritten EXCEPT ![p] = FALSE]
           \/ /\ Edge(p, f) /\ ~written
              /\ rows' = rows /\ unwritten' = [unwritten EXCEPT ![p] = TRUE]
           \/ ~Edge(p, f) /\ UNCHANGED <<rows, unwritten>>
    <2>1. /\ lastState' = [lastState EXCEPT ![p] = StateOf(f)]
          /\ active' = [active EXCEPT ![p] = AlertCodes(f)]
          /\ rows' = IF Edge(p, f) /\ written THEN Push(rows, r) ELSE rows
          /\ unwritten' = [unwritten EXCEPT ![p] = IF Edge(p, f) THEN ~written ELSE unwritten[p]]
      BY DEF RecordHealth, f
    <2>2. CASE Edge(p, f) /\ written
      <3>1. (IF Edge(p, f) THEN ~written ELSE unwritten[p]) = FALSE
        BY <2>2
      <3> QED
        BY <2>1, <2>2, <3>1
    <2>3. CASE Edge(p, f) /\ ~written
      <3>1. (IF Edge(p, f) THEN ~written ELSE unwritten[p]) = TRUE
        BY <2>3
      <3> QED
        BY <2>1, <2>3, <3>1
    <2>4. CASE ~Edge(p, f)
      <3>1. unwritten' = [unwritten EXCEPT ![p] = unwritten[p]]
        BY <2>1, <2>4
      <3>2. unwritten' = unwritten
        BY <3>1, Zenon DEF HistoryInv, StateInv
      <3> QED
        BY <2>1, <2>4, <3>2
    <2> QED
      BY <2>2, <2>3, <2>4
  <1> HIDE DEF r
  <1>4. /\ DOMAIN lastState' = Supervisor /\ DOMAIN active' = Supervisor
        /\ unwritten' \in [Supervisor -> BOOLEAN]
        /\ \A q \in Supervisor : lastState'[q] # NoReport
                                   => active'[q] = lastState'[q][2] \cap AlertCode
    <2>1. unwritten' \in [Supervisor -> BOOLEAN]
      BY <1>3, Zenon DEF HistoryInv, StateInv
    <2> QED
      BY <1>1, <1>3, <2>1 DEF HistoryInv, StateInv, StateOf
  <1>5. ASSUME NEW q \in Supervisor \ {p}
        PROVE  lastState'[q] = lastState[q] /\ (~unwritten'[q] => ~unwritten[q])
    <2>1. unwritten'[q] = unwritten[q]
      BY <1>3, Zenon DEF HistoryInv, StateInv
    <2> QED
      BY <1>3, <2>1 DEF HistoryInv, StateInv
  <1>6. CASE Edge(p, f) /\ written
    <2>1. rows' = Push(rows, r) /\ rows \in Seq(Row) /\ lastState'[p] = StateOf(f)
      BY <1>3, <1>6 DEF HistoryInv, RowsInv, StateInv
    <2> DEFINE t == Append(rows, r)
    <2>2. t \in Seq(Row) /\ \A i \in DOMAIN t : RowTells(t[i])
      BY <1>2, <2>1 DEF HistoryInv, RowsInv
    <2>3. PICK k \in 0..Len(t) : Drops(rows', t, k) /\ rows' \in Seq(Row)
      BY <1>2, <2>1, PushDrops
    <2>4. RowsInv'
      BY <2>2, <2>3, DropsRows DEF RowsInv
    <2>5. LastTells(t, p, StateOf(f))
      BY <1>2, <2>1, AppendTells
    <2>6. \A q \in Supervisor \ {p} :
            lastState[q] # NoReport /\ ~unwritten[q] => LastTells(t, q, lastState[q])
      BY <1>2, <2>1, AppendTells DEF HistoryInv, StateInv
    <2> HIDE DEF t
    <2>7. ASSUME NEW q \in Supervisor, lastState'[q] # NoReport, ~unwritten'[q]
          PROVE  LastTells(rows', q, lastState'[q])
      <3>1. LastTells(t, q, lastState'[q])
        BY <1>5, <2>1, <2>5, <2>6, <2>7
      <3> QED
        BY <2>2, <2>3, <3>1, DropsTell
    <2> QED
      BY <1>4, <2>4, <2>7 DEF HistoryInv, StateInv, LastTells, LastIn
  <1>7. CASE ~(Edge(p, f) /\ written)
    <2>1. rows' = rows /\ lastState'[p] = StateOf(f)
      BY <1>3, <1>7 DEF HistoryInv, StateInv
    <2>2. ~unwritten'[p] => StateOf(f) = lastState[p] /\ ~unwritten[p]
      <3>1. CASE Edge(p, f)
        <4>1. unwritten'[p]
          BY <1>3, <1>7, <3>1, Zenon DEF HistoryInv, StateInv
        <4> QED
          BY <4>1
      <3>2. CASE ~Edge(p, f)
        BY <1>3, <3>2 DEF Edge
      <3> QED
        BY <3>1, <3>2
    <2>3. ASSUME NEW q \in Supervisor, lastState'[q] # NoReport, ~unwritten'[q]
          PROVE  LastTells(rows', q, lastState'[q])
      BY <1>5, <2>1, <2>2, <2>3 DEF HistoryInv, StateInv
    <2> QED
      BY <1>4, <2>1, <2>3 DEF HistoryInv, RowsInv, StateInv, LastTells, LastIn
  <1> QED
    BY <1>6, <1>7

LEMMA HistorySteps ==
  ASSUME [Next]_vars
  PROVE  \/ UNCHANGED <<rows, lastState, active, unwritten>>
         \/ WindowMoves
         \/ \E p \in Supervisor :
              \/ \E written \in BOOLEAN : RecordHealth(p, HealthOf[site], written)
              \/ Restart(p)
  <1>1. CASE UNCHANGED vars
    BY <1>1 DEF vars, alerts
  <1>2. CASE LeaseChanges \/ StopsChange \/ SiteChanges \/ MatchComes \/ MatchesGo
    BY <1>2 DEF LeaseChanges, StopsChange, SiteChanges, MatchComes, MatchesGo, alerts
  <1>3. ASSUME NEW p \in Supervisor, Tick(p)
        PROVE  \/ UNCHANGED <<rows, lastState, active, unwritten>>
               \/ \E written \in BOOLEAN : RecordHealth(p, HealthOf[site], written)
    <2>1. CASE Look(p)
      BY <2>1 DEF Look, alerts
    <2>2. CASE Recover(p) \/ Verify(p) \/ BeginFire(p) \/ Fire(p) \/ NothingToFire(p)
      BY <2>2 DEF Recover, Verify, BeginFire, Fire, NothingToFire, alerts
    <2> QED
      BY <1>3, <2>1, <2>2 DEF Tick
  <1>4. ASSUME NEW p \in Supervisor, TickRaises(p) \/ ProbeRipens(p)
        PROVE  UNCHANGED <<rows, lastState, active, unwritten>>
    BY <1>4 DEF TickRaises, ProbeRipens, alerts
  <1>5. ASSUME NEW p \in Supervisor, NEW l \in waiting[p], IntervalPasses(p, l)
        PROVE  UNCHANGED <<rows, lastState, active, unwritten>>
    BY <1>5 DEF IntervalPasses, alerts
  <1> QED
    BY <1>1, <1>2, <1>3, <1>4, <1>5 DEF Next

LEMMA HistoryStepInv ==
  ASSUME HistoryInv, SiteKnown, [Next]_vars
  PROVE  HistoryInv'
  <1>1. CASE UNCHANGED <<rows, lastState, active, unwritten>>
    BY <1>1 DEF HistoryInv, RowsInv, StateInv, LastTells, LastIn
  <1>2. CASE WindowMoves
    <2>1. /\ rows # <<>> /\ rows' = Tail(rows) /\ rows \in Seq(Row)
          /\ UNCHANGED <<lastState, active, unwritten>>
      BY <1>2 DEF WindowMoves, alerts, HistoryInv, RowsInv
    <2>2. rows' \in Seq(Row) /\ Drops(rows', rows, 1) /\ 1 \in 0..Len(rows)
      BY <2>1, HeadTailProperties, EmptySeq DEF Drops
    <2>3. RowsInv'
      BY <2>1, <2>2, DropsRows DEF HistoryInv, RowsInv
    <2>4. ASSUME NEW q \in Supervisor, lastState'[q] # NoReport, ~unwritten'[q]
          PROVE  LastTells(rows', q, lastState'[q])
      <3>1. LastTells(rows, q, lastState[q])
        BY <2>1, <2>4 DEF HistoryInv, StateInv
      <3> QED
        BY <2>1, <2>2, <3>1, DropsTell
    <2> QED
      BY <2>1, <2>3, <2>4 DEF HistoryInv, StateInv, LastTells, LastIn
  <1>3. ASSUME NEW p \in Supervisor, NEW written \in BOOLEAN,
               RecordHealth(p, HealthOf[site], written)
        PROVE  HistoryInv'
    BY <1>3, RecordTells DEF SiteKnown
  <1>4. ASSUME NEW p \in Supervisor, Restart(p)
        PROVE  HistoryInv'
    <2>1. /\ lastState' = [lastState EXCEPT ![p] = NoReport]
          /\ active' = [active EXCEPT ![p] = {}]
          /\ unwritten' = [unwritten EXCEPT ![p] = FALSE]
          /\ rows' = rows
      BY <1>4 DEF Restart
    <2>2. /\ unwritten' \in [Supervisor -> BOOLEAN]
          /\ \A q \in Supervisor \ {p} : unwritten'[q] = unwritten[q]
      BY <2>1, Zenon DEF HistoryInv, StateInv
    <2>3. /\ DOMAIN lastState' = Supervisor /\ DOMAIN active' = Supervisor
          /\ lastState'[p] = NoReport
          /\ \A q \in Supervisor \ {p} : lastState'[q] = lastState[q] /\ active'[q] = active[q]
      BY <2>1 DEF HistoryInv, StateInv
    <2> QED
      BY <2>1, <2>2, <2>3 DEF HistoryInv, RowsInv, StateInv, LastTells, LastIn
  <1> QED
    BY <1>1, <1>2, <1>3, <1>4, HistorySteps

\* The history rebuilt from the audit rows tells of the state each supervisor has seen last,
\* and of its alerts, unless that row could not be written or has left the window, for any
\* number of supervisors, rows and observatories (supervisor.py:235-250,
\* readonly.py:615-687).
THEOREM Edges == Spec => []EdgesTellTheState
  <1>1. Init => HistoryInv
    BY DEF Init, Each, HistoryInv, RowsInv, StateInv, LastTells
  <1>2. HistoryInv => EdgesTellTheState
    <2> SUFFICES ASSUME HistoryInv, NEW p \in Supervisor, NEW i \in DOMAIN rows,
                        LastOf(p, i), lastState[p] # NoReport, ~unwritten[p]
                 PROVE  /\ StateOf(rows[i].report) = lastState[p]
                        /\ Rank(lastState[p][1]) <= Rank(History(rows).worst)
                        /\ active[p] \subseteq History(rows).alertCodes
      BY DEF EdgesTellTheState
    <2> DEFINE r == rows[i]
    <2>1. StateOf(r.report) = lastState[p] /\ active[p] = lastState[p][2] \cap AlertCode
      BY DEF HistoryInv, StateInv, LastTells, LastIn, LastOf
    <2>2. r \in Row /\ RowTells(r) /\ r \in ToSet(rows) /\ ToSet(rows) \subseteq Row
      BY DEF HistoryInv, RowsInv, ToSet
    <2>3. r.level = lastState[p][1] /\ AlertCodes(r.report) = active[p]
      BY <2>1, <2>2 DEF RowTells, StateOf
    <2> HIDE DEF r
    <2>4. Rank(r.level) <= Rank(WorstOf({e.level : e \in ToSet(rows)}))
      <3>1. {e.level : e \in ToSet(rows)} \subseteq Level
        BY <2>2 DEF Row
      <3> QED
        BY <2>2, <3>1, WorstIsWorst
    <2>5. AlertCodes(r.report) \subseteq UNION {AlertCodes(e.report) : e \in ToSet(rows)}
      BY <2>2
    <2>6. /\ History(rows).worst = WorstOf({e.level : e \in ToSet(rows)})
          /\ History(rows).alertCodes = UNION {AlertCodes(e.report) : e \in ToSet(rows)}
      BY DEF History
    <2> QED
      BY <2>1, <2>3, <2>4, <2>5, <2>6 DEF r
  <1>3. Init => SiteKnown
    BY DEF Init, SiteKnown
  <1>4. SiteKnown /\ HistoryInv /\ [Next]_vars => (SiteKnown /\ HistoryInv)'
    BY HistoryStepInv, SiteStays
  <1> QED
    BY <1>1, <1>2, <1>3, <1>4, PTL DEF Spec

-----------------------------------------------------------------------------
(* Types: what the invariants above do not say.                            *)

WorldType ==
  /\ holder \in Session \cup {NoSession}
  /\ stops \subseteq Stop
  /\ matches \in 0..MaxMatches
  /\ faults \in 0..MaxFaults

TickType ==
  /\ pc \in [Supervisor -> {"idle", "recover", "probe", "fire"}]
  /\ waiting \in [Supervisor -> SUBSET {"health", "injection"}]
  /\ remedies \in [Supervisor -> 0..2]
  /\ evidence \in [Supervisor -> SUBSET Happening]
  /\ DOMAIN report = Supervisor
  /\ \A p \in Supervisor : report[p] = NoReport \/ report[p] \subseteq Finding

SeenType ==
  /\ Len(rows) <= MaxRows
  /\ \A p \in Supervisor : lastState[p] = NoReport \/ lastState[p] \in Level \X SUBSET Code
  /\ active \in [Supervisor -> SUBSET AlertCode]

LEMMA FaultType ==
  ASSUME faults \in 0..MaxFaults, UNCHANGED faults \/ Fault \/ \E ok \in BOOLEAN : Succeeds(ok)
  PROVE  faults' \in 0..MaxFaults
  BY AutonomyAssumption DEF Succeeds, Fault

LEMMA WorldTypeInv ==
  ASSUME WorldType, [Next]_vars
  PROVE  WorldType'
  <1> USE DEF WorldType
  <1>1. CASE LeaseChanges
    <2>1. holder' \in Session \cup {NoSession} /\ UNCHANGED <<stops, matches, faults>>
      BY <1>1 DEF LeaseChanges, Executor!SENext, Executor!Claim, Executor!Vacate
    <2> QED
      BY <2>1
  <1>2. CASE StopsChange
    BY <1>2 DEF StopsChange
  <1>3. CASE SiteChanges \/ WindowMoves
    BY <1>3 DEF SiteChanges, WindowMoves, world
  <1>4. CASE MatchComes \/ MatchesGo
    BY <1>4, AutonomyAssumption DEF MatchComes, MatchesGo, world
  <1>5. ASSUME NEW p \in Supervisor,
               \/ Tick(p) \/ TickRaises(p) \/ Restart(p) \/ ProbeRipens(p)
               \/ \E l \in waiting[p] : IntervalPasses(p, l)
        PROVE  WorldType'
    <2>1. UNCHANGED <<holder, stops, matches>>
      BY <1>5 DEF Tick, Look, Recover, Verify, BeginFire, Fire, NothingToFire, TickRaises,
                  Restart, ProbeRipens, IntervalPasses, world
    <2>2. UNCHANGED faults \/ Fault \/ \E ok \in BOOLEAN : Succeeds(ok)
      <3>1. CASE Look(p) \/ Recover(p) \/ Fire(p)
        BY <3>1 DEF Look, Recover, Fire
      <3>2. CASE \/ Verify(p) \/ BeginFire(p) \/ NothingToFire(p) \/ ProbeRipens(p)
                 \/ \E l \in waiting[p] : IntervalPasses(p, l)
        BY <3>2 DEF Verify, BeginFire, NothingToFire, ProbeRipens, IntervalPasses
      <3>3. CASE TickRaises(p) \/ Restart(p)
        BY <3>3 DEF TickRaises, Restart
      <3> QED
        BY <1>5, <3>1, <3>2, <3>3 DEF Tick
    <2>3. faults' \in 0..MaxFaults
      BY <2>2, FaultType
    <2> QED
      BY <2>1, <2>3
  <1>6. CASE UNCHANGED vars
    BY <1>6 DEF vars, world
  <1> QED
    BY <1>1, <1>2, <1>3, <1>4, <1>5, <1>6 DEF Next

LEMMA LookType ==
  ASSUME TickType, SiteKnown, NEW p \in Supervisor, Look(p)
  PROVE  TickType'
  <1>1. HealthOf[site] \subseteq Finding
    BY ReportType DEF HealthOf, SiteKnown
  <1>2. /\ UNCHANGED pc \/ pc' = [pc EXCEPT ![p] = "recover"]
        /\ UNCHANGED waiting \/ waiting' = [waiting EXCEPT ![p] = @ \cup {"health"}]
        /\ UNCHANGED remedies \/ remedies' = [remedies EXCEPT ![p] = 0]
        /\ UNCHANGED evidence
        /\ \/ UNCHANGED report
           \/ report' = [report EXCEPT ![p] = HealthOf[site]]
           \/ report' = [report EXCEPT ![p] = NoReport]
    BY DEF Look, Goto, alerts, probes
  <1> QED
    BY <1>1, <1>2 DEF TickType

LEMMA RecoverType ==
  ASSUME TickType, NEW p \in Supervisor, Recover(p)
  PROVE  TickType'
  <1>1. /\ pc' = [pc EXCEPT ![p] = "probe"]
        /\ report' = [report EXCEPT ![p] = NoReport]
        /\ UNCHANGED <<waiting, evidence>>
    BY DEF Recover, Goto, probes
  <1>2. remedies' \in [Supervisor -> 0..2]
    <2>1. CASE Remedies(p) = {}
      BY <2>1 DEF Recover, TickType
    <2>2. CASE Remedies(p) # {}
      <3>1. PICK o : remedies' = [remedies EXCEPT ![p] =
                                    IF o = "executed" /\ remedies[p] < 2
                                    THEN remedies[p] + 1 ELSE remedies[p]]
        BY <2>2 DEF Recover
      <3>2. (IF o = "executed" /\ remedies[p] < 2 THEN remedies[p] + 1 ELSE remedies[p]) \in 0..2
        BY DEF TickType
      <3> QED
        BY <3>1, <3>2 DEF TickType
    <2> QED
      BY <2>1, <2>2
  <1> QED
    BY <1>1, <1>2 DEF TickType

LEMMA ProbeStepsType ==
  ASSUME TickType, NEW p \in Supervisor,
         Verify(p) \/ BeginFire(p) \/ NothingToFire(p) \/ Fire(p)
  PROVE  TickType'
  <1>1. UNCHANGED <<report, remedies>>
    BY DEF Verify, BeginFire, NothingToFire, Fire, alerts
  <1>2. UNCHANGED pc \/ \E l \in {"fire", "idle"} : pc' = [pc EXCEPT ![p] = l]
    BY DEF Verify, BeginFire, NothingToFire, Fire, Goto
  <1>3. UNCHANGED waiting \/ waiting' = [waiting EXCEPT ![p] = @ \cup {"injection"}]
    BY DEF Verify, BeginFire, NothingToFire, Fire
  <1>4. UNCHANGED evidence \/ \E e \in SUBSET Happening : evidence' = [evidence EXCEPT ![p] = e]
    <2>1. CASE Verify(p)
      BY <2>1 DEF Verify
    <2>2. CASE BeginFire(p)
      <3>1. Misread \in SUBSET Happening
        BY DEF Misread, Happening
      <3> QED
        BY <2>2, <3>1 DEF BeginFire
    <2>3. CASE NothingToFire(p)
      BY <2>3 DEF NothingToFire, probes
    <2>4. CASE Fire(p)
      <3>1. evidence[p] \in SUBSET Happening
        BY DEF TickType
      <3>2. PICK o : evidence' = [evidence EXCEPT ![p] =
                                    IF o \in InFlightOutcomes THEN evidence[p] ELSE {}]
        BY <2>4 DEF Fire
      <3> QED
        BY <3>1, <3>2
    <2> QED
      BY <2>1, <2>2, <2>3, <2>4
  <1> QED
    BY <1>1, <1>2, <1>3, <1>4 DEF TickType

LEMMA CutOffType ==
  ASSUME TickType, NEW p \in Supervisor, TickRaises(p) \/ Restart(p)
  PROVE  TickType'
  <1>1. /\ pc' = [pc EXCEPT ![p] = "idle"]
        /\ report' = [report EXCEPT ![p] = NoReport]
        /\ UNCHANGED waiting \/ waiting' = [waiting EXCEPT ![p] = {}]
        /\ UNCHANGED remedies \/ remedies' = [remedies EXCEPT ![p] = 0]
        /\ \/ evidence' = [evidence EXCEPT ![p] = {}]
           \/ evidence' = [evidence EXCEPT ![p] = IF pending[p] = NoProbe THEN {} ELSE @]
    BY DEF TickRaises, Restart, Goto, alerts
  <1> QED
    BY <1>1 DEF TickType

LEMMA TickTypeInv ==
  ASSUME TickType, SiteKnown, [Next]_vars
  PROVE  TickType'
  <1>1. CASE LeaseChanges \/ StopsChange \/ SiteChanges \/ WindowMoves \/ UNCHANGED vars
    <2>1. UNCHANGED <<pc, waiting, remedies, evidence, report>>
      BY <1>1 DEF LeaseChanges, StopsChange, SiteChanges, WindowMoves, vars, alerts, probes
    <2> QED
      BY <2>1 DEF TickType
  <1>2. CASE MatchComes \/ MatchesGo
    <2>1. UNCHANGED <<pc, waiting, remedies, report>>
      BY <1>2 DEF MatchComes, MatchesGo, alerts
    <2>2. \E e \in Happening : evidence' = Note(e)
      BY <1>2 DEF MatchComes, MatchesGo, Happening
    <2>3. evidence' \in [Supervisor -> SUBSET Happening]
      BY <2>2 DEF Note, TickType
    <2> QED
      BY <2>1, <2>3 DEF TickType
  <1>3. ASSUME NEW p \in Supervisor, Tick(p)
        PROVE  TickType'
    BY <1>3, LookType, RecoverType, ProbeStepsType DEF Tick
  <1>4. ASSUME NEW p \in Supervisor,
               ProbeRipens(p) \/ \E l \in waiting[p] : IntervalPasses(p, l)
        PROVE  TickType'
    <2>1. /\ UNCHANGED <<pc, remedies, evidence, report>>
          /\ UNCHANGED waiting \/ \E l : waiting' = [waiting EXCEPT ![p] = @ \ {l}]
      BY <1>4 DEF ProbeRipens, IntervalPasses, alerts, probes
    <2> QED
      BY <2>1 DEF TickType
  <1> QED
    BY <1>1, <1>2, <1>3, <1>4, CutOffType DEF Next

LEMMA SeenTypeInv ==
  ASSUME SeenType, HistoryInv, SiteKnown, [Next]_vars
  PROVE  SeenType'
  <1>1. CASE UNCHANGED <<rows, lastState, active, unwritten>>
    BY <1>1 DEF SeenType
  <1>2. CASE WindowMoves
    <2>1. /\ rows # <<>> /\ rows' = Tail(rows) /\ rows \in Seq(Row)
          /\ UNCHANGED <<lastState, active>>
      BY <1>2 DEF WindowMoves, alerts, HistoryInv, RowsInv
    <2>2. Len(rows') = Len(rows) - 1 /\ Len(rows) \in Nat
      BY <2>1, HeadTailProperties
    <2> QED
      BY <2>1, <2>2, AutonomyAssumption DEF SeenType
  <1>3. ASSUME NEW p \in Supervisor, NEW written \in BOOLEAN,
               RecordHealth(p, HealthOf[site], written)
        PROVE  SeenType'
    <2> DEFINE f == HealthOf[site]
               r == [level |-> LevelOf(f), report |-> f, by |-> p]
    <2>1. /\ f \subseteq Finding /\ LevelOf(f) \in Level /\ Codes(f) \subseteq Code
          /\ AlertCodes(f) \subseteq AlertCode
      BY ReportType DEF HealthOf, SiteKnown
    <2>2. r \in Row
      BY <2>1 DEF Row
    <2>3. rows' = rows \/ rows' = Push(rows, r)
      BY <1>3 DEF RecordHealth
    <2>4. Len(rows') <= MaxRows
      BY <2>2, <2>3, PushDrops DEF SeenType, HistoryInv, RowsInv
    <2>5. /\ lastState' = [lastState EXCEPT ![p] = StateOf(f)]
          /\ active' = [active EXCEPT ![p] = AlertCodes(f)]
      BY <1>3 DEF RecordHealth
    <2>6. StateOf(f) \in Level \X SUBSET Code
      BY <2>1 DEF StateOf
    <2> HIDE DEF f
    <2> QED
      BY <2>1, <2>4, <2>5, <2>6 DEF SeenType, HistoryInv, StateInv
  <1>4. ASSUME NEW p \in Supervisor, Restart(p)
        PROVE  SeenType'
    BY <1>4 DEF Restart, SeenType, HistoryInv, StateInv
  <1> QED
    BY <1>1, <1>2, <1>3, <1>4, HistorySteps

ToldType == told \in [Supervisor -> SUBSET AlertCode]

LEMMA ToldTypeInv ==
  ASSUME ToldType, SiteKnown, [Next]_vars
  PROVE  ToldType'
  <1>1. ASSUME NEW p \in Supervisor, NEW written \in BOOLEAN,
               RecordHealth(p, HealthOf[site], written)
        PROVE  ToldType'
    <2> DEFINE now == AlertCodes(HealthOf[site])
    <2>1. now \subseteq AlertCode
      BY ReportType DEF HealthOf, SiteKnown
    <2>2. told' = [told EXCEPT ![p] = (told[p] \cap now) \cup (now \ active[p])]
      BY <1>1 DEF RecordHealth, NewAlerts
    <2> HIDE DEF now
    <2> QED
      BY <2>1, <2>2 DEF ToldType
  <1>2. ASSUME NEW p \in Supervisor, Restart(p)
        PROVE  ToldType'
    BY <1>2 DEF Restart, ToldType
  <1> QED
    BY <1>1, <1>2, AlertSteps DEF ToldType

\* Every variable keeps its type, and the window and the counters their bounds.
THEOREM AutonomyType == Spec => []TypeOK
  <1> DEFINE Types == WorldType /\ TickType /\ SeenType /\ ToldType
             Known == SiteKnown /\ HistoryInv /\ AlertInv /\ ProbeInv
  <1>1. Init => Types /\ Known
    <2> SUFFICES ASSUME Init
                 PROVE  Types /\ Known
      OBVIOUS
    <2>1. WorldType
      BY AutonomyAssumption DEF Init, WorldType
    <2>2. TickType
      BY DEF Init, Each, TickType
    <2>3. SeenType
      BY EmptySeq, AutonomyAssumption DEF Init, Each, SeenType
    <2>4. SiteKnown /\ AlertInv
      BY DEF Init, Each, SiteKnown, AlertInv, AlertsArePostedOnce
    <2>5. HistoryInv
      BY DEF Init, Each, HistoryInv, RowsInv, StateInv, LastTells
    <2>6. ProbeInv
      BY DEF Init, Each, ProbeInv, ProbeType, OneInFlight, Accounted, InFlight
    <2>7. ToldType
      BY DEF Init, Each, ToldType
    <2> QED
      BY <2>1, <2>2, <2>3, <2>4, <2>5, <2>6, <2>7
  <1>2. Known /\ [Next]_vars => Known'
    BY SiteStays, HistoryStepInv, AlertStepInv, ProbeStepInv
  <1>3. Types /\ Known /\ [Next]_vars => Types'
    BY WorldTypeInv, TickTypeInv, SeenTypeInv, ToldTypeInv
  <1>4. Types /\ Known => TypeOK
    <2> SUFFICES ASSUME Types, Known
                 PROVE  TypeOK
      OBVIOUS
    <2> QED
      BY DEF TypeOK, WorldType, TickType, SeenType, ToldType, SiteKnown, HistoryInv, RowsInv,
             StateInv, AlertInv, ProbeInv, ProbeType
  <1> HIDE DEF Types, Known
  <1> QED
    BY <1>1, <1>2, <1>3, <1>4, PTL DEF Spec
=============================================================================
