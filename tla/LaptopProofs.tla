----------------------------- MODULE LaptopProofs ----------------------------
(***************************************************************************)
(* What Laptop promises for any threads, records and backoff: nothing is   *)
(* told before it is written, and the manager leaves no ssh behind.        *)
(***************************************************************************)
EXTENDS Laptop, FiniteSetTheorems, SequenceTheorems, TLAPS

-----------------------------------------------------------------------------
(* The audit trail: a thread fans out only what it has written.            *)

DoingType ==
  doing \in [Thread -> [step : {"idle", "post", "mirror"}, rec : Record \cup {NoRecord}]]

FansOutWritten == \A t \in Thread : doing[t].step # "idle" => doing[t].rec \in written

TrailInv == DoingType /\ FansOutWritten /\ ToldIsWritten

\* What the disk makes of a record leaves the others as they were.
LEMMA WriteLineKeeps ==
  ASSUME NEW r, NEW outcome, WriteLine(r, outcome)
  PROVE  /\ written \subseteq written'
         /\ outcome = "written" => r \in written'
  BY DEF WriteLine

LEMMA EnterInv ==
  ASSUME TrailInv, NEW t \in Thread, begun < MaxRecords, begun \in Nat, Enter(t, begun + 1)
  PROVE  TrailInv'
  <1>1. PICK outcome \in {"written", "unsynced", "torn", "failed"} :
          /\ WriteLine(begun + 1, outcome)
          /\ doing' = [doing EXCEPT ![t] = IF GoesOn(outcome)
                         THEN [step |-> "post", rec |-> begun + 1] ELSE @]
    BY DEF Enter
  <1>2. /\ written \subseteq written'
        /\ GoesOn(outcome) => begun + 1 \in written'
    BY <1>1, WriteLineKeeps DEF GoesOn
  <1>3. begun + 1 \in Record
    BY AuditAssumption DEF Record
  <1>4. DoingType'
    BY <1>1, <1>3 DEF TrailInv, DoingType
  <1>5. FansOutWritten'
    BY <1>1, <1>2 DEF TrailInv, DoingType, FansOutWritten
  <1>6. ToldIsWritten'
    BY <1>2 DEF TrailInv, ToldIsWritten, Enter
  <1> QED
    BY <1>4, <1>5, <1>6 DEF TrailInv

LEMMA PostInv ==
  ASSUME TrailInv, NEW t \in Thread, Post(t)
  PROVE  TrailInv'
  <1>1. doing[t].rec \in written
    BY DEF Post, TrailInv, FansOutWritten
  <1> QED
    BY <1>1 DEF Post, TrailInv, DoingType, FansOutWritten, ToldIsWritten

LEMMA MirrorInv ==
  ASSUME TrailInv, NEW t \in Thread, NEW reachable \in BOOLEAN, Mirror(t, reachable)
  PROVE  TrailInv'
  <1>1. doing[t].rec \in written
    BY DEF Mirror, TrailInv, FansOutWritten
  <1> QED
    BY <1>1 DEF Mirror, TrailInv, DoingType, FansOutWritten, ToldIsWritten, Idle

LEMMA LossInv ==
  ASSUME TrailInv, LeaseEnds \/ Crash
  PROVE  TrailInv'
  <1>1. CASE LeaseEnds
    BY <1>1 DEF LeaseEnds, TrailInv, DoingType, FansOutWritten, ToldIsWritten
  <1>2. CASE Crash
    BY <1>2 DEF Crash, TrailInv, DoingType, FansOutWritten, ToldIsWritten, Idle
  <1> QED
    BY <1>1, <1>2

\* The records are counted.
Counted == begun \in Nat

LEMMA CountedInv ==
  ASSUME Counted, [Next]_vars
  PROVE  Counted'
  BY DEF Counted, Next, vars, audit, AuditNext, Enter, Post, Mirror, LeaseEnds, Crash

LEMMA TrailStep ==
  ASSUME Counted, TrailInv, NEW reachable \in BOOLEAN, [AuditNext(reachable)]_audit
  PROVE  TrailInv'
  <1>1. CASE UNCHANGED audit
    BY <1>1 DEF audit, TrailInv, DoingType, FansOutWritten, ToldIsWritten
  <1>2. ASSUME NEW t \in Thread, begun < MaxRecords, Enter(t, begun + 1)
        PROVE  TrailInv'
    BY <1>2, EnterInv DEF Counted
  <1>3. ASSUME NEW t \in Thread, Post(t)
        PROVE  TrailInv'
    BY <1>3, PostInv
  <1>4. ASSUME NEW t \in Thread, Mirror(t, reachable)
        PROVE  TrailInv'
    BY <1>4, MirrorInv
  <1> QED
    BY <1>1, <1>2, <1>3, <1>4, LossInv DEF AuditNext

\* Slack and etcd are told only of what was written to disk before: what a thread posts
\* or copies it has written, and what is written stays so (audit/log.py:139-155).
THEOREM Told == Spec => []ToldIsWritten
  <1>1. Init => Counted /\ TrailInv
    BY DEF Init, AuditInit, Counted, TrailInv, DoingType, FansOutWritten, ToldIsWritten, Idle
  <1>2. Counted /\ TrailInv /\ [Next]_vars => (Counted /\ TrailInv)'
    BY CountedInv, TrailStep DEF Next, vars, Forwarding
  <1>3. TrailInv => ToldIsWritten
    BY DEF TrailInv
  <1> QED
    BY <1>1, <1>2, <1>3, PTL DEF Spec

-----------------------------------------------------------------------------
(* The tunnel: a child is waited for only after it was asked to exit, and  *)
(* runs only within _serve_once().                                         *)

ManagerInv ==
  /\ at = "reap" => asked
  /\ child = "running" => at \in {"started", "wait", "serve", "stop", "reap"}

LEMMA ManagerInvStep ==
  ASSUME ManagerInv, [Next]_vars
  PROVE  ManagerInv'
  <1>1. CASE UNCHANGED tunnel
    BY <1>1 DEF ManagerInv, tunnel
  <1>2. CASE Manage
    BY <1>2 DEF ManagerInv, Manage, Start, EnterTry, Ready, NotReady, Drops, StopExited,
                Terminate, Reap, Kill, WakeUp, Return, Forgets
  <1>3. CASE Ssh \/ LinkChanges \/ AnotherTunnel
    BY <1>3 DEF ManagerInv, Ssh, Binds, ChildExits, StrayExits, StrayBinds, LinkChanges,
                AnotherTunnel
  <1>4. CASE Signal \/ Sweep \/ Launch
    BY <1>4 DEF ManagerInv, Signal, Guarded, Forgets, Sweep, Launch
  <1> QED
    BY <1>1, <1>2, <1>3, <1>4 DEF Next, TunnelNext, vars

\* The manager's own steps forget a running child only when it was terminated, wait(5) has
\* run out and it was killed; a signal only where no stop() follows
\* (ssh_tunnel.py:231-241, 290-308).
LEMMA ForgetsOnlyKilled ==
  ASSUME ManagerInv, [Next]_vars, child = "running", child' = "none"
  PROVE  \/ asked /\ stray' = "killed"
         \/ Signal /\ at \in {"started", "stop", "reap"}
  <1>1. CASE UNCHANGED tunnel
    BY <1>1 DEF tunnel
  <1>2. CASE Manage
    <2>1. CASE Kill
      BY <2>1 DEF ManagerInv, Kill, Return, Forgets
    <2>2. CASE StopExited \/ Reap
      BY <2>2 DEF StopExited, Reap
    <2> QED
      BY <1>2, <2>1, <2>2 DEF Manage, Start, EnterTry, Ready, NotReady, Drops, Terminate,
                              WakeUp
  <1>3. CASE Ssh \/ LinkChanges \/ AnotherTunnel
    BY <1>3 DEF Ssh, Binds, ChildExits, StrayExits, StrayBinds, LinkChanges, AnotherTunnel
  <1>4. CASE Signal
    BY <1>4 DEF ManagerInv, Signal, Guarded
  <1>5. CASE Sweep \/ Launch
    BY <1>5 DEF Sweep, Launch
  <1> QED
    BY <1>1, <1>2, <1>3, <1>4, <1>5 DEF Next, TunnelNext, vars

\* An ssh that runs is forgotten only after SIGTERM, a wait and a kill, but for a signal
\* between Popen and the try block or into stop() itself, for any backoff and whatever
\* the network, other tunnels and the audit trail do (ssh_tunnel.py:231-241, 290-308).
THEOREM NoOrphans == Spec => NoneLeftBehind
  <1>1. Init => ManagerInv
    BY DEF Init, TunnelInit, ManagerInv
  <1>2. ManagerInv /\ [Next]_vars => ManagerInv'
    BY ManagerInvStep
  <1>3. ManagerInv /\ [Next]_vars
          => [child = "running" /\ child' = "none"
                => \/ asked /\ stray' = "killed"
                   \/ Signal /\ at \in {"started", "stop", "reap"}]_tunnel
    BY ForgetsOnlyKilled
  <1> QED
    BY <1>1, <1>2, <1>3, PTL DEF Spec, NoneLeftBehind

-----------------------------------------------------------------------------
(* Types.                                                                  *)

\* However often it is doubled, the backoff stays a wait of some seconds within the cap.
LEMMA BackoffBounded ==
  ASSUME backoff \in 1..MaxBackoff
  PROVE  NextBackoff \in 1..MaxBackoff
  BY TunnelAssumption DEF NextBackoff, Least

LEMMA TunnelTypeInv ==
  ASSUME TunnelTypeOK, [TunnelNext]_tunnel
  PROVE  TunnelTypeOK'
  <1> USE DEF TunnelTypeOK, Place
  <1>1. CASE Start \/ EnterTry \/ Ready \/ NotReady \/ Drops \/ Terminate \/ WakeUp
    BY <1>1 DEF Start, EnterTry, Ready, NotReady, Drops, Terminate, WakeUp
  <1>2. CASE StopExited \/ Reap \/ Kill
    <2>1. PICK killed \in BOOLEAN : Return(killed)
      BY <1>2 DEF StopExited, Reap, Kill
    <2>2. /\ at' \in Place
          /\ backoff' \in 1..MaxBackoff
          /\ link' \in BOOLEAN /\ leaving' \in BOOLEAN
      BY <2>1, BackoffBounded DEF Return
    <2>3. Forgets(killed)
      BY <2>1 DEF Return
    <2>4. /\ child' \in {"none", "running", "exited"}
          /\ ok' \in BOOLEAN /\ asked' \in BOOLEAN
          /\ stray' \in {"none", "asked", "killed", "abandoned"}
          /\ port' \in {"free", "child", "stray", "another"}
      BY <2>3 DEF Forgets
    <2> QED
      BY <2>2, <2>4
  <1>3. CASE Ssh \/ LinkChanges \/ AnotherTunnel
    BY <1>3 DEF Ssh, Binds, ChildExits, StrayExits, StrayBinds, LinkChanges, AnotherTunnel,
                Keeps
  <1>4. CASE Signal
    BY <1>4 DEF Signal, Guarded, Forgets
  <1>5. CASE Sweep \/ Launch
    <2>1. 1 \in 1..MaxBackoff
      BY TunnelAssumption
    <2>2. CASE Sweep
      BY <2>2 DEF Sweep
    <2>3. CASE Launch
      BY <2>1, <2>3 DEF Launch
    <2> QED
      BY <1>5, <2>2, <2>3
  <1>6. CASE UNCHANGED tunnel
    BY <1>6 DEF tunnel
  <1> QED
    BY <1>1, <1>2, <1>3, <1>4, <1>5, <1>6 DEF TunnelNext, Manage

\* The ring keeps to its size: what it takes in pushes the oldest out.
LEMMA LatestFits ==
  ASSUME NEW s \in Seq(Record)
  PROVE  Latest(s) \in Seq(Record) /\ Len(Latest(s)) <= RingSize
  <1> DEFINE first == IF Len(s) > RingSize THEN Len(s) - RingSize + 1 ELSE 1
  <1>1. /\ first \in Int /\ Len(s) \in Int
        /\ \A i \in first..Len(s) : s[i] \in Record
    BY AuditAssumption
  <1>2. /\ SubSeq(s, first, Len(s)) \in Seq(Record)
        /\ Len(SubSeq(s, first, Len(s)))
             = IF first <= Len(s) THEN Len(s) - first + 1 ELSE 0
    <2> HIDE DEF first
    <2> QED
      BY <1>1, SubSeqProperties
  <1> QED
    BY <1>2, AuditAssumption DEF Latest

LEMMA EnterType ==
  ASSUME AuditTypeOK, NEW t \in Thread, begun < MaxRecords, Enter(t, begun + 1)
  PROVE  AuditTypeOK'
  <1> USE DEF AuditTypeOK
  <1>1. begun + 1 \in Record /\ begun' \in 0..MaxRecords
    BY AuditAssumption DEF Record, Enter
  <1>2. ring' \in Seq(Record) /\ Len(ring') <= RingSize
    <2>1. Append(ring, begun + 1) \in Seq(Record)
      BY <1>1
    <2>2. ring' = Latest(Append(ring, begun + 1))
      BY DEF Enter
    <2> QED
      BY <2>1, <2>2, LatestFits
  <1>3. PICK outcome \in {"written", "unsynced", "torn", "failed"} :
          /\ WriteLine(begun + 1, outcome)
          /\ doing' = [doing EXCEPT ![t] = IF GoesOn(outcome)
                         THEN [step |-> "post", rec |-> begun + 1] ELSE @]
    BY DEF Enter
  <1>4. /\ written' \subseteq Record
        /\ readable' \in Seq(Record)
        /\ open' \in BOOLEAN /\ torn' \in Nat
    <2>1. CASE outcome \in {"written", "unsynced"}
      <3>1. /\ written' = written \cup {begun + 1} /\ open' = FALSE /\ torn' = torn
            /\ readable' = readable \/ readable' = Append(readable, begun + 1)
        BY <1>3, <2>1 DEF WriteLine, OpenAfterLine
      <3>2. Append(readable, begun + 1) \in Seq(Record)
        BY <1>1
      <3>3. written' \subseteq Record
        BY <1>1, <3>1
      <3> QED
        BY <3>1, <3>2, <3>3
    <2>2. CASE outcome = "torn"
      <3>1. open' = TRUE /\ torn' = torn + 1 /\ UNCHANGED <<written, readable>>
        BY <1>3, <2>2 DEF WriteLine
      <3> QED
        BY <3>1
    <2>3. CASE outcome = "failed"
      <3>1. open' = open /\ torn' = torn /\ UNCHANGED <<written, readable>>
        BY <1>3, <2>3 DEF WriteLine
      <3> QED
        BY <3>1
    <2> QED
      BY <2>1, <2>2, <2>3
  <1>5. doing' \in [Thread -> [step : {"idle", "post", "mirror"}, rec : Record \cup {NoRecord}]]
    BY <1>1, <1>3
  <1>6. UNCHANGED <<posted, mirrored, lease, returned>>
    BY DEF Enter
  <1> QED
    BY <1>1, <1>2, <1>4, <1>5, <1>6

\* What is at work with a record has one.
AtRecord == \A t \in Thread : doing[t].step # "idle" => doing[t].rec \in Record

LEMMA AuditTypeInv ==
  ASSUME AuditTypeOK, AtRecord, NEW reachable \in BOOLEAN, [AuditNext(reachable)]_audit
  PROVE  AuditTypeOK' /\ AtRecord'
  <1> USE DEF AuditTypeOK, AtRecord
  <1>1. ASSUME NEW t \in Thread, begun < MaxRecords, Enter(t, begun + 1)
        PROVE  AuditTypeOK' /\ AtRecord'
    <2>1. begun + 1 \in Record
      BY <1>1, AuditAssumption DEF Record
    <2>2. AtRecord'
      BY <1>1, <2>1 DEF Enter
    <2> QED
      BY <1>1, <2>2, EnterType
  <1>2. ASSUME NEW t \in Thread, Post(t)
        PROVE  AuditTypeOK' /\ AtRecord'
    BY <1>2 DEF Post
  <1>3. ASSUME NEW t \in Thread, Mirror(t, reachable)
        PROVE  AuditTypeOK' /\ AtRecord'
    BY <1>3 DEF Mirror, Idle
  <1>4. CASE LeaseEnds
    BY <1>4 DEF LeaseEnds
  <1>5. CASE Crash
    <2>1. <<>> \in Seq(Record) /\ Len(<<>>) <= RingSize
      BY AuditAssumption
    <2>2. /\ ring' = <<>> /\ doing' = [t \in Thread |-> Idle]
          /\ lease' = "none"
          /\ UNCHANGED <<readable, open, posted, mirrored, begun, written, returned, torn>>
      BY <1>5 DEF Crash
    <2>3. /\ doing' \in [Thread -> [step : {"idle", "post", "mirror"},
                                  rec : Record \cup {NoRecord}]]
          /\ AtRecord'
      BY <2>2 DEF Idle
    <2> QED
      BY <2>1, <2>2, <2>3
  <1>6. CASE UNCHANGED audit
    BY <1>6 DEF audit
  <1> QED
    BY <1>1, <1>2, <1>3, <1>4, <1>5, <1>6 DEF AuditNext

LEMMA TypeInv ==
  /\ Init => TypeOK /\ AtRecord
  /\ TypeOK /\ AtRecord /\ [Next]_vars => (TypeOK /\ AtRecord)'
  <1>1. ASSUME Init
        PROVE  TypeOK /\ AtRecord
    <2>1. TunnelTypeOK
      <3>1. 1 \in 1..MaxBackoff
        BY TunnelAssumption
      <3> QED
        BY <1>1, <3>1 DEF Init, TunnelInit, TunnelTypeOK, Place
    <2>2. AuditTypeOK /\ AtRecord
      <3>1. <<>> \in Seq(Record) /\ Len(<<>>) <= RingSize /\ 0 \in 0..MaxRecords
        BY AuditAssumption
      <3>2. doing = [t \in Thread |-> Idle]
        BY <1>1 DEF Init, AuditInit
      <3>3. /\ doing \in [Thread -> [step : {"idle", "post", "mirror"},
                                   rec : Record \cup {NoRecord}]]
            /\ AtRecord
        BY <3>2 DEF Idle, AtRecord
      <3> QED
        BY <1>1, <3>1, <3>3 DEF Init, AuditInit, AuditTypeOK
    <2> QED
      BY <2>1, <2>2 DEF TypeOK
  <1>2. ASSUME TypeOK, AtRecord, [Next]_vars
        PROVE  (TypeOK /\ AtRecord)'
    <2>1. [TunnelNext]_tunnel /\ [AuditNext(Forwarding)]_audit
      BY <1>2 DEF Next, vars
    <2>2. Forwarding \in BOOLEAN
      BY DEF Forwarding
    <2> QED
      BY <1>2, <2>1, <2>2, TunnelTypeInv, AuditTypeInv DEF TypeOK
  <1> QED
    BY <1>1, <1>2

\* Every variable keeps its type; the ring its size, the backoff its cap.
THEOREM LaptopType == Spec => []TypeOK
  BY TypeInv, PTL DEF Spec

-----------------------------------------------------------------------------
(* What can be read back.                                                  *)

\* Each line cut short has spoiled at most one record, or has yet to: the file is open.
SpoiltOnce ==
  Cardinality(written \ ToSet(readable)) + (IF open THEN 1 ELSE 0) <= torn

ReadBackInv == returned \subseteq written /\ SpoiltOnce

LEMMA RecordsFinite ==
  ASSUME NEW S, S \subseteq Record
  PROVE  IsFiniteSet(S) /\ Cardinality(S) \in Nat
  <1>1. IsFiniteSet(Record)
    BY FS_Interval, AuditAssumption DEF Record
  <1>2. IsFiniteSet(S)
    BY <1>1, FS_Subset
  <1> QED
    BY <1>2, FS_CardinalityType

LEMMA ToSetAppend ==
  ASSUME NEW S, NEW s \in Seq(S), NEW x \in S
  PROVE  ToSet(Append(s, x)) = ToSet(s) \cup {x}
  <1>1. /\ DOMAIN Append(s, x) = 1..(Len(s) + 1)
        /\ DOMAIN s = 1..Len(s) /\ Len(s) \in Nat
        /\ Append(s, x)[Len(s) + 1] = x
        /\ \A i \in 1..Len(s) : Append(s, x)[i] = s[i]
    OBVIOUS
  <1>2. ToSet(Append(s, x)) \subseteq ToSet(s) \cup {x}
    BY <1>1 DEF ToSet
  <1>3. ToSet(s) \subseteq ToSet(Append(s, x))
    BY <1>1 DEF ToSet
  <1>4. x \in ToSet(Append(s, x))
    BY <1>1 DEF ToSet
  <1> QED
    BY <1>2, <1>3, <1>4

\* A write leaves at most one record more that cannot be read: then it has closed the line.
LEMMA WriteSpoils ==
  ASSUME AuditTypeOK, SpoiltOnce, NEW r \in Record,
         NEW outcome \in {"written", "unsynced", "torn", "failed"}, WriteLine(r, outcome)
  PROVE  SpoiltOnce'
  <1> DEFINE lost == written \ ToSet(readable)
  <1>1. IsFiniteSet(lost) /\ Cardinality(lost) \in Nat /\ torn \in Nat
    BY RecordsFinite DEF AuditTypeOK
  <1>2. CASE outcome \in {"written", "unsynced"} /\ open
    <2>1. lost' \subseteq lost \cup {r} /\ open' = FALSE /\ torn' = torn
      BY <1>2 DEF WriteLine, OpenAfterLine
    <2>2. IsFiniteSet(lost \cup {r}) /\ Cardinality(lost \cup {r}) <= Cardinality(lost) + 1
      BY <1>1, FS_AddElement
    <2>3. Cardinality(lost') <= Cardinality(lost) + 1
      <3>1. Cardinality(lost') <= Cardinality(lost \cup {r})
        BY <2>1, <2>2, FS_Subset
      <3>2. Cardinality(lost') \in Nat /\ Cardinality(lost \cup {r}) \in Nat
        BY <2>1, <2>2, FS_Subset, FS_CardinalityType
      <3> QED
        BY <1>1, <2>2, <3>1, <3>2
    <2>4. Cardinality(lost') \in Nat
      BY <2>1, <2>2, FS_Subset, FS_CardinalityType
    <2> QED
      BY <1>1, <1>2, <2>1, <2>3, <2>4 DEF SpoiltOnce
  <1>3. CASE outcome \in {"written", "unsynced"} /\ ~open
    <2>1. /\ written' = written \cup {r} /\ readable' = Append(readable, r)
          /\ open' = FALSE /\ torn' = torn
      BY <1>3 DEF WriteLine, OpenAfterLine
    <2>2. ToSet(readable') = ToSet(readable) \cup {r}
      BY <2>1, ToSetAppend DEF AuditTypeOK
    <2>3. lost' \subseteq lost
      BY <2>1, <2>2
    <2>4. Cardinality(lost') \in Nat /\ Cardinality(lost') <= Cardinality(lost)
      BY <1>1, <2>3, FS_Subset, FS_CardinalityType
    <2> QED
      BY <1>1, <1>3, <2>1, <2>4 DEF SpoiltOnce
  <1>4. CASE outcome \in {"torn", "failed"}
    <2>1. CASE outcome = "torn"
      <3>1. open' = TRUE /\ torn' = torn + 1 /\ UNCHANGED <<written, readable>>
        BY <2>1 DEF WriteLine
      <3>2. Cardinality(lost) <= torn
        BY <1>1 DEF SpoiltOnce
      <3> QED
        BY <1>1, <3>1, <3>2 DEF SpoiltOnce
    <2>2. CASE outcome = "failed"
      <3>1. open' = open /\ torn' = torn /\ UNCHANGED <<written, readable>>
        BY <2>2 DEF WriteLine, AuditTypeOK
      <3> QED
        BY <3>1 DEF SpoiltOnce
    <2> QED
      BY <1>4, <2>1, <2>2
  <1> QED
    BY <1>2, <1>3, <1>4

LEMMA ReadBackStep ==
  ASSUME AuditTypeOK, FansOutWritten, ReadBackInv, NEW reachable \in BOOLEAN,
         [AuditNext(reachable)]_audit
  PROVE  ReadBackInv'
  <1>1. ASSUME NEW t \in Thread, begun < MaxRecords, Enter(t, begun + 1)
        PROVE  ReadBackInv'
    <2>1. PICK outcome \in {"written", "unsynced", "torn", "failed"} :
            WriteLine(begun + 1, outcome)
      BY <1>1 DEF Enter
    <2>2. begun + 1 \in Record
      BY <1>1, AuditAssumption DEF Record, AuditTypeOK
    <2>3. SpoiltOnce'
      BY <2>1, <2>2, WriteSpoils DEF ReadBackInv
    <2>4. returned' = returned /\ written \subseteq written'
      BY <1>1, <2>1, WriteLineKeeps DEF Enter
    <2> QED
      BY <2>3, <2>4 DEF ReadBackInv
  <1>2. ASSUME NEW t \in Thread, Mirror(t, reachable)
        PROVE  ReadBackInv'
    BY <1>2 DEF Mirror, ReadBackInv, FansOutWritten, SpoiltOnce
  <1>3. ASSUME NEW t \in Thread, Post(t)
        PROVE  ReadBackInv'
    BY <1>3 DEF Post, ReadBackInv, SpoiltOnce
  <1>4. CASE LeaseEnds \/ Crash \/ UNCHANGED audit
    <2>1. UNCHANGED <<readable, open, written, returned, torn>>
      BY <1>4 DEF LeaseEnds, Crash, audit
    <2> QED
      BY <2>1 DEF ReadBackInv, SpoiltOnce
  <1> QED
    BY <1>1, <1>2, <1>3, <1>4 DEF AuditNext

\* A record whose record() has returned can be read back, but for one for each line that
\* was cut short, for any number of threads, records and cuts (audit/log.py:141-144).
THEOREM ReadBack == Spec => []LostOnlyByTearing
  <1> DEFINE All == TypeOK /\ AtRecord /\ TrailInv /\ ReadBackInv
  <1>1. Init => TrailInv /\ ReadBackInv
    <2>1. ToSet(<<>>) = {} /\ Cardinality({}) = 0
      BY FS_EmptySet DEF ToSet
    <2> QED
      BY <2>1 DEF Init, AuditInit, TrailInv, DoingType, FansOutWritten, ToldIsWritten, Idle,
                  ReadBackInv, SpoiltOnce
  <1>2. All /\ [Next]_vars => (TrailInv /\ ReadBackInv)'
    <2> SUFFICES ASSUME All, [Next]_vars
                 PROVE  (TrailInv /\ ReadBackInv)'
      OBVIOUS
    <2>1. AuditTypeOK /\ [AuditNext(Forwarding)]_audit /\ Forwarding \in BOOLEAN
      BY DEF TypeOK, Next, vars, Forwarding
    <2>2. ReadBackInv'
      BY <2>1, ReadBackStep DEF TrailInv
    <2>3. TrailInv'
      BY <2>1, TrailStep DEF AuditTypeOK, Counted
    <2> QED
      BY <2>2, <2>3
  <1>3. TypeOK /\ ReadBackInv => LostOnlyByTearing
    <2> SUFFICES ASSUME AuditTypeOK, ReadBackInv
                 PROVE  LostOnlyByTearing
      BY DEF TypeOK
    <2> DEFINE lost == written \ ToSet(readable)
               gone == returned \ ToSet(readable)
    <2>1. /\ IsFiniteSet(lost) /\ Cardinality(lost) \in Nat
          /\ Cardinality(gone) \in Nat /\ torn \in Nat
      BY RecordsFinite DEF AuditTypeOK
    <2>2. Cardinality(gone) <= Cardinality(lost)
      BY <2>1, FS_Subset DEF ReadBackInv
    <2> QED
      BY <2>1, <2>2 DEF ReadBackInv, SpoiltOnce, LostOnlyByTearing
  <1> QED
    BY <1>1, <1>2, <1>3, TypeInv, PTL DEF Spec
=============================================================================
