------------------------------ MODULE AuditTrail -----------------------------
(***************************************************************************)
(* The audit trail of a process (audit/log.py): one JSON line for each     *)
(* record, appended and synced to disk under a lock, a ring of the latest  *)
(* records in memory, and then, outside the lock and at best effort, a     *)
(* Slack post (audit/slack.py) and a copy in etcd (audit/etcd_sink.py).    *)
(***************************************************************************)
EXTENDS Integers, FiniteSets, Sequences, SequencesExt

CONSTANTS
  Thread,       \* threads of the process that record
  MaxRecords,   \* bound on the records, numbered as they come
  Postworthy,   \* those Slack is told of: failures and what is not a read
  RingSize

ASSUME AuditAssumption ==
  /\ MaxRecords \in Nat /\ Postworthy \subseteq 1..MaxRecords
  /\ RingSize \in Nat \ {0}

Record == 1..MaxRecords

NoRecord == 0

VARIABLES
  doing,        \* what each thread is about, and with which record
  ring,         \* _recent
  readable,     \* records in the files that can be read back, in the order of the lines
  open,         \* the last line has no newline: a write was cut short
  posted,       \* records Slack was told of
  mirrored,     \* records in etcd
  lease,        \* the etcd lease of the copies
  begun,        \* history: how many records were begun
  written,      \* history: records that were written out whole
  returned,     \* history: records whose record() has returned
  torn          \* history: writes that were cut short

audit == <<doing, ring, readable, open, posted, mirrored, lease, begun, written, returned, torn>>

Idle == [step |-> "idle", rec |-> NoRecord]

AuditTypeOK ==
  /\ doing \in [Thread -> [step : {"idle", "post", "mirror"}, rec : Record \cup {NoRecord}]]
  /\ ring \in Seq(Record) /\ Len(ring) <= RingSize
  /\ readable \in Seq(Record)
  /\ open \in BOOLEAN
  /\ posted \subseteq Postworthy /\ mirrored \subseteq Record
  /\ lease \in {"none", "live", "expired"}
  /\ begun \in 0..MaxRecords /\ written \subseteq Record /\ returned \subseteq Record
  /\ torn \in Nat

AuditInit ==
  /\ doing = [t \in Thread |-> Idle]
  /\ ring = <<>> /\ readable = <<>>
  /\ open = FALSE
  /\ posted = {} /\ mirrored = {}
  /\ lease = "none"
  /\ begun = 0 /\ written = {} /\ returned = {}
  /\ torn = 0

Latest(s) == SubSeq(s, IF Len(s) > RingSize THEN Len(s) - RingSize + 1 ELSE 1, Len(s))

-----------------------------------------------------------------------------

\* Mutant: the fan-out goes on when the write has raised.
GoesOnRegardless(outcome) == TRUE

\* An exception of the write is the caller's.
GoesOn(outcome) == outcome = "written"

\* Mutant: a line begins with its newline instead of ending with it.
StaysOpen(o) == o

\* A whole line ends with a newline, also one that is glued to a line cut short.
OpenAfterLine(o) == FALSE

\* The write: whole and synced, whole but not synced, cut short, or not begun.  What is
\* glued to a line cut short makes one line with it that cannot be parsed.
WriteLine(r, outcome) ==
  IF outcome \in {"written", "unsynced"}
  THEN /\ written' = written \cup {r}
       /\ readable' = IF open THEN readable ELSE Append(readable, r)
       /\ open' = OpenAfterLine(open)
       /\ UNCHANGED torn
  ELSE /\ open' = (open \/ outcome = "torn")
       /\ torn' = IF outcome = "torn" THEN torn + 1 ELSE torn
       /\ UNCHANGED <<written, readable>>

\* record(), under the lock: the ring first, then the disk.
Enter(t, r) ==
  /\ doing[t].step = "idle"
  /\ begun' = r
  /\ ring' = Latest(Append(ring, r))
  /\ \E outcome \in {"written", "unsynced", "torn", "failed"} :
       /\ WriteLine(r, outcome)
       /\ doing' = [doing EXCEPT ![t] =
                      IF GoesOn(outcome) THEN [step |-> "post", rec |-> r] ELSE @]
  /\ UNCHANGED <<posted, mirrored, lease, returned>>

\* Slack is told, or is not reached.
Post(t) ==
  /\ doing[t].step = "post"
  /\ \/ posted' = posted \cup ({doing[t].rec} \cap Postworthy)
     \/ UNCHANGED posted
  /\ doing' = [doing EXCEPT ![t].step = "mirror"]
  /\ UNCHANGED <<ring, readable, open, mirrored, lease, begun, written, returned, torn>>

\* Mutant: a thread waits for etcd.
WaitsFor(reachable) == reachable

\* The copy does not wait for etcd to be in reach.
MayMirror(reachable) == TRUE

\* The copy in etcd: under one lease, granted when first needed and never asked for again;
\* without it, or without etcd, the copy is not made.
Mirror(t, reachable) ==
  /\ doing[t].step = "mirror"
  /\ MayMirror(reachable)
  /\ IF reachable /\ lease # "expired"
     THEN /\ lease' = "live"
          /\ mirrored' = mirrored \cup {doing[t].rec}
     ELSE UNCHANGED <<lease, mirrored>>
  /\ returned' = returned \cup {doing[t].rec}
  /\ doing' = [doing EXCEPT ![t] = Idle]
  /\ UNCHANGED <<ring, readable, open, posted, begun, written, torn>>

\* The lease runs out, and all copies go with it.
LeaseEnds ==
  /\ lease = "live"
  /\ lease' = "expired"
  /\ mirrored' = {}
  /\ UNCHANGED <<doing, ring, readable, open, posted, begun, written, returned, torn>>

\* The process dies and another one goes on with the files.
Crash ==
  /\ ring # <<>>
  /\ doing' = [t \in Thread |-> Idle]
  /\ ring' = <<>>
  /\ lease' = "none"
  /\ UNCHANGED <<readable, open, posted, mirrored, begun, written, returned, torn>>

-----------------------------------------------------------------------------

AuditNext(reachable) ==
  \/ \E t \in Thread :
       \/ begun < MaxRecords /\ Enter(t, begun + 1)
       \/ Post(t) \/ Mirror(t, reachable)
  \/ LeaseEnds \/ Crash

-----------------------------------------------------------------------------
(* Properties.                                                             *)

\* The local record comes first: what Slack or etcd was told of was written to disk
\* before (audit/log.py:139-155, "Best-effort fan-out; never let these break the durable
\* write").
ToldIsWritten == posted \cup mirrored \subseteq written

\* A record whose record() has returned can be read back, but for one that each line cut
\* short may have spoiled, which is the next one (audit/log.py:141-144, 174-178).
LostOnlyByTearing == Cardinality(returned \ ToSet(readable)) <= torn

\* No sink stops the trail: a thread that records comes back, whatever the tunnel does
\* (audit/log.py:145-155).
RecordReturns == \A t \in Thread : doing[t].step # "idle" ~> doing[t].step = "idle"
=============================================================================
