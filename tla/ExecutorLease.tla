---------------------------- MODULE ExecutorLease ----------------------------
(***************************************************************************)
(* The executor lease (control/lease.py) as its threads run it: one etcd   *)
(* key bound to a short lease, consoles whose web threads acquire, release *)
(* and seize it beside a keepalive thread, and standing supervisors whose  *)
(* heartbeat thread reclaims it whenever it is free.                       *)
(*                                                                         *)
(* A step is one etcd request with the local code that follows its answer; *)
(* the assignments made after an answer that another thread of the same    *)
(* process may overtake (record, forget, lose) are steps of their own.     *)
(* A process assigns _my_lease_id and _my_session together.                *)
(***************************************************************************)
EXTENDS Naturals, FiniteSets

CONSTANTS
  Process,      \* consoles and supervisors; also the "host" they write
  Supervisor,   \* the standing supervisors among them
  Thread,       \* the threads of all processes that use the lease
  ProcessOf,    \* the process a thread belongs to
  Heartbeat,    \* the keepalive threads; the others serve requests, or are
                \* a supervisor's main thread
  Session,      \* browser sessions, and the supervisors' fixed session
  SessionsOf,   \* the sessions a process acts for
  Lease,        \* etcd lease ids
  MaxFaults,    \* bound on crashes, lost answers and lapses of kept leases
  NoSession, NoLease, NoProcess

ASSUME ConstantsAssumption ==
  /\ Supervisor \subseteq Process
  /\ ProcessOf \in [Thread -> Process]
  /\ Heartbeat \subseteq Thread
  /\ SessionsOf \in [Process -> SUBSET Session]
  /\ Lease \subseteq Nat
  /\ MaxFaults \in Nat
  /\ NoSession \notin Session
  /\ NoLease \notin Lease
  /\ NoProcess \notin Process

VARIABLES
  key,          \* /operator/executor/holder: Vacant, or who holds it
  live,         \* the leases etcd has granted that neither expired nor were
                \* revoked
  phase,        \* of each process: down, starting, running, stopping
  myLease,      \* ExecutorLease._my_lease_id of each process
  mySession,    \* ExecutorLease._my_session of each process
  pc,           \* where each thread is
  op,           \* the call each thread is serving
  sess,         \* the session the call is for
  lid,          \* the call's local lease id: minted (acquire) or seen (revoke)
  faults        \* faults so far

etcdVars    == <<key, live>>
processVars == <<phase, myLease, mySession>>
threadVars  == <<pc, op, sess, lid>>
vars == <<etcdVars, processVars, threadVars, faults>>

Holder == [session : Session, host : Process, lease : Lease]
Vacant == [session |-> NoSession, host |-> NoProcess, lease |-> NoLease]

Console == Process \ Supervisor

RequestStep == {"look", "refresh", "grant", "create", "drop", "mine", "beat",
                "see", "revoke", "delete"}
LocalStep   == {"idle", "record", "lose", "forget", "exit"}
Call == {"none", "acquire", "release", "takeover", "keepalive", "maintain",
         "start", "stop"}

TypeOK ==
  /\ key \in Holder \cup {Vacant}
  /\ live \in SUBSET Lease
  /\ phase \in [Process -> {"down", "starting", "running", "stopping"}]
  /\ myLease \in [Process -> Lease \cup {NoLease}]
  /\ mySession \in [Process -> Session \cup {NoSession}]
  /\ pc \in [Thread -> RequestStep \cup LocalStep]
  /\ op \in [Thread -> Call]
  /\ sess \in [Thread -> Session \cup {NoSession}]
  /\ lid \in [Thread -> Lease \cup {NoLease}]
  /\ faults \in 0..MaxFaults

Init ==
  /\ key = Vacant
  /\ live = {}
  /\ phase = [p \in Process |-> "down"]
  /\ myLease = [p \in Process |-> NoLease]
  /\ mySession = [p \in Process |-> NoSession]
  /\ pc = [t \in Thread |-> "idle"]
  /\ op = [t \in Thread |-> "none"]
  /\ sess = [t \in Thread |-> NoSession]
  /\ lid = [t \in Thread |-> NoLease]
  /\ faults = 0

-----------------------------------------------------------------------------
(* Control flow of a thread.                                               *)

Goto(t, step) ==
  /\ pc' = [pc EXCEPT ![t] = step]
  /\ UNCHANGED <<op, sess, lid>>

\* Mutant: the call forgets which session it is for.
BeginAnonymous(t, call, step, s) ==
  /\ pc[t] = "idle"
  /\ pc' = [pc EXCEPT ![t] = step]
  /\ op' = [op EXCEPT ![t] = call]
  /\ UNCHANGED <<sess, lid>>

Begin(t, call, step, s) ==
  /\ pc[t] = "idle"
  /\ pc' = [pc EXCEPT ![t] = step]
  /\ op' = [op EXCEPT ![t] = call]
  /\ sess' = [sess EXCEPT ![t] = s]
  /\ UNCHANGED lid

Finish(t, step) ==
  /\ pc' = [pc EXCEPT ![t] = step]
  /\ op' = [op EXCEPT ![t] = "none"]
  /\ sess' = [sess EXCEPT ![t] = NoSession]
  /\ lid' = [lid EXCEPT ![t] = NoLease]

\* The call returns.  A supervisor whose first maintain_lease() is over starts
\* its heartbeat; one whose last release() is over leaves main().
Return(t) ==
  /\ Finish(t, IF op[t] = "stop" THEN "exit" ELSE "idle")
  /\ phase' = IF op[t] = "start"
                THEN [phase EXCEPT ![ProcessOf[t]] = "running"]
                ELSE phase
  /\ UNCHANGED <<myLease, mySession>>

\* The call raises.  Web handlers and heartbeat loops survive it with
\* _my_lease_id and _my_session as they are; main() of a supervisor does not.
Raise(t) ==
  /\ Finish(t, IF op[t] \in {"start", "stop"} THEN "exit" ELSE "idle")
  /\ UNCHANGED processVars

\* keepalive() has returned without "held": maintain_lease() goes on to
\* acquire(), a console's keepalive thread waits for its next turn.
NotHeld(t) ==
  IF op[t] = "maintain"
    THEN \E s \in SessionsOf[ProcessOf[t]] :
           /\ pc' = [pc EXCEPT ![t] = "look"]
           /\ sess' = [sess EXCEPT ![t] = s]
           /\ UNCHANGED <<op, lid, phase>>
    ELSE Finish(t, "idle") /\ UNCHANGED phase

ClearRecord(p) ==
  /\ myLease' = [myLease EXCEPT ![p] = NoLease]
  /\ mySession' = [mySession EXCEPT ![p] = NoSession]

Fault ==
  /\ faults < MaxFaults
  /\ faults' = faults + 1

-----------------------------------------------------------------------------
(* etcd.                                                                   *)

\* An id is fresh once nothing refers to it; etcd never repeats one, so ids
\* stand for all the ids that no state can tell apart any more.
InUse == live \cup {key.lease} \cup {myLease[p] : p \in Process}
              \cup {lid[t] : t \in Thread}

Fresh(l) ==
  /\ l \in Lease \ InUse
  /\ \A m \in Lease : m < l => m \in InUse

\* Mutant: the holder is put without its lease, so nothing takes it away.
EndLeaseOfUnboundKey(l) ==
  /\ live' = live \ {l}
  /\ UNCHANGED key

\* Expiry and revocation both delete the key bound to the lease.
EndLease(l) ==
  /\ live' = live \ {l}
  /\ key' = IF key.lease = l THEN Vacant ELSE key

\* Some process still refreshes l, or is about to bind or record it.
Kept(l) ==
  \/ \E p \in Process : phase[p] # "down" /\ myLease[p] = l
  \/ \E t \in Thread : pc[t] \in {"create", "record"} /\ lid[t] = l

\* Nobody refreshes the lease, and it runs out.
Expire(l) ==
  /\ l \in live
  /\ ~Kept(l)
  /\ EndLease(l)
  /\ UNCHANGED <<processVars, threadVars, faults>>

\* The process that keeps the lease is paused, asleep or cut off for a TTL.
Lapse(l) ==
  /\ l \in live
  /\ Kept(l)
  /\ Fault
  /\ EndLease(l)
  /\ UNCHANGED <<processVars, threadVars>>

-----------------------------------------------------------------------------
(* acquire(): look; if vacant, grant, create, record or drop.              *)

LookForHolder(t) ==
  /\ pc[t] = "look"
  /\ \/ /\ key = Vacant
        /\ Goto(t, "grant")
        /\ UNCHANGED processVars
     \/ /\ key # Vacant
        /\ key.session = sess[t]
        /\ myLease[ProcessOf[t]] # NoLease
        /\ Goto(t, "refresh")
        /\ UNCHANGED processVars
     \/ /\ key # Vacant
        /\ key.session = sess[t] => myLease[ProcessOf[t]] = NoLease
        /\ Return(t)
  /\ UNCHANGED <<etcdVars, faults>>

RefreshOwn(t) ==
  /\ pc[t] = "refresh"
  /\ \/ Return(t)
     \/ /\ myLease[ProcessOf[t]] \notin live
        /\ Raise(t)
  /\ UNCHANGED <<etcdVars, faults>>

GrantLease(t) ==
  /\ pc[t] = "grant"
  /\ \E l \in Lease :
       /\ Fresh(l)
       /\ live' = live \cup {l}
       /\ lid' = [lid EXCEPT ![t] = l]
  /\ pc' = [pc EXCEPT ![t] = "create"]
  /\ UNCHANGED <<key, processVars, op, sess, faults>>

\* Mutant: a plain put where the code compares the key's version with zero.
Whatever == TRUE

KeyIsAbsent == key = Vacant

\* The create txn: bound only if the key has no version; an expired lease
\* fails it with an error.
CreateHolder(t) ==
  /\ pc[t] = "create"
  /\ \/ /\ KeyIsAbsent
        /\ lid[t] \in live
        /\ key' = [session |-> sess[t], host |-> ProcessOf[t], lease |-> lid[t]]
        /\ Goto(t, "record")
        /\ UNCHANGED processVars
     \/ /\ ~KeyIsAbsent
        /\ Goto(t, "drop")
        /\ UNCHANGED <<key, processVars>>
     \/ /\ KeyIsAbsent
        /\ lid[t] \notin live
        /\ Raise(t)
        /\ UNCHANGED key
  /\ UNCHANGED <<live, faults>>

RecordLease(t) ==
  /\ pc[t] = "record"
  /\ myLease' = [myLease EXCEPT ![ProcessOf[t]] = lid[t]]
  /\ mySession' = [mySession EXCEPT ![ProcessOf[t]] = sess[t]]
  /\ phase' = IF op[t] = "start"
                THEN [phase EXCEPT ![ProcessOf[t]] = "running"]
                ELSE phase
  /\ Finish(t, "idle")
  /\ UNCHANGED <<etcdVars, faults>>

DropMinted(t) ==
  /\ pc[t] = "drop"
  /\ EndLease(lid[t])
  /\ IF lid[t] \in live THEN Return(t) ELSE Raise(t)
  /\ UNCHANGED faults

-----------------------------------------------------------------------------
(* keepalive(): mine() reads the key; then refresh, or forget the lease.   *)

\* Mutant: the supervisor only calls keepalive(), as a console does.
NeverReclaims(p) == FALSE

\* The heartbeat thread runs maintain_lease() rather than keepalive().
Reclaims(p) == p \in Supervisor

BeginHeartbeat(t) ==
  LET p == ProcessOf[t] IN
  /\ t \in Heartbeat
  /\ phase[p] = "running"
  /\ \/ /\ myLease[p] # NoLease
        /\ Begin(t, IF Reclaims(p) THEN "maintain" ELSE "keepalive",
                 "mine", mySession[p])
     \/ /\ myLease[p] = NoLease
        /\ Reclaims(p)
        /\ \E s \in SessionsOf[p] : Begin(t, "maintain", "look", s)
  /\ UNCHANGED <<etcdVars, processVars, faults>>

ReadMine(t) ==
  /\ pc[t] = "mine"
  /\ Goto(t, IF key # Vacant /\ key.session = sess[t] THEN "beat" ELSE "lose")
  /\ UNCHANGED <<etcdVars, processVars, faults>>

\* Refreshing a lease that is gone may raise; so may any lost answer.
RefreshMine(t) ==
  /\ pc[t] = "beat"
  /\ \/ Return(t)
     \/ /\ myLease[ProcessOf[t]] \notin live
        /\ Goto(t, "lose")
        /\ UNCHANGED processVars
  /\ UNCHANGED <<etcdVars, faults>>

LoseLease(t) ==
  /\ pc[t] = "lose"
  /\ ClearRecord(ProcessOf[t])
  /\ NotHeld(t)
  /\ UNCHANGED <<etcdVars, faults>>

-----------------------------------------------------------------------------
(* release() and takeover(): see who holds the key, revoke its lease,      *)
(* delete the key whatever it holds by then; then forget, or acquire.      *)

\* Mutant: release() without its session check.
MayAlwaysEnd(t) == key # Vacant

\* There is a holder, and release() is for its session; takeover() asks nothing.
MayEndTenure(t) ==
  key # Vacant /\ (op[t] = "takeover" \/ key.session = sess[t])

SeeHolder(t) ==
  /\ pc[t] = "see"
  /\ \/ /\ MayEndTenure(t)
        /\ lid' = [lid EXCEPT ![t] = key.lease]
        /\ pc' = [pc EXCEPT ![t] = "revoke"]
        /\ UNCHANGED <<op, sess, processVars>>
     \/ /\ ~MayEndTenure(t)
        /\ op[t] # "takeover"
        /\ Return(t)
     \/ /\ ~MayEndTenure(t)
        /\ op[t] = "takeover"
        /\ Goto(t, "look")
        /\ UNCHANGED processVars
  /\ UNCHANGED <<etcdVars, faults>>

\* etcd answers the revocation of a lease that is gone with an error.
RevokeSeen(t) ==
  /\ pc[t] = "revoke"
  /\ EndLease(lid[t])
  /\ IF lid[t] \in live
       THEN /\ pc' = [pc EXCEPT ![t] = "delete"]
            /\ lid' = [lid EXCEPT ![t] = NoLease]
            /\ UNCHANGED <<op, sess, processVars>>
       ELSE Raise(t)
  /\ UNCHANGED faults

AfterDelete(t) == Goto(t, IF op[t] = "takeover" THEN "look" ELSE "forget")

DeleteKey(t) ==
  /\ pc[t] = "delete"
  /\ key' = Vacant
  /\ AfterDelete(t)
  /\ UNCHANGED <<live, processVars, faults>>

ForgetReleased(t) ==
  LET p == ProcessOf[t] IN
  /\ pc[t] = "forget"
  /\ IF sess[t] = mySession[p]
       THEN ClearRecord(p)
       ELSE UNCHANGED <<myLease, mySession>>
  /\ Finish(t, IF op[t] = "stop" THEN "exit" ELSE "idle")
  /\ UNCHANGED <<etcdVars, phase, faults>>

-----------------------------------------------------------------------------
(* The callers: web handlers, and the supervisor's main thread.            *)

RequestCall(t) ==
  LET p == ProcessOf[t] IN
  /\ p \in Console
  /\ t \notin Heartbeat
  /\ phase[p] = "running"
  /\ \E s \in SessionsOf[p] :
       \/ Begin(t, "acquire", "look", s)
       \/ Begin(t, "release", "see", s)
       \/ Begin(t, "takeover", "see", s)
  /\ UNCHANGED <<etcdVars, processVars, faults>>

StartConsole(p) ==
  /\ p \in Console
  /\ phase[p] = "down"
  /\ phase' = [phase EXCEPT ![p] = "running"]
  /\ UNCHANGED <<etcdVars, myLease, mySession, threadVars, faults>>

StartSupervisor(t) ==
  LET p == ProcessOf[t] IN
  /\ p \in Supervisor
  /\ t \notin Heartbeat
  /\ phase[p] = "down"
  /\ phase' = [phase EXCEPT ![p] = "starting"]
  /\ \E s \in SessionsOf[p] : Begin(t, "start", "look", s)
  /\ UNCHANGED <<etcdVars, myLease, mySession, faults>>

StopSupervisor(t) ==
  LET p == ProcessOf[t] IN
  /\ p \in Supervisor
  /\ t \notin Heartbeat
  /\ phase[p] = "running"
  /\ phase' = [phase EXCEPT ![p] = "stopping"]
  /\ \E s \in SessionsOf[p] : Begin(t, "stop", "see", s)
  /\ UNCHANGED <<etcdVars, myLease, mySession, faults>>

\* The process ends with every thread in it; only etcd remembers anything.
Die(p) ==
  LET own == {t \in Thread : ProcessOf[t] = p} IN
  /\ phase' = [phase EXCEPT ![p] = "down"]
  /\ ClearRecord(p)
  /\ pc' = [t \in Thread |-> IF t \in own THEN "idle" ELSE pc[t]]
  /\ op' = [t \in Thread |-> IF t \in own THEN "none" ELSE op[t]]
  /\ sess' = [t \in Thread |-> IF t \in own THEN NoSession ELSE sess[t]]
  /\ lid' = [t \in Thread |-> IF t \in own THEN NoLease ELSE lid[t]]
  /\ UNCHANGED etcdVars

ExitProcess(t) ==
  /\ pc[t] = "exit"
  /\ Die(ProcessOf[t])
  /\ UNCHANGED faults

Crash(p) ==
  /\ phase[p] # "down"
  /\ Fault
  /\ Die(p)

-----------------------------------------------------------------------------
(* A request or its answer is lost, and the call sees an exception.        *)

\* What the code does with the exception: refresh_lease() in keepalive() is
\* caught and means "lost", delete() is caught and ignored, all else escapes.
OnError(t) ==
  CASE pc[t] = "beat"   -> Goto(t, "lose") /\ UNCHANGED processVars
    [] pc[t] = "delete" -> AfterDelete(t) /\ UNCHANGED processVars
    [] OTHER            -> Raise(t)

LoseRequest(t) ==
  /\ pc[t] \in RequestStep
  /\ Fault
  /\ OnError(t)
  /\ UNCHANGED etcdVars

\* The txn was applied, the answer never came: held, but not on record.
LoseCreateAnswer(t) ==
  /\ pc[t] = "create"
  /\ key = Vacant
  /\ lid[t] \in live
  /\ Fault
  /\ key' = [session |-> sess[t], host |-> ProcessOf[t], lease |-> lid[t]]
  /\ Raise(t)
  /\ UNCHANGED live

LoseGrantAnswer(t) ==
  /\ pc[t] = "grant"
  /\ Fault
  /\ \E l \in Lease : Fresh(l) /\ live' = live \cup {l}
  /\ Raise(t)
  /\ UNCHANGED key

LoseRevokeAnswer(t) ==
  /\ pc[t] \in {"revoke", "drop"}
  /\ Fault
  /\ EndLease(lid[t])
  /\ Raise(t)

-----------------------------------------------------------------------------
AcquireStep(t) ==
  \/ LookForHolder(t) \/ RefreshOwn(t) \/ GrantLease(t) \/ CreateHolder(t)
  \/ RecordLease(t) \/ DropMinted(t)

KeepaliveStep(t) ==
  BeginHeartbeat(t) \/ ReadMine(t) \/ RefreshMine(t) \/ LoseLease(t)

ReleaseStep(t) ==
  SeeHolder(t) \/ RevokeSeen(t) \/ DeleteKey(t) \/ ForgetReleased(t)

NetworkFault(t) ==
  \/ LoseRequest(t) \/ LoseCreateAnswer(t) \/ LoseGrantAnswer(t)
  \/ LoseRevokeAnswer(t)

ThreadStep(t) == AcquireStep(t) \/ KeepaliveStep(t) \/ ReleaseStep(t)
                   \/ ExitProcess(t)

Next ==
  \/ \E t \in Thread : \/ ThreadStep(t) \/ NetworkFault(t)
                       \/ RequestCall(t) \/ StartSupervisor(t)
                       \/ StopSupervisor(t)
  \/ \E p \in Process : StartConsole(p) \/ Crash(p)
  \/ \E l \in Lease : Expire(l) \/ Lapse(l)

Spec == Init /\ [][Next]_vars

\* etcd expires what nobody refreshes.  A supervisor's threads run: its loops
\* catch every exception and only wait on an Event between turns.  Nothing is
\* assumed of consoles: people close laptops.
Fairness ==
  /\ \A l \in Lease : WF_vars(Expire(l))
  /\ \A t \in Thread :
       ProcessOf[t] \in Supervisor => WF_vars(ThreadStep(t))

FairSpec == Spec /\ Fairness

-----------------------------------------------------------------------------
(* Properties.                                                             *)

\* The holder key is bound to a lease etcd still knows, whatever was lost or
\* expired between grant and create: "no manual cleanup" (lease.py:18-19).
KeyBoundToLiveLease == key # Vacant => key.lease \in live

\* What the threads know of lease ids, the inductive invariant behind the
\* action properties below.  Each call carries the session it is for; a minted
\* lease is nobody else's until it is in the key, and is then bound to the
\* session it was minted for; what release() saw is its own session's lease;
\* what a keepalive refreshes is the tenure of its own process and session,
\* never one that another process also refreshes.
CallHasSession ==
  \A t \in Thread :
    pc[t] \notin {"idle", "exit", "mine", "beat", "lose"} => sess[t] \in Session

Minting == {"create", "record", "drop"}

MintedIsPrivate ==
  \A t \in Thread : pc[t] \in Minting =>
    /\ lid[t] \in Lease
    /\ \A p \in Process : myLease[p] # lid[t]
    /\ \A u \in Thread \ {t} : pc[u] \in Minting => lid[u] # lid[t]
    /\ pc[t] # "record" =>
         key.lease # lid[t] /\ \A u \in Thread \ {t} : lid[u] # lid[t]
    /\ key.lease = lid[t] =>
         key.session = sess[t] /\ key.host = ProcessOf[t]

SeenIsOwn ==
  \A t \in Thread : pc[t] = "revoke" =>
    /\ lid[t] \in Lease
    /\ op[t] # "takeover" /\ key.lease = lid[t] => key.session = sess[t]

KeptIsOwn ==
  \A p \in Process : myLease[p] # NoLease =>
    /\ key.lease = myLease[p] => key.host = p /\ key.session = mySession[p]
    /\ \A q \in Process \ {p} : myLease[q] # myLease[p]

LeaseKnowledge ==
  CallHasSession /\ MintedIsPrivate /\ SeenIsOwn /\ KeptIsOwn

\* A tenure ends when its lease runs out, when its own session releases it, or
\* when someone seizes it; never because another session's release, a lost
\* race or a heartbeat revoked it.  (The delete that follows a revocation is
\* the one exception: another session may have created the key in between.)
TenureEndsByRight ==
  [][key # Vacant /\ key' # key =>
       \/ UNCHANGED threadVars
       \/ \E t \in Thread :
            \/ /\ pc[t] = "revoke"
               /\ pc'[t] # "revoke"
               /\ lid[t] = key.lease
               /\ op[t] = "takeover" \/ key.session = sess[t]
            \/ pc[t] = "delete"]_vars

\* The executor is a single place: the key's session is the abstract holder,
\* and no step hands it from one session to another.
Executor == INSTANCE SingleExecutor WITH holder <- key.session

ImplementsSingleExecutor == Executor!SESpec

\* "While this process holds the executor lease, refresh it on a cadence"
\* (web/app.py:696-697): once a process's threads are between calls, the lease
\* its session holds is the one its keepalive refreshes.
HeldLeaseIsRefreshed ==
  \A p \in Process :
    /\ key.host = p
    /\ phase[p] = "running"
    /\ \A t \in Thread : ProcessOf[t] = p => pc[t] = "idle"
    => myLease[p] = key.lease

\* A tenure nobody keeps alive, its holder gone or its record lost, is over
\* after a while: the right does not stay with the dead (lease.py:18-19).
UnkeptTenureEnds ==
  (key # Vacant /\ ~Kept(key.lease)) ~> key = Vacant

\* A running supervisor does not leave the right unclaimed (supervisor.py:293-
\* 314, "recovery is automatic").
StandingExecutorReclaims ==
  \A p \in Supervisor :
    (key = Vacant /\ phase[p] = "running")
      ~> (key # Vacant \/ phase[p] # "running")
=============================================================================
