------------------------- MODULE ExecutorLeaseProofs -------------------------
(***************************************************************************)
(* Proofs about ExecutorLease, for any processes, threads, sessions and    *)
(* leases and any number of faults.                                        *)
(***************************************************************************)
EXTENDS ExecutorLease, TLAPS

\* The inductive invariant: the types, the binding of the key to a live lease,
\* and what each thread knows of the lease ids it carries.
LeaseInv == TypeOK /\ KeyBoundToLiveLease /\ LeaseKnowledge

LEMMA InitInv == Init => LeaseInv
  BY ConstantsAssumption
     DEF Init, LeaseInv, TypeOK, KeyBoundToLiveLease, LeaseKnowledge, CallHasSession,
         MintedIsPrivate, Minting, SeenIsOwn, KeptIsOwn, Vacant,
         RequestStep, LocalStep, Call

\* The end of a call, by return or exception, drops what the thread knew; a lease
\* may end with it, and the key bound to that lease.
LEMMA EndOfCallInv ==
  ASSUME LeaseInv, NEW t \in Thread, Return(t) \/ Raise(t),
         faults' \in 0..MaxFaults,
         UNCHANGED etcdVars \/ \E l \in Lease : EndLease(l)
  PROVE  LeaseInv'
  <1> USE ConstantsAssumption 
      DEF LeaseInv, TypeOK, KeyBoundToLiveLease, LeaseKnowledge, CallHasSession,
          MintedIsPrivate, Minting, SeenIsOwn, KeptIsOwn, Vacant, Holder,
          RequestStep, LocalStep, Call, etcdVars, processVars, threadVars
  <1>1. /\ \E step \in {"idle", "exit"} : Finish(t, step)
        /\ phase' \in [Process -> {"down", "starting", "running", "stopping"}]
        /\ UNCHANGED <<myLease, mySession>>
    BY DEF Return, Raise, Finish
  <1>2. /\ live' \in SUBSET Lease
        /\ key' = key \/ key' = Vacant
        /\ KeyBoundToLiveLease'
    BY DEF EndLease
  <1>3. TypeOK'
    BY <1>1, <1>2 DEF Finish
  <1>4. CallHasSession' /\ SeenIsOwn' /\ KeptIsOwn'
    BY <1>1, <1>2 DEF Finish
  <1>5. MintedIsPrivate'
    BY <1>1, <1>2 DEF Finish
  <1> QED
    BY <1>2, <1>3, <1>4, <1>5

\* acquire(): a minted lease is known to its thread alone until it is in the key.
LEMMA AcquireStepInv ==
  ASSUME LeaseInv, NEW t \in Thread, AcquireStep(t)
  PROVE  LeaseInv'
  <1> USE ConstantsAssumption 
      DEF LeaseInv, TypeOK, KeyBoundToLiveLease, LeaseKnowledge, CallHasSession,
          MintedIsPrivate, Minting, SeenIsOwn, KeptIsOwn, Vacant, Holder,
          RequestStep, LocalStep, Call, etcdVars, processVars, threadVars
  <1>1. CASE LookForHolder(t)
    <2>1. CASE Return(t)
      <3>1. UNCHANGED etcdVars /\ faults' \in 0..MaxFaults
        BY <1>1 DEF LookForHolder
      <3> QED
        BY <2>1, <3>1, EndOfCallInv
    <2>2. ASSUME NEW step \in {"grant", "refresh"}, pc[t] = "look", Goto(t, step),
                 UNCHANGED <<etcdVars, processVars, faults>>
          PROVE  LeaseInv'
      BY <2>2 DEF Goto
    <2> QED
      BY <1>1, <2>1, <2>2 DEF LookForHolder
  <1>2. CASE RefreshOwn(t)
    <2>1. /\ Return(t) \/ Raise(t)
          /\ UNCHANGED etcdVars
          /\ faults' \in 0..MaxFaults
      BY <1>2 DEF RefreshOwn
    <2> QED
      BY <2>1, EndOfCallInv
  <1>3. CASE GrantLease(t)
    BY <1>3 DEF GrantLease, Fresh, InUse
  <1>4. CASE CreateHolder(t)
    BY <1>4 DEF CreateHolder, KeyIsAbsent, Goto, Raise, Finish
  <1>5. CASE RecordLease(t)
    BY <1>5 DEF RecordLease, Finish
  <1>6. CASE DropMinted(t)
    <2>1. /\ Return(t) \/ Raise(t)
          /\ \E l \in Lease : EndLease(l)
          /\ faults' \in 0..MaxFaults
      BY <1>6 DEF DropMinted
    <2> QED
      BY <2>1, EndOfCallInv
  <1> QED
    BY <1>1, <1>2, <1>3, <1>4, <1>5, <1>6 DEF AcquireStep

\* keepalive() and maintain_lease().
LEMMA KeepaliveStepInv ==
  ASSUME LeaseInv, NEW t \in Thread, KeepaliveStep(t)
  PROVE  LeaseInv'
  <1> USE ConstantsAssumption 
      DEF LeaseInv, TypeOK, KeyBoundToLiveLease, LeaseKnowledge, CallHasSession,
          MintedIsPrivate, Minting, SeenIsOwn, KeptIsOwn, Vacant, Holder,
          RequestStep, LocalStep, Call, etcdVars, processVars, threadVars
  <1>1. CASE BeginHeartbeat(t)
    BY <1>1 DEF BeginHeartbeat, Begin, Reclaims
  <1>2. CASE ReadMine(t)
    BY <1>2 DEF ReadMine, Goto
  <1>3. CASE RefreshMine(t)
    BY <1>3 DEF RefreshMine, Goto, Return, Finish
  <1>4. CASE LoseLease(t)
    <2>1. /\ pc[t] = "lose"
          /\ ClearRecord(ProcessOf[t])
          /\ UNCHANGED <<key, live, phase, faults>>
      BY <1>4 DEF LoseLease, NotHeld, Finish
    <2>2. ASSUME NEW s \in SessionsOf[ProcessOf[t]],
                 pc' = [pc EXCEPT ![t] = "look"], sess' = [sess EXCEPT ![t] = s],
                 UNCHANGED <<op, lid>>
          PROVE  LeaseInv'
      BY <2>1, <2>2 DEF ClearRecord
    <2>3. CASE Finish(t, "idle")
      BY <2>1, <2>3 DEF ClearRecord, Finish
    <2> QED
      BY <1>4, <2>2, <2>3 DEF LoseLease, NotHeld
  <1> QED
    BY <1>1, <1>2, <1>3, <1>4 DEF KeepaliveStep

\* release() and takeover(): what release() saw stays its own session's lease.
LEMMA ReleaseStepInv ==
  ASSUME LeaseInv, NEW t \in Thread, ReleaseStep(t)
  PROVE  LeaseInv'
  <1> USE ConstantsAssumption 
      DEF LeaseInv, TypeOK, KeyBoundToLiveLease, LeaseKnowledge, CallHasSession,
          MintedIsPrivate, Minting, SeenIsOwn, KeptIsOwn, Vacant, Holder,
          RequestStep, LocalStep, Call, etcdVars, processVars, threadVars
  <1>1. CASE SeeHolder(t)
    BY <1>1 DEF SeeHolder, MayEndTenure, Goto, Return, Finish
  <1>2. CASE RevokeSeen(t)
    <2>1. lid[t] \in Lease /\ faults' \in 0..MaxFaults
      BY <1>2 DEF RevokeSeen
    <2>2. CASE Raise(t)
      BY <1>2, <2>1, <2>2, EndOfCallInv DEF RevokeSeen
    <2>3. CASE lid[t] \in live
      <3>1. /\ live' \in SUBSET Lease
            /\ key' = key \/ key' = Vacant
            /\ KeyBoundToLiveLease'
        BY <1>2, <2>1 DEF RevokeSeen, EndLease
      <3>2. /\ pc[t] = "revoke"
            /\ pc' = [pc EXCEPT ![t] = "delete"]
            /\ lid' = [lid EXCEPT ![t] = NoLease]
            /\ UNCHANGED <<op, sess, processVars, faults>>
        BY <1>2, <2>3 DEF RevokeSeen
      <3>3. TypeOK'
        BY <3>1, <3>2
      <3>4. CallHasSession' /\ SeenIsOwn' /\ KeptIsOwn'
        BY <3>1, <3>2
      <3>5. MintedIsPrivate'
        BY <3>1, <3>2
      <3> QED
        BY <3>1, <3>3, <3>4, <3>5
    <2> QED
      BY <1>2, <2>2, <2>3 DEF RevokeSeen
  <1>3. CASE DeleteKey(t)
    BY <1>3 DEF DeleteKey, AfterDelete, Goto
  <1>4. CASE ForgetReleased(t)
    BY <1>4 DEF ForgetReleased, ClearRecord, Finish
  <1> QED
    BY <1>1, <1>2, <1>3, <1>4 DEF ReleaseStep

\* A lost request or answer leaves every thread's knowledge true.
LEMMA NetworkFaultInv ==
  ASSUME LeaseInv, NEW t \in Thread, NetworkFault(t)
  PROVE  LeaseInv'
  <1> USE ConstantsAssumption 
      DEF LeaseInv, TypeOK, KeyBoundToLiveLease, LeaseKnowledge, CallHasSession,
          MintedIsPrivate, Minting, SeenIsOwn, KeptIsOwn, Vacant, Holder,
          RequestStep, LocalStep, Call, etcdVars, processVars, threadVars
  <1>1. CASE LoseRequest(t)
    BY <1>1 DEF LoseRequest, Fault, OnError, AfterDelete, Goto, Raise, Finish
  <1>2. CASE LoseCreateAnswer(t)
    BY <1>2 DEF LoseCreateAnswer, Fault, Raise, Finish
  <1>3. CASE LoseGrantAnswer(t)
    BY <1>3 DEF LoseGrantAnswer, Fault, Fresh, InUse, Raise, Finish
  <1>4. CASE LoseRevokeAnswer(t)
    <2>1. lid[t] \in Lease /\ EndLease(lid[t])
      BY <1>4 DEF LoseRevokeAnswer
    <2>2. Raise(t) /\ faults' \in 0..MaxFaults
      BY <1>4 DEF LoseRevokeAnswer, Fault
    <2> QED
      BY <2>1, <2>2, EndOfCallInv
  <1> QED
    BY <1>1, <1>2, <1>3, <1>4 DEF NetworkFault

\* Calls, starts and stops only put a session on an idle thread.
LEMMA CallInv ==
  ASSUME LeaseInv, NEW t \in Thread,
         RequestCall(t) \/ StartSupervisor(t) \/ StopSupervisor(t)
  PROVE  LeaseInv'
  <1> USE ConstantsAssumption
      DEF LeaseInv, TypeOK, KeyBoundToLiveLease, LeaseKnowledge, CallHasSession,
          MintedIsPrivate, Minting, SeenIsOwn, KeptIsOwn, Vacant, Holder,
          RequestStep, LocalStep, Call, etcdVars, processVars, threadVars
  <1>1. CASE RequestCall(t)
    BY <1>1 DEF RequestCall, Begin
  <1>2. CASE StartSupervisor(t)
    BY <1>2 DEF StartSupervisor, Begin
  <1>3. CASE StopSupervisor(t)
    BY <1>3 DEF StopSupervisor, Begin
  <1> QED
    BY <1>1, <1>2, <1>3

\* A process that ends takes its threads' knowledge with it.
LEMMA DieInv ==
  ASSUME LeaseInv, NEW p \in Process, Die(p), faults' \in 0..MaxFaults
  PROVE  LeaseInv'
  BY ConstantsAssumption
     DEF Die, ClearRecord, LeaseInv, TypeOK, KeyBoundToLiveLease, LeaseKnowledge,
         CallHasSession, MintedIsPrivate, Minting, SeenIsOwn, KeptIsOwn, Vacant,
         Holder, RequestStep, LocalStep, Call, etcdVars, processVars

LEMMA ProcessInv ==
  ASSUME LeaseInv,
         \/ \E t \in Thread : ExitProcess(t)
         \/ \E p \in Process : StartConsole(p) \/ Crash(p)
  PROVE  LeaseInv'
  <1>1. ASSUME NEW t \in Thread, ExitProcess(t) PROVE LeaseInv'
    <2>1. ProcessOf[t] \in Process /\ faults' \in 0..MaxFaults
      BY <1>1, ConstantsAssumption DEF ExitProcess, LeaseInv, TypeOK
    <2> QED
      BY <1>1, <2>1, DieInv DEF ExitProcess
  <1>2. ASSUME NEW p \in Process, Crash(p) PROVE LeaseInv'
    <2>1. faults' \in 0..MaxFaults
      BY <1>2, ConstantsAssumption DEF Crash, Fault, LeaseInv, TypeOK
    <2> QED
      BY <1>2, <2>1, DieInv DEF Crash
  <1>3. ASSUME NEW p \in Process, StartConsole(p) PROVE LeaseInv'
    BY <1>3 DEF StartConsole, LeaseInv, TypeOK, KeyBoundToLiveLease, LeaseKnowledge,
         CallHasSession, MintedIsPrivate, Minting, SeenIsOwn, KeptIsOwn,
         etcdVars, threadVars
  <1> QED
    BY <1>1, <1>2, <1>3

\* A lease that ends takes the key bound to it along.
LEMMA ExpiryInv ==
  ASSUME LeaseInv, NEW l \in Lease, Expire(l) \/ Lapse(l)
  PROVE  LeaseInv'
  <1>1. /\ EndLease(l)
        /\ UNCHANGED <<processVars, threadVars>>
        /\ faults' \in 0..MaxFaults
    BY ConstantsAssumption DEF Expire, Lapse, Fault, LeaseInv, TypeOK
  <1> QED
    BY <1>1, ConstantsAssumption
       DEF EndLease, LeaseInv, TypeOK, KeyBoundToLiveLease, LeaseKnowledge,
           CallHasSession, MintedIsPrivate, Minting, SeenIsOwn, KeptIsOwn, Vacant,
           Holder, processVars, threadVars

\* Every state of the program satisfies the inductive invariant: the types, the
\* key bound to a live lease, and what each thread knows of lease ids.
THEOREM LeaseInvariant ==
  Spec => [](TypeOK /\ KeyBoundToLiveLease /\ LeaseKnowledge)
  <1>1. LeaseInv /\ [Next]_vars => LeaseInv'
    <2> SUFFICES ASSUME LeaseInv, [Next]_vars PROVE LeaseInv'
      OBVIOUS
    <2>1. ASSUME NEW t \in Thread, ThreadStep(t) PROVE LeaseInv'
      BY <2>1, AcquireStepInv, KeepaliveStepInv, ReleaseStepInv, ProcessInv
         DEF ThreadStep
    <2>2. ASSUME NEW t \in Thread, NetworkFault(t) PROVE LeaseInv'
      BY <2>2, NetworkFaultInv
    <2>3. ASSUME NEW t \in Thread,
                 RequestCall(t) \/ StartSupervisor(t) \/ StopSupervisor(t)
          PROVE LeaseInv'
      BY <2>3, CallInv
    <2>4. ASSUME NEW p \in Process, StartConsole(p) \/ Crash(p) PROVE LeaseInv'
      BY <2>4, ProcessInv
    <2>5. ASSUME NEW l \in Lease, Expire(l) \/ Lapse(l) PROVE LeaseInv'
      BY <2>5, ExpiryInv
    <2>6. CASE UNCHANGED vars
      BY <2>6 DEF vars, etcdVars, processVars, threadVars, LeaseInv, TypeOK,
         KeyBoundToLiveLease, LeaseKnowledge, CallHasSession, MintedIsPrivate,
         Minting, SeenIsOwn, KeptIsOwn
    <2> QED
      BY <2>1, <2>2, <2>3, <2>4, <2>5, <2>6 DEF Next
  <1>2. Spec => []LeaseInv
    BY <1>1, InitInv, PTL DEF Spec
  <1> QED
    BY <1>2, PTL DEF LeaseInv

\* Every variable keeps its type, for any processes, threads, sessions and leases.
THEOREM LeaseType == Spec => []TypeOK
  BY LeaseInvariant, PTL

\* The holder key in etcd is bound to a lease that etcd has (control/lease.py:104,
\* etcd/write.py:131-138).
THEOREM KeyIsBound == Spec => []KeyBoundToLiveLease
  BY LeaseInvariant, PTL

\* The key changes only where etcd is told to change it, or where a lease ends;
\* a lost race's lease is never the one in the key.
LEMMA KeyChanges ==
  ASSUME LeaseInv, [Next]_vars, key' # key
  PROVE  \/ key = Vacant /\ key'.session \in Session /\ key' \in Holder
         \/ /\ key # Vacant
            /\ key' = Vacant
            /\ \/ UNCHANGED threadVars
               \/ \E t \in Thread :
                    \/ pc[t] = "revoke" /\ pc'[t] # "revoke" /\ lid[t] = key.lease
                    \/ pc[t] = "delete"
  <1> USE ConstantsAssumption
      DEF LeaseInv, TypeOK, LeaseKnowledge, CallHasSession, MintedIsPrivate, Minting,
          SeenIsOwn, Vacant, Holder, etcdVars, processVars, threadVars, RequestStep,
          LocalStep
  <1>1. ASSUME NEW t \in Thread, AcquireStep(t)
        PROVE  key = Vacant /\ key'.session \in Session /\ key' \in Holder
    <2>1. ~(LookForHolder(t) \/ RefreshOwn(t) \/ GrantLease(t) \/ RecordLease(t))
      BY DEF LookForHolder, RefreshOwn, GrantLease, RecordLease
    <2>2. ~DropMinted(t)
      BY DEF DropMinted, EndLease
    <2> QED
      BY <1>1, <2>1, <2>2 DEF AcquireStep, CreateHolder, KeyIsAbsent
  <1>2. ASSUME NEW t \in Thread, KeepaliveStep(t) PROVE FALSE
    BY <1>2 DEF KeepaliveStep, BeginHeartbeat, ReadMine, RefreshMine, LoseLease
  <1>3. ASSUME NEW t \in Thread, ReleaseStep(t)
        PROVE  /\ key # Vacant
               /\ key' = Vacant
               /\ \/ pc[t] = "revoke" /\ pc'[t] # "revoke" /\ lid[t] = key.lease
                  \/ pc[t] = "delete"
    <2>1. ~(SeeHolder(t) \/ ForgetReleased(t))
      BY DEF SeeHolder, ForgetReleased
    <2>2. CASE RevokeSeen(t)
      BY <2>2 DEF RevokeSeen, EndLease, Raise, Finish
    <2>3. CASE DeleteKey(t)
      BY <2>3 DEF DeleteKey
    <2> QED
      BY <1>3, <2>1, <2>2, <2>3 DEF ReleaseStep
  <1>4. ASSUME NEW t \in Thread, NetworkFault(t)
        PROVE  \/ key = Vacant /\ key'.session \in Session /\ key' \in Holder
               \/ /\ key # Vacant
                  /\ key' = Vacant
                  /\ pc[t] = "revoke" /\ pc'[t] # "revoke" /\ lid[t] = key.lease
    <2>1. ~(LoseRequest(t) \/ LoseGrantAnswer(t))
      BY DEF LoseRequest, LoseGrantAnswer
    <2>2. CASE LoseCreateAnswer(t)
      BY <2>2 DEF LoseCreateAnswer
    <2>3. CASE LoseRevokeAnswer(t)
      BY <2>3 DEF LoseRevokeAnswer, EndLease, Raise, Finish
    <2> QED
      BY <1>4, <2>1, <2>2, <2>3 DEF NetworkFault
  <1>5. ASSUME NEW t \in Thread,
               \/ ExitProcess(t) \/ RequestCall(t)
               \/ StartSupervisor(t) \/ StopSupervisor(t)
        PROVE  FALSE
    BY <1>5 DEF ExitProcess, Die, RequestCall, StartSupervisor, StopSupervisor
  <1>6. ASSUME NEW p \in Process, StartConsole(p) \/ Crash(p) PROVE FALSE
    BY <1>6 DEF StartConsole, Crash, Die
  <1>7. ASSUME NEW l \in Lease, Expire(l) \/ Lapse(l)
        PROVE  key # Vacant /\ key' = Vacant /\ UNCHANGED threadVars
    BY <1>7 DEF Expire, Lapse, EndLease
  <1>8. ~UNCHANGED vars
    BY DEF vars
  <1> QED
    BY <1>1, <1>2, <1>3, <1>4, <1>5, <1>6, <1>7, <1>8 DEF Next, ThreadStep

\* A tenure ends by expiry, by its own session's release, by a takeover, or by
\* the delete that follows one; what release() revokes is never another's.
THEOREM TenureTheorem == Spec => TenureEndsByRight
  <1> DEFINE EndsByRight ==
        key # Vacant /\ key' # key =>
          \/ UNCHANGED threadVars
          \/ \E t \in Thread :
               \/ /\ pc[t] = "revoke"
                  /\ pc'[t] # "revoke"
                  /\ lid[t] = key.lease
                  /\ op[t] = "takeover" \/ key.session = sess[t]
               \/ pc[t] = "delete"
  <1>1. LeaseInv /\ [Next]_vars => EndsByRight
    <2> SUFFICES ASSUME LeaseInv, [Next]_vars, key # Vacant, key' # key
                 PROVE  EndsByRight
      OBVIOUS
    <2>1. \/ UNCHANGED threadVars
          \/ \E t \in Thread :
               \/ pc[t] = "revoke" /\ pc'[t] # "revoke" /\ lid[t] = key.lease
               \/ pc[t] = "delete"
      BY KeyChanges
    <2>2. \A t \in Thread : pc[t] = "revoke" /\ lid[t] = key.lease
            => op[t] = "takeover" \/ key.session = sess[t]
      BY DEF LeaseInv, LeaseKnowledge, SeenIsOwn
    <2> QED
      BY <2>1, <2>2
  <1>2. LeaseInv /\ [Next]_vars => [EndsByRight]_vars
    BY <1>1
  <1>3. Spec => []LeaseInv
    BY LeaseInvariant, PTL DEF LeaseInv
  <1>4. Spec => [][EndsByRight]_vars
    BY <1>2, <1>3, PTL DEF Spec
  <1> QED
    BY <1>4 DEF TenureEndsByRight

\* The lease implements the single executor: no step of any thread, no fault and
\* no expiry hands the key from one session straight to another.
THEOREM Refinement == Spec => ImplementsSingleExecutor
  <1>1. Init => Executor!SEInit
    BY DEF Init, Executor!SEInit, Vacant
  <1>2. LeaseInv /\ [Next]_vars => [Executor!SENext]_(key.session)
    <2> SUFFICES ASSUME LeaseInv, [Next]_vars, key'.session # key.session
                 PROVE  Executor!SENext
      OBVIOUS
    <2>1. CASE key = Vacant /\ key'.session \in Session
      BY <2>1 DEF Executor!SENext, Executor!Claim, Vacant
    <2>2. CASE key # Vacant /\ key' = Vacant
      BY <2>2, ConstantsAssumption
         DEF Executor!SENext, Executor!Vacate, Vacant, LeaseInv, TypeOK, Holder
    <2> QED
      BY <2>1, <2>2, KeyChanges
  <1>3. Spec => []LeaseInv
    BY LeaseInvariant, PTL DEF LeaseInv
  <1> QED
    BY <1>1, <1>2, <1>3, PTL DEF Spec, ImplementsSingleExecutor, Executor!SESpec
==============================================================================
