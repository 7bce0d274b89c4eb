# Verification of dsa110-operator

`dsa110-operator` lets people, a language-model agent and a standing supervisor
operate the DSA-110 radio array. This directory holds TLA+ specifications of the
parts where order matters, TLC configurations that check them on small
instances, and TLAPS proofs. Paths such as `control/lease.py` are relative to
`src/dsa_operator/` of the repository.

## 1. The system

The program runs as several processes that meet only in h23's etcd (through an
SSH tunnel): one *console* per laptop (a Flask server, `web/app.py`) and a
*standing supervisor* on h23 (`monitor/supervisor.py`). Components:

| Component | State it keeps | Operations | What makes it correct |
| --- | --- | --- | --- |
| Executor lease, `control/lease.py` | key `/operator/executor/holder` bound to an etcd lease; in each process `_my_lease_id`, `_my_session` | acquire, refresh, keepalive, release, takeover, holder | one place; the key dies with its lease; a tenure ends only by expiry, release or seizure; the dead do not keep it; the supervisor reclaims it |
| etcd write facade, `etcd/write.py` | keys and leases in etcd | grant, refresh, revoke, create-if-absent, get, put, delete | create is atomic; a revoked or expired lease takes its key along |
| Supervisor process, `monitor/supervisor.py` | loop times, alert codes, last health state | main, heartbeat (`maintain_lease`), tick | yields to people, reclaims; acts only as the executor; alerts on edges |
| Web console, `web/app.py` | browser session ids, the above objects, autopilot state | lease, control, approval, pause, resume and plan routes; keepalive and autopilot threads | two tabs arbitrate; only the holder drives |
| Control engine, `control/engine.py` | key `/operator/control/paused` | evaluate, pause, resume | nothing executes without each clearance; what executes is audited |
| Approvals, `control/approvals.py` | in-memory requests and grants | request, grant, find_active, consume | enough distinct people; one use; exact parameters |
| Dashboard authority, `control/authority.py` | key `/cmd/operator/control`, written by people only | read | lockout and pin are respected |
| Live executor, `control/executors.py` | none | execute: posts, puts | failure is reported, also half way |
| Policy, `policy.py` | constant after loading | gate_for, required_approvers | never looser than the target; unknown is forbidden |
| Observing plan, `observing/plan.py`, `runner.py` | key `/operator/plan/active` | set, arm, disarm, clear, active_at, decide, apply | a bring-up acts only for a plan a person armed |
| Bring-up, `observing/session.py` | stage, deadline, flags of one segment | a handler per stage, run, apply | recording only after the whole list; done means recording; waits end |
| Health, injection, recovery, `monitor/` | probe in flight; rules are pure | evaluate_health, fire, verify, propose | alerts once an episode; the edges in the audit tell the state; each probe sent is judged once, by what was counted |
| Read-only tools, `tools/readonly.py` | none | rollups, report card, health history | the card and the supervisor agree on what deserves an alert |
| SSH tunnel, `transport/ssh_tunnel.py`, `scripts/laptop.sh` | child process, backoff | start, wait_ready, stop, reconnect, launch, clean up | reconnects; leaves no ssh behind |
| Audit, `audit/` | day files, ring, etcd rows and their lease | record, window, sinks | the local row is durable before anything is told; no sink stops it |
| Agent, `agent/` | none between turns | chat turn, control tools, situation snapshot | what a turn changes can be traced; a plan is edited only after a look at the lease; turns end |
| Verbs and pre-flight, `control/verbs.py`, `preflight.py` | none | plan of an action, checks before observing | the pre-flight says what the engine would do |
| Astronomy, environment | none | transit times, secrets | pure functions |

Interaction. A browser request, a chat tool, the autopilot thread and the
supervisor tick all end in `ControlEngine.evaluate`, which reads the e-stop, the
authority key, the lease and the approvals, one after another, and then calls
the executor. Nothing is locked across these reads: other threads of the same
process and other processes change all of them meanwhile. Threads of one
process share the `ExecutorLease` object (`_my_lease_id`, `_my_session`)
without a lock. etcd requests may fail, and may be applied with the answer lost.

What is hard to test here is listed, each at its line, under `hazards` in
`PROJECT.json`: interleavings of lease calls, keepalive threads and
expiry; decisions on stale reads; approvals shared by concurrent evaluations;
half-done executions; restarts of consoles and supervisors during a plan; alerts and
audit edges across ticks that fail; probes judged by counts that others move; signals at
every point of the tunnel's manager; lines cut short; chat turns that fail after acting.

## 2. Modules

| Module | Models | Used by |
| --- | --- | --- |
| `SingleExecutor` | what the lease promises: control is one place, entered only when empty | refined by `ExecutorLease`; the lease seen by `ControlEngine` and `Observing` |
| `ExecutorLease` | `control/lease.py`, the leases of `etcd/write.py`, the threads of console and supervisor that call them | `MCExecutorLease`, `ExecutorLeaseProofs` |
| `ExecutorLeaseProofs` | proofs | |
| `Policy` | `policy.py`: gates and approver counts | `ControlEngine` |
| `ControlEngine` | `control/engine.py`, `approvals.py`, `authority.py`, the unit structure of `executors.py`, and the routes for e-stop and approvals | `MCControlEngine`, `ControlEngineProofs` |
| `ControlEngineProofs` | proofs | |
| `Observing` | `observing/plan.py`, `runner.py`, `session.py`, and what drives them in `web/app.py` and `monitor/supervisor.py` | `MCObserving`, `ObservingProofs` |
| `ObservingProofs` | proofs | |
| `Health` | the rollups of `tools/readonly.py`, `monitor/health.py`, `recovery.py`, the report card and the health history, as operators | `Autonomy` |
| `Autonomy` | the tick of `monitor/supervisor.py` (health, gate, recovery, injection), `injection.py` | `MCAutonomy`, `AutonomyProofs` |
| `AutonomyProofs` | proofs: alerts, remedies, probes | `HealthProofs` |
| `HealthProofs` | proofs: the report card, the audit edges, types | |
| `Tunnel` | `transport/ssh_tunnel.py`, `scripts/laptop.sh` | `Laptop` |
| `AuditTrail` | `audit/log.py`, `slack.py`, `etcd_sink.py` | `Laptop` |
| `Laptop` | the composition of the two: copies of rows go through the tunnel | `MCLaptop`, `LaptopProofs` |
| `LaptopProofs` | proofs | |
| `Verbs` | `control/verbs.py`: what becomes of an action's parameters | `Agent` |
| `Agent` | a chat turn: `agent/claude.py`, `stub.py`, `control.py`, the chat route; `control/preflight.py` | `MCAgent`, `AgentProofs` |
| `AgentProofs` | proofs | |
| `MC...` | values of the constants for TLC | |

### ExecutorLease

`key` is the etcd key, `live` the leases etcd knows. `phase`, `myLease`,
`mySession` belong to processes, `pc`, `op`, `sess`, `lid` to threads. A step is
one etcd request with the local code after its answer, except that the
assignments another thread may overtake are steps of their own
(`RecordLease`, `LoseLease`, `ForgetReleased`). A call is a walk over `pc`:

| Code | `pc` values |
| --- | --- |
| `acquire` | look → refresh, or look → grant → create → record or drop |
| `keepalive` | mine → beat or lose |
| `release` | see → revoke → delete → forget |
| `takeover` | see → revoke → delete → look → … (the `acquire` it ends with) |
| `maintain_lease` | the walk of `keepalive`; if it did not return "held", that of `acquire` |

`op` says which caller the walk serves: a web request, the console's keepalive
thread, the supervisor's heartbeat, its start (`start`) and its last release
(`stop`). `OnError` states what each call does with an exception: `refresh` in
`keepalive` is caught and means lost, `delete` is caught and ignored, everything
else escapes; web handlers and loops survive it, the supervisor's `main` does not.

Faults are crashes, lost requests, lost answers of create, grant and revoke, and
the lapse of a lease whose keeper sleeps or is cut off; `MaxFaults` bounds them.
The expiry of a lease that nobody keeps is not a fault and is not bounded. Time is
abstracted: an unkept lease may expire at any moment, a kept one only by a fault.
Refreshing a lease that is gone may raise or not, as the client library answers.
Lease ids are reused once nothing refers to them, which no state can tell from
fresh ids. A `host` in the key stands for the process that wrote it.

Abstracted: the actor name and the time stamp in the key; the lockout and pin
checks before `acquire` (they only refuse calls, and the model makes every call
possible); the audit rows of the lease routes.

### Policy and ControlEngine

An *action* is an action name with its parameters, what `params_hash` tells apart.
`holder` is the lease as `SingleExecutor` specifies it: the module takes the
promise that `ExecutorLease` is shown to implement, so any session may enter and
leave at any moment. `Evaluation` is the set of slots for calls of `evaluate` in
progress in one process:

| Code | Actions |
| --- | --- |
| `evaluate` 1, 2: known? paused? | `BeginEvaluation` |
| 2b: lockout, and the pin read with it | `CheckAuthority` |
| 3, 3b: lease and pin | `CheckLease` |
| 4, 5: gate, approval, parameters | `CheckGate` |
| 6: execute | `ExecuteUnit` (once per post or put), `ExecuteFails` |
| audit | `AuditDone`, `AuditFailure` |
| consume, return | `ConsumeAndReturn`, `ReturnFailure` |
| an exception leaves `evaluate` | `EvaluationRaises` |

A denial is `Leave`: its row in the audit log is not modelled, as no property is
about it. `EvaluationRaises` covers a raising lease read and an audit file that
cannot be written. A failing read of the authority key yields "enabled, unpinned"
in the code, so it is one of the values `authority` takes. `Pause` is open to
everyone; `BeginResume` and `Resume` are the lease check and the write of the
resume route. `store` is the `ApprovalStore`, whose lock makes each method one
step; a request is *unused*, *held*, *expired* or *gone* (consumed, or lost in a
restart). `find_active` returns the first match in the code, any match here.
Left out: requests for actions that need no approval, `pending`, and `gc`, which
nothing calls; `policy.paused`, constant false in a running process that can
execute at all.

A gate is any word: the loader checks none (`policy.py:150-186`), `Rank` puts what it does
not know above all others, and `evaluate` asks only for "forbidden" and "approval", so that
a promoted action with any other word for its target goes by itself. `WithinTarget` says what
the two words demand.

The web routes give every approver of one console the same operator name, so there
the second approver of a two-person action is never found; the instance uses
several names, as the tests of the approval store do.

### Observing

The plan in etcd, the bring-ups that execute it, and who drives them. A *driver* is a
thread: an autopilot of a console, the tick of a standing supervisor, or a request to
`/api/plan/step`. Each has at most one `ObservingSequencer` (`sid`: the session it acts
for) with at most one `BringUp` (`key`, `stage`, `pointed`, `built`, `modesDone`,
`deadline`). A tick is a walk over `pc`:

| Code | `pc` and actions |
| --- | --- |
| autopilot: `mine()`, plan, `holder()` | idle → plan → holder: `CheckMine`, `CheckArmed`, `ReadHolder` |
| supervisor: `_mutation_gate` | `SupervisorTick` |
| step route | `ManualStep`, with a new sequencer each time |
| `ObservingSequencer.apply` | apply: `Apply` |
| `BringUp.run`, one `_stage_...` after another | step: `StepInit` ... `StepArm`, `StepDone` |
| `ControlEngine.evaluate` and what `_ok` makes of it | act: `Evaluate` |
| an exception that ends the tick | `TickRaises` |

An evaluation is one step here, with the answers the control engine can give: denied
for any reason, or, to the session that holds the lease, a dry run or an execution.
`ControlEngine` looks inside it. The site is three values: the declination commanded,
the state of the fleet, and the declination the fleet was last started for. A reading may
fail. Dishes moving, `safe_to_arm` and the table's status are free answers, since
nothing the program does determines them. `deadline` is *none*, *set* or *past*, and
`Timeout` may happen as soon as it is set.

The routes that set, clear, arm and disarm look at the lease first. `arm` and `disarm`
are two requests (`ReadToArm`, `WriteArmed`), between which anybody may write the plan.
`RunnerTick` is the plan tick of the console; it does not look at `armed`. A restart
clears the plan, without looking at the lease, or fails to. `did` and `confirmed` are
history: what a bring-up has executed and seen, and what a person has armed.

Abstracted: segments have a time slot, a declination and a set of modes; declinations
are equal or further apart than the tolerance. A console is one session here: two tabs
of one process are two sessions only in `ExecutorLease`. The options of `BringUp` that
no caller sets (`ensure_fstable`, `require_settle`, `require_warm`, `restart_if_running`)
have their defaults. `run`'s bound of 12 steps is not modelled: the longest walk for a
segment with three modes has 12. A setup that an applier cannot turn into parameters
blocks as one without applier does.

### Health and Autonomy

`Health` is operators over an *observatory*, a record of what there is to be read
(heartbeats, streams, flag fractions, ..., and which reads fail): the rollups, the
findings of `evaluate_health` with its six sections, the remedies, the report card with
its own thresholds, and the history rebuilt from audit rows. Findings of level ok are not
kept, as neither level nor codes depend on them.

`Autonomy` has any number of supervisors, all of the session "supervisor". A tick:

| Code | Actions |
| --- | --- |
| 1, 2: health if due, `_record_health`, `_mutation_gate` | `Look` |
| 3: auto-recovery | `Recover` |
| 4: verify, then count the baseline, then fire | `Verify`, `BeginFire`, `Fire` |
| 5 and the end of the tick (the plan runner is in `Observing`) | `NothingToFire`, or `Fire` |
| an exception ends the tick; the process starts anew | `TickRaises`, `Restart` |

Between these steps the observatory changes, people engage and clear e-stop and lockout,
the lease changes hands, matches of foreign probes come and keys go. `waiting` says which
loops have an interval that has not passed. `told`, `repeated`, `remedies`, `unwritten`,
`evidence`, `unjudged` are history: what the properties compare the program's memory with.

Abstracted: all readings of one tick are of one moment, and the gate's three reads are one
step with them, each of which may fail in the direction the code gives it; Slack is
configured, and a post that is lost counts as made (the code forgets it as well); the
ticks of one supervisor do not overlap; the window looked back at holds the health rows
only; an evaluation is one step, as in `Observing`. The sections of the history about
probes and control failures are not modelled.

### Tunnel, AuditTrail and Laptop

`at` is where the manager is (`start`, `started`, `wait`, `serve`, `stop`, `reap`,
`sleep`, `gone`), `child` the process it knows, `stray` one it has forgotten. The
forwards are one resource, `port`, since ssh exits if it cannot have them all. `Signal`
may come at every point: it raises `KeyboardInterrupt` where the manager is, inside or
outside the `try` whose `finally` stops the child. `Launch` and `Sweep` are
`laptop.sh`, which refuses taken ports and kills whoever has them in the end. Time is
abstracted: the deadline of `wait_ready` may pass at any moment at which the ports are closed,
whatever the link (`NotReady`), so a login may take too long; and a wait for ssh to exit may
time out (`Kill`) at any moment. `Forgets` is the end of an `SshTunnel`: a child that runs by
then is a `stray`, asked to exit, killed, or abandoned without either. One stray is followed
at a time: while there is one, the manager forgets no second running child.

`AuditTrail` numbers the records in the order of the lock. `Enter` is the critical section:
the ring, then the line, which is written and synced, written and not synced, cut short,
or not begun; only the first does not raise. `Post` and `Mirror` are the sinks. The copies
share one etcd lease, granted once and never refreshed. `Laptop` gives `Mirror` the
tunnel's `Forwarding`; requests to an etcd out of reach time out and do not hang.

### Verbs and Agent

`Verbs` says, per verb, which flaw of the parameters is refused (`VerbError`), and which
one raises another exception, that `evaluate` does not catch. `Agent` is one chat turn at
a time of the session `Here`; the model is arbitrary.

| Code | Actions |
| --- | --- |
| chat route: the message, the answer or error | `Ask`, `Respond` |
| `ClaudeAgent.chat`: a request to the model | `ModelAnswers`, `ModelFails`, `RoundsAreOver` |
| `StubAgent.chat` | `StubAnswers` |
| `_run_tool`: reads, unknown tools, wrong arguments | `Look` |
| `propose_action`, `request_approval` | `Propose`, `RequestApproval` |
| `run_observing_step`, `tick_plan` | `RunStep` |
| set, arm, disarm, clear: lease check; write and row | `BeginEdit`; `FinishEdit` |

Meanwhile other people pause, pin, lock out, pass on the lease, edit the plan and decide
requests. `FailingChecks`, `Warnings`, `ReasonCode` are the pre-flight, the snapshot in the
prompt and the advice on a denial; `Denial` is what `ControlEngine` says in detail. `Warnings` takes the
reads that fail: each leaves its lines out of the prompt. A plan tool looks at the lease in
`BeginEdit` and writes in `FinishEdit`, whoever holds it by then. `request_approval` registers a
request for any known action, also for one that needs none.
Abstracted: approvals are per action, and all the grants an action needs are one step;
the tools of a round run one after another, as in the code; the advice is looked up by
the engine's own words, not by errors of the dashboard.

## 3. Runs

| Run | Instance | Result |
| --- | --- | --- |
| `lease` | console (request thread), supervisor (main, heartbeat), 3 lease ids, 1 fault, fairness | types; key bound to a live lease; what threads know of leases; tenures end by right; refines `SingleExecutor`; an unkept tenure ends; the supervisor reclaims |
| `lease_unrefreshed` | two consoles, one with keepalive thread, no fault | violation: a held lease nobody refreshes |
| `gate` | 2 evaluations, 2 tabs of one person, 1 approval, 3 operators, a live action of 2 units behind two approvers, an autonomous one that is a dry run, a forbidden one, 1 fault | types; each clearance held at some moment of the evaluation; enough distinct approvers; nothing executes beyond its target; a spent approval is not found again; what an evaluation may rely on at each point; changes are audited |
| `gate_single_use` | 2 evaluations, 1 approval | violation: both execute under it |
| `observing_plan` | an autopilot, 2 sessions that edit the plan, 3 segments (one with a mode, one with a mode nobody can apply), 2 slots, 3 changes of the plan, 4 policies | types, and only modes with an applier are submitted; only what a person armed is brought up; done means recording; recording only after the whole list |
| `observing_handover` | the supervisor and manual steps of a console, 1 segment, 2 changes of the plan, 1 exception or restart, live, fairness | the same while the lease moves; the supervisor's waits end |
| `observing_fleet_dec` | an autopilot, 2 segments | violation: recording on a fleet started for another declination |
| `autonomy` | one standing supervisor, two observatories (every warning and no alert; every alert and failing reads), 1 match, a window of 1 row, 1 fault, fairness | types; alerts once an episode, and they settle; edges tell the state; a remedy per look; probes judged once, in the end, and by evidence; the card agrees with the supervisor |
| `autonomy_console` | the standing supervisor and a console's, 1 fault | violation: the console's acts too |
| `laptop` | one recording thread, 3 records, ring of 1, backoff up to 2, fairness | types; nothing told before it is written; lost rows are bounded by torn lines; an ssh that runs is forgotten only after terminate and kill, but for an ill-timed signal; forwards come back and stay; recording does not wait for the tunnel |
| `laptop_orphan` | the same | violation: a signal between `Popen` and the `try` leaves an ssh that was never asked to exit |
| `agent` | 2 sessions, 2 rounds of up to 2 calls, 8 actions of which one behind an approval, an unknown action, 5 builds, 2 failures, fairness | types; changes can be traced; turns end; four accounts of the rules agree as far as they go |

The `lease` run has no keepalive thread in the console (the default of `create_app`), to
keep its liveness checkable; the heartbeat thread walks through the same `keepalive`.
`lease_unrefreshed` has the thread, and the proofs of the safety properties cover
it, for any number.

Bounds. Lease ids: a state refers to at most one id per process, thread and the key,
and three are enough for an old tenure, its successor and one being minted. Two
processes and three threads give every pair of calls of different processes, and of
main and heartbeat thread in one. One fault
gives every failure at every point, followed by every fault-free continuation.
Two evaluations are enough for one to act between two steps of the other; all
shared state they have is the approval store. One approval id means that a second
request is not made after the first is gone; the invariants speak of one approval at
a time. The `gate` runs use symmetry of the evaluation slots and of operators who act
for no session; no liveness is checked there. Refused parameters, which end an evaluation as a
forbidden gate does, are left to the proofs.

`observing_plan` needs three changes of the plan for an arm to write over a plan that
was staged after it had read; two segments of the same slot and declination for a plan staged
anew with another setup; and two slots for a fleet that runs when the next segment
begins. The four policies are: everything live with a few moving dishes tolerated; live but
`utc_start` not promoted; live without an executor; a rehearsal. The lease moves
freely in both passing `observing` runs.

`autonomy`: one supervisor, as nothing two of them share is written by either but audit
rows, which `EdgesTellTheState` takes by supervisor; one fault of any kind at any point. One
match and its keys' going give counts above, at and below the baseline. The two
observatories differ in every section, so each change raises and clears every code there is
together; the rules themselves are checked per section by `CardAgrees`, with reads of
fleet and capture failing. `laptop`: three records give one before, at and after a line cut
short; `MaxBackoff` 2 doubles once and is capped once. A second recording thread would
only change the order of posts and copies, which no property is about; Slack is told of
one of the three. A second stray would need an ssh that outlives SIGKILL, or two abandoned
ones, of which the second cannot bind while the first has the ports. `agent`: two rounds of two calls give an edit, a
failure after it and a change by others between them; two failures hide at most one
change, which `ChangesAreTraceable` counts. The five builds have everything promoted, all but
the modes, all but the point, no executor, and a rehearsal.

The `violation` runs each check one sentence of the repository's own text, quoted
under `findings` in `PROJECT.json`.

Fairness. In `lease`: `WF(Expire(l))`: etcd expires a lease that nobody
refreshes. `WF(ThreadStep(t))` for the supervisor's threads: its heartbeat loop
catches every exception and waits on an event with a timeout
(`monitor/supervisor.py:441-457`), and its requests have answers or errors. Nothing
is assumed of consoles, and no fault is fair. Deadlock is checked in all
runs. In `Observing`: `WF(DriverStep(d))`, since the loops catch every exception and
tick again (`supervisor.py:280-291`, `app.py:737-791`), and `WF(Timeout(d))`, since time
passes. `WaitsEnd` speaks of a supervisor that keeps the lease, under an armed
plan with a segment of now; that it is neither paused nor locked out for ever is part of
this fairness, as its gate does not let it tick meanwhile. The wait for the table is not
in `WaitsEnd`: a deploy that succeeds each time returns before the deadline is looked at.
In `Autonomy`: `WF(Tick(p))`, since `run` catches every exception and ticks again
(`supervisor.py:280-291`), and `WF` of intervals passing and probes ripening, since time
passes; nothing of people or the observatory. In `Tunnel`: `WF` of the manager's steps and
of ssh's: the loops poll (`ssh_tunnel.py:209-224, 304-305, 321-326`). `SF` of a login within
the wait is an assumption about h23 that the code cannot give: of attempts without end that
could bind in time, one does; were each login slower than the 15 s of `wait_ready`, the manager would
try for ever. Nothing is assumed of the link, foreign tunnels or the launcher; `ForwardsReturn`
speaks of behaviours in which h23 stays in reach from some moment on. In `Laptop`: `WF` of the sinks, whose requests time out.
In `Agent`: `WF(TurnStep)`: the request's thread runs, and requests to the model's API
end with an answer or an exception.

What else disagrees with a line of the repository, and is written into a definition or a passing
property but has no run of its own:

* the pre-flight is ready while `set_spectral_line` is not promoted, and a segment with that mode
  blocks: `CRITICAL_BRINGUP` lacks it (`control/preflight.py:40-47`), although "every precondition
  the bring-up sequencer depends on is checked up front" (`:5-6`) and the list is to be kept in
  sync with the sequencer's "modes" (`:37-39`; `observing/session.py:83-87`). `AccountsAgree` asks
  for that promotion besides (`modesToo`); without this conjunct it is false.
* the chat's plan tools write after the lease they checked has passed on (`FinishEdit`,
  `WriteArmed`), although "the only state this writes directly" is "lease-gated here"
  (`agent/control.py:62-63`). `OnlyConfirmed` holds all the same.
* the etcd lease of the audit copies is called "periodically-refreshed"
  (`audit/etcd_sink.py:34`), and nothing refreshes it: once it has run out (`LeaseEnds`), copies are gone
  and no more are made until the process restarts. `ToldIsWritten` and `RecordReturns` say that the
  trail itself goes on.

Observations about which no line of the repository says otherwise, or one run for the same
cause is enough:

* the delete after a revocation, called "belt-and-braces" (`control/lease.py:157`), removes
  the key of a session that acquired in between; `TenureEndsByRight` allows it by name.
* a second supervisor is not refused, although `deploy/README.md:124-125` says so:
  `acquire` answers True to the session that is in the key (`monitor/supervisor.py:398`). It is
  the cause of `autonomy_console` as well.
* an autopilot that held the lease when it looked may act a whole tick in the name of the
  session that holds it by then (`web/app.py:748`; compare `docs/USAGE.md:444-445`).
* a window of the health history without an edge reads as ok, whatever has persisted.
* the backoff starts again from 1 when a foreign tunnel has the ports
  (`ssh_tunnel.py:221, 324`).
* a misspelt gate passes the loader, and a promoted action with it goes by itself
  (`policy.py:68-83`, `engine.py:206-214`).

Every property has a mutant in `PROJECT.json`: a definition of the model
replaced by a plausible error, under which TLC finds the property violated. The
definitions marked `Mutant` in the modules serve only that.

## 4. Proofs

`ExecutorLeaseProofs` proves, for any sets of processes, threads, sessions and
leases satisfying `ConstantsAssumption`, and any number of faults:

* `LeaseInvariant`: `Spec => [](TypeOK /\ KeyBoundToLiveLease /\ LeaseKnowledge)`.
* `KeyIsBound`: `Spec => []KeyBoundToLiveLease`.
* `TenureTheorem`: `Spec => TenureEndsByRight`.
* `Refinement`: `Spec => ImplementsSingleExecutor`.

"The key is bound to a live lease" is inductive with types alone; "a tenure
ends by right" is not: one must know that the lease `drop` revokes is not the one in the key,
and that the lease `release` saw is, if still in the key, of its own session.
`LeaseKnowledge` states this. It has four parts: calls carry a session; a minted
id is private until it is in the key; a seen id is the caller's own; a recorded id
is a tenure of its own process. The proof has one lemma per
group of actions (`AcquireStepInv`, `KeepaliveStepInv`, `ReleaseStepInv`,
`NetworkFaultInv`, `CallInv`, `ProcessInv`, `ExpiryInv`), each with one step per
action. `KeyChanges` lists the steps that change the key; the action property and
the refinement follow from it.

`ControlEngineProofs` proves, for any actions, policies, sessions, operators,
evaluations and approvals satisfying `PolicyAssumption` and `EngineAssumption`, and
any number of faults:

* `EngineType`, `Clearances`, `Approvals`, `SpentOnce`, `Knowledge`: `Spec => []P` for
  `TypeOK`, `ClearedToAct`, `ApprovedToAct`, `SpentIsGone` and `GateKnowledge`.
* `Audit`: `Spec => ChangeIsAudited`.
* `Targets`: `Spec => []WithinTarget`, for any words as gates: a promotion lets an action go no
  further than its target. What executes is promoted, so its gate is its target, and
  `GateKnowledge` says that it was found neither forbidden nor, behind an approval, without a
  request that still has its grants.

The first four properties and `ChangeIsAudited` are not inductive. `GateKnowledge` adds
what an evaluation may rely on at each point: `ClearedSoFar` has one clause per check passed (the
pin is read with the lockout and compared only after the lease, so until then it
counts on condition that it will match); `Authorised` says that the approval found is
still about the same action and still has its grants, though it may be expired or
consumed; `GrantsCounted` says that the length of the list of grants is the number
of different people in it, which `IsSatisfied` relies on; `Recorded` places every
evaluation that has changed something between execution and return, with its row if
it is past the audit; `Underway` is the bookkeeping, without which `left` is not a
natural number. `StoreSteps` lists what one step can do to one request, `Apart`
what it leaves of an evaluation it does not belong to; with these two, the
preservation of each part (`Keeps...`) is one step per action.

`AutonomyProofs`, for any supervisors, sessions, observatories, loops, promotions and
bounds satisfying `HealthAssumption` and `AutonomyAssumption`:

* `AlertsOnce`: `AlertsArePostedOnce` is inductive with the domains of three functions;
  `AlertSteps` says that only a look at the health and a restart touch them.
* `RemedyOnce`: `OneRemedyPerLook` needs `FreshReport`: a tick that has a report to act on
  has just set the count to 0.
* `ProbesJudgedOnce`: `EachProbeIsJudged` needs types and `OneInFlight`: while a probe is being
  submitted none is in flight, so the account goes up by one only from empty.
* `Verdicts`: `VerdictsAreEarned` needs `Witnessed`, on top of these: what has happened since the
  baseline bounds the keys counted now from above (nothing has come), and from below
  (nothing has gone), unless a count could not be read.

`HealthProofs`, under the same assumptions:

* `Edges`: `EdgesTellTheState`. A row tells of one supervisor's report, and is dropped when the
  window of `MaxRows` moves on. `HistoryInv` says of the rows one by one that their level and
  alert codes are those of their report (`RowsInv`), and of each supervisor that the alerts it
  takes for active are those of the state it saw last, which is also what its last row in the
  window tells, unless a row could not be written (`StateInv`). Nothing is said of a window
  without a row of it. `PushDrops`, `DropsTell` and `AppendTells` are the lemmas about windows.
* `CardTheorem`: `CardAgrees`, for any finite sets of nodes and streams and any readings. It is a
  statement about two sets of rules and not about steps; what it takes of the specification is
  that readings are of their types. It assumes `DefaultThresholds`: every node must be up and a
  flag fraction of 0.7 is an alert, as in `HealthThresholds()` (`monitor/health.py:27-33`) and the
  policy in `config/`. The card has these numbers of its own, and with others the two may differ.
* `AutonomyType`: the type invariant; a report has only codes `evaluate_health` can give.

`ObservingProofs`, for any drivers, sessions, slots, segments, modes and policies satisfying
`ObservingAssumption`:

* `ObservingType`: `TypeOK` is inductive with `AtWork`: a driver at a step or in an evaluation
  has a bring-up, and has submitted an action exactly while it is being evaluated. What is
  submitted is one of the sequencer's own actions or that of a mode with an applier.
* `Confirmed`: `OnlyConfirmed` needs that the plan in etcd, and each edit of it between its read
  and its write (`WriteArmed`), is armed only with segments that a person has confirmed.
* `ListFollowed` and `DoneIsObserving`: `ThroughTheList` and `DoneMeansObserving` follow from
  `ListInv`, which has a clause for what each stage has behind it (`Pointed`, `Table`, `Modes`,
  `Started`, `Warm`, `Recorded`), and says at which stage an action is submitted, since
  the answer of an evaluation moves the bring-up on from there. Without a live executor
  a rendered action passes for done, so the clauses are about live ones.

`LaptopProofs`, for any threads, records and backoff satisfying `TunnelAssumption` and
`AuditAssumption`:

* `Told`: `ToldIsWritten` needs that a thread that posts or copies has written its record.
* `NoOrphans`: `NoneLeftBehind` needs `ManagerInv`: a child is asked to exit before it is waited
  for, and one runs only between `Popen` and the end of `stop`. `ForgetsOnlyKilled` goes through
  the steps that forget a child. The exempt signal is what `laptop_orphan` is about.
* `ReadBack`: `LostOnlyByTearing` needs `SpoiltOnce`: the written rows that cannot be read back,
  and one more while the last line is open, are no more than the lines cut short; a row is
  written before its call returns. A cut line spoils the row that is put after it, once.
* `LaptopType`: the type invariants of tunnel and trail, with `AtRecord` for the threads.

`AgentProofs`, for any constants that satisfy `AgentAssumption`:

* `Traceable`: `ChangesAreTraceable`: every missing row costs a fault, and so does a turn that
  fails; no exception of a tool leaves `_run_tool`.
* `Accounts`: `AccountsAgree`, about everything the sequencer issues, `set_spectral_line` included,
  and a prompt some of whose reads failed. It is a statement about four sets of rules and not about
  steps: it holds in every state, whatever the lease, the pin, the e-stop and the build are, and
  takes of the specification only that. `DenialOfBringup` reduces the engine's cascade for a bring-up action to four
  questions, and `ChecksOneByOne` matches them with the checks. The property assumes
  `BringupIsAutonomous`, true of `config/policy.yaml`, since the pre-flight does not look
  at gates: with a bring-up action behind an approval it could be ready all the same.
* `AgentType`: that a turn leaves at most `MaxRounds * MaxCalls` changes without a row needs
  `Budget`: such changes and the calls yet to be run are together at most the calls of the rounds
  so far, and a tool runs only while a call is left.

Every invariant and every action property of the passing runs is a theorem, and so is the
refinement. The assumptions say of constants what the code fixes. Two are more than types:
the sets of nodes and streams are finite, as `CORR_CNS` and `SEARCH_CNS` are lists; and the action
of a mode's applier is none of the sequencer's own actions, as `MODE_APPLIERS` has it
(`observing/session.py:83-86`).

Only model-checked:

* liveness, under the fairness of section 3, and whatever needs ENABLED, which are outside the prover's
  reach: `UnkeptTenureEnds`, `StandingExecutorReclaims`, `WaitsEnd`, `AlertsSettle`,
  `ProbesAreJudged`, `ForwardsReturn`, `RecordReturns`, `TurnsEnd`;
* the runs that find violations.

## 5. Plan

Remaining; all of it is proving.

1. Lemmas about the verbs: for which flaws of the parameters the plan of an action is refused, made or
   raises, so that `Agent`'s `Answers` can be read off for any action.
2. The safety part of the liveness properties: what must hold in every state in which a wait, a turn or
   a probe goes on, so that the arguments for their end are on paper up to the fairness.
3. Common forms: `AutonomyProofs` and `HealthProofs` list the steps of a tick twice, for the functions
   each of them needs.

## 6. Not modelled

HTML, cookies, the wording of messages, the egress filter, loading of secrets and policies,
and astronomy: I/O and pure functions without shared state. Read-only tools that only
read and format; the previews and transit times of the agent; the sections of the health
history about probes and control failures. Of the verbs, the forms they render: the models
keep which flaws are refused, and how many units an execution has. `preflight.py` (the
environment's checks) reports on files and sockets and changes nothing. Overlapping ticks
of one console's supervisor (two requests to `/api/autonomy/tick`) share its memory without
a lock; `Autonomy` has one tick of a supervisor at a time.
