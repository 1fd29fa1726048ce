# A verification development for Wildflows

Wildflows runs a tree of coding agents ("frames") over one Git repository.  A
frame is one worker process in one worktree; it calls three tools over MCP
(`dispatch`, `gate`, `ask`); children it dispatches are integrated into its
branch; everything that counts is an event of one append-only journal, and a
crashed run is resumed by folding that journal again.  The code is
`src/wildflows` (about 8600 lines of Python); line numbers below refer to it.

The modules in this directory model the parts of the system where threads,
timers, processes, crashes, files and Git meet.  TLC checks them on small
instances; TLAPS proves, of each of the eight components below, the invariants that
matter most for every value of its constants, and of three of them that they
implement their abstract specification.

    CallLedger     <--implements--  CallFrontier      <--EXTENDS--  CallFrontierProofs, MCCallFrontier
    SlotIntervals  <--implements--  RigSlots          <--EXTENDS--  RigSlotsProofs, MCRigSlots
                                    Integration       <--EXTENDS--  IntegrationProofs, MCIntegration
                                    Admission         <--EXTENDS--  AdmissionProofs, MCAdmission
    DurableLog     <--implements--  Journal           <--EXTENDS--  JournalProofs, MCJournal
                                    Lifecycle         <--EXTENDS--  LifecycleProofs, MCLifecycle
                                    WorkerSupervisor  <--EXTENDS--  WorkerSupervisorProofs, MCWorkerSupervisor
                                    Shim              <--EXTENDS--  ShimProofs, MCShim

## 1. Inventory

| Component | Code | State | Operations | What makes it correct | Here |
|---|---|---|---|---|---|
| tool-call frontier | `engine.py` (`handle_tool`, `_append_tool_return`, `_durabilize_failed_calls`, `_join_frame_calls`, `shutdown`), `mcp.py` | `_inflight_calls`, `_terminating_frames`, `_closing_frames`, the join set, calls of the projection | request, lead, begin, refuse, return, join, cancel, reconcile, exit | one effect per logical call, one leader, a durable answer behind every answer, an exit settles what was accepted | `CallFrontier` |
| rig slots and self time | `scheduler.py`, `engine.py` 340-640 | `_owners`, `_waiters`, `_FrameExecution`, timers | acquire, queue, lease, park, pause, resume, expire, close, sweep | no lane leaks or is shared, only thinking is charged, no starvation among ancestors and descendants | `RigSlots` |
| dispatch and integration | `engine.py` 1127-1900, 2311-2560, `workspace.py` | branches, temporary refs, intents, receipts, path owners | dispatch, retry, launch, exit, reapply, advance, relaunch guard | receipts are true, candidates stay reachable, no unseen commit is built on | `Integration` |
| admission | `admission.py`, `engine.py` 1127-1214, 1329-1489 | `_dispatch_reservations`, units per subtree | admit, reserve, consume, restore, clear, refuse | reservations are exact, caps hold in every subtree under concurrent dispatches and over a restart | `Admission` |
| journal | `journal.py`, `events.py` | an append-only file, the events in memory, a poisoned flag | append (write, fsync), load, cut a torn tail | a loaded journal is a prefix that contains all that was acknowledged | `Journal`; the fold is in the models that use it |
| worker supervisor and rigs | `rig.py`, `engine.py` 322-342, 732-768, 2450-2560 | leases, reaps under way, `worker.handle`, sessions | prepare, start, stop, finish, shut down, adopt and sweep | every session is reaped by one thread, none starts unnoticed after the stop | `WorkerSupervisor` |
| owner questions | `engine.py` 2836-2971, `run.py` | pending question, answer file | ask, notice, link an answer | one answer per question, and it is heard | `CallFrontier` (in a frame), `Lifecycle` (between processes) |
| run lifecycle | `run.py` | `run.lock`, `run.json`, `job.md`, `completed.json` | start, resume, complete, answer | one engine per run, a completed run stays completed | `Lifecycle` |
| generated MCP shim | `shim.py` | the client's call counter, the calls it may claim | number, claim, repeat, abort | the client's numbering and the engine's admission agree | `Shim` |
| workspace | `workspace.py` | refs, worktrees | create, advance, reapply, clean checks | an advance is a compare-and-swap | as `Integration` uses it |
| dashboard | `dashboard/` | a journal offset per client | tail and stream, answer | a reader sees every event once and in order | tail in `Journal`, answer in `Lifecycle` |
| command line | `__main__.py` | none | `run`, `resume`, `--answer` | an answer is given before the run is resumed | the order of its steps in `Lifecycle` |
| provisioning, evidence, rig configuration, skills, protocol types | the rest | none shared | - | - | not modelled: sequential commands, parsing, data types |

How they interact.  A worker's `tools/call` arrives at the MCP server, which
tracks it in the frame's join set and runs `Engine.handle_tool` in a thread.
`handle_tool` leads or waits on one condition variable, appends `*_called`,
parks the frame (its lane goes back to the scheduler), runs the tool, appends the
return and resumes (a lane is acquired again).  A gate does not park, it pauses
the frame's clock.  A dispatch launches
children: each takes a lane, starts a process under the supervisor and, once
its rig returns, closes its frontier, joins its calls, exits, and is integrated
by the thread of its parent's call.  `shutdown` comes from the main thread on a
signal and does all of this at once: cancel, stop, join, close, append
`run_interrupted`.

What is hard: four kinds of threads (launch, tool call, timer, main) touch one
frame's records under three different locks, none of which is held over an
append to the journal; waiting calls are admitted in an order no client
controls; joins are bounded and may give up on a live worker; Git and the
journal are two stores with a crash possible between any two writes; and
workers are processes that outlive a killed engine; several processes (runs,
resumes, answers, a dashboard) meet at one run's files; and the client numbers its
calls on its own, over a network.  `PROJECT.json` lists these hazards one by one with their lines and the properties aimed at them.

## 2. The modules

### CallLedger and CallFrontier

`CallLedger` is the promise: the calls of a frame are a numbered list in which
at most one call is open, an opened or refused call takes the next index, and
what is closed or refused never changes.  Its action `Fail` is weaker than one
might expect, because `_durabilize_failed_calls` (1015-1056) records
`call_failed` for every validated call without a return, also at an index that
was turned away.

`CallFrontier` is the code.  Its journal variables (`content`, `response`,
`refused`, `outcome`, `attempt`) are what `RunProjection` folds; the rest is
the engine's memory and is lost in `Crash`.  Two parties join a frame's calls:
the thread that launched it, and `shutdown`; they are the two `Joiners`, and may
run at once.  The steps are the critical sections of the code:

| Action | Code |
|---|---|
| `Submit` | validation, tracking and worker start in `mcp.py` |
| `Enter`, `Answer`, `Lead` | the frontier loop of `handle_tool` up to `_inflight_calls[key] = ...` |
| `Begin`, `FailEarly`, `Refuse` | the clean checks, the `*_called` append, `_record_call_refusal` |
| `Return`, `ReturnAnswer`, `StopAsking`, `FailLate` | the end of a tool: `_append_tool_return`, a cancelled ask, an exception |
| `Leave`, `Finish` | the `finally` clause, the end of the MCP worker |
| `CloseFrontier`, `RequestCancel`, `Joined`, `JoinTimesOut` | `_join_frame_calls` with its grace, cancellation and bound |
| `Reconcile`, `AbortReconcile`, `ExitFrame` | `_durabilize_failed_calls`, `frame_exited` and `revoke_frame` |
| `BeginShutdown`, `JoinsDone`, `Interrupt` | `_shutdown_preserving` |
| `Crash`, `Restart` | the end of the process at any point, and a load of the journal |

`_FrameCallKey` and the canonical request hash are one value, the call's
content.  The body of a tool is one step with a result.  `JoinMayTimeOut` says
whether a worker may outlive every bounded join of its frame: what holds without
it and fails with it is exactly what the bounded join costs.  Some stretches of code
that hold no lock throughout are one step here; section 6 names them.

### SlotIntervals and RigSlots

`SlotIntervals` is the promise to a reader of the journal: active intervals
never overlap on a lane, and a frame has one at a time.

`RigSlots` is the FIFO pool of `RigSlotScheduler` and the leases the engine
takes on it.  A frame's `_FrameExecution` is a record (`ex`); a lane that left
an execution under the lock but is not journalled or released yet travels in
`bag`, in the hands of its carrier (launch, call, timer, acquisition), because
the code does these three things in three separate critical sections
(`_release_frame_slot` 562-600).  Timers are kept by generation, as in
`_expire_frame_self_time`; a timer that has fired may still come for the lock
after it was cancelled.  `AcquireStep` follows `_acquire_frame_slot` and
`RigSlotScheduler.acquire` section by section; a budget found spent
(`CheckBudget`) is followed by the stop of the worker in a step of its own
(`StopSpent`), before which the worker still runs.  Time is counted in ticks per
frame; `thought` is a history variable, the ticks the frame's worker really ran
outside of calls, against which the accounting is judged.

### Integration

`Integration` follows a caller and the children of its dispatches through Git
and the journal: branch, `frame_pushed`, commits, `frame_exited`, and then
`_integrate_frame` as it stands: reapply onto the caller's tip (with a temporary
ref), `frame_integrating`, a fast-forward that Git may refuse,
`frame_integrated`, path claims, `frame_popped`.  A tip is the sequence of
commits behind it, so that "is an ancestor of" is `IsPrefix`.  `Walk` is
`_explained_frame_tips`, one event per step; `Walked` applies it to the events that
name a tip, one after the other.  `Retained` is the sweep of temporary refs at a restart,
`Claims` is `_parallel_owned_paths` (the paths that a sibling's source changed, not those
it might).  `ExitChild` is any `frame_exited`: one that follows a worker is refused while
a frame is parked, the one of a failed provisioning is not.  A killed engine leaves its workers
running until the next one reaps them (`Crash`, `WorkerCommits`, `Restart`); a
run whose guard parked it may be reset by its operator (`OperatorResets`).

### Admission

`Admission` is the rails of `_dispatch`.  Who would dispatch what is fixed by
constants (`Calls`, `Caller`, `Tasks`, `Above` for a frame and its ancestors);
when, and whether, is not.  `FramesUsed` and `SpendUsed` are
`_subtree_admission_usage`: durable descendants plus what is reserved in the
subtree.  `table` is `_dispatch_reservations`, `resFrames` and `resSpend` the two
dictionaries of counters.  A sum of weights (`Total`) counts units: the pairs of a
member and a number up to its weight, so that what is known of cardinalities is
known of sums.

| Action | Code |
|---|---|
| `Admit` | `_admit_and_reserve` and the called event, one section under the admission lock |
| `RefuseRig` | an unknown rig, which becomes a `call_refused` |
| `TurnAway`, `LogTurnedAway`, `ReturnRefusal` | any other refusal: the lock is left, then two appends |
| `Replay` | a pending call, which is not checked again |
| `Push` | the first `frame_pushed` of a child and `_consume_dispatch_reservation`, under the lock |
| `Relaunch`, `ExitFrame`, `Unwind` | a further attempt (which settles the calls of the former), an exit, a launch that raises |
| `EndBody`, `Return`, `Fail` | `_clear_dispatch_reservation`, and a return or an exception |
| `Crash`, `Restart` | the loss of the counters, and `_restore_dispatch_reservations` |

The history variable `loose` holds the calls that went on without the reservation
of their tasks, which the code allows in three ways: the replay of a dispatch that
raised (its reservation was given back at 1202), a crash before that replay (the
restart restores units that others may have taken), and a crash between the two
appends of a refusal.

### DurableLog and Journal

`DurableLog` is the promise of any append-only log: records are added one at a
time at its end, somebody may be told that a prefix is safe, and only what nobody
was promised may be lost.

`Journal` is `events.ndjson` as an append makes it and a failure leaves it.  The
file is its complete lines and a torn tail; `synced` and `named` say how much of
it, and whether its directory entry, is on the disk for sure.  The dashboard's
reader keeps an offset into the same file.

| Action | Code |
|---|---|
| `StartEmpty`, `StartLoad`, `Repair`, `NameLoaded` | `engine.py` 232-233, `Journal.load` with its repair and two fsyncs |
| `BeginAppend`, `WriteHalf`, `WriteRest`, `SyncFile`, `SyncNewFile`, `SyncDirectory` | `Journal.append` under its lock |
| `OpenFails` | the file cannot be opened: the owner is poisoned and no file is created |
| `AppendFails` | any of the later calls raises: the owner is poisoned, what is written stays |
| `Crash`, `LoseTail`, `LoseFile` | the process ends; the power fails, and a prefix of the file, or no file, is left |
| `Poll`, `Reconnect` | `tail_events` of `sse.py`, and a client that comes back with its last id |

The refinement maps `log` to the complete lines and `promised` to what `append`
or `load` reported.  `adopted` marks the one owner that promises less than it
says: it found an empty file that a dead process had created, and neither it nor
its appends fsync the directory.

### Lifecycle

The processes around one run: `run` and `resume`, answers from the command line
and from the dashboard.  They share `run.lock`, the metadata, the journal, the
answer files and `completed.json`.  An append is one step here.

| Action | Code |
|---|---|
| `ProbeFree`, `ProbeReleases`, `ProbeTaken`, `SelectLive`, `DeliverLive` | `Run.deliver_live_answer`: a try for the lock decides whether the run is live; a snapshot and an `os.link` deliver |
| `Construct`, `LockedOut`, `WriteMeta`, `WriteJob` | `Run.__init__` and `_acquire_lifecycle` |
| `Load`, `Open` | `Engine.__init__`: the load, or `run_opened` |
| `SelectOwned`, `LinkOwned` | `Run.resume` with an answer, before `Engine.run` |
| `Ask`, `Replay`, `Answered`, `FailAsk` | `_ask` of a frame: the event, the wait on the file, the answer, the end of a wait that a shutdown or the join of its frame cancelled |
| `SelectNone` | an answer that names a question that is not pending, or none while there is not one |
| `Stop`, `Interrupt`, `Finish`, `FindFinished`, `Complete`, `Crash` | the ends of a drive |

Every process has its own number of events it has folded (`mem`), so that two
owners at once would show as numbers that repeat; `told` is what a process told
its user.

### WorkerSupervisor

Every attempt has one session of processes, a leader and descendants, and one
lease.  Popping the lease under the lock (`Take`) is the right to reap; the reap
itself (`Terminate`, `Kill`, `Report`) happens outside of it.

| Action | Code |
|---|---|
| `Push`, `Prepare`, `Spawn`, `SpawnFails` | a further attempt; `WorkerSupervisor.prepare`; `Popen` in `_capture` |
| `Publish`, `WriteHandle`, `WriteFails` | `_started`: the record, a look at the stop reason, the handle |
| `Returns`, `StopOwn`, `Stopped`, `Finish`, `Finished` | the end of `_capture`, `worker.stop`, `_finished`; a start that finds a stop reason (`doomed`, `overdue`) stops its own worker and then waits for it like any other |
| `Expire` | the self-time timer, or a call that wants its slot back too late, stops the worker |
| `JoinTimesOut`, `JoinStops`, `Joined`, `ExitFrame` | the bounded join with its `reap_frames`, and `frame_exited` |
| `Signal`, `Shutdown`, `MainStops`, `MainWaits`, `End` | the main thread from a signal to the end of the process |
| `Restart`, `Adopt` | the sweep of a resumed engine over outstanding handles |
| `LeaderEnds`, `OrphansEnd`, `AdapterWrites` | the operating system, and a script that writes the handle too |

A signal is raised in the main thread, which also launches the root, so it can
unwind that launch at any place that does not defer it.

### Shim

The two numberings of a frame's calls: the extension's (`Call` numbers or claims,
`Send`, `Lose`, `Retry` and `Abort` are its loop), and the engine's in few steps
(`Reply`, `Lead`, `Refuse`, `Return`, `Fault`; `CallFrontier` has them in full).
Requests are delivered in any order, requests and answers are lost.  `Relaunch` is
the next attempt with what the engine generates for it (`first` is the index it starts
at).  The join before it gave `call_failed` to the tracked requests without a durable
end (`Unsettled`), rejected ones included, and a crash may have come in the middle: any
subset of them has it.  `Encodes` is the one
conversion that matters: the shim compares the JSON a call encodes to with the JSON
the engine dumped, and these differ for a dispatch that names no rig.

## 3. The runs

| Run | Question | Bounds, and why they are enough |
|---|---|---|
| `frontier` | Safety of the call frontier while every join ends in time, and refinement of `CallLedger`. | Two threads, two indexes, two contents (one ask, one other), two attempts, one crash. Two threads can race one index or two neighbouring ones, and two contents can conflict; the second attempt replays what the first, or the crashed process, left. Every ordering hazard listed is between two calls. |
| `joins` | Liveness of the joins and of requests, and what is left of safety when a worker outlives its joins. | Two threads, two indexes, one attempt, asks only (the tool that appends on cancellation by itself); under the fairness of section 4. |
| `slots` | Lane conservation and time accounting on parent and child. | One lane, so that the frames always contend; a budget of two ticks, so that a stretch can be lost, split by a gate, or overrun; two calls per frame, all three tools. |
| `shutdown` | A run whose questions are answered ends, a shutdown at any step ends, and intervals never overlap, over one restart. | Parent and child on one lane, one call each, a budget of one, one crash. |
| `backend` | RIGS.md:56-57, a worker uses the backend of its active slot lease. Violated. | three frames, two lanes: the least at which a frame can get another lane than before |
| `landing` | Receipts, path ownership, reachability, the relaunch guard. | Two children whose paths overlap, one commit each, one retry, two crashes: the second crash comes while the first is being recovered from. |
| `admission` | Exact reservations and caps. | A root with two children that dispatch one child each and a second call of its own with an unknown rig; six possible children over caps of four, one rig of double cost: whoever comes first, somebody is over a cap, in frames or in spend, at the root but not at the caller. One restart. |
| `journal` | The file under failures of every call, of the process and of the power, and the tail of it. | Two threads, four lines, two ends of the process, two power failures: a failure while the owner loads what the first one left, and a line that is torn, lost, cut and written anew while a reader is behind it. |
| `lifecycle` | One writer, one answer, a live run hears it. | Two runs, two command-line answers and a console for one question, each able to crash anywhere: two of every kind that can race, and a process that comes after both. |
| `supervisor` | Reaps, escapes, generations, the end of a shutdown. | The root and a scripted child, two attempts in all, one end of the engine. Each attempt has up to five threads after it: its own, its timer or a call out of time, a join, the main thread, and the sweep of the next engine. |
| `shim` | Payment, rejections and the end of calls over a network that loses. | Two concurrent calls in each of two attempts, one lost message; a content that encodes as the engine's, one that does not, one that is invalid. |
| `reissue` | `engine.py` 2645, "Re-issue an exact pending call to reconnect the durable stack". Violated. | the same without losses |

The runs with `CHECK_DEADLOCK FALSE` (all of them) model processes that
legitimately stop: a run that exited, or a process that crashed for the last
time the bound on restarts allows.  That nothing gets stuck before is the
business of the liveness properties.

`TypeOK` is stated in every module.  It is proved for each of them (`TypesHold`), and
no run lists it.

What the runs show, beyond their names:

* `SingleLeader`, `OnePending` and `ToolReturnIsFinal` need no assumption on joins
  (`joins`, and the proofs), but `EffectIsOwed`, `ReplyIsDurable`,
  `ExitSettlesCalls` and the ledger hold only as long as no join times out, which
  is the hypothesis of their theorems.  What
  survives a time-out is that a tool-specific return is never replaced.
* `LanesAreCarried` is stated for a driving engine; during a shutdown a child's
  acquisition that fails drops its lane in the stopped pool, which nobody uses
  again.
* `TimeoutIsEarned` and `SelfTimeIsCharged` hold tick for tick: queueing, gates
  and parked calls cost a worker nothing, and nothing it thought is lost.
* `RootExits` is conditional: a run ends if every question of its frames is
  answered or withdrawn again and again; an owner may be silent for ever.
* `GuardIsSound` and `BlockNeedsAbandonedIntent` are the two sides of the
  relaunch guard.  It never lets through a tip that no event names; and it parks
  a tip it should know only behind an intent whose child was given up.
* `ReservationsAreExact` needs no exception: whichever way a dispatch ends, its
  units are given back once.  `CapsHold` has one, the calls in `loose`: without
  them the lock makes the check and the reservation atomic, and every push turns
  a reserved unit into a durable one.
* `FileParses` and `MemoryIsTheFile` hold through every failure: a poisoned owner is at
  most one line behind its file, and a load makes that line a fact or cuts it.
  `TailCatchesUp` is the reader's side: what was acknowledged is shown.
* `OneAnswerEach` holds although the processes do not know of each other: the link
  decides, and the engine records what the link holds.
* `NobodyEscapes` names whom a shutdown may leave running: a root process unwound
  between `Popen` and `_started`, and what an earlier engine left without a handle
  or behind a `frame_exited` that came while another thread was reaping.  Whoever else
  is alive then has its end before it: its launching thread is on the way to the stop,
  or it, or the thread that found the budget spent, is reaping already.
* `RejectionIsExplained` says when the two numberings drift apart, and
  `PaidOnce` that it costs nothing; the exception of `PaidOnce` is the finding of
  `reissue`.

The two violations are disagreements of the code with its documents; the `findings`
of `PROJECT.json` quote both sides.

More was met on the way that has no run of its own.  In the call frontier:

* a worker that outlived its join may reopen a call that was failed under it: its
  late `*_called` starts a fresh record (`engine.py` 2773, DESIGN.md:2065-2066 has
  late workers append nothing over a completed call), and after its frame exited
  it may lead again uncancelled;
* such a worker may append after `run_interrupted` (`engine.py` 755-765;
  DESIGN.md:2233-2234 calls that event "the final write of the lifecycle").
  `InterruptIsLast` holds in `frontier`, where joins end in time.

In slots, integration and admission:

* a signal between a lane's detachment and its `frame_slot_released`
  (`engine.py` 562-587) leaves the interval open behind `run_interrupted`
  (DESIGN.md:2231-2233 has intervals closed first); the sweep of the next engine
  closes it, which is why `ImplementsIntervals` holds;
* a pending intent of a child that was given up hides later facts about its
  target from the walk (`engine.py` 1753), so that a clean tool call no longer
  explains the caller's tip (DESIGN.md:2024) and the guard parks the run;
* a refused dispatch whose return is lost in a crash is pending, and its replay
  launches its children without any admission (`engine.py` 1158;
  DESIGN.md:1605-1606: refusals "allocate no frame/worktree");
* a dispatch that raised and is replayed in the same process pushes its remaining
  children without a reservation (the exception in `CapsHold`);
* a restored reservation stays until its call is replayed.  If the relaunched
  caller exits without replaying it, the call stays pending and nobody returns
  the units (DESIGN.md:1647, "unlaunched residue is released").
  `ReservationsAreExact` says that every reservation belongs to a pending call,
  not that such a call still has a caller.

In the journal, the lifecycle, the supervisor and the shim:

* an empty `events.ndjson` that a dead process created is adopted without an fsync of
  its directory, by the first owner and by all its appends (`engine.py` 232-233,
  against DESIGN.md:1223-1226): the variable `adopted`;
* the tail may glue the first half of a line that was cut to the rest of the one
  that was written in its place, if both happen between two polls (`sse.py` 43-62).
  The number is right, the text is junk, so the stream ends and the client
  reconnects; DASHBOARD.md:41-42 promises complete lines only;
* the probe of a live answer holds `run.lock` for a moment.  A resume that comes
  then is locked out, and a second prober takes the run for live, links its
  answer and is told "delivered" with no engine to hear it (DESIGN.md:1655-1657);
  the next resume does;
* an answer linked after its question failed is reported as delivered and never used;
* a signal between `Popen` and `_started` leaves the root's process unknown to the
  shutdown (DESIGN.md:2038-2056): the exception in `NobodyEscapes`;
* a frame may exit while another thread reaps its worker; if the engine then
  ends, the session is neither reaped nor swept (`hasty`, `engine.py` 2498);
* of two concurrent calls the one that overtakes the other on the way to the
  engine is rejected for good, and an index an invalid or aborted request has taken
  makes every later call of the attempt out of range.

Every property of a passing run has a mutant: one definition of the model changed
as a plausible bug would change the code (the `Bug...` operators, each next to
the definition it replaces), under which TLC finds the property violated.

## 4. Fairness

Stated beside each `FairSpec`, and no more than the code gives:

* threads of the engine (MCP workers, launches, timers, the main thread) are
  scheduled by the operating system: weak fairness of each thread;
* a tool body ends only once it is cancelled: `gate` kills its process group,
  `dispatch` passes the event on, `ask` wakes up (`Stops`, `CallThread`).  A
  dispatch also ends when its children do; a gate is taken to end by itself in
  `RigSlots`, its command being bounded by `gate_timeout_s` or finite;
* a process that was stopped is killed and therefore returns (`Killed`);
* time passes (`Tick`);
* the dashboard polls while its client is there (`Poll`, weakly fair);
* a thread that waits for an answer looks for its file four times a second, and a
  process that shuts down or is done goes on (`Answered`, `FailAsk`, `Interrupt`,
  `Complete`, for each process and question);
* the launching and reaping threads and the main thread of the supervisor
  (`LaunchStep`, `ReapStep`, `MainStep`), by one condition for all of them: with attempts
  and restarts bounded they have finitely many steps, so that it gives each its turn;
* the timers of the extension fire (`Send` or `Retry`), and the engine answers what it
  admitted (`Engine`): in `Shim` a tool ends, as it does under `joins` once cancelled.

No fairness is given to a worker that merely runs, to an owner who is asked, to
requests, to launches by an operator, to signals, to the time-out of a join, to
failures or to crashes.

## 5. Proofs

`CallFrontierProofs` proves, for any set of threads, indexes, contents and
results, any number of attempts and restarts, and with joins that may time out:

* `TypesHold`: `Spec => []TypeOK`;
* `SingleLeaderHolds`: `Spec => []SingleLeader`;
* `OnePendingHolds`: `Spec => []OnePending`;
* `ToolReturnIsFinalHolds`: `Spec => ToolReturnIsFinal`, the action property that
  a return written by a tool, and not by a reconciliation, is never replaced.

`SingleLeader` and `OnePending` are not inductive.  The invariant proved
(`IInvHolds`) is `IInv`, the conjunction of

* `TypeOK`;
* `CarriesCall`: a thread that is not idle carries a content, and a tracked thread
  is not idle;
* `HasVerdict`: a joiner that reconciles has an error code to do it with;
* `SingleLeader` and `OnePending` themselves;
* `LeadsAlone`: while a thread leads, no call of another index is pending;
* `LeadFollows`: the index of a leader, or the one before it, is in use, or the
  index is 0.

`LeadsAlone` is why a second call cannot begin: the check of predecessors in the
frontier loop (`MayLead`) is made when the lead is taken, and `Begin` happens
later, in another critical section; what carries the fact from one to the other
is that no one else can lead meanwhile (`MustWait`), and that a reconciliation,
which may write any index, writes only completed entries.

`ToolReturnIsFinal` rests on one more invariant, `Unreturned`: a leader that has
not begun its tool finds no tool-specific result under its index.  That is what
keeps a late `Begin`, which starts a fresh record over a completed call, from
wiping out anything but a reconciled failure; every other writer of a response
checks for one in the section in which it writes.

`JournalProofs` proves of the journal, for any number of threads, records, crashes,
failed calls (the open included) and power failures: `TypesHold`, `FileParsesHolds`,
`AckedIsDurableHolds`, `MemoryIsTheFileHolds`, `TailInOrderHolds`, and
`ImplementsLogHolds`, that `Spec => Log!Spec`: every step is a step of `DurableLog`
or a stutter.  The invariant `IInv` adds to the properties where file and memory
stand at every place of an append (`Appending`), of a load (`Starting`) and between
(`Resting`), that one thread appends (`OneAppends`) to an owner that is up
(`UpToAppend`), and whose a file without a durable name is (`Nameless`).  The reader
has an invariant of its own (`ReaderInv`): it has sent all lines behind its offset,
and the torn line it holds back is the next one.  The refinement rests on
`AckedIsDurable`: what a power failure keeps contains what was promised.

`LifecycleProofs` proves of the processes around a run, for any number of them in any
roles, any questions and any crashes: `TypesHold`, `OneOwner` (two processes are never
both past the acquisition of the lock), `LogIsContiguousHolds` and
`OneAnswerEachHolds`.  `IInv` adds that whoever is at a place that needs the lock has it
(`Exclusive`), that the owner has folded the whole journal (`Abreast`), that threads
wait for pending questions only and a finished run has none (`Waiting`), that the
journal repeats the answer files (`Repeated`), and that who was told it answered
wrote the file and selects no other question (`Given`).  `Exclusive` is what makes
`Abreast` inductive: the other processes are outside of those places, so that a
record of one makes nobody else's memory old.

`WorkerSupervisorProofs` proves of the sessions, for any finite set of frames and any
number of attempts, stops, signals and restarts: `TypesHold`, `ReapedOnceHolds`,
`OneGenerationHolds` and `NobodyEscapesHolds`.  `IInv` says that what is leased, or about to be, was never
reaped (`LeasesUntouched`), that a sweeping engine has neither leases nor launches
(`SweepsUntouched`), that a session being reaped was not reported
(`NotYetReported`), and that `reaping` is the number of sessions being reaped; the
count is why the frames have to be finite.  `Generations` follows an attempt from its
push to the next one: an attempt that is older, done or of an exited frame is gone,
has no handle of an engine, or exited in haste (`Accounted`), and the latest attempt,
which no thread launches after a restart, is accounted for or in the hands of the
sweep.  `Holds` says who has a session that is there: from its `Popen` on it is leased,
or whoever took the lease is still reaping it (`Held`), because a stop takes a lease
only when the process is known, and otherwise leaves its reason for the launching
thread, which finds it when it publishes the record (`Recorded`, `Noted`).  When
`shutdown` returns nobody has anything left to stop, no join is under way (the root's
thread has unwound) and no lease is without a reason (`Stoppers`, `Noted`): what is
alive then is what `NobodyEscapes` names.

`CallFrontierProofs` goes on with the properties that only hold while joins end in
time, so that its further theorems assume `~JoinMayTimeOut`, the constant of
`frontier`: `EffectIsOwedHolds`, `ReplyIsDurableHolds`, `ExitSettlesCallsHolds`,
`InterruptIsLastHolds` and the refinement `ImplementsLedgerHolds`.  With time-outs TLC
finds each of them violated.  `JInv` follows a join: a live call is in the join set of
a registered frame (`Belongs`), which takes no new ones once it is joined
(`ClosedFirst`), so that nothing lives behind a join (`Stilled`); what the launch's
join found unsettled is in its snapshot (`Snapshot`) until it is failed, and the main
thread waits for the launch (`Waited`).  What makes the refinement work is `Entitled`:
between taking the lead and the append of `*_called`, in another critical section,
nobody takes away the index a leader may begin, and while a body runs, its call stays
open with its own content.

`RigSlotsProofs` proves of the pool, for any tree of frames, number of lanes and
budget: `LanesAreCarriedHolds`, `LeaseFollowsWorkHolds`, `TimeoutIsEarnedHolds`,
`SelfTimeIsChargedHolds` and `ImplementsIntervalsHolds`.  `IInv` says of each frame
where its threads are (`Control`), that a lease is exclusive (`Leased`), that one hand
at most carries a lane back, and from where (`Handed`), that the open interval of the
journal is the lane in that hand (`Journalled`), that the scheduler and the hands
agree (`Owning`), and where every tick of its worker is: on the clock (`Clocked`),
charged, on the lease or owed by the hand that brings the lane back (`Charged`).
`Working` and `Ended` are what is left between a time-out, by a timer or by a late budget
check, and the reap, and at an exit;
`OffIsQuiet` and `OffIsFree` empty all of it with the process.  The exception is the
lane an interrupted main thread had in its hand (`Lost`): its interval stays open until
the sweep of the next engine, and none opens before that sweep is over; that is why
the refinement holds over crashes.

`AdmissionProofs` proves `ReservationsAreExactHolds` and `CapsHoldHolds` for any tree
of frames, costs, policy, calls and restarts.  Its lemmas treat sums as cardinalities of
sets of units: a sum changes with one weight by the difference, a union of disjoint sets
adds up, a subset weighs no more.  `IInv` adds to the two properties that a call in
flight has a living caller and is journalled before its tasks are pushed (`Control`),
that a reservation belongs to a body that runs or a call nobody replayed (`Idle`), that
a body that runs is covered or known to be loose (`Covered`), and that what the next
process will restore fits the caps (`Restorable`), without which `CapsHold` would not
survive a restart.

`ShimProofs` proves `PaidOnceHolds` and `RejectionsAreExplained` for any finite set of
concurrent calls and any number of attempts, contents and lost messages.  The heart of `IInv` is
that both ends mean one call by one index (`Agreed`), that an index below the
extension's next one is durable or of a call of this attempt (`Numbered`), and that the
engine's own numbers have no gap (`Dense`), which together explain every rejection.  Both
look at the indexes from `first` on only: before it a join that reconciled a rejected
request may have left a gap, which nobody is ever asked to fill.  For
`PaidOnce`, the durable calls of a content are images of this attempt's calls of it or
were there before: a call that claimed nothing has an index beyond everything that could
be claimed and left nothing of its content to claim (`Unclaimed`).  The same clause gives
`EncodedReissueReconnects`: if no content omits the member in question, the property that
the run `reissue` refutes holds; the finding is a matter of the two encodings alone.

`IntegrationProofs` proves `ReceiptsHoldHolds`, `IntentIsHeldHolds`,
`NoFalseFailureHolds`, `GuardIsSoundHolds`, `OwnersAreDisjointHolds` and
`BlockNeedsAbandonedIntentHolds` for any number of children, commits, retries and
restarts.  `IInv` says where a dispatch and its children are (`Running`),
that a branch grew from its base (`Based`) and a head from it (`Exits`), that a pending
intent grows from its base and has its candidate at the child's head or under its
temporary ref (`Intended`), and, for each step of an integration, what it has
established (`Landing`): that its candidate extends its base when the intent is written,
is behind the caller's branch when the receipt is, and is not the caller's tip when it
fails.  An operator may reset a child's branch, so that `Based` needs to know that the
walk of a child never leaves what grew from its base; and `GuardIsSound`, that every walk
arrives only at tips some event names.  The walk is a recursive function.  Both facts
come from `WalkStays`: if a set contains the start of a walk, and no event leads out of
it, the walk is in it; the lemma looks at the first place where it would not be.

`OwnersAreDisjointHolds` has an invariant of its own, `Owners`, kept by every step from an
`IInv` state.  It says whose commits are behind which tip.  A child adds only commits of
its own to its base (`Own`), so an intent adds nobody but its child (`Adds`).  Until a
retry (`First`), every tip that the caller's branch has, had, or may get again
(`History`: also what the journal names, the bases of children and the two ends of an
intent, since a replay or a reset by an operator may go back there) has behind it only
children with an intent or a receipt, and these share no path (`Fine`).  While tasks are
under way whoever is behind the caller's tip has claimed its paths, but for the child that
is just landing, and what is about to get an intent shares none of them (`Claimed`): that
a replay rebuilds the claims from intents as well as receipts is what keeps this over a
crash between landing and receipt.

`BlockNeedsAbandonedIntentHolds` is about the end of a walk over the whole log of the
caller, which no variable holds: the guard parks the caller when its branch is not
there, and the theorem says that it then was never observed where it is, unless an intent
was abandoned.  `Watched` therefore says that *there is* a walk (`Trails`, which every
event takes one `Step` further) whose end is `Sound`.  The walk of the witness does not
look at the branch, which resets and commits move; `TrailIsWalked` shows that the guard
walks the same way as long as the end of the trail is behind the branch, because every
earlier tip of it is too.  What `Sound` says of the end is the strengthening that the
steps need:

* an intent the walk waits for is in the log without its receipt (`Open`); the property
  follows from that one and the next;
* every tip the log observed is explained by the end of the walk (it begins it), or can
  never be the branch's again, because a commit of the caller in it was reset away
  (`Lost`: the number of a commit is not used twice), or is hidden by the intent waited
  for but `Settled`, which is what a reset to the end of that intent needs to keep it
  explained, lose it for good or be refused by a receipt (`Kept`);
* until the first retry neither the branch nor the walk is halfway through an intent
  still to be carried out, so that the walk passes over no receipt, and after one the
  walk waits for an intent as long as one is to be carried out (`Apart`).

`Books` is what has to be known of intents and receipts themselves: an intent that is due
belongs to a task of the open call (`Tasked`), it and a receipt exclude one another and
add commits of their child only (`Receipted`), nothing else moves the caller's branch
while a child is integrated (`Alone`), and until the first retry every intent in the log
is the one a child has, or has the receipt of (`Logged`).  TLC checked `Books` and
`Watched`, with the trail of the witness computed, on the constants of `landing` and
with more retries and restarts, before they were proved.

The assumptions used are the `ConstantsAssumption` of each module, which TLC evaluates
in every run, and the hypotheses named above.  Of `None` they say only that it is not one
of the values it stands for the absence of.

Only model-checked: liveness (`JoinsTerminate`, `RequestsSettle`, `RootExits`,
`ShutdownCompletes`, `TailCatchesUp`, `AnswerIsHeard`, `ShutdownEnds`, `EveryCallEnds`),
which the prover does not handle.  Every invariant, every action property and every
refinement that a passing run checks is a theorem, some under a hypothesis on the
constants that their run satisfies (`~JoinMayTimeOut`).

## 6. What is not modelled

Of the modelled components:

* call frontier: id-less `tools/call` notifications (run in the HTTP handler,
  untracked); append failures, which only `Journal` has; what tool bodies do inside.
  One step each, and so without the interleavings inside: a request's authorization and
  its entry into the join set (`mcp.py` 368-384, 466-492); `frame_exited`, `revoke_frame`
  and the two removals behind it (`engine.py` 2549-2568); `frame_pushed` and the
  registration of the frame, so that no shutdown takes its snapshot of `_active` between
  them (737); and the join at the head of a relaunch (2341-2359), with its time-out,
  which only a launch that was unwound in the same process leaves anything to do;
* slots: a `worker.stop` that raises in a timer (`engine.py` 528), which leaves the lane
  unreleased; a time-out of the parent's own join during shutdown; rigs without a
  capacity, and more than one rig; a second attempt of a frame in the same process;
  chains of three frames on one lane, whose states are too many for a run of minutes;
* integration: the integration of the root itself, cancellation, symlink checks,
  and the barrier parallel siblings meet at before their rigs start; a commit
  that is reapplied to the same base after a crash has the same name, where Git would
  give it a fresh one (the old one has then landed nowhere);
* admission: the reason of a failed body (its children's, the skill library's at
  `engine.py` 1180-1193) and a return while a pushed child has not exited, `retry_frame`,
  calls that are no dispatches, a serial dispatch's order of pushes, and the depth and breadth caps, which are there but refuse nothing in the
  instance (they compare constants);
* journal: damage other than a lost tail (a block that changes, a file that is edited
  by hand), and what a line says.  A line that the reader glued counts as sent under its
  number, where `json.loads` raises and the stream ends with it;
* lifecycle: a resume with another job, rig or repository, which is refused before
  anything happens; an operator who deletes `run.lock`; the notify command, a hint;
* supervisor: a session that survives SIGKILL (the code raises and goes on with the
  others), the reuse of session numbers, which `test_worker_reap.py` covers, what
  the rigs pass to their processes;
* shim: the parsing of HTTP and of responses, and the text of the extension.

The abstractions are repeated at the head of each module.

Of the rest: see the inventory.  Provisioning, evidence, configuration, skills and
types have no shared state to check; the other routes of the dashboard render a
snapshot.

Four hazards listed in `PROJECT.json` have no property: an exception in the `finally`
clause of `handle_tool` or in a timer, the barrier of parallel siblings, a late worker
that meets the execution of the next attempt, and whoever is half way in when a frame is
revoked or a shutdown begins.  Each needs two of the modules at once, or more steps than
`CallFrontier` takes.

## 7. Plan

Done: every module of the diagram above, and the proofs that section 5 describes.

Left, in this order:

1. A frame-stack composition of `CallFrontier` and `RigSlots`: late workers of an
   earlier attempt on the execution of the next, children that are just being
   registered when the shutdown begins, and the steps that section 6 says are one.
2. Append failures through the engine's threads: what each of them leaves behind
   when its append, or a stop of its worker, raises.
3. The barrier of parallel siblings, and `retry_frame` in `Admission`.

Proofs: every safety property has one; what is left is what the extensions above add.
