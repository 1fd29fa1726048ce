------------------------------ MODULE RigSlots ------------------------------
(***************************************************************************)
(* The slots of one rig: the FIFO lane pool of RigSlotScheduler and the    *)
(* leases the engine takes on it for resident frames.  A frame acquires a  *)
(* lane before its adapter starts, gives it up while it is parked in       *)
(* dispatch or ask, takes one again before the call returns, keeps it but  *)
(* stops its clock during a gate, and loses it when its self-time budget   *)
(* is spent.  Four threads of control touch one execution record: the      *)
(* launch of the frame, its tool call, its timers, and shutdown.           *)
(*                                                                         *)
(* Abstracted: a frame has one tool call at a time (CallFrontier shows     *)
(* that), an attempt per process, and never exits before its call ended    *)
(* (no join time-out).  Time is counted in ticks, per frame.  A rig with   *)
(* no capacity is a pool that never fills.  Append failures, and a child   *)
(* that passed its cancellation check just before a shutdown, are left     *)
(* out. worker.stop returns: if it raised in a timer (engine.py 528),      *)
(* the lane would be neither journalled as released nor given back.        *)
(***************************************************************************)
EXTENDS Integers, Sequences, FiniteSets, SequencesExt

CONSTANTS
  Frames,       \* frames of this rig
  Root,         \* the root frame, launched by the main thread
  Parent,       \* frame -> the frame that dispatches it (Root: itself)
  Capacity,     \* lanes of the pool
  StableLane,   \* frame -> its lane by the hash of its id
  Budget,       \* ticks of self time per attempt
  Kinds,        \* tools that frames call
  MaxCalls,     \* bound: calls of a frame per attempt
  MaxRestarts,  \* bound: restarts of the engine process
  MayStop,      \* may the process be interrupted or crash?
  None

Lanes    == 0 .. Capacity - 1
Carriers == {"launch", "call", "timer", "acquire"}
Children(f) == {c \in Frames \ {Root} : Parent[c] = f}

ASSUME ConstantsAssumption ==
  /\ Root \in Frames /\ IsFiniteSet(Frames) /\ Capacity \in Nat \ {0}
  /\ Parent \in [Frames -> Frames] /\ StableLane \in [Frames -> Lanes]
  /\ Budget \in Nat \ {0} /\ MaxCalls \in Nat /\ MaxRestarts \in Nat
  /\ Kinds \subseteq {"dispatch", "gate", "ask"} /\ MayStop \in BOOLEAN
  /\ None \notin Lanes \cup Frames

VARIABLES
  \* the journal, folded by RunProjection (survives a crash)
  jlane,      \* frame -> lane of its open slot interval, or None
  last,       \* frame -> lane of its latest interval
  charged,    \* frame -> self time of the attempt in frame_slot_released
  \* RigSlotScheduler
  owner,      \* lane -> the frame in _owners, or None
  waiters,    \* the FIFO queue
  stopped,    \* _stopped
  \* the engine
  ex,         \* frame -> its _FrameExecution
  timers,     \* frame -> <<generation, ticks left>> of its threading.Timers
  life,       \* frame -> where its launch is ("exited" is durable)
  call,       \* frame -> where its tool call is
  kind,       \* frame -> the tool it called last
  calls,      \* frame -> calls of this attempt (a bound)
  acq,        \* frame -> where _acquire_frame_slot is
  got,        \* frame -> the lane it was given there
  env,        \* frame -> the lane in its adapter's environment
  bag,        \* frame -> carrier -> a lane on its way back
  stopping,   \* frame -> was its worker stopped?
  cancelled,  \* frame -> are its calls cancelled?
  thought,    \* frame -> ticks from the start of its adapter to its close, outside
              \* of any call (history)
  main,       \* where the main thread is
  restarts    \* restarts so far (a bound)

journal   == <<jlane, last, charged>>
scheduler == <<owner, waiters, stopped>>
threads   == <<life, call, kind, calls, acq, got, env>>
process   == <<main, restarts>>
vars      == <<journal, scheduler, ex, timers, threads, bag, stopping,
               cancelled, thought, process>>

NoBag == [lane |-> None, amount |-> 0, logged |-> FALSE]

NewExecution ==
  [open |-> FALSE, timedOut |-> FALSE, lane |-> None, counting |-> FALSE,
   elapsed |-> 0, used |-> 0, lease |-> 0, gen |-> 0, reaped |-> FALSE]

Init ==
  /\ jlane = [f \in Frames |-> None] /\ last = [f \in Frames |-> None]
  /\ charged = [f \in Frames |-> 0]
  /\ owner = [l \in Lanes |-> None] /\ waiters = <<>> /\ stopped = FALSE
  /\ ex = [f \in Frames |-> NewExecution]
  /\ timers = [f \in Frames |-> {}]
  /\ life = [f \in Frames |-> "absent"] /\ call = [f \in Frames |-> "none"]
  /\ kind = [f \in Frames |-> None] /\ calls = [f \in Frames |-> 0]
  /\ acq = [f \in Frames |-> "no"] /\ got = [f \in Frames |-> None]
  /\ env = [f \in Frames |-> None]
  /\ bag = [f \in Frames |-> [a \in Carriers |-> NoBag]]
  /\ stopping = [f \in Frames |-> FALSE]
  /\ cancelled = [f \in Frames |-> FALSE]
  /\ thought = [f \in Frames |-> 0]
  /\ main = "driving" /\ restarts = 0

Up == main # "down"

-----------------------------------------------------------------------------
(* The clock of an execution and the lane it leases.                       *)

\* Bug: the interval is charged for its last stretch only.
BugForgetsStretch(e) ==
  [e EXCEPT !.used = @ + e.elapsed, !.lease = e.elapsed,
            !.elapsed = 0, !.counting = FALSE, !.gen = @ + 1]

\* The clock stops; the generation makes its timer stale.
StopClock(e) ==
  [e EXCEPT !.used = @ + e.elapsed, !.lease = @ + e.elapsed,
            !.elapsed = 0, !.counting = FALSE, !.gen = @ + 1]

StartClock(e) == [e EXCEPT !.counting = TRUE, !.gen = @ + 1]

\* Timer.cancel: a timer that fired already may still come for the lock.
Disarmed(f) == {x \in timers[f] : x[2] = 0}

NewTimer(f) == <<ex[f].gen + 1, Max({0, Budget - ex[f].used})>>

\* Bug: the execution keeps its lane.
BugDetachKeeps(f, a, e) ==
  /\ ex' = [ex EXCEPT ![f] = [StopClock(e) EXCEPT !.lease = 0]]
  /\ bag' = [bag EXCEPT ![f][a] =
       [lane |-> e.lane, amount |-> StopClock(e).lease, logged |-> FALSE]]

\* Under the lock the lane leaves the execution; carrier a brings it back.
Detach(f, a, e) ==
  /\ ex' = [ex EXCEPT ![f] = [StopClock(e) EXCEPT !.lane = None, !.lease = 0]]
  /\ bag' = [bag EXCEPT ![f][a] =
       [lane |-> e.lane, amount |-> StopClock(e).lease, logged |-> FALSE]]

\* Time passes for a frame.  (Bound: its clock runs at most one tick late.)
Tick(f) ==
  LET e == ex[f] IN
  /\ Up
  /\ \/ e.counting /\ e.used + e.elapsed <= Budget
     \/ \E x \in timers[f] : x[2] > 0
  /\ ex' = [ex EXCEPT ![f].elapsed = IF e.counting THEN @ + 1 ELSE @]
  /\ timers' = [timers EXCEPT ![f] = {<<x[1], IF x[2] > 0 THEN x[2] - 1 ELSE 0>> : x \in @}]
  /\ thought' = [thought EXCEPT ![f] =
       IF life[f] \in {"running", "returned", "unwound"} /\ call[f] = "none" THEN @ + 1 ELSE @]
  /\ UNCHANGED <<journal, scheduler, threads, bag, stopping, cancelled, process>>

\* frame_slot_released, which also charges the interval.  A timer first
\* stops the worker and waits until it is reaped.
LogReleased(f, a) ==
  /\ Up /\ bag[f][a].lane # None /\ ~bag[f][a].logged
  /\ jlane' = [jlane EXCEPT ![f] = None]
  /\ charged' = [charged EXCEPT ![f] = @ + bag[f][a].amount]
  /\ bag' = [bag EXCEPT ![f][a].logged = TRUE]
  /\ stopping' = [stopping EXCEPT ![f] = @ \/ a = "timer"]
  /\ UNCHANGED <<last, scheduler, ex, timers, threads, cancelled, thought, process>>

\* Bug: the lane is given back before its interval is closed.
BugFreesFirst(b) == b.lane # None

MayFree(b) == b.lane # None /\ b.logged

\* RigSlotScheduler.release, and what its caller does next.
AcquireFails(f) ==
  /\ acq' = [acq EXCEPT ![f] = "no"]
  /\ IF life[f] = "starting"
     THEN life' = [life EXCEPT ![f] = "returned"] /\ UNCHANGED call
     ELSE call' = [call EXCEPT ![f] = "none"] /\ UNCHANGED life

FreeLane(f, a) ==
  /\ Up /\ MayFree(bag[f][a])
  /\ owner' = [owner EXCEPT ![bag[f][a].lane] = None]
  /\ bag' = [bag EXCEPT ![f][a] = NoBag]
  /\ ex' = [ex EXCEPT ![f].reaped = @ \/ a = "timer"]
  /\ IF a = "acquire" THEN AcquireFails(f) ELSE UNCHANGED <<acq, life, call>>
  /\ UNCHANGED <<journal, waiters, stopped, timers, kind, calls, got, env,
                 stopping, cancelled, thought, process>>

IsTimerOf(e, g) == e.open /\ ~e.timedOut /\ e.counting /\ e.gen = g

\* _expire_frame_self_time of one timer.
Expire(f, x) ==
  LET e == ex[f] IN
  /\ Up /\ x \in timers[f] /\ x[2] = 0
  /\ timers' = [timers EXCEPT ![f] = @ \ {x}]
  /\ IF IsTimerOf(e, x[1])
     THEN Detach(f, "timer", [e EXCEPT !.timedOut = TRUE])
     ELSE UNCHANGED <<ex, bag>>
  /\ UNCHANGED <<journal, scheduler, threads, stopping, cancelled, thought, process>>

-----------------------------------------------------------------------------
(* _acquire_frame_slot, for the launch of a frame or for a call that       *)
(* returns.                                                                *)

\* The cancellation event the acquisition listens to: that of the parent's
\* call for a launch (the root has none), that of the call itself otherwise.
IsCancelled(f) ==
  IF life[f] = "starting" THEN f # Root /\ cancelled[Parent[f]] ELSE cancelled[f]

AcquireStays == UNCHANGED <<jlane, last, charged, kind, calls, env, cancelled,
                            thought, process>>

\* Under the execution lock: an execution that ended takes no lane, a spent
\* budget ends it.
CheckBudget(f) ==
  /\ Up /\ acq[f] = "check"
  /\ \/ /\ ~ex[f].open \/ ex[f].timedOut
        /\ AcquireFails(f) /\ UNCHANGED ex
     \/ /\ ex[f].open /\ ~ex[f].timedOut /\ ex[f].used >= Budget
        /\ ex' = [ex EXCEPT ![f].timedOut = TRUE]
        /\ acq' = [acq EXCEPT ![f] = "spent"] /\ UNCHANGED <<life, call>>
     \/ /\ ex[f].open /\ ~ex[f].timedOut /\ ex[f].used < Budget
        /\ acq' = [acq EXCEPT ![f] = "enter"] /\ UNCHANGED <<ex, life, call>>
  /\ UNCHANGED <<scheduler, timers, got, bag, stopping>> /\ AcquireStays

\* Then the worker is stopped, outside of the lock, and reaped.
StopSpent(f) ==
  /\ Up /\ acq[f] = "spent"
  /\ stopping' = [stopping EXCEPT ![f] = TRUE]
  /\ ex' = [ex EXCEPT ![f].reaped = TRUE]
  /\ AcquireFails(f)
  /\ UNCHANGED <<scheduler, timers, got, bag>> /\ AcquireStays

FreeLanes == {l \in Lanes : owner[l] = None}

\* _choose_lane: the lane of last time, or the stable one, if it is free.
ChosenLane(f) ==
  LET preferred == IF last[f] # None THEN last[f] ELSE StableLane[f] IN
  IF preferred \in FreeLanes THEN preferred ELSE Min(FreeLanes)

Grant(f) ==
  /\ owner' = [owner EXCEPT ![ChosenLane(f)] = f]
  /\ got' = [got EXCEPT ![f] = ChosenLane(f)]
  /\ acq' = [acq EXCEPT ![f] = "owned"]

\* The first critical section of acquire.
EnterPool(f) ==
  /\ Up /\ acq[f] = "enter"
  /\ \/ stopped /\ AcquireFails(f) /\ UNCHANGED <<owner, waiters, got>>
     \/ /\ ~stopped /\ waiters = <<>> /\ FreeLanes # {}
        /\ Grant(f)
        /\ UNCHANGED <<waiters, life, call>>
     \/ /\ ~stopped /\ ~(waiters = <<>> /\ FreeLanes # {})
        /\ waiters' = Append(waiters, f)
        /\ acq' = [acq EXCEPT ![f] = "append"]
        /\ UNCHANGED <<owner, got, life, call>>
  /\ UNCHANGED <<stopped, ex, timers, bag, stopping>> /\ AcquireStays

\* on_queued, outside of the lock: frame_slot_queued.
AppendQueued(f) ==
  /\ Up /\ acq[f] = "append"
  /\ acq' = [acq EXCEPT ![f] = "wait"]
  /\ UNCHANGED <<scheduler, ex, timers, life, call, got, bag, stopping>>
  /\ AcquireStays

\* _discard_waiter: the token of a frame leaves the queue, if it is in it.
Discarded(f) ==
  LET at == {i \in 1 .. Len(waiters) : waiters[i] = f} IN
  IF at = {} THEN waiters ELSE RemoveAt(waiters, CHOOSE i \in at : TRUE)

\* The wait loop of acquire.
Wake(f) ==
  /\ Up /\ acq[f] = "wait"
  /\ \/ /\ stopped \/ IsCancelled(f)
        /\ waiters' = Discarded(f)
        /\ AcquireFails(f)
        /\ UNCHANGED <<owner, got>>
     \/ /\ ~stopped /\ ~IsCancelled(f)
        /\ waiters # <<>> /\ Head(waiters) = f /\ FreeLanes # {}
        /\ Grant(f)
        /\ waiters' = Tail(waiters)
        /\ UNCHANGED <<life, call>>
  /\ UNCHANGED <<stopped, ex, timers, bag, stopping>> /\ AcquireStays

\* frame_slot_acquired.
LogAcquired(f) ==
  /\ Up /\ acq[f] = "owned"
  /\ jlane' = [jlane EXCEPT ![f] = got[f]]
  /\ last' = [last EXCEPT ![f] = got[f]]
  /\ acq' = [acq EXCEPT ![f] = "logged"]
  /\ UNCHANGED <<charged, scheduler, ex, timers, life, call, kind, calls, got, env,
                 bag, stopping, cancelled, thought, process>>

\* Bug: an execution that ended meanwhile is leased a lane.
BugLeasesEnded(e) == TRUE

MayLease(e) == e.open /\ ~e.timedOut

\* Under the execution lock: the lease starts with its timer, or the lane
\* goes back because the execution ended while it was waiting.
StartLease(f) ==
  /\ Up /\ acq[f] = "logged"
  /\ got' = [got EXCEPT ![f] = None]
  /\ IF MayLease(ex[f])
     THEN /\ ex' = [ex EXCEPT ![f] = [StartClock(@) EXCEPT !.lane = got[f]]]
          /\ timers' = [timers EXCEPT ![f] = @ \cup {NewTimer(f)}]
          /\ acq' = [acq EXCEPT ![f] = "no"]
          /\ IF life[f] = "starting"
             THEN /\ life' = [life EXCEPT ![f] = "running"]
                  /\ env' = [env EXCEPT ![f] = got[f]]
                  /\ UNCHANGED call
             ELSE call' = [call EXCEPT ![f] = "none"] /\ UNCHANGED <<life, env>>
          /\ UNCHANGED bag
     ELSE /\ bag' = [bag EXCEPT ![f]["acquire"] =
               [lane |-> got[f], amount |-> 0, logged |-> FALSE]]
          /\ acq' = [acq EXCEPT ![f] = "returning"]
          /\ UNCHANGED <<ex, timers, life, call, env>>
  /\ UNCHANGED <<journal, scheduler, kind, calls, stopping, cancelled, thought, process>>

-----------------------------------------------------------------------------
(* A frame: its launch, its adapter, its calls, its exit.                  *)

\* The root is launched by the main thread, a child by a dispatch of its
\* parent that is not cancelled.  Its execution is registered afresh.
Launch(f) ==
  /\ Up /\ life[f] = "absent"
  /\ IF f = Root THEN main = "driving"
     ELSE /\ call[Parent[f]] = "working" /\ kind[Parent[f]] = "dispatch"
          /\ ~cancelled[Parent[f]]
  /\ life' = [life EXCEPT ![f] = "starting"]
  /\ acq' = [acq EXCEPT ![f] = "check"]
  /\ ex' = [ex EXCEPT ![f] = [NewExecution EXCEPT !.open = TRUE]]
  /\ UNCHANGED <<journal, scheduler, timers, call, kind, calls, got, env, bag,
                 stopping, cancelled, thought, process>>

\* Bug: the clock runs during a gate.
BugGateCounts(f) == UNCHANGED <<ex, timers>>

\* _pause_frame_self_time.
Pause(f) ==
  IF ex[f].counting
  THEN /\ ex' = [ex EXCEPT ![f] = StopClock(@)]
       /\ timers' = [timers EXCEPT ![f] = Disarmed(f)]
  ELSE UNCHANGED <<ex, timers>>

\* Bug: a parked frame keeps its lane, as in a gate.
BugParkKeeps(f) == Pause(f) /\ UNCHANGED bag

\* _release_frame_slot of a park.
Park(f) ==
  IF ex[f].lane = None THEN UNCHANGED <<ex, timers, bag>>
  ELSE Detach(f, "call", ex[f]) /\ timers' = [timers EXCEPT ![f] = Disarmed(f)]

\* The adapter calls a tool: a gate stops the clock, the others park.
StartCall(f, k) ==
  /\ Up /\ life[f] = "running" /\ ~stopping[f]
  /\ call[f] = "none" /\ calls[f] < MaxCalls
  /\ k = "dispatch" => Children(f) # {}
  /\ kind' = [kind EXCEPT ![f] = k]
  /\ calls' = [calls EXCEPT ![f] = @ + 1]
  /\ IF k = "gate"
     THEN /\ call' = [call EXCEPT ![f] = "gating"]
          /\ Pause(f) /\ UNCHANGED bag
     ELSE /\ call' = [call EXCEPT ![f] = "parking"]
          /\ Park(f)
  /\ UNCHANGED <<journal, scheduler, life, acq, got, env, stopping, cancelled,
                 thought, process>>

\* The lane is back: the tool's body runs.
Parked(f) ==
  /\ Up /\ call[f] = "parking" /\ bag[f]["call"] = NoBag
  /\ call' = [call EXCEPT ![f] = "working"]
  /\ UNCHANGED <<journal, scheduler, ex, timers, life, kind, calls, acq, got, env,
                 bag, stopping, cancelled, thought, process>>

\* Bug: the call returns to a worker without a lane.
BugNeverResumes(f) == FALSE

Resumes(f) == ex[f].open /\ ~cancelled[f]

\* The body ended (a dispatch: all children it launched are terminal) and
\* _resume_frame acquires a lane, unless the call is cancelled or the
\* execution is gone.
EndCall(f) ==
  /\ Up /\ call[f] = "working"
  /\ kind[f] = "dispatch" =>
       \A c \in Children(f) : life[c] \in {"absent", "exited"}
  /\ IF Resumes(f)
     THEN /\ call' = [call EXCEPT ![f] = "resuming"]
          /\ acq' = [acq EXCEPT ![f] = "check"]
     ELSE call' = [call EXCEPT ![f] = "none"] /\ UNCHANGED acq
  /\ UNCHANGED <<journal, scheduler, ex, timers, life, kind, calls, got, env, bag,
                 stopping, cancelled, thought, process>>

\* The command ended; _resume_frame_self_time.
EndGate(f) ==
  LET e == ex[f] IN
  /\ Up /\ call[f] = "gating"
  /\ call' = [call EXCEPT ![f] = "none"]
  /\ IF e.open /\ ~e.timedOut /\ e.lane # None /\ ~e.counting
     THEN /\ ex' = [ex EXCEPT ![f] = StartClock(@)]
          /\ timers' = [timers EXCEPT ![f] = @ \cup {NewTimer(f)}]
     ELSE UNCHANGED <<ex, timers>>
  /\ UNCHANGED <<journal, scheduler, life, kind, calls, acq, got, env, bag,
                 stopping, cancelled, thought, process>>

\* The adapter's process ends, by itself or because it was stopped.
AdapterReturns(f) ==
  /\ Up /\ life[f] = "running"
  /\ life' = [life EXCEPT ![f] = "returned"]
  /\ UNCHANGED <<journal, scheduler, ex, timers, call, kind, calls, acq, got, env,
                 bag, stopping, cancelled, thought, process>>

\* _close_frame_execution: the execution is closed with the lease it holds.
Close(f) ==
  LET closed == [ex[f] EXCEPT !.open = FALSE] IN
  /\ IF closed.lane = None
     THEN ex' = [ex EXCEPT ![f] = closed] /\ UNCHANGED <<timers, bag>>
     ELSE /\ Detach(f, "launch", closed)
          /\ timers' = [timers EXCEPT ![f] = Disarmed(f)]
  /\ life' = [life EXCEPT ![f] = "closing"]
  /\ UNCHANGED <<journal, scheduler, call, kind, calls, acq, got, env, stopping,
                 cancelled, thought, process>>

CloseReturned(f) == Up /\ life[f] = "returned" /\ Close(f)

\* The lane is back, and a timer that expired has reaped the worker.
Closed(f) ==
  /\ Up /\ life[f] = "closing" /\ bag[f]["launch"] = NoBag
  /\ ex[f].timedOut => ex[f].reaped
  /\ life' = [life EXCEPT ![f] = "joining"]
  /\ UNCHANGED <<journal, scheduler, ex, timers, call, kind, calls, acq, got, env,
                 bag, stopping, cancelled, thought, process>>

\* The join of the frame's calls: it cancels them after its natural grace...
JoinCancels(f) ==
  /\ Up /\ life[f] = "joining" /\ call[f] # "none"
  /\ f = Root => main = "driving"
  /\ cancelled' = [cancelled EXCEPT ![f] = TRUE]
  /\ UNCHANGED <<journal, scheduler, ex, timers, threads, bag, stopping, thought,
                 process>>

\* ... and the frame exits when they are over.
ExitFrame(f) ==
  /\ Up /\ life[f] = "joining" /\ call[f] = "none"
  /\ f = Root => main = "driving"
  /\ life' = [life EXCEPT ![f] = "exited"]
  /\ UNCHANGED <<journal, scheduler, ex, timers, call, kind, calls, acq, got, env,
                 bag, stopping, cancelled, thought, process>>

-----------------------------------------------------------------------------
(* The engine process.                                                     *)

\* SIGINT or SIGTERM raises in the main thread, wherever it is: inside of
\* the launch's try block the finally clause still closes the execution, in
\* the close itself the rest of it is skipped.  (A lane in between is lost:
\* the scheduler is about to stop.)
BeginShutdown ==
  /\ MayStop /\ main = "driving" /\ life[Root] # "exited"
  /\ main' = "unwinding"
  /\ LET at   == life[Root]
         lost == CASE at = "starting" -> {"acquire"}
                   [] at = "running"  -> {}
                   [] OTHER           -> {"launch"}
     IN
     /\ life' = [life EXCEPT ![Root] =
                   IF at \in {"starting", "running"} THEN "returned" ELSE "unwound"]
     /\ acq' = [acq EXCEPT ![Root] = IF at = "starting" THEN "no" ELSE @]
     /\ waiters' = IF at = "starting" /\ acq[Root] = "append"
                   THEN Discarded(Root) ELSE waiters
     /\ bag' = [bag EXCEPT ![Root] =
                  [a \in Carriers |-> IF a \in lost THEN NoBag ELSE @[a]]]
  /\ UNCHANGED <<journal, owner, stopped, ex, timers, call, kind, calls, got, env,
                 stopping, cancelled, thought, restarts>>

\* Bug: only the calls of frames with an open execution are cancelled.
BugCancelsOpen == {f \in Frames : ex[f].open}

\* The frames of _active and of _inflight_calls.
ToCancel == Frames

\* shutdown: the calls of all frames are cancelled.
CancelAll ==
  /\ main = "unwinding" /\ life[Root] \in {"joining", "unwound"}
  /\ main' = "cancelled"
  /\ cancelled' = [f \in Frames |-> cancelled[f] \/ f \in ToCancel]
  /\ UNCHANGED <<journal, scheduler, ex, timers, threads, bag, stopping, thought,
                 restarts>>

\* The scheduler stops, then the worker supervisor reaps all sessions.
StopPools ==
  /\ main = "cancelled"
  /\ main' = "joining"
  /\ stopped' = TRUE
  /\ stopping' = [f \in Frames |-> TRUE]
  /\ UNCHANGED <<journal, owner, waiters, ex, timers, threads, bag, cancelled,
                 thought, restarts>>

\* The joins of all frames' calls are over.
JoinAll ==
  /\ main = "joining" /\ \A f \in Frames : call[f] = "none"
  /\ main' = "closing"
  /\ UNCHANGED <<journal, scheduler, ex, timers, threads, bag, stopping, cancelled,
                 thought, restarts>>

\* An execution that is still registered is closed by the main thread.
CloseLeft(f) == main = "closing" /\ life[f] = "unwound" /\ ex[f].open /\ Close(f)

\* run_interrupted.
Interrupt ==
  /\ main = "closing"
  /\ \A f \in Frames : ~ex[f].open /\ life[f] # "closing"
  /\ main' = "interrupted"
  /\ UNCHANGED <<journal, scheduler, ex, timers, threads, bag, stopping, cancelled,
                 thought, restarts>>

\* The process ends, after a shutdown or at any other moment.
Crash ==
  /\ MayStop /\ Up
  /\ main' = "down"
  /\ charged' = [f \in Frames |-> 0]
  /\ owner' = [l \in Lanes |-> None] /\ waiters' = <<>> /\ stopped' = FALSE
  /\ ex' = [f \in Frames |-> NewExecution] /\ timers' = [f \in Frames |-> {}]
  /\ life' = [f \in Frames |-> IF life[f] = "exited" THEN "exited" ELSE "absent"]
  /\ call' = [f \in Frames |-> "none"] /\ kind' = [f \in Frames |-> None]
  /\ calls' = [f \in Frames |-> 0] /\ acq' = [f \in Frames |-> "no"]
  /\ got' = [f \in Frames |-> None] /\ env' = [f \in Frames |-> None]
  /\ bag' = [f \in Frames |-> [a \in Carriers |-> NoBag]]
  /\ stopping' = [f \in Frames |-> FALSE]
  /\ cancelled' = [f \in Frames |-> FALSE]
  /\ thought' = [f \in Frames |-> 0]
  /\ UNCHANGED <<jlane, last, restarts>>

Restart ==
  /\ main = "down" /\ restarts < MaxRestarts
  /\ main' = "sweeping" /\ restarts' = restarts + 1
  /\ UNCHANGED <<journal, scheduler, ex, timers, threads, bag, stopping, cancelled,
                 thought>>

\* _close_orphaned_slot_intervals, one frame.
Sweep(f) ==
  /\ main = "sweeping" /\ jlane[f] # None
  /\ jlane' = [jlane EXCEPT ![f] = None]
  /\ UNCHANGED <<last, charged, scheduler, ex, timers, threads, bag, stopping,
                 cancelled, thought, process>>

Swept == \A f \in Frames : jlane[f] = None

Drive ==
  /\ main = "sweeping" /\ Swept
  /\ main' = "driving"
  /\ UNCHANGED <<journal, scheduler, ex, timers, threads, bag, stopping, cancelled,
                 thought, restarts>>

-----------------------------------------------------------------------------
AcquireStep(f) ==
  \/ CheckBudget(f) \/ StopSpent(f) \/ EnterPool(f) \/ AppendQueued(f) \/ Wake(f)
  \/ LogAcquired(f) \/ StartLease(f)

Carry(f, a) == LogReleased(f, a) \/ FreeLane(f, a)

MainStep ==
  \/ CancelAll \/ StopPools \/ JoinAll \/ Interrupt \/ Drive
  \/ \E f \in Frames : CloseLeft(f) \/ Sweep(f)

Next ==
  \/ \E f \in Frames :
       \/ Tick(f) \/ Launch(f) \/ AcquireStep(f)
       \/ \E k \in Kinds : StartCall(f, k)
       \/ Parked(f) \/ EndCall(f) \/ EndGate(f) \/ AdapterReturns(f)
       \/ CloseReturned(f) \/ Closed(f) \/ JoinCancels(f) \/ ExitFrame(f)
       \/ \E a \in Carriers : Carry(f, a)
       \/ \E x \in timers[f] : Expire(f, x)
  \/ BeginShutdown \/ MainStep \/ Crash \/ Restart

Spec == Init /\ [][Next]_vars

(***************************************************************************)
(* Fairness.  Threads are scheduled by the operating system and time       *)
(* passes.  A process that was stopped, or whose launch was cancelled,     *)
(* ends: it is killed.  A dispatch ends with its children, any other call  *)
(* once it is cancelled; a gate is taken to end by itself (its command     *)
(* does, or gate_timeout_s is set).  An adapter that is never stopped may  *)
(* run, and an owner may be silent, for ever.                              *)
(***************************************************************************)
LaunchThread(f) ==
  \/ CloseReturned(f) \/ Closed(f) \/ JoinCancels(f) \/ ExitFrame(f)
  \/ Carry(f, "launch")

CallThread(f) ==
  \/ Carry(f, "call") \/ Parked(f) \/ EndGate(f)
  \/ (kind[f] = "dispatch" \/ cancelled[f]) /\ EndCall(f)

TimerThread(f) == Carry(f, "timer") \/ \E x \in timers[f] : Expire(f, x)

Killed(f) == stopping[f] \/ (f # Root /\ cancelled[Parent[f]])

Fairness ==
  /\ WF_vars(MainStep)
  /\ \A f \in Frames :
       /\ WF_vars(LaunchThread(f)) /\ WF_vars(CallThread(f))
       /\ WF_vars(AcquireStep(f) \/ Carry(f, "acquire"))
       /\ WF_vars(Tick(f)) /\ WF_vars(TimerThread(f))
       /\ WF_vars(Killed(f) /\ AdapterReturns(f))

FairSpec == Spec /\ Fairness

-----------------------------------------------------------------------------
(* Properties.                                                             *)

Bags == [lane : Lanes \cup {None}, amount : Nat, logged : BOOLEAN]

Executions ==
  [open : BOOLEAN, timedOut : BOOLEAN, lane : Lanes \cup {None},
   counting : BOOLEAN, elapsed : Nat, used : Nat, lease : Nat, gen : Nat,
   reaped : BOOLEAN]

\* The state is made of values the program can hold.
TypeOK ==
  /\ jlane \in [Frames -> Lanes \cup {None}] /\ last \in [Frames -> Lanes \cup {None}]
  /\ charged \in [Frames -> Nat] /\ thought \in [Frames -> Nat]
  /\ owner \in [Lanes -> Frames \cup {None}] /\ waiters \in Seq(Frames)
  /\ stopped \in BOOLEAN
  /\ ex \in [Frames -> Executions] /\ timers \in [Frames -> SUBSET (Nat \X Nat)]
  /\ life \in [Frames -> {"absent", "starting", "running", "returned", "closing",
                          "joining", "exited", "unwound"}]
  /\ call \in [Frames -> {"none", "parking", "working", "gating", "resuming"}]
  /\ kind \in [Frames -> Kinds \cup {None}] /\ calls \in [Frames -> 0..MaxCalls]
  /\ acq \in [Frames -> {"no", "check", "spent", "enter", "append", "wait", "owned",
                         "logged", "returning"}]
  /\ got \in [Frames -> Lanes \cup {None}] /\ env \in [Frames -> Lanes \cup {None}]
  /\ bag \in [Frames -> [Carriers -> Bags]]
  /\ stopping \in [Frames -> BOOLEAN] /\ cancelled \in [Frames -> BOOLEAN]
  /\ main \in {"driving", "unwinding", "cancelled", "joining", "closing",
               "interrupted", "down", "sweeping"}
  /\ restarts \in 0..MaxRestarts

\* Who has lane l of frame f: its lease, its acquisition, a way back.
Holders(f, l) ==
  {a \in Carriers : bag[f][a].lane = l}
    \cup (IF ex[f].lane = l THEN {"lease"} ELSE {})
    \cup (IF acq[f] \in {"owned", "logged"} /\ got[f] = l THEN {"acquisition"} ELSE {})

\* A lane the scheduler counts as taken is in exactly one hand, and nobody
\* has a lane that is not his: no lane leaks, none is released twice or under
\* another owner, whichever of park, close, expiry and resume come together.
LanesAreCarried ==
  main = "driving" =>
    \A f \in Frames, l \in Lanes :
      Cardinality(Holders(f, l)) = IF owner[l] = f THEN 1 ELSE 0

\* A worker that thinks (it runs, and waits for no call) holds a lane, or its
\* lane is being taken from it by the timer that stops it; when a frame exits,
\* its lane and its journalled interval are gone.
LeaseFollowsWork ==
  \A f \in Frames :
    /\ life[f] = "running" /\ call[f] = "none" /\ ~stopping[f] /\ ~cancelled[f] =>
         ex[f].lane # None \/ bag[f]["timer"] # NoBag
    /\ life[f] = "exited" =>
         /\ jlane[f] = None /\ acq[f] = "no"
         /\ \A l \in Lanes : owner[l] # f

\* A frame is only timed out when its worker really thought for its whole
\* budget: queueing, parked calls and gates cost it nothing.
TimeoutIsEarned == \A f \in Frames : ex[f].timedOut => thought[f] >= Budget

\* The journal charges an attempt exactly the time its worker thought.
SelfTimeIsCharged ==
  \A f \in Frames :
    life[f] = "exited" /\ ex[f] # NewExecution => charged[f] = thought[f]

\* The journalled intervals behave as SlotIntervals says.
Intervals == INSTANCE SlotIntervals
ImplementsIntervals == Intervals!Spec

\* A worker that thinks talks to the backend of the lane it leases.
BackendIsLeased ==
  \A f \in Frames :
    life[f] = "running" /\ call[f] = "none" /\ ex[f].lane # None => ex[f].lane = env[f]

\* The root exits, and with it every frame it waits for, whatever their
\* workers do, unless the engine is stopped or an owner never answers: a
\* parked ancestor holds no lane its descendants wait for, and the budget
\* ends a worker that thinks for ever.
Unanswered(f) == kind[f] = "ask" /\ call[f] = "working"

RootExits ==
  (\A f \in Frames : []<>~Unanswered(f)) =>
    (life[Root] = "starting" ~> (life[Root] = "exited" \/ main # "driving"))

\* A shutdown comes to its end.
ShutdownCompletes == main = "unwinding" ~> main \in {"interrupted", "down"}
=============================================================================
