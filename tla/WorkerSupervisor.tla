-------------------------- MODULE WorkerSupervisor --------------------------
(***************************************************************************)
(* The supervisor of worker processes (rig.py 295-460), the launch of one  *)
(* per attempt (_capture 473-553, engine.py 2450-2503) and its callers:    *)
(* the join of a frame's calls, the shutdown of the engine, and the sweep  *)
(* of a resumed one (engine.py 322-342, 732-768, 1080-1090).               *)
(*                                                                         *)
(* Every attempt has one session: a leader, which the launching thread     *)
(* waits for, and descendants that may outlive it.  A lease ties it to     *)
(* whoever stops it: popping the lease under the lock is the right to reap *)
(* (SIGTERM, grace, SIGKILL, one worker_reaped fact), done outside of the  *)
(* lock.                                                                   *)
(*                                                                         *)
(* Abstractions.  A session that got SIGKILL is empty (the code raises     *)
(* otherwise, and tries the other sessions all the same), and its number is *)
(* not given to another one.  The record of a lease is the identity of the *)
(* attempt's session.  What frames do besides is left out: a frame is      *)
(* relaunched when its attempt failed, or by a resumed engine.  The root   *)
(* frame runs in the main thread, where signals are raised; _stop,         *)
(* _finished, reap_frames and shutdown defer them.                         *)
(*                                                                         *)
(* Scripted frames run a rig whose script writes the handle too.           *)
(*                                                                         *)
(* Bounds.  MaxAttempts attempts in all, MaxCrashes ends of the engine.    *)
(***************************************************************************)
EXTENDS Naturals, FiniteSets

CONSTANTS Frames, Root, Scripted, MaxAttempts, MaxCrashes

ASSUME ConstantsAssumption ==
  /\ Root \in Frames /\ Scripted \subseteq Frames /\ IsFiniteSet(Frames)
  /\ MaxAttempts \in Nat /\ MaxCrashes \in Nat

Keys == Frames \X (1..MaxAttempts)

VARIABLES
  \* the operating system
  sess,       \* attempt -> its session: none, running, orphans (no leader), gone
  \* the disk
  handle,     \* attempt -> worker.handle: none, engine (with generation), adapter
  facts,      \* attempt -> number of worker_reaped events
  latest,     \* frame -> its latest attempt, 0 for none
  exited,     \* frames whose latest attempt has an outcome
  \* the engine's memory
  leases,     \* attempts in _leases
  known,      \* attempts whose lease has a record
  reason,     \* attempts whose lease has a stop_reason
  reaping,    \* _reaping
  reap,       \* attempt -> who reaps it, and how far that is
  closed,     \* _shutdown_reason is set
  \* the threads
  pc,         \* attempt -> the place of its launching thread
  main,       \* off, sweeping, up, signalled, shutting, waiting, over
  todo,       \* "main", "join" -> the attempts they are about to stop
  ends,       \* ends of the engine so far
  hasty       \* history: attempts that exited while another thread reaped them

disk == <<handle, facts, latest, exited>>
table == <<leases, known, reason, reaping, reap>>
threads == <<pc, main, todo>>
vars == <<sess, disk, table, closed, threads, ends, hasty>>

Alive(k) == sess[k] \in {"running", "orphans"}
Nobody == [by |-> "nobody", at |-> "idle"]
Idle == [k \in Keys |-> "idle"]

Init ==
  /\ sess = [k \in Keys |-> "none"]
  /\ handle = [k \in Keys |-> "none"] /\ facts = [k \in Keys |-> 0]
  /\ latest = [f \in Frames |-> 0] /\ exited = {}
  /\ leases = {} /\ known = {} /\ reason = {} /\ reaping = 0
  /\ reap = [k \in Keys |-> Nobody] /\ closed = FALSE
  /\ pc = Idle /\ main = "up" /\ todo = [main |-> {}, join |-> {}]
  /\ ends = 0 /\ hasty = {}

Goto(k, place) == pc' = [pc EXCEPT ![k] = place]
Reaps(who, k) == reap[k].by = who
Busy(who) == \E k \in Keys : Reaps(who, k)

-----------------------------------------------------------------------------
(* The table of leases. *)

\* The lease is popped: whoever does this reaps the session.
Take(who, k) ==
  /\ leases' = leases \ {k}
  /\ reap' = [reap EXCEPT ![k] = [by |-> who, at |-> "term"]]
  /\ reaping' = reaping + 1

\* _record: the lease's, or what worker.handle names.
HasRecord(k) == k \in known \/ handle[k] # "none"

\* Bug: the lease of a process nobody knows yet is dropped.
BugStopPops(who, k) ==
  /\ UNCHANGED known
  /\ IF k \notin leases
     THEN UNCHANGED <<leases, reason, reap, reaping>>
     ELSE /\ reason' = reason \cup {k}
          /\ IF HasRecord(k)
             THEN Take(who, k)
             ELSE leases' = leases \ {k} /\ UNCHANGED <<reap, reaping>>

\* Bug: the lease stays with the one who stops it.
BugStopKeeps(who, k) ==
  /\ UNCHANGED known
  /\ reason' = reason \cup {k}
  /\ IF HasRecord(k)
     THEN Take(who, k)
     ELSE UNCHANGED <<leases, reap, reaping>>

\* _stop: of an attempt whose process nobody knows only the reason is noted.
StopLease(who, k) ==
  /\ UNCHANGED known
  /\ IF k \notin leases
     THEN UNCHANGED <<leases, reason, reap, reaping>>
     ELSE /\ reason' = reason \cup {k}
          /\ IF HasRecord(k)
             THEN Take(who, k)
             ELSE UNCHANGED <<leases, reap, reaping>>

\* _finished: the lease goes in any case.
FinishLease(k) ==
  /\ UNCHANGED <<known, reason>>
  /\ IF k \in leases /\ HasRecord(k)
     THEN Take("launch", k)
     ELSE leases' = leases \ {k} /\ UNCHANGED <<reap, reaping>>

\* _reap is over; shutdown may be waiting for the count.
Release(k) ==
  /\ reap' = [reap EXCEPT ![k] = Nobody]
  /\ reaping' = reaping - 1
  /\ UNCHANGED <<leases, known, reason>>

\* SIGTERM to every member, if there is one; what that does to them shows in
\* LeaderEnds and OrphansEnd.
Terminate(k) ==
  /\ reap[k].at = "term"
  /\ IF Alive(k)
     THEN /\ reap' = [reap EXCEPT ![k].at = "kill"]
          /\ UNCHANGED <<leases, known, reason, reaping>>
     ELSE Release(k)
  /\ UNCHANGED <<sess, disk, closed, threads, ends, hasty>>

\* After the grace, SIGKILL to whoever is left.
Kill(k) ==
  /\ reap[k].at = "kill"
  /\ sess' = [sess EXCEPT ![k] = "gone"]
  /\ reap' = [reap EXCEPT ![k].at = "report"]
  /\ UNCHANGED <<disk, leases, known, reason, reaping, closed,
                 threads, ends, hasty>>

\* worker_reaped, unless the journal refuses it.
Report(k) ==
  /\ reap[k].at = "report"
  /\ Release(k)
  /\ facts' \in {facts, [facts EXCEPT ![k] = @ + 1]}
  /\ UNCHANGED <<sess, handle, latest, exited, closed, threads, ends, hasty>>

-----------------------------------------------------------------------------
(* The thread that launches attempt k. *)

Step(k, from, to) == pc[k] = from /\ Goto(k, to) /\ UNCHANGED <<main, todo>>

\* frame_pushed: of a first attempt, after an attempt without outcome, or as a retry.
Push(f) ==
  LET k == <<f, latest[f] + 1>>
  IN /\ main \in {"up", "signalled", "shutting", "waiting"}
     /\ f = Root => main = "up" /\ f \notin exited
     /\ Cardinality({l \in Keys : l[2] <= latest[l[1]]}) < MaxAttempts
     /\ latest[f] > 0 => pc[<<f, latest[f]>>] \in {"idle", "done"}
     /\ latest' = [latest EXCEPT ![f] = @ + 1]
     /\ exited' = exited \ {f}
     /\ Step(k, "idle", "pushed")
     /\ UNCHANGED <<sess, handle, facts, table, closed, ends, hasty>>

\* A lease, unless shutdown has closed the supervisor.
Prepare(k) ==
  /\ Step(k, "pushed", IF closed THEN "returned" ELSE "prepared")
  /\ leases' = IF closed THEN leases ELSE leases \cup {k}
  /\ UNCHANGED <<sess, disk, known, reason, reaping, reap, closed, ends, hasty>>

\* Popen.
Spawn(k) ==
  /\ Step(k, "prepared", "spawned")
  /\ sess' = [sess EXCEPT ![k] = "running"]
  /\ UNCHANGED <<disk, table, closed, ends, hasty>>

\* No slot, or no process.
SpawnFails(k) ==
  /\ Step(k, "prepared", "finishing") \/ Step(k, "prepared", "failing")
  /\ UNCHANGED <<sess, disk, table, closed, ends, hasty>>

\* _started: the record first, with a look at the reason: of an attempt that was
\* stopped before, the thread is doomed.
Publish(k) ==
  /\ Step(k, "spawned", IF k \in reason THEN "doomed" ELSE "writing")
  /\ known' = known \cup {k}
  /\ UNCHANGED <<sess, disk, leases, reason, reaping, reap, closed, ends, hasty>>

\* Then the handle, and a stop that came before the record is made good.
WriteHandle(k) ==
  /\ \/ Step(k, "writing", "waiting")
     \/ Step(k, "doomed", "overdue")
  /\ handle' = [handle EXCEPT ![k] = "engine"]
  /\ UNCHANGED <<sess, facts, latest, exited, table, closed, ends, hasty>>

WriteFails(k) ==
  /\ \/ Step(k, "writing", "failing")
     \/ Step(k, "doomed", "failing")
  /\ UNCHANGED <<sess, disk, table, closed, ends, hasty>>

\* The leader has ended, or it is cancelled or out of time.  A thread that was doomed
\* is here once it has reaped: it waits for its leader like any other.
Returns(k) ==
  /\ ~Reaps("launch", k)
  /\ \/ sess[k] # "running" /\ Step(k, "waiting", "finishing")
     \/ Step(k, "waiting", "stopping")
  /\ UNCHANGED <<sess, disk, table, closed, ends, hasty>>

\* worker.stop, by _capture or, on an exception, by the engine.
StopOwn(k) ==
  /\ \/ Step(k, "stopping", "stopped")
     \/ Step(k, "overdue", "waiting")
     \/ Step(k, "failing", "failed")
  /\ StopLease("launch", k)
  /\ UNCHANGED <<sess, disk, closed, ends, hasty>>

\* _capture waits for the leader, and kills it if it must.
Stopped(k) ==
  /\ ~Reaps("launch", k)
  /\ \/ /\ Step(k, "stopped", "finishing")
        /\ sess' = [sess EXCEPT ![k] = IF @ = "running" THEN "orphans" ELSE @]
     \/ Step(k, "failed", "finishing") /\ UNCHANGED sess
  /\ UNCHANGED <<disk, table, closed, ends, hasty>>

Finish(k) ==
  /\ Step(k, "finishing", "finished")
  /\ FinishLease(k)
  /\ UNCHANGED <<sess, disk, closed, ends, hasty>>

Finished(k) ==
  /\ ~Reaps("launch", k)
  /\ Step(k, "finished", "returned")
  /\ UNCHANGED <<sess, disk, table, closed, ends, hasty>>

\* The frame's self time is spent: its timer stops the worker, or a call of it that
\* wants its slot back does (_acquire_frame_slot).
Expire(k) ==
  /\ pc[k] \in {"prepared", "spawned", "doomed", "writing", "overdue",
                "waiting", "stopping", "stopped", "failing", "failed", "finishing"}
  /\ StopLease("budget", k)
  /\ UNCHANGED <<sess, disk, closed, threads, ends, hasty>>

\* A call of the root frame outlives its join: reap_frames of the frame and its
\* descendants, that is of every lease.
JoinTimesOut(k) ==
  /\ k[1] = Root /\ pc[k] = "returned"
  /\ Goto(k, "joining")
  /\ todo' = [todo EXCEPT !.join = leases]
  /\ UNCHANGED <<sess, disk, table, closed, main, ends, hasty>>

JoinStops(l) ==
  /\ l \in todo.join /\ ~Busy("join")
  /\ todo' = [todo EXCEPT !.join = @ \ {l}]
  /\ StopLease("join", l)
  /\ UNCHANGED <<sess, disk, closed, pc, main, ends, hasty>>

Joined(k) ==
  /\ todo.join = {} /\ ~Busy("join")
  /\ Step(k, "joining", "joined")
  /\ UNCHANGED <<sess, disk, table, closed, ends, hasty>>

\* frame_exited.  The close of the execution waited for its timer, and the join of
\* the calls, unless it timed out, for whichever of them stopped the worker.
ExitFrame(k) ==
  /\ \/ Step(k, "returned", "done") /\ ~Reaps("budget", k)
     \/ Step(k, "joined", "done")
  /\ exited' = exited \cup {k[1]}
  /\ hasty' = IF Alive(k) THEN hasty \cup {k} ELSE hasty
  /\ UNCHANGED <<sess, handle, facts, latest, table, closed, ends>>

-----------------------------------------------------------------------------
(* The main thread. *)

\* A signal unwinds the root's launch, wherever it is but in a deferred section.
Signal ==
  /\ main = "up"
  /\ \A k \in Keys : k[1] = Root => ~Reaps("launch", k) /\ pc[k] # "joining"
  /\ main' = "signalled"
  /\ pc' = [k \in Keys |-> IF k[1] = Root /\ pc[k] \notin {"idle", "done"}
                           THEN "aborted" ELSE pc[k]]
  /\ UNCHANGED <<sess, disk, table, closed, todo, ends, hasty>>

\* WorkerSupervisor.shutdown.
Shutdown ==
  /\ main = "signalled"
  /\ main' = "shutting" /\ closed' = TRUE
  /\ todo' = [todo EXCEPT !.main = leases]
  /\ UNCHANGED <<sess, disk, table, pc, ends, hasty>>

MainStops(k) ==
  /\ main = "shutting" /\ k \in todo.main /\ ~Busy("main")
  /\ todo' = [todo EXCEPT !.main = @ \ {k}]
  /\ StopLease("main", k)
  /\ UNCHANGED <<sess, disk, closed, pc, main, ends, hasty>>

\* It is over when no reap is under way, whoever began it.
MainWaits ==
  /\ todo.main = {} /\ ~Busy("main")
  /\ \/ main = "sweeping" /\ main' = "up"
     \/ main = "shutting" /\ main' = "waiting"
     \/ main = "waiting" /\ reaping = 0 /\ main' = "over"
  /\ UNCHANGED <<sess, disk, table, closed, pc, todo, ends, hasty>>

\* The process ends: after its shutdown, or without one.
End ==
  /\ main # "off" /\ ends < MaxCrashes
  /\ ends' = ends + 1
  /\ main' = "off" /\ pc' = Idle /\ todo' = [main |-> {}, join |-> {}]
  /\ leases' = {} /\ known' = {} /\ reason' = {} /\ reaping' = 0
  /\ reap' = [k \in Keys |-> Nobody] /\ closed' = FALSE
  /\ UNCHANGED <<sess, disk, hasty>>

\* Bug: only the root's attempt is swept.
BugOutstanding ==
  {k \in Keys : /\ k[2] = latest[k[1]] /\ k[1] \notin exited /\ k[1] = Root
                /\ facts[k] = 0 /\ handle[k] # "none"}

\* Attempts without outcome and without worker_reaped whose handle is there.
Outstanding ==
  {k \in Keys : /\ k[2] = latest[k[1]] /\ k[1] \notin exited
                /\ facts[k] = 0 /\ handle[k] # "none"}

Restart ==
  /\ main = "off"
  /\ main' = "sweeping" /\ todo' = [todo EXCEPT !.main = Outstanding]
  /\ UNCHANGED <<sess, disk, table, closed, pc, ends, hasty>>

\* adopt_and_reap: a lease that is made to be stopped.
Adopt(k) ==
  /\ main = "sweeping" /\ k \in todo.main /\ ~Busy("main")
  /\ todo' = [todo EXCEPT !.main = @ \ {k}]
  /\ Take("main", k)
  /\ reason' = reason \cup {k}
  /\ UNCHANGED <<sess, disk, known, closed, pc, main, ends, hasty>>

-----------------------------------------------------------------------------
(* The operating system. *)

\* The leader ends (by itself or with its parent); the rest may go on.
LeaderEnds(k) ==
  /\ sess[k] = "running"
  /\ \E s \in {"orphans", "gone"} : sess' = [sess EXCEPT ![k] = s]
  /\ UNCHANGED <<disk, table, closed, threads, ends, hasty>>

OrphansEnd(k) ==
  /\ sess[k] = "orphans"
  /\ sess' = [sess EXCEPT ![k] = "gone"]
  /\ UNCHANGED <<disk, table, closed, threads, ends, hasty>>

\* A script writes the file that --handle-out names.
AdapterWrites(k) ==
  /\ k[1] \in Scripted /\ sess[k] = "running" /\ handle[k] # "adapter"
  /\ handle' = [handle EXCEPT ![k] = "adapter"]
  /\ UNCHANGED <<sess, facts, latest, exited, table, closed, threads, ends, hasty>>

-----------------------------------------------------------------------------
ReapStep(k) == Terminate(k) \/ Kill(k) \/ Report(k)

LaunchStep(k) ==
  \/ Prepare(k) \/ Spawn(k) \/ SpawnFails(k) \/ Publish(k)
  \/ WriteHandle(k) \/ WriteFails(k) \/ Returns(k) \/ StopOwn(k) \/ Stopped(k)
  \/ Finish(k) \/ Finished(k) \/ Joined(k) \/ ExitFrame(k)

MainStep == Shutdown \/ MainWaits \/ \E k \in Keys : MainStops(k) \/ Adopt(k)

SystemStep(k) == LeaderEnds(k) \/ OrphansEnd(k) \/ AdapterWrites(k)

Next ==
  \/ \E k \in Keys : ReapStep(k) \/ LaunchStep(k) \/ SystemStep(k)
  \/ \E k \in Keys : JoinTimesOut(k) \/ JoinStops(k) \/ Expire(k)
  \/ \E f \in Frames : Push(f)
  \/ MainStep \/ Signal \/ End \/ Restart

Spec == Init /\ [][Next]_vars

\* Threads of the engine are scheduled; signals, ends and workers are free.  There
\* are finitely many steps, so that the fairness of all threads is that of each.
InLaunch == {k \in Keys : pc[k] \notin {"idle", "aborted", "done"}}
Reaping == {k \in Keys : ~Reaps("nobody", k)}

FairSpec ==
  /\ Spec
  /\ WF_vars(\/ \E k \in Reaping : ReapStep(k)
             \/ \E k \in InLaunch : LaunchStep(k)
             \/ MainStep)

-----------------------------------------------------------------------------
(* Properties. *)

TypeOK ==
  /\ sess \in [Keys -> {"none", "running", "orphans", "gone"}]
  /\ handle \in [Keys -> {"none", "engine", "adapter"}]
  /\ facts \in [Keys -> Nat]
  /\ latest \in [Frames -> Nat] /\ exited \subseteq Frames
  /\ leases \subseteq Keys /\ known \subseteq Keys /\ reason \subseteq Keys
  /\ reaping \in Nat
  /\ reap \in [Keys -> [by : {"nobody", "launch", "main", "join", "budget"},
                        at : {"idle", "term", "kill", "report"}]]
  /\ closed \in BOOLEAN
  /\ pc \in [Keys -> {"idle", "pushed", "prepared", "spawned", "writing",
                      "doomed", "overdue", "waiting", "stopping",
                      "failing", "stopped", "failed", "finishing", "finished",
                      "returned", "joining", "joined", "done", "aborted"}]
  /\ main \in {"off", "sweeping", "up", "signalled", "shutting", "waiting", "over"}
  /\ todo \in [main : SUBSET Keys, join : SUBSET Keys]
  /\ ends \in 0..MaxCrashes /\ hasty \subseteq Keys

\* However many stop an attempt at once, and over restarts, it is reaped by one of
\* them at a time and reported at most once; the count is the number of reaps.
ReapedOnce ==
  /\ \A k \in Keys : facts[k] <= 1
  /\ reaping = Cardinality({k \in Keys : ~Reaps("nobody", k)})

\* A frame exits when its session is empty or another thread is emptying it, and
\* once shutdown has returned, a session that is left has its end before it: it is
\* being reaped, or its launching thread finds the stop reason when it publishes the
\* record.  The exception is a root process whose launch was unwound between Popen and
\* _started, and what an earlier engine left: an attempt without a handle of its
\* own, or that exited while it was being reaped.
NobodyEscapes ==
  \A k \in Keys : Alive(k) =>
    /\ pc[k] \in {"returned", "joining", "joined", "done"} =>
         reap[k].by \in {"main", "join", "budget"}
    /\ main = "over" =>
         \/ reap[k].by \in {"launch", "budget"}
         \/ k \in leases \cap reason /\ pc[k] \in {"spawned", "doomed",
                                                   "overdue", "failing"}
         \/ pc[k] = "aborted" /\ k \notin known
         \/ pc[k] = "idle" /\ (handle[k] # "engine" \/ k \in hasty)

\* Attempts of a frame overlap only if the earlier one exited while another thread
\* was reaping it, or the engine that started it ended before it wrote the handle.
OneGeneration ==
  \A k, l \in Keys :
    k[1] = l[1] /\ k[2] < l[2] /\ Alive(k) /\ Alive(l) =>
      handle[k] # "engine" \/ k \in hasty

\* A shutdown ends, and after it no worker that was started too late for it goes
\* on running, but for the root process that nobody knows (NobodyEscapes).
ShutdownEnds ==
  main = "shutting" ~>
    \/ main = "off"
    \/ /\ main = "over"
       /\ \A k \in Keys : sess[k] = "running" => pc[k] \in {"idle", "aborted"}
=============================================================================
