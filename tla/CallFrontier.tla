---------------------------- MODULE CallFrontier ----------------------------
(***************************************************************************)
(* The tool calls of one frame: MCP worker threads that validate and run   *)
(* them, the single flight and memoization of Engine.handle_tool, the join *)
(* of a frame's calls when its rig returns, the reconciliation of calls    *)
(* that stopped without a return, engine shutdown, and a process that may  *)
(* crash between any two steps and be restarted on its journal.            *)
(*                                                                         *)
(* Two parties join the calls of a frame: the thread that launched it      *)
(* (_launch_frame, after the rig returned) and Engine.shutdown.  They can  *)
(* run at the same time, so both are processes here.                       *)
(*                                                                         *)
(* Abstracted: the body of a tool (dispatching children, running a command,*)
(* waiting for an owner) is one step that yields a result; a call's tool   *)
(* and request are one value, its canonical content.  Id-less tools/call   *)
(* notifications, which the server runs in the HTTP handler and does not   *)
(* track, and append failures of the journal are left out.  Four           *)
(* stretches of code are one step each: a request's authorization and      *)
(* its entry into the join set (mcp.py 368-384, 466-492), the exit of a    *)
(* frame (engine.py 2549-2568), a launch with the join it begins with      *)
(* (2341-2359, for what a launch unwound in the same process had left),    *)
(* and the start of a shutdown (737), which misses a child whose launch    *)
(* is not in _active yet.                                                  *)
(***************************************************************************)
EXTENDS Naturals, FiniteSets

CONSTANTS
  MaxIndex,        \* bound: call indexes are 0..MaxIndex
  Contents,        \* canonical contents of calls
  ToolOf,          \* content -> "dispatch", "gate" or "ask"
  Results,         \* what a tool body or an owner may produce
  Threads,         \* MCP worker threads
  None,            \* absence of a content, response or reply
  MaxAttempts,     \* bound: attempts (FramePushed events) of the frame
  MaxRestarts,     \* bound: restarts of the engine process
  JoinMayTimeOut   \* may a worker outlive every bounded join?

Indexes  == 0..MaxIndex
Failures == {"frame_terminating", "worker_stopped_without_return",
             "frame_call_join_timeout"}
Responses == Results \cup Failures

\* What a client may hear besides a response of the journal.
Errors  == {"error", "terminating"}
Replies == Responses \cup Errors \cup {"call_refused", None}

Tools   == {"dispatch", "gate", "ask"}
Joiners == {"launch", "shutdown"}

ASSUME ConstantsAssumption ==
  /\ MaxIndex \in Nat /\ MaxAttempts \in Nat /\ MaxRestarts \in Nat
  /\ ToolOf \in [Contents -> Tools]
  /\ JoinMayTimeOut \in BOOLEAN
  /\ None \notin Contents \cup Responses \cup Errors \cup {"call_refused"} \cup Threads
  /\ Results \cap (Failures \cup Errors \cup {"call_refused"}) = {}

VARIABLES
  \* the journal, folded by RunProjection (survives a crash)
  content,      \* index -> content of its *_called or call_failed event
  response,     \* index -> the response that completed it
  refused,      \* index -> content of its call_refused event
  outcome,      \* outcome of the frame's current attempt, or "none"
  attempt,      \* frame_pushed events so far
  answered,     \* index -> does an owner's answer file exist?
  \* the engine process (lost in a crash)
  up,           \* is an engine process alive?
  restarts,     \* restarts so far (a bound, not state of the program)
  active,       \* is the frame in _active, with a valid capability?
  closing,      \* is it in the MCP server's _closing_frames?
  terminating,  \* is it in the engine's _terminating_frames?
  pc, idx, con, \* thread -> where it is, the index and content it carries
  replaying,    \* thread -> did a durable call exist when it became leader?
  cancelled,    \* thread -> is its call's cancellation event set?
  tracked,      \* thread -> is it in the join set of this registration?
  reply,        \* thread -> what its handler returned
  stage,        \* joiner -> where it is
  todo,         \* joiner -> calls of its snapshot still to reconcile
  verdict       \* joiner -> error code it reconciles with

ledger   == <<content, response, refused>>
journal  == <<ledger, outcome, attempt>>
threads  == <<pc, idx, con, replaying, cancelled, tracked, reply>>
joins    == <<stage, todo, verdict>>
server   == <<active, closing, terminating>>
process  == <<up, restarts>>
vars     == <<journal, answered, process, server, threads, joins>>

-----------------------------------------------------------------------------
(* The projection, as handle_tool reads it.                                *)

Exists(i)    == content[i] # None
Completed(i) == response[i] # None
Pending(i)   == Exists(i) /\ ~Completed(i)
Unused(i)    == ~Exists(i) /\ refused[i] = None

\* next_call_index: one more than the largest index called or refused.
IsNext(i) ==
  /\ \A j \in Indexes : j >= i => Unused(j)
  /\ i > 0 => ~Unused(i - 1)

\* A key of _inflight_calls: its thread took the lead and has not left it.
LeaderSteps == {"leading", "refusing", "working", "leaving"}
Leads(t, i) == pc[t] \in LeaderSteps /\ idx[t] = i
InFlight(i) == \E t \in Threads : Leads(t, i)

\* Threads the join set still waits for.
Unfinished == {t \in Threads : tracked[t] /\ pc[t] # "done"}

\* The calls the threads in S carry.
CallsOf(S) == {<<idx[t], con[t]>> : t \in S}

Init ==
  /\ content = [i \in Indexes |-> None]
  /\ response = [i \in Indexes |-> None]
  /\ refused = [i \in Indexes |-> None]
  /\ outcome = "none" /\ attempt = 0
  /\ answered = [i \in Indexes |-> FALSE]
  /\ up = TRUE /\ restarts = 0
  /\ active = FALSE /\ closing = FALSE /\ terminating = FALSE
  /\ pc = [t \in Threads |-> "idle"]
  /\ idx = [t \in Threads |-> 0]
  /\ con = [t \in Threads |-> None]
  /\ replaying = [t \in Threads |-> FALSE]
  /\ cancelled = [t \in Threads |-> FALSE]
  /\ tracked = [t \in Threads |-> FALSE]
  /\ reply = [t \in Threads |-> None]
  /\ stage = [j \in Joiners |-> "idle"]
  /\ todo = [j \in Joiners |-> {}]
  /\ verdict = [j \in Joiners |-> None]

Goto(t, step) == pc' = [pc EXCEPT ![t] = step]

\* The handler of thread t returns r; the engine keeps nothing for it.
Reply(t, step, r) ==
  /\ Goto(t, step)
  /\ reply' = [reply EXCEPT ![t] = r]

\* The worker threads in S are gone, and their locals with them.
Forget(S) ==
  /\ pc' = [t \in Threads |-> IF t \in S THEN "idle" ELSE pc[t]]
  /\ idx' = [t \in Threads |-> IF t \in S THEN 0 ELSE idx[t]]
  /\ con' = [t \in Threads |-> IF t \in S THEN None ELSE con[t]]
  /\ reply' = [t \in Threads |-> IF t \in S THEN None ELSE reply[t]]

-----------------------------------------------------------------------------
(* One MCP request: validation, admission, the tool, the return.           *)

\* A tools/call passes validation.  Before the frame closes it is tracked
\* and gets a worker; afterwards it is a completed refusal with no effect.
Submit(t, i, c) ==
  /\ up /\ active /\ pc[t] = "idle"
  /\ idx' = [idx EXCEPT ![t] = i]
  /\ con' = [con EXCEPT ![t] = c]
  /\ tracked' = [tracked EXCEPT ![t] = TRUE]
  /\ IF closing THEN Reply(t, "done", "terminating")
                ELSE Goto(t, "validated") /\ UNCHANGED reply
  /\ UNCHANGED <<journal, answered, process, server, replaying, cancelled, joins>>

\* The first statement of handle_tool: the frame must be active.
Enter(t) ==
  /\ pc[t] = "validated"
  /\ IF active THEN Goto(t, "admitting") /\ UNCHANGED reply
               ELSE Reply(t, "left", "error")
  /\ UNCHANGED <<journal, answered, process, server, idx, con, replaying,
                 cancelled, tracked, joins>>

\* Bug: a durable call is matched by its index alone.
BugIndexOnly(t) ==
  \/ refused[idx[t]] # None /\ refused[idx[t]] # con[t]
  \/ \E u \in Threads : Leads(u, idx[t]) /\ con[u] # con[t]

\* Bug: a durable refusal is matched by its index alone.
BugAnyRefusal(t) ==
  \/ Exists(idx[t]) /\ content[idx[t]] # con[t]
  \/ \E u \in Threads : Leads(u, idx[t]) /\ con[u] # con[t]

\* The content differs from a durable call, a durable refusal or a live call.
Conflicts(t) ==
  LET i == idx[t] IN
  \/ Exists(i) /\ content[i] # con[t]
  \/ refused[i] # None /\ refused[i] # con[t]
  \/ \E u \in Threads : Leads(u, i) /\ con[u] # con[t]

\* Bug: no single flight, a call only waits for earlier indexes.
BugNoSingleFlight(t) ==
  /\ ~Completed(idx[t]) /\ refused[idx[t]] = None
  /\ \E j \in Indexes : j < idx[t] /\ InFlight(j)

\* The call has to wait on the condition: for its own leader, or for any
\* earlier index of the frame that is in flight.
MustWait(t) ==
  \/ InFlight(idx[t])
  \/ /\ ~Completed(idx[t]) /\ refused[idx[t]] = None
     /\ \E j \in Indexes : j < idx[t] /\ InFlight(j)

\* Bug: an earlier call that is pending but not in flight is skipped.
BugSkipsPending(t) == Exists(idx[t]) \/ IsNext(idx[t])

\* No other call is in its way and it may take the lead.
MayLead(t) ==
  /\ \A j \in Indexes : j < idx[t] => ~Pending(j)
  /\ Exists(idx[t]) \/ IsNext(idx[t])

\* The call is answered without taking the lead.
Answer(t) ==
  /\ pc[t] = "admitting"
  /\ IF Conflicts(t) THEN Reply(t, "left", "error")
     ELSE /\ ~MustWait(t)
          /\ CASE Completed(idx[t])        -> Reply(t, "left", response[idx[t]])
               [] ~Completed(idx[t]) /\ refused[idx[t]] # None
                                           -> Reply(t, "left", "call_refused")
               [] ~Completed(idx[t]) /\ refused[idx[t]] = None /\ ~MayLead(t)
                                           -> Reply(t, "left", "error")
               [] OTHER                    -> FALSE
  /\ UNCHANGED <<journal, answered, process, server, idx, con, replaying,
                 cancelled, tracked, joins>>

\* Bug: only the calls in flight at the request are cancelled.
BugLateLeadRuns == FALSE

\* A call that takes the lead while its frame is terminating is cancelled.
StartsCancelled == terminating

\* The call becomes the leader of its index.
Lead(t) ==
  /\ pc[t] = "admitting"
  /\ ~Conflicts(t) /\ ~MustWait(t)
  /\ ~Completed(idx[t]) /\ refused[idx[t]] = None
  /\ MayLead(t)
  /\ Goto(t, "leading")
  /\ cancelled' = [cancelled EXCEPT ![t] = StartsCancelled]
  /\ replaying' = [replaying EXCEPT ![t] = Exists(idx[t])]
  /\ UNCHANGED <<journal, answered, process, server, idx, con, tracked,
                 reply, joins>>

\* The clean checks passed.  A replayed call goes on where it was left, any
\* other appends its *_called event, which starts a fresh CallProjection.
Begin(t) ==
  LET i == idx[t] IN
  /\ pc[t] = "leading"
  /\ Goto(t, "working")
  /\ IF replaying[t] THEN UNCHANGED <<content, response>>
     ELSE /\ content'  = [content EXCEPT ![i] = con[t]]
          /\ response' = [response EXCEPT ![i] = None]
  /\ UNCHANGED <<refused, outcome, attempt, answered, process, server, idx,
                 con, replaying, cancelled, tracked, reply, joins>>

\* An exception before the *_called event: a durable call makes it an error
\* of the transport, no call makes it a refusal.
FailEarly(t) ==
  /\ pc[t] = "leading"
  /\ IF Exists(idx[t]) THEN Reply(t, "leaving", "error")
                       ELSE Goto(t, "refusing") /\ UNCHANGED reply
  /\ UNCHANGED <<journal, answered, process, server, idx, con, replaying,
                 cancelled, tracked, joins>>

\* _record_call_refusal, in a transaction of its own.
Refuse(t) ==
  LET i == idx[t] IN
  /\ pc[t] = "refusing"
  /\ \/ /\ refused[i] = None
        /\ refused' = [refused EXCEPT ![i] = con[t]]
        /\ Reply(t, "leaving", "call_refused")
     \/ /\ refused[i] # None
        /\ UNCHANGED refused
        /\ Reply(t, "leaving",
                 IF refused[i] = con[t] THEN "call_refused" ELSE "error")
  /\ UNCHANGED <<content, response, outcome, attempt, answered, process,
                 server, idx, con, replaying, cancelled, tracked, joins>>

\* _append_tool_return: a completed call keeps the response it has.
AppendReturn(i, r) ==
  IF Completed(i) THEN UNCHANGED response
  ELSE response' = [response EXCEPT ![i] = r]

\* dispatch or gate produced its result (a cancelled one produces it too).
Return(t, r) ==
  /\ pc[t] = "working" /\ ToolOf[con[t]] # "ask"
  /\ AppendReturn(idx[t], r)
  /\ Reply(t, "leaving", r)
  /\ UNCHANGED <<content, refused, outcome, attempt, answered, process,
                 server, idx, con, replaying, cancelled, tracked, joins>>

\* ask found the owner's answer.
ReturnAnswer(t, r) ==
  /\ pc[t] = "working" /\ ToolOf[con[t]] = "ask" /\ answered[idx[t]]
  /\ AppendReturn(idx[t], r)
  /\ Reply(t, "leaving", r)
  /\ UNCHANGED <<content, refused, outcome, attempt, answered, process,
                 server, idx, con, replaying, cancelled, tracked, joins>>

\* ask was cancelled before an answer: it appends call_failed by itself,
\* without looking whether the call is already completed.
StopAsking(t) ==
  /\ pc[t] = "working" /\ ToolOf[con[t]] = "ask"
  /\ cancelled[t] /\ ~answered[idx[t]]
  /\ response' = [response EXCEPT ![idx[t]] = "frame_terminating"]
  /\ Reply(t, "leaving", "frame_terminating")
  /\ UNCHANGED <<content, refused, outcome, attempt, answered, process,
                 server, idx, con, replaying, cancelled, tracked, joins>>

\* An exception after the *_called event leaves the call pending.
FailLate(t) ==
  /\ pc[t] = "working"
  /\ Reply(t, "leaving", "error")
  /\ UNCHANGED <<journal, answered, process, server, idx, con, replaying,
                 cancelled, tracked, joins>>

\* The finally clause: the live call leaves _inflight_calls, waiters wake up.
Leave(t) ==
  /\ pc[t] = "leaving"
  /\ Goto(t, "left")
  /\ cancelled' = [cancelled EXCEPT ![t] = FALSE]
  /\ replaying' = [replaying EXCEPT ![t] = FALSE]
  /\ UNCHANGED <<journal, answered, process, server, idx, con, tracked, reply,
                 joins>>

\* The MCP worker marks its call completed and ends; the join wakes up and
\* keeps the call as long as the frame is registered.
Finish(t) ==
  /\ pc[t] = "left"
  /\ IF tracked[t] THEN Goto(t, "done") /\ UNCHANGED <<idx, con, reply>>
                   ELSE Forget({t})
  /\ UNCHANGED <<journal, answered, process, server, replaying, cancelled,
                 tracked, joins>>

\* The owner's answer file of a pending question is linked, exclusively.
\* (A link that comes after the question was completed is read by nobody.)
OwnerAnswers(i) ==
  /\ Pending(i) /\ ToolOf[content[i]] = "ask" /\ ~answered[i]
  /\ answered' = [answered EXCEPT ![i] = TRUE]
  /\ UNCHANGED <<journal, process, server, threads, joins>>

-----------------------------------------------------------------------------
(* The frame: launch, join, reconciliation, exit.                          *)

\* A launch registers the frame afresh: its join set is empty and admission
\* is open.
Launch ==
  /\ up /\ stage["launch"] = "idle" /\ stage["shutdown"] = "idle"
  /\ outcome # "ok" /\ attempt < MaxAttempts
  /\ attempt' = attempt + 1 /\ outcome' = "none"
  /\ active' = TRUE /\ closing' = FALSE /\ terminating' = FALSE
  /\ stage' = [stage EXCEPT !["launch"] = "running"]
  /\ UNCHANGED <<ledger, answered, process, threads, todo, verdict>>

\* The rig returned; join_frame closes the frame to effectful calls.
CloseFrontier(j) ==
  /\ up
  /\ \/ j = "launch" /\ stage[j] = "running"
     \/ j = "shutdown" /\ stage[j] = "stopping"
  /\ closing' = TRUE
  /\ stage' = [stage EXCEPT ![j] = "natural"]
  /\ UNCHANGED <<journal, answered, process, active, terminating, threads,
                 todo, verdict>>

\* Bug: the calls that are in flight are not told.
BugCancelsLater == terminating' = TRUE /\ UNCHANGED cancelled

\* _cancel_frame_calls: every lead of the frame, now and later.
CancelFrame ==
  /\ terminating' = TRUE
  /\ cancelled' = [t \in Threads |->
                     cancelled[t] \/ pc[t] \in LeaderSteps]

\* The natural grace passed with calls still active.
RequestCancel(j) ==
  /\ up /\ stage[j] = "natural" /\ Unfinished # {}
  /\ CancelFrame
  /\ stage' = [stage EXCEPT ![j] = "cancelled"]
  /\ UNCHANGED <<journal, answered, process, active, closing, pc, idx, con,
                 replaying, tracked, reply, todo, verdict>>

\* Every tracked call is done: the snapshot's calls are to be reconciled.
Joined(j) ==
  /\ up /\ stage[j] \in {"natural", "cancelled"} /\ Unfinished = {}
  /\ stage' = [stage EXCEPT ![j] = "reconciling"]
  /\ todo' = [todo EXCEPT ![j] = CallsOf({t \in Threads : tracked[t]})]
  /\ verdict' = [verdict EXCEPT ![j] = "worker_stopped_without_return"]
  /\ UNCHANGED <<journal, answered, process, server, threads>>

\* The bound, the reaping of descendants' workers and the retries passed:
\* the calls that are still active are failed under their live workers.
JoinTimesOut(j) ==
  /\ JoinMayTimeOut
  /\ up /\ stage[j] = "cancelled" /\ Unfinished # {}
  /\ stage' = [stage EXCEPT ![j] = "reconciling"]
  /\ todo' = [todo EXCEPT ![j] = CallsOf(Unfinished)]
  /\ verdict' = [verdict EXCEPT ![j] = "frame_call_join_timeout"]
  /\ UNCHANGED <<journal, answered, process, server, threads>>

\* _durabilize_failed_calls, one call: refused and completed calls are left
\* alone, a conflict raises, any other call is failed.
ReconcileConflict(i, c) ==
  \/ refused[i] # None /\ refused[i] # c
  \/ refused[i] = None /\ Pending(i) /\ content[i] # c

\* Bug: a begun call counts as settled.
BugBegunIsSettled(i) == refused[i] # None \/ Exists(i)

\* Bug: a completed call is failed again.
BugFailsCompleted(i) == refused[i] # None

Settled(i) == refused[i] # None \/ Completed(i)

Reconcile(j, i, c) ==
  /\ up /\ stage[j] = "reconciling" /\ <<i, c>> \in todo[j]
  /\ ~ReconcileConflict(i, c)
  /\ todo' = [todo EXCEPT ![j] = @ \ {<<i, c>>}]
  /\ IF Settled(i) THEN UNCHANGED <<content, response>>
     ELSE /\ content' = [content EXCEPT ![i] = c]
          /\ response' = [response EXCEPT ![i] = verdict[j]]
  /\ UNCHANGED <<refused, outcome, attempt, answered, process, server,
                 threads, stage, verdict>>

\* A conflict escapes _launch_frame with the frame still registered, or ends
\* the joins of shutdown, which notes it and goes on.
AbortReconcile(j, i, c) ==
  /\ up /\ stage[j] = "reconciling" /\ <<i, c>> \in todo[j]
  /\ ReconcileConflict(i, c)
  /\ todo' = [todo EXCEPT ![j] = {}]
  /\ stage' = [stage EXCEPT ![j] = IF j = "launch" THEN "unwound" ELSE "joined"]
  /\ UNCHANGED <<journal, answered, process, server, threads, verdict>>

\* frame_exited, then the capability is revoked with the join set and the
\* frame forgotten.  A worker that is still alive is nobody's from now on.
ExitFrame(o) ==
  /\ up /\ stage["launch"] = "reconciling" /\ todo["launch"] = {}
  /\ verdict["launch"] = "frame_call_join_timeout" => o = "failed"
  /\ outcome' = o
  /\ active' = FALSE /\ closing' = FALSE /\ terminating' = FALSE
  /\ tracked' = [t \in Threads |-> FALSE]
  /\ Forget({t \in Threads : pc[t] = "done"})
  /\ stage' = [stage EXCEPT !["launch"] = "idle"]
  /\ verdict' = [verdict EXCEPT !["launch"] = None]
  /\ UNCHANGED <<ledger, attempt, answered, process, replaying, cancelled, todo>>

-----------------------------------------------------------------------------
(* The engine process: shutdown, crash, restart.                           *)

\* A signal or a fatal error: shutdown cancels the frame's calls if it is
\* known.  The launch of a root frame unwinds (it runs in the main thread),
\* that of a child goes on in an MCP worker of its parent.
BeginShutdown ==
  /\ up /\ stage["shutdown"] = "idle"
  /\ \E unwinds \in BOOLEAN :
       LET known == active \/ \E t \in Threads : pc[t] \in LeaderSteps IN
       stage' = [stage EXCEPT
         !["shutdown"] = IF known THEN "stopping" ELSE "joined",
         !["launch"] = IF unwinds /\ @ # "idle" THEN "unwound" ELSE @]
  /\ IF stage'["shutdown"] = "stopping" THEN CancelFrame
                                        ELSE UNCHANGED <<terminating, cancelled>>
  /\ UNCHANGED <<journal, answered, process, active, closing, pc, idx, con,
                 replaying, tracked, reply, todo, verdict>>

\* shutdown has reconciled the snapshot of its own join.
JoinsDone ==
  /\ up /\ stage["shutdown"] = "reconciling" /\ todo["shutdown"] = {}
  /\ stage' = [stage EXCEPT !["shutdown"] = "joined"]
  /\ UNCHANGED <<journal, answered, process, server, threads, todo, verdict>>

\* Bug: the launch of a child is not waited for.
BugLaunchUnwatched == TRUE

\* A child's launch runs inside a call of its parent, and shutdown joins
\* parents first, so the launch is over.  (Left out: a time-out of the
\* parent's own join, which skips the joins of its children.)
LaunchIsOver == stage["launch"] \in {"idle", "unwound"}

\* run_interrupted, the last append of an engine process.
Interrupt ==
  /\ up /\ stage["shutdown"] = "joined"
  /\ LaunchIsOver
  /\ stage' = [stage EXCEPT !["shutdown"] = "stopped"]
  /\ UNCHANGED <<journal, answered, process, server, threads, todo, verdict>>

\* The process ends, after a shutdown or at any other moment.
Crash ==
  /\ up
  /\ up' = FALSE
  /\ active' = FALSE /\ closing' = FALSE /\ terminating' = FALSE
  /\ Forget(Threads)
  /\ replaying' = [t \in Threads |-> FALSE]
  /\ cancelled' = [t \in Threads |-> FALSE]
  /\ tracked' = [t \in Threads |-> FALSE]
  /\ stage' = [j \in Joiners |-> "idle"]
  /\ todo' = [j \in Joiners |-> {}]
  /\ verdict' = [j \in Joiners |-> None]
  /\ UNCHANGED <<journal, answered, restarts>>

\* A new engine process loads the journal.
Restart ==
  /\ ~up /\ restarts < MaxRestarts
  /\ up' = TRUE /\ restarts' = restarts + 1
  /\ UNCHANGED <<journal, answered, server, threads, joins>>

-----------------------------------------------------------------------------
ThreadStep(t) ==
  \/ Enter(t) \/ Answer(t) \/ Lead(t) \/ Begin(t) \/ FailEarly(t) \/ Refuse(t)
  \/ \E r \in Results : Return(t, r) \/ ReturnAnswer(t, r)
  \/ StopAsking(t) \/ FailLate(t) \/ Leave(t) \/ Finish(t)

JoinStep(j) ==
  \/ RequestCancel(j) \/ Joined(j) \/ JoinTimesOut(j)
  \/ \E i \in Indexes, c \in Contents : Reconcile(j, i, c) \/ AbortReconcile(j, i, c)

Next ==
  \/ \E t \in Threads, i \in Indexes, c \in Contents : Submit(t, i, c)
  \/ \E t \in Threads : ThreadStep(t)
  \/ \E i \in Indexes : OwnerAnswers(i)
  \/ Launch
  \/ \E j \in Joiners : CloseFrontier(j) \/ JoinStep(j)
  \/ \E o \in {"ok", "failed"} : ExitFrame(o)
  \/ BeginShutdown \/ JoinsDone \/ Interrupt \/ Crash \/ Restart

Spec == Init /\ [][Next]_vars

(***************************************************************************)
(* Fairness.  Worker threads and the joining threads are scheduled by the  *)
(* operating system.  A tool body is only known to end once its call is    *)
(* cancelled: gate kills its process group, dispatch passes the event to   *)
(* its children, ask wakes up.  A rig may run, and an owner may be silent, *)
(* for ever.                                                               *)
(***************************************************************************)
Steps(t) ==
  \/ Enter(t) \/ Answer(t) \/ Lead(t) \/ Begin(t) \/ Refuse(t)
  \/ Leave(t) \/ Finish(t)

Stops(t) ==
  /\ cancelled[t]
  /\ StopAsking(t) \/ \E r \in Results : Return(t, r) \/ ReturnAnswer(t, r)

JoinEnds(j) ==
  \/ RequestCancel(j) \/ Joined(j) \/ (j = "shutdown" /\ CloseFrontier(j))
  \/ \E i \in Indexes, c \in Contents : Reconcile(j, i, c) \/ AbortReconcile(j, i, c)

Exit == \E o \in {"ok", "failed"} : ExitFrame(o)

Fairness ==
  /\ \A t \in Threads : WF_vars(Steps(t)) /\ WF_vars(Stops(t))
  /\ \A j \in Joiners : WF_vars(JoinEnds(j))
  /\ WF_vars(Exit) /\ WF_vars(JoinsDone) /\ WF_vars(Interrupt)

FairSpec == Spec /\ Fairness

-----------------------------------------------------------------------------
(* Properties.                                                             *)

\* The state is made of values the program can hold.
TypeOK ==
  /\ content \in [Indexes -> Contents \cup {None}]
  /\ response \in [Indexes -> Responses \cup {None}]
  /\ refused \in [Indexes -> Contents \cup {None}]
  /\ outcome \in {"none", "ok", "failed"} /\ attempt \in 0..MaxAttempts
  /\ answered \in [Indexes -> BOOLEAN]
  /\ up \in BOOLEAN /\ restarts \in 0..MaxRestarts
  /\ active \in BOOLEAN /\ closing \in BOOLEAN /\ terminating \in BOOLEAN
  /\ pc \in [Threads -> {"idle", "validated", "admitting", "left", "done"}
                            \cup LeaderSteps]
  /\ idx \in [Threads -> Indexes]
  /\ con \in [Threads -> Contents \cup {None}]
  /\ replaying \in [Threads -> BOOLEAN] /\ cancelled \in [Threads -> BOOLEAN]
  /\ tracked \in [Threads -> BOOLEAN] /\ reply \in [Threads -> Replies]
  /\ stage \in [Joiners -> {"idle", "running", "stopping", "natural",
        "cancelled", "reconciling", "unwound", "joined", "stopped"}]
  /\ todo \in [Joiners -> SUBSET (Indexes \X Contents)]
  /\ verdict \in [Joiners -> Failures \cup {None}]

\* At most one call of a frame is in flight as a leader, whatever indexes
\* its concurrent requests carry (the frame is parked at most once, and its
\* calls take effect one after the other), late workers included.
SingleLeader ==
  \A t, u \in Threads :
    pc[t] \in LeaderSteps /\ pc[u] \in LeaderSteps => t = u

\* At most one call of the frame is durable and unreturned.
OnePending ==
  \A i, j \in Indexes : Pending(i) /\ Pending(j) => i = j

\* A tool body only runs for a call that the journal shows as begun, with
\* this content, and not yet returned: nothing is paid for twice.
EffectIsOwed ==
  \A t \in Threads :
    pc[t] = "working" => Pending(idx[t]) /\ content[idx[t]] = con[t]

\* A client never hears a result that a later replay would not repeat.
ReplyIsDurable ==
  \A t \in Threads : pc[t] \in {"leaving", "left", "done"} =>
    /\ reply[t] \in Responses => response[idx[t]] = reply[t]
    /\ reply[t] = "call_refused" => refused[idx[t]] = con[t]

\* Every call the client of this attempt was allowed to begin is completed
\* when the attempt exits: an exited frame only leaves open calls that an
\* earlier process began and this attempt did not replay.
ExitSettlesCalls ==
  [][ outcome = "none" /\ outcome' # "none" =>
        \A t \in Threads :
          tracked[t] /\ reply[t] # "terminating" =>
            Completed(idx[t]) \/ refused[idx[t]] # None ]_vars

\* run_interrupted is the last event its process appends.
InterruptIsLast ==
  [][ stage["shutdown"] = "stopped" => UNCHANGED journal ]_vars

\* The journal of the frame behaves as the ledger of CallLedger.
Ledger == INSTANCE CallLedger
ImplementsLedger == Ledger!Spec

\* A tool-specific return, once appended, is never replaced or reopened.
ToolReturnIsFinal ==
  [][ \A i \in Indexes : response[i] \in Results =>
        response'[i] = response[i] /\ content'[i] = content[i] ]_vars

\* A join ends without its time-out: cancellation reaches every call of the
\* frame, whether it leads, waits behind another or has yet to start.
JoinsTerminate ==
  \A j \in Joiners :
    stage[j] = "natural" ~> stage[j] \notin {"natural", "cancelled", "reconciling"}

\* No request is left waiting once its frame is closing, unless the frame
\* exits without it (its join timed out).
RequestsSettle ==
  \A t \in Threads :
    (closing /\ pc[t] # "idle") ~> (pc[t] \in {"idle", "done"} \/ ~tracked[t])
=============================================================================
