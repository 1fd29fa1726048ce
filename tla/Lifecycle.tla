----------------------------- MODULE Lifecycle -----------------------------
(***************************************************************************)
(* The processes around one run: `run` and `resume` (run.py), answers from *)
(* the command line (`resume --answer`, __main__.py) and from the          *)
(* dashboard (app.py), the lock that keeps the owners of the journal       *)
(* apart, and the files they share: run.json, job.md, the journal, the     *)
(* answers and completed.json.                                             *)
(*                                                                         *)
(* Abstractions.  An append to the journal is one step (Journal has its    *)
(* parts).  Of the engine there are the questions of frames, how each      *)
(* waits for its answer file, its end and its interruption; a question is  *)
(* a call of a frame, and stays what it was when it is settled.  Who names *)
(* no question gets the only one.  A temporary file and its fsync are part *)
(* of the link or rename that publishes it.  A resumed run with another    *)
(* job or rig is refused before anything happens and is left out.          *)
(*                                                                         *)
(* A process is invoked once: Procs bounds the invocations.                *)
(***************************************************************************)
EXTENDS Naturals, Sequences, FiniteSets

CONSTANTS
  Procs,       \* the processes that may ever be started
  Role,        \* process -> "run" (run, resume), "answer" (resume --answer), "console"
  Questions,   \* the asks of the run
  None

ASSUME ConstantsAssumption ==
  /\ None \notin Procs \cup Questions
  /\ Role \in [Procs -> {"run", "answer", "console"}]

Kinds == {"opened", "asked", "answered", "failed", "interrupted", "finished"}

VARIABLES
  meta,       \* run.json is there
  job,        \* job.md is there
  log,        \* the journal
  files,      \* question -> who wrote its answer file, or None
  completed,  \* completed.json is there
  lock,       \* the process that has run.lock, or None
  pc,         \* process -> its place
  mem,        \* process -> number of events its journal owner folds
  live,       \* the questions that wait in a thread of the lock's owner
  target,     \* process -> the question it answers
  told        \* history: process -> what it reported to its user

vars == <<meta, job, log, files, completed, lock, pc, mem, live, target, told>>

Init ==
  /\ meta = FALSE /\ job = FALSE /\ log = <<>> /\ completed = FALSE
  /\ files = [q \in Questions |-> None]
  /\ lock = None /\ live = {}
  /\ pc = [p \in Procs |-> IF Role[p] = "run" THEN "construct" ELSE "probe"]
  /\ mem = [p \in Procs |-> 0]
  /\ target = [p \in Procs |-> None]
  /\ told = [p \in Procs |-> "nothing"]

-----------------------------------------------------------------------------
(* The journal and its fold. *)

Recorded(kind) == {log[i].q : i \in {j \in DOMAIN log : log[j].kind = kind}}
Settled == Recorded("answered") \cup Recorded("failed")
Pending == Recorded("asked") \ Settled
Finished == \E i \in DOMAIN log : log[i].kind = "finished"

\* The owner p assigns the next number it knows of.
Record(p, kind, q, text) ==
  /\ log' = Append(log, [seq |-> mem[p], kind |-> kind, q |-> q, text |-> text])
  /\ mem' = [mem EXCEPT ![p] = @ + 1]

Goto(p, place) == pc' = [pc EXCEPT ![p] = place]

\* The process ends, whatever way; the kernel takes its lock back.  What it said
\* first counts.
Exit(p, report) ==
  /\ Goto(p, "ended")
  /\ told' = [told EXCEPT ![p] = IF @ = "nothing" THEN report ELSE @]
  /\ lock' = IF lock = p THEN None ELSE lock

-----------------------------------------------------------------------------
(* Run.deliver_live_answer. *)

\* The probe finds the lock free, and has it for a moment ...
ProbeFree(p) ==
  /\ pc[p] = "probe" /\ lock = None
  /\ lock' = p /\ Goto(p, "probing")
  /\ UNCHANGED <<meta, job, log, files, completed, mem, live, target, told>>

\* ... returns it, and the command goes on to resume; the console gives up.
ProbeReleases(p) ==
  /\ pc[p] = "probing"
  /\ IF Role[p] = "console"
     THEN Exit(p, "not live")
     ELSE Goto(p, "construct") /\ lock' = None /\ UNCHANGED told
  /\ UNCHANGED <<meta, job, log, files, completed, mem, live, target>>

\* It finds the lock taken, and the run is taken to be live.
ProbeTaken(p) ==
  /\ pc[p] = "probe" /\ lock # None
  /\ Goto(p, "reading")
  /\ UNCHANGED <<meta, job, log, files, completed, lock, mem, live, target, told>>

\* The question an answer is for: the one it names or the only one.
Select(p, next) ==
  /\ \E q \in Pending : target' = [target EXCEPT ![p] = q]
  /\ Goto(p, next)
  /\ UNCHANGED <<meta, job, log, files, completed, lock, mem, live, told>>

\* It names a question that is not pending, or none although there is not just one.
SelectNone(p) ==
  /\ Exit(p, "refused")
  /\ UNCHANGED <<meta, job, log, files, completed, mem, live, target>>

\* Bug: a later answer replaces the first one.
BugReplace(p) == TRUE

\* os.link: the first one wins.
Unanswered(p) == files[target[p]] = None

\* A snapshot of the complete lines decides, a link publishes.
SelectLive(p) == pc[p] = "reading" /\ (Select(p, "delivering") \/ SelectNone(p))

DeliverLive(p) ==
  /\ pc[p] = "delivering"
  /\ IF Unanswered(p)
     THEN files' = [files EXCEPT ![target[p]] = p] /\ Exit(p, "delivered")
     ELSE Exit(p, "refused") /\ UNCHANGED files
  /\ UNCHANGED <<meta, job, log, completed, mem, live, target>>

-----------------------------------------------------------------------------
(* Run.__init__ and Engine.__init__. *)

\* Bug: the lock is not asked for.
BugConstruct(p) ==
  /\ pc[p] = "construct"
  /\ lock' = p /\ Goto(p, IF meta THEN "load" ELSE "meta")
  /\ UNCHANGED <<meta, job, log, files, completed, mem, live, target, told>>

\* _acquire_lifecycle, before anything durable is looked at.
Construct(p) ==
  /\ pc[p] = "construct" /\ lock = None
  /\ lock' = p /\ Goto(p, IF meta THEN "load" ELSE "meta")
  /\ UNCHANGED <<meta, job, log, files, completed, mem, live, target, told>>

LockedOut(p) ==
  /\ pc[p] = "construct" /\ lock # None
  /\ Exit(p, "locked out")
  /\ UNCHANGED <<meta, job, log, files, completed, mem, live, target>>

WriteMeta(p) ==
  /\ pc[p] = "meta"
  /\ meta' = TRUE /\ Goto(p, "job")
  /\ UNCHANGED <<job, log, files, completed, lock, mem, live, target, told>>

WriteJob(p) ==
  /\ pc[p] = "job"
  /\ job' = TRUE /\ Goto(p, "load")
  /\ UNCHANGED <<meta, log, files, completed, lock, mem, live, target, told>>

\* Journal.load; lines out of sequence raise (LogIsContiguous says there are none).
Load(p) ==
  /\ pc[p] = "load"
  /\ mem' = [mem EXCEPT ![p] = Len(log)]
  /\ Goto(p, CASE log = <<>> -> "open"
               [] log # <<>> /\ Role[p] = "answer" -> "choose"
               [] OTHER -> "drive")
  /\ UNCHANGED <<meta, job, log, files, completed, lock, live, target, told>>

Open(p) ==
  /\ pc[p] = "open"
  /\ Record(p, "opened", None, None)
  /\ Goto(p, IF Role[p] = "answer" THEN "choose" ELSE "drive")
  /\ UNCHANGED <<meta, job, files, completed, lock, live, target, told>>

\* Run.resume: Engine.answer, and only then Engine.run.
SelectOwned(p) == pc[p] = "choose" /\ (Select(p, "link") \/ SelectNone(p))

LinkOwned(p) ==
  /\ pc[p] = "link"
  /\ IF Unanswered(p)
     THEN /\ files' = [files EXCEPT ![target[p]] = p]
          /\ told' = [told EXCEPT ![p] = "answered"]
          /\ Goto(p, "drive") /\ UNCHANGED lock
     ELSE Exit(p, "refused") /\ UNCHANGED files
  /\ UNCHANGED <<meta, job, log, completed, mem, live, target>>

-----------------------------------------------------------------------------
(* Engine.run, as far as its questions and its end go. *)

\* _ask, asked for the first time.
Ask(p, q) ==
  /\ pc[p] = "drive" /\ ~Finished
  /\ q \notin Recorded("asked")
  /\ Record(p, "asked", q, None)
  /\ live' = live \cup {q}
  /\ UNCHANGED <<meta, job, files, completed, lock, pc, target, told>>

\* _ask, replayed by a frame of a resumed run.
Replay(p, q) ==
  /\ pc[p] = "drive" /\ q \in Pending \ live
  /\ live' = live \cup {q}
  /\ UNCHANGED <<meta, job, log, files, completed, lock, pc, mem, target, told>>

\* Bug: only the answers of its own process wake the thread.
BugWaitForNotify(p, q) == files[q] = p

\* The thread looks for the file four times a second, whether or not notified.
Notices(p, q) == files[q] # None

Answered(p, q) ==
  /\ pc[p] \in {"drive", "stopping"} /\ q \in live
  /\ Notices(p, q)
  /\ Record(p, "answered", q, files[q])
  /\ live' = live \ {q}
  /\ UNCHANGED <<meta, job, files, completed, lock, pc, target, told>>

\* A signal or an error: the engine shuts down and cancels its calls.
Stop(p) ==
  /\ pc[p] = "drive" /\ ~Finished
  /\ Goto(p, "stopping")
  /\ UNCHANGED <<meta, job, log, files, completed, lock, mem, live, target, told>>

\* A cancelled ask without an answer is over.  The shutdown cancels every ask, the
\* join of a frame whose worker ended those of the frame.
FailAsk(p, q) ==
  /\ pc[p] \in {"drive", "stopping"} /\ q \in live /\ files[q] = None
  /\ Record(p, "failed", q, None)
  /\ live' = live \ {q}
  /\ UNCHANGED <<meta, job, files, completed, lock, pc, target, told>>

Interrupt(p) ==
  /\ pc[p] = "stopping" /\ live = {}
  /\ Record(p, "interrupted", None, None)
  /\ Exit(p, "interrupted")
  /\ UNCHANGED <<meta, job, files, completed, live, target>>

Finish(p) ==
  /\ pc[p] = "drive" /\ ~Finished /\ Pending = {}
  /\ Record(p, "finished", None, None)
  /\ Goto(p, "complete")
  /\ UNCHANGED <<meta, job, files, completed, lock, live, target, told>>

\* A finished run is not driven again.
FindFinished(p) ==
  /\ pc[p] = "drive" /\ Finished
  /\ Goto(p, "complete")
  /\ UNCHANGED <<meta, job, log, files, completed, lock, mem, live, target, told>>

Complete(p) ==
  /\ pc[p] = "complete"
  /\ completed' = TRUE
  /\ Exit(p, "completed")
  /\ UNCHANGED <<meta, job, log, files, mem, live, target>>

Crash(p) ==
  /\ pc[p] \notin {"probe", "ended"}
  /\ Exit(p, "nothing")
  /\ live' = IF lock = p THEN {} ELSE live
  /\ UNCHANGED <<meta, job, log, files, completed, mem, target>>

-----------------------------------------------------------------------------
Deliver(p) ==
  \/ ProbeFree(p) \/ ProbeReleases(p) \/ ProbeTaken(p)
  \/ SelectLive(p) \/ DeliverLive(p)

Prepare(p) ==
  \/ Construct(p) \/ LockedOut(p) \/ WriteMeta(p) \/ WriteJob(p)
  \/ Load(p) \/ Open(p) \/ SelectOwned(p) \/ LinkOwned(p)

Drive(p) ==
  \/ \E q \in Questions : Ask(p, q) \/ Answered(p, q) \/ FailAsk(p, q)
  \/ Finish(p) \/ FindFinished(p) \/ Interrupt(p) \/ Complete(p)

Next ==
  \E p \in Procs :
    \/ Deliver(p) \/ Prepare(p) \/ Drive(p)
    \/ Stop(p) \/ Crash(p)
    \/ \E q \in Questions : Replay(p, q)

Spec == Init /\ [][Next]_vars

Cancelled(p, q) == pc[p] = "stopping" /\ FailAsk(p, q)

\* A waiting thread wakes up; a process that shuts down or is done goes on.
FairSpec ==
  /\ Spec
  /\ \A p \in Procs :
       /\ \A q \in Questions : WF_vars(Answered(p, q)) /\ WF_vars(Cancelled(p, q))
       /\ WF_vars(Interrupt(p)) /\ WF_vars(Complete(p))

-----------------------------------------------------------------------------
(* Properties. *)

TypeOK ==
  /\ {meta, job, completed} \subseteq BOOLEAN
  /\ log \in Seq([seq : Nat, kind : Kinds, q : Questions \cup {None},
                  text : Procs \cup {None}])
  /\ files \in [Questions -> Procs \cup {None}]
  /\ lock \in Procs \cup {None} /\ live \subseteq Questions
  /\ mem \in [Procs -> Nat] /\ target \in [Procs -> Questions \cup {None}]
  /\ pc \in [Procs -> {"probe", "probing", "reading", "delivering", "construct",
                       "meta", "job", "load", "open", "choose", "link", "drive",
                       "stopping", "complete", "ended"}]
  /\ told \in [Procs -> {"nothing", "not live", "refused", "delivered", "answered",
                         "locked out", "interrupted", "completed"}]

\* However many processes resume, answer and crash, the journal has one writer at a
\* time: its numbers are contiguous (or no load would accept it again), it starts
\* with the opening of a run whose metadata is there, and ends with its finish.
LogIsContiguous ==
  /\ \A i \in DOMAIN log : log[i].seq = i - 1
  /\ \A i \in DOMAIN log : log[i].kind = "opened" <=> i = 1
  /\ \A i \in DOMAIN log : log[i].kind = "finished" => i = Len(log)
  /\ log # <<>> => meta
  /\ completed => Finished

\* Of all who answer a question one is told so, and the frame gets that answer.
OneAnswerEach ==
  \A p \in Procs :
    told[p] \in {"delivered", "answered"} =>
      /\ files[target[p]] = p
      /\ \A i \in DOMAIN log :
           log[i].kind = "answered" /\ log[i].q = target[p] => log[i].text = p

\* An answer given for a question that waits in a live run is noticed there, whichever
\* process wrote it, unless that run ends first.
AnswerIsHeard ==
  \A q \in Questions :
    (q \in live /\ files[q] # None) ~> (q \in Settled \/ q \notin live)
=============================================================================
