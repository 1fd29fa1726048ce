---------------------------- MODULE Integration ----------------------------
(***************************************************************************)
(* What a dispatch does to Git: the branches of a caller frame and of its  *)
(* children, the integration of an exited child into the caller's branch   *)
(* (a durable intent, a fast-forward, a durable receipt), temporary refs,  *)
(* path ownership between parallel siblings, retry_frame, and the guard    *)
(* that lets an outcome-less frame be relaunched only at a tip that the    *)
(* journal explains.  The engine may crash between any two writes, and the *)
(* workers of its frames may go on for a while, at most until the next     *)
(* engine reaps them.                                                      *)
(*                                                                         *)
(* Abstracted: a tip is the sequence of commits behind it, so a reapplied  *)
(* commit keeps its name but not its place; a commit touches the paths of  *)
(* its frame.  The caller is the root and is not followed into its own     *)
(* exit; children call no tools.  Workers only add commits.  A commit      *)
(* that is reapplied to the same base again is the same commit, where      *)
(* Git would give it another name.  A failure of provisioning is an exit   *)
(* as failed.                                                              *)
(***************************************************************************)
EXTENDS Naturals, Sequences, SequencesExt

CONSTANTS
  Tasks,        \* number of tasks of the dispatch
  Paths,        \* task -> the paths its commits touch
  MaxCommits,   \* bound: commits each frame makes itself
  MaxRetries,   \* bound: retry_frame calls
  MaxRestarts,  \* bound: restarts of the engine process
  None

Caller   == 0
Children == 1..Tasks
Frames   == 0..Tasks

ASSUME ConstantsAssumption ==
  /\ Tasks \in Nat /\ MaxCommits \in Nat /\ MaxRetries \in Nat /\ MaxRestarts \in Nat
  /\ DOMAIN Paths = Children
  /\ None \notin Seq(Frames \X Nat)
  /\ None \notin [base : Seq(Frames \X Nat), cand : Seq(Frames \X Nat)]
  /\ None \notin [type : {"integrating"}, base : Seq(Frames \X Nat), tip : Seq(Frames \X Nat)]

VARIABLES
  \* the journal
  log,          \* frame -> its events that name a tip, in order
  base,         \* frame -> its base_commit, or None before frame_pushed
  outcome,      \* frame -> outcome of its attempt, or "none"
  head,         \* child -> head of its frame_exited
  popped,       \* child -> was its attempt popped?
  integrating,  \* child -> its pending intent, or None
  integrated,   \* child -> its receipt, or None
  call,         \* the caller's latest dispatch
  repushed,     \* was the child of a pending retry pushed since its call?
  blocked,      \* frame -> tip found by frame_relaunch_blocked, or None
  \* Git
  tip,          \* frame -> tip of its branch, or None
  temp,         \* child -> its temporary integration ref, or None
  \* the engine process
  up,           \* is there one?
  live,         \* frame -> its launch: "no", "branched" or "running"
  body,         \* the dispatch in flight: "no", "entered", "working", "failing"
  batch,        \* the base of parallel children
  owned,        \* the paths claimed in this dispatch
  done,         \* children whose task has ended in it
  at,           \* the integration in progress
  \* bounds
  made, retries, restarts

durable == <<log, base, outcome, head, popped, integrating, integrated, call,
             repushed, blocked>>
git     == <<tip, temp>>
memory  == <<live, body, batch, owned, done, at>>
bounds  == <<made, retries, restarts>>
vars    == <<durable, git, up, memory, bounds>>

NoCall == [children |-> {}, open |-> FALSE, parallel |-> FALSE, retry |-> FALSE]
Idle   == [child |-> Caller, step |-> "no", base |-> <<>>, cand |-> <<>>]

Init ==
  /\ log = [f \in Frames |-> <<>>]
  /\ base = [f \in Frames |-> IF f = Caller THEN <<>> ELSE None]
  /\ outcome = [f \in Frames |-> "none"]
  /\ head = [c \in Children |-> None] /\ popped = [c \in Children |-> FALSE]
  /\ integrating = [c \in Children |-> None] /\ integrated = [c \in Children |-> None]
  /\ call = NoCall /\ repushed = FALSE
  /\ blocked = [f \in Frames |-> None]
  /\ tip = [f \in Frames |-> IF f = Caller THEN <<>> ELSE None]
  /\ temp = [c \in Children |-> None]
  /\ up = TRUE
  /\ live = [f \in Frames |-> IF f = Caller THEN "running" ELSE "no"]
  /\ body = "no" /\ batch = None /\ owned = {} /\ done = {} /\ at = Idle
  /\ made = [f \in Frames |-> 0] /\ retries = 0 /\ restarts = 0

-----------------------------------------------------------------------------
(* The tips that the journal explains (_explained_frame_tips).             *)

Called(t)         == [type |-> "called", base |-> <<>>, tip |-> t]
Exited(t)         == [type |-> "exited", base |-> <<>>, tip |-> t]
Integrates(b, t)  == [type |-> "integrating", base |-> b, tip |-> t]
Integrated(b, t)  == [type |-> "integrated", base |-> b, tip |-> t]

\* The walk may go on from its completed tip to t.
Reaches(f, s, t) == IsPrefix(s.tip, t)
Observes(f, s, t) == Reaches(f, s, t) /\ (t = s.tip \/ IsPrefix(t, tip[f]))

\* Bug: the heads observed at tool calls are not walked.
BugIgnoresCalls(f, s, e) ==
  CASE e.type = "exited" ->
         IF s.pending = None /\ Observes(f, s, e.tip) THEN [s EXCEPT !.tip = e.tip] ELSE s
    [] e.type = "integrating" ->
         IF s.pending = None /\ Observes(f, s, e.base)
         THEN [tip |-> e.base, pending |-> e] ELSE s
    [] e.type = "integrated" ->
         IF s.tip = e.base \/ s.pending = Integrates(e.base, e.tip)
         THEN [tip |-> e.tip, pending |-> None] ELSE s
    [] OTHER -> s

\* One event of the walk of frame f.
Walk(f, s, e) ==
  CASE e.type = "called" ->
         IF s.pending = None /\ Reaches(f, s, e.tip) THEN [s EXCEPT !.tip = e.tip] ELSE s
    [] e.type = "exited" ->
         IF s.pending = None /\ Observes(f, s, e.tip) THEN [s EXCEPT !.tip = e.tip] ELSE s
    [] e.type = "integrating" ->
         IF s.pending = None /\ Observes(f, s, e.base)
         THEN [tip |-> e.base, pending |-> e] ELSE s
    [] e.type = "integrated" ->
         IF \/ s.tip = e.base
            \/ s.pending = None /\ Observes(f, s, e.base)
            \/ s.pending = Integrates(e.base, e.tip)
         THEN [tip |-> e.tip, pending |-> None] ELSE s

Walked(f) ==
  LET walk[n \in 0..Len(log[f])] ==
        IF n = 0 THEN [tip |-> base[f], pending |-> None]
        ELSE Walk(f, walk[n - 1], log[f][n])
  IN walk[Len(log[f])]

ExpectedTip(f) ==
  LET s == Walked(f) IN IF s.pending = None THEN s.tip ELSE s.pending.tip

\* Bug: any tip may be relaunched.
BugExplainsAll(f) == TRUE

Explained(f) ==
  LET s == Walked(f) IN
  tip[f] \in IF s.pending = None THEN {s.tip} ELSE {s.pending.base, s.pending.tip}

\* Frames that are parked and must stay so (_raise_active_relaunch_block).
Parked == {f \in Frames : outcome[f] = "none" /\ blocked[f] # None /\ ~Explained(f)}

Note(f, e) == log' = [log EXCEPT ![f] = Append(@, e)]

-----------------------------------------------------------------------------
(* Workers and calls of the caller.                                        *)

\* The worker of f, or the auto-commit of its launch, adds to its branch.  A
\* caller that waits for its dispatch does not.  A worker does not need an
\* engine to commit.
WorkerCommits(f) ==
  /\ live[f] = "running" /\ made[f] < MaxCommits
  /\ f = Caller => body = "no"
  /\ tip' = [tip EXCEPT ![f] = Append(@, <<f, made[f]>>)]
  /\ made' = [made EXCEPT ![f] = @ + 1]
  /\ UNCHANGED <<durable, temp, up, memory, retries, restarts>>

MayCall == up /\ live[Caller] = "running" /\ body = "no"

\* A gate or an ask records the head of a clean caller.  (Bound: only when
\* no event named this tip yet.)
Observe ==
  /\ MayCall /\ ~call.open
  /\ \A i \in DOMAIN log[Caller] : log[Caller][i].tip # tip[Caller]
  /\ Note(Caller, Called(tip[Caller]))
  /\ UNCHANGED <<base, outcome, head, popped, integrating, integrated, call,
                 repushed, blocked, git, up, memory, bounds>>

\* dispatch_called.
CallDispatch(parallel) ==
  /\ MayCall /\ call = NoCall /\ (parallel => Tasks > 1)
  /\ call' = [NoCall EXCEPT !.children = Children, !.open = TRUE,
                            !.parallel = parallel]
  /\ Note(Caller, Called(tip[Caller]))
  /\ body' = "entered"
  /\ UNCHANGED <<base, outcome, head, popped, integrating, integrated, repushed,
                 blocked, git, up, live, batch, owned, done, at, bounds>>

\* dispatch_called with retry_frame, for a failed direct child.
CallRetry(c) ==
  /\ MayCall /\ call # NoCall /\ ~call.open /\ retries < MaxRetries
  /\ base[c] # None /\ outcome[c] = "failed"
  /\ call' = [NoCall EXCEPT !.children = {c}, !.open = TRUE, !.retry = TRUE]
  /\ repushed' = FALSE
  /\ retries' = retries + 1
  /\ Note(Caller, Called(tip[Caller]))
  /\ body' = "entered"
  /\ UNCHANGED <<base, outcome, head, popped, integrating, integrated, blocked,
                 git, up, live, batch, owned, done, at, made, restarts>>

\* The pending dispatch is replayed, by a new attempt or after an error.
ReplayCall ==
  /\ MayCall /\ call.open
  /\ body' = "entered"
  /\ UNCHANGED <<durable, git, up, live, batch, owned, done, at, bounds>>

\* What the attempt adds to its base.
Source(c) == SubSeq(head[c], Len(base[c]) + 1, Len(head[c]))
SourcePaths(c) == IF Source(c) = <<>> THEN {} ELSE Paths[c]

\* Bug: only landed siblings own their paths.
BugClaimsLanded ==
  UNION {SourcePaths(c) : c \in {d \in Children : integrated[d] # None}}

\* _parallel_owned_paths: receipts and intents.
Claims ==
  UNION {SourcePaths(c) : c \in {d \in Children :
                                   integrated[d] # None \/ integrating[d] # None}}

\* The body of the dispatch begins.
EnterBody ==
  /\ up /\ body = "entered"
  /\ body' = "working"
  /\ batch' = tip[Caller]
  /\ owned' = IF call.parallel THEN Claims ELSE {}
  /\ done' = {}
  /\ UNCHANGED <<durable, git, up, live, at, bounds>>

-----------------------------------------------------------------------------
(* The launch of a child.                                                  *)

\* It is the turn of a task that has not ended.  The parallel siblings of a
\* blocked child still get theirs.
Turn(c) ==
  /\ up /\ c \in call.children \ done /\ live[c] = "no"
  /\ body = "working" \/ (body = "failing" /\ call.parallel)
  /\ call.parallel \/ \A d \in call.children : d < c => d \in done

NeedsLaunch(c) ==
  \/ outcome[c] = "none"
  \/ call.retry /\ outcome[c] = "failed" /\ ~repushed

\* A fresh child gets its branch, at the caller's tip.
Branch(c) ==
  /\ Turn(c) /\ NeedsLaunch(c)
  /\ base[c] = None /\ tip[c] = None
  /\ tip' = [tip EXCEPT ![c] = IF call.parallel THEN batch ELSE tip[Caller]]
  /\ live' = [live EXCEPT ![c] = "branched"]
  /\ UNCHANGED <<durable, temp, up, body, batch, owned, done, at, bounds>>

\* A branch without a durable owner is never adopted: the task has failed.
RejectBranch(c) ==
  /\ Turn(c) /\ base[c] = None /\ tip[c] # None
  /\ done' = done \cup {c}
  /\ UNCHANGED <<durable, git, up, live, body, batch, owned, at, bounds>>

\* A durable child gets a worktree on its branch: after the guard if it has
\* no outcome; a retry first drops the temporary ref of an old intent.
Reopen(c) ==
  /\ Turn(c) /\ NeedsLaunch(c) /\ base[c] # None
  /\ outcome[c] = "none" => Explained(c)
  /\ live' = [live EXCEPT ![c] = "branched"]
  /\ temp' = IF call.retry /\ integrating[c] # None
             THEN [temp EXCEPT ![c] = None] ELSE temp
  /\ UNCHANGED <<durable, tip, up, body, batch, owned, done, at, bounds>>

\* The guard raises: the dispatch stays pending, its siblings run out.
BlockChild(c) ==
  /\ Turn(c) /\ base[c] # None /\ outcome[c] = "none" /\ ~Explained(c)
  /\ blocked' = [blocked EXCEPT ![c] = tip[c]]
  /\ done' = done \cup {c}
  /\ body' = "failing"
  /\ UNCHANGED <<log, base, outcome, head, popped, integrating, integrated, call,
                 repushed, git, up, live, batch, owned, at, bounds>>

EndFailing ==
  /\ up /\ body = "failing" /\ at = Idle /\ \A c \in Children : live[c] = "no"
  /\ call.parallel => \A c \in call.children : c \in done \/ outcome[c] # "none"
  /\ body' = "no"
  /\ UNCHANGED <<durable, git, up, live, batch, owned, done, at, bounds>>

\* frame_pushed.
Push(c) ==
  /\ up /\ live[c] = "branched"
  /\ live' = [live EXCEPT ![c] = "running"]
  /\ base' = [base EXCEPT ![c] = IF @ = None THEN tip[c] ELSE @]
  /\ outcome' = [outcome EXCEPT ![c] = "none"]
  /\ head' = [head EXCEPT ![c] = None]
  /\ popped' = [popped EXCEPT ![c] = FALSE]
  /\ integrating' = [integrating EXCEPT ![c] = None]
  /\ integrated' = [integrated EXCEPT ![c] = None]
  /\ blocked' = [blocked EXCEPT ![c] = None]
  /\ repushed' = call.retry
  /\ UNCHANGED <<log, call, git, up, body, batch, owned, done, at, bounds>>

\* frame_exited, at the head of the worktree, unless a frame is parked.  A launch
\* whose provisioning fails does not look for parked frames: its worker never ran,
\* and added nothing.
ExitChild(c, o) ==
  /\ up /\ live[c] = "running"
  /\ Parked = {} \/ (o = "failed" /\ Explained(c))
  /\ live' = [live EXCEPT ![c] = "no"]
  /\ outcome' = [outcome EXCEPT ![c] = o]
  /\ head' = [head EXCEPT ![c] = tip[c]]
  /\ Note(c, Exited(tip[c]))
  /\ UNCHANGED <<base, popped, integrating, integrated, call, repushed, blocked,
                 git, up, body, batch, owned, done, at, bounds>>

\* A parked frame keeps any other from its exit: the launch raises, and the
\* frame stays without an outcome at whatever tip its worker left.
UnwindChild(c) ==
  /\ up /\ live[c] = "running" /\ Parked # {}
  /\ live' = [live EXCEPT ![c] = "no"]
  /\ done' = done \cup {c}
  /\ body' = "failing"
  /\ UNCHANGED <<durable, git, up, batch, owned, at, bounds>>

-----------------------------------------------------------------------------
(* _finish_child and _integrate_frame, one child at a time.                *)

Finishes(c) == Turn(c) /\ at = Idle /\ ~NeedsLaunch(c)

FinishFailed(c) ==
  /\ Finishes(c) /\ outcome[c] = "failed"
  /\ popped' = [popped EXCEPT ![c] = TRUE]
  /\ done' = done \cup {c}
  /\ UNCHANGED <<log, base, outcome, head, integrating, integrated, call, repushed,
                 blocked, git, up, live, body, batch, owned, at, bounds>>

\* A receipt is final.
FinishIntegrated(c) ==
  /\ Finishes(c) /\ outcome[c] = "ok" /\ integrated[c] # None
  /\ popped' = [popped EXCEPT ![c] = TRUE]
  /\ done' = done \cup {c}
  /\ owned' = owned \cup SourcePaths(c)
  /\ UNCHANGED <<log, base, outcome, head, integrating, integrated, call, repushed,
                 blocked, git, up, live, body, batch, at, bounds>>

IntegrateStays ==
  UNCHANGED <<base, outcome, head, call, repushed, blocked, up, live, body, batch,
              bounds>>

\* An intent is taken up again.  Without one, a source whose paths are
\* claimed is refused, any other starts from the tip the caller has now.
StartIntegration(c) ==
  /\ Finishes(c) /\ outcome[c] = "ok" /\ integrated[c] = None
  /\ at' = IF integrating[c] # None
           THEN [child |-> c, step |-> "advance",
                 base |-> integrating[c].base, cand |-> integrating[c].cand]
           ELSE [child |-> c, base |-> tip[Caller], cand |-> <<>>,
                 step |-> IF call.parallel /\ SourcePaths(c) \cap owned # {}
                          THEN "fail" ELSE "reapply"]
  /\ UNCHANGED <<log, popped, integrating, integrated, git, owned, done>>
  /\ IntegrateStays

Goto(step) == at' = [at EXCEPT !.step = step]

\* The source as it is if the caller did not move, and cherry-picked onto
\* its tip otherwise, held by a temporary ref.  Cherry-picking may conflict,
\* and always does for a commit that is there already.
Reapply ==
  LET c == at.child
      isThere == \E i \in DOMAIN at.base : Contains(Source(c), at.base[i])
      cand == at.base \o Source(c)
  IN
  /\ up /\ at.step = "reapply"
  /\ \/ /\ at.base = base[c]
        /\ at' = [at EXCEPT !.step = "intent", !.cand = head[c]]
        /\ UNCHANGED temp
     \/ /\ at.base # base[c] /\ ~isThere /\ temp[c] = None
        /\ at' = [at EXCEPT !.step = "intent", !.cand = cand]
        /\ temp' = [temp EXCEPT ![c] = cand]
     \/ at.base # base[c] /\ Goto("fail") /\ UNCHANGED temp
  /\ UNCHANGED <<log, popped, integrating, integrated, tip, owned, done>>
  /\ IntegrateStays

\* frame_integrating.
LogIntent ==
  /\ up /\ at.step = "intent"
  /\ integrating' = [integrating EXCEPT ![at.child] =
                       [base |-> at.base, cand |-> at.cand]]
  /\ Note(Caller, Integrates(at.base, at.cand))
  /\ Goto("advance")
  /\ UNCHANGED <<popped, integrated, git, owned, done>> /\ IntegrateStays

\* Bug: an intent that was carried out before a crash is not recognized.
BugForgetsLanding == tip[Caller] = at.cand /\ at.cand = at.base

\* Bug: a target that moved is taken for one that has the candidate.
BugAnyMoveLanded == tip[Caller] # at.base

\* The target has the candidate already.
HasLanded == tip[Caller] = at.cand

\* Repository.advance: the target is at the candidate, or at the base and
\* fast-forwarded, which Git may refuse; a third tip is a divergence.
Advance ==
  /\ up /\ at.step = "advance"
  /\ \/ HasLanded /\ Goto("landed") /\ UNCHANGED tip
     \/ /\ ~HasLanded /\ tip[Caller] = at.base
        /\ tip' = [tip EXCEPT ![Caller] = at.cand]
        /\ Goto("landed")
     \/ ~HasLanded /\ Goto("fail") /\ UNCHANGED tip
  /\ UNCHANGED <<log, popped, integrating, integrated, temp, owned, done>>
  /\ IntegrateStays

\* frame_integrated.
LogReceipt ==
  LET c == at.child IN
  /\ up /\ at.step = "landed"
  /\ integrated' = [integrated EXCEPT ![c] = [base |-> at.base, cand |-> at.cand]]
  /\ integrating' = [integrating EXCEPT ![c] = None]
  /\ Note(Caller, Integrated(at.base, at.cand))
  /\ Goto("receipt")
  /\ UNCHANGED <<popped, git, owned, done>> /\ IntegrateStays

\* The temporary ref is dropped, the paths are claimed.
Claim ==
  /\ up /\ at.step = "receipt"
  /\ temp' = [temp EXCEPT ![at.child] = None]
  /\ owned' = owned \cup SourcePaths(at.child)
  /\ Goto("pop")
  /\ UNCHANGED <<log, popped, integrating, integrated, tip, done>> /\ IntegrateStays

\* frame_popped, of a child that landed or whose integration failed.
Pop ==
  LET c == at.child IN
  /\ up /\ at.step \in {"pop", "fail"}
  /\ popped' = [popped EXCEPT ![c] = TRUE]
  /\ outcome' = [outcome EXCEPT ![c] = IF at.step = "pop" THEN "ok" ELSE "failed"]
  /\ done' = done \cup {c}
  /\ at' = Idle
  /\ UNCHANGED <<log, base, head, integrating, integrated, call, repushed, blocked,
                 git, up, live, body, batch, owned, bounds>>

\* dispatch_returned.
Return ==
  /\ up /\ body = "working" /\ done = call.children
  /\ call' = [call EXCEPT !.open = FALSE]
  /\ body' = "no"
  /\ UNCHANGED <<log, base, outcome, head, popped, integrating, integrated, repushed,
                 blocked, git, up, live, batch, owned, done, at, bounds>>

-----------------------------------------------------------------------------
(* The engine process.                                                     *)

\* Workers go on.
Crash ==
  /\ up
  /\ up' = FALSE
  /\ live' = [f \in Frames |-> IF live[f] = "running" THEN "running" ELSE "no"]
  /\ body' = "no" /\ batch' = None /\ owned' = {} /\ done' = {} /\ at' = Idle
  /\ UNCHANGED <<durable, git, bounds>>

\* Bug: every temporary ref is swept.
BugRetainsNone == {}

Retained == {c \in Children : integrating[c] # None}

\* The next engine sweeps temporary refs, verifies the receipts and reaps
\* the workers that are left.  Of a receipt that landed nothing it looks for no
\* candidate.
Restart ==
  /\ ~up /\ restarts < MaxRestarts
  /\ \A c \in Children :
       integrated[c] # None /\ integrated[c].cand # integrated[c].base =>
         IsPrefix(integrated[c].cand, tip[Caller])
  /\ up' = TRUE
  /\ restarts' = restarts + 1
  /\ temp' = [c \in Children |-> IF c \in Retained THEN temp[c] ELSE None]
  /\ live' = [f \in Frames |-> "no"]
  /\ UNCHANGED <<durable, tip, body, batch, owned, done, at, made, retries>>

\* The caller is relaunched with its next frame_pushed.
Relaunch ==
  /\ up /\ live[Caller] = "no"
  /\ Parked = {} /\ Explained(Caller)
  /\ live' = [live EXCEPT ![Caller] = "running"]
  /\ blocked' = [blocked EXCEPT ![Caller] = None]
  /\ UNCHANGED <<log, base, outcome, head, popped, integrating, integrated, call,
                 repushed, git, up, body, batch, owned, done, at, bounds>>

\* A guard raises out of the engine, which ends.
ParkRun(f) ==
  /\ up /\ live[Caller] = "no"
  /\ f \in Parked \/ (Parked = {} /\ f = Caller /\ ~Explained(f))
  /\ blocked' = [blocked EXCEPT ![f] = tip[f]]
  /\ up' = FALSE
  /\ UNCHANGED <<log, base, outcome, head, popped, integrating, integrated, call,
                 repushed, git, memory, bounds>>

\* An operator resets a parked branch to its expected tip, unless a landed
\* child would be lost.
OperatorResets(f) ==
  /\ ~up /\ blocked[f] # None /\ blocked[f] = tip[f] /\ live[f] = "no"
  /\ \A c \in Children :
       f = Caller /\ integrated[c] # None => IsPrefix(integrated[c].cand, ExpectedTip(f))
  /\ tip' = [tip EXCEPT ![f] = ExpectedTip(f)]
  /\ UNCHANGED <<durable, temp, up, memory, bounds>>

-----------------------------------------------------------------------------
ChildStep(c) ==
  \/ Branch(c) \/ RejectBranch(c) \/ Reopen(c) \/ BlockChild(c) \/ Push(c)
  \/ \E o \in {"ok", "failed"} : ExitChild(c, o)
  \/ UnwindChild(c)
  \/ FinishFailed(c) \/ FinishIntegrated(c) \/ StartIntegration(c)

Integrate == Reapply \/ LogIntent \/ Advance \/ LogReceipt \/ Claim \/ Pop

Next ==
  \/ \E f \in Frames : WorkerCommits(f) \/ ParkRun(f) \/ OperatorResets(f)
  \/ Observe \/ ReplayCall \/ EnterBody \/ EndFailing \/ Return
  \/ \E parallel \in BOOLEAN : CallDispatch(parallel)
  \/ \E c \in Children : CallRetry(c) \/ ChildStep(c)
  \/ Integrate
  \/ Crash \/ Restart \/ Relaunch

Spec == Init /\ [][Next]_vars

-----------------------------------------------------------------------------
(* Properties.                                                             *)

Tips    == Seq(Frames \X Nat)
Intents == [base : Tips, cand : Tips]

\* The state is made of values the program can hold.
TypeOK ==
  /\ log \in [Frames -> Seq([type : {"called", "exited", "integrating", "integrated"},
                             base : Tips, tip : Tips])]
  /\ base \in [Frames -> Tips \cup {None}] /\ tip \in [Frames -> Tips \cup {None}]
  /\ outcome \in [Frames -> {"none", "ok", "failed"}]
  /\ head \in [Children -> Tips \cup {None}] /\ temp \in [Children -> Tips \cup {None}]
  /\ popped \in [Children -> BOOLEAN]
  /\ integrating \in [Children -> Intents \cup {None}]
  /\ integrated \in [Children -> Intents \cup {None}]
  /\ call \in [children : SUBSET Children, open : BOOLEAN, parallel : BOOLEAN,
               retry : BOOLEAN]
  /\ repushed \in BOOLEAN /\ blocked \in [Frames -> Tips \cup {None}]
  /\ up \in BOOLEAN /\ live \in [Frames -> {"no", "branched", "running"}]
  /\ body \in {"no", "entered", "working", "failing"}
  /\ batch \in Tips \cup {None} /\ done \subseteq Children
  /\ owned \subseteq UNION {Paths[c] : c \in Children}
  /\ at \in [child : Frames, base : Tips, cand : Tips,
             step : {"no", "reapply", "intent", "advance", "landed", "receipt",
                     "pop", "fail"}]
  /\ made \in [Frames -> Nat]

Landed(c) == \E i \in DOMAIN tip[Caller] : tip[Caller][i][1] = c

\* What the journal calls integrated is on the caller's branch, whatever
\* crashed in between, and a child popped as ok is integrated.
ReceiptsHold ==
  \A c \in Children :
    /\ integrated[c] # None => IsPrefix(integrated[c].cand, tip[Caller])
    /\ popped[c] /\ outcome[c] = "ok" => integrated[c] # None

\* Parallel siblings that share a path never both land, not even when one of
\* them landed unnoticed before a crash.  (A retry is not held to it.)
OwnersAreDisjoint ==
  retries = 0 /\ call.parallel =>
    \A c, d \in Children :
      c # d /\ Landed(c) /\ Landed(d) => Paths[c] \cap Paths[d] = {}

\* The candidate of an intent that is still to be carried out is reachable
\* from a branch or from its temporary ref: Git cannot prune it.
IntentIsHeld ==
  \A c \in Children :
    integrating[c] # None /\ outcome[c] = "ok" =>
      \/ integrating[c].cand = head[c] \/ temp[c] = integrating[c].cand
      \/ IsPrefix(integrating[c].cand, tip[Caller])

\* A child is not reported as failed while its candidate is the caller's tip.
NoFalseFailure ==
  [][ \A c \in Children :
        outcome[c] = "ok" /\ outcome'[c] = "failed" =>
          integrating[c] = None \/ integrating[c].cand # tip[Caller] ]_vars

\* The tips of f that an event of the journal names.
Named(f) == {base[f]} \cup {e.tip : e \in ToSet(log[f])} \cup {e.base : e \in ToSet(log[f])}

\* An outcome-less frame is only relaunched at a tip that some event of the
\* journal names: no commit slips under a second attempt unseen.
GuardIsSound ==
  [][ \A f \in Frames :
        live[f] = "no" /\ live'[f] # "no" /\ base[f] # None /\ outcome[f] = "none" =>
          tip[f] \in Named(f) ]_vars

\* Tips at which a call of f began, or at which a child landed on f.
Observed(f) == {e.tip : e \in {g \in ToSet(log[f]) : g.type \in {"called", "integrated"}}}

\* An intent on f without a receipt whose child was given up.
Abandoned(f) ==
  \E i \in DOMAIN log[f] :
    /\ log[f][i].type = "integrating"
    /\ \A j \in i + 1 .. Len(log[f]) :
         log[f][j] # Integrated(log[f][i].base, log[f][i].tip)

\* The guard only parks a frame at an observed tip if an intent was abandoned.
BlockNeedsAbandonedIntent ==
  \A f \in Frames : blocked[f] # None /\ blocked[f] \in Observed(f) => Abandoned(f)

=============================================================================
