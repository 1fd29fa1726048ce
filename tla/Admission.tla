------------------------------ MODULE Admission ------------------------------
(***************************************************************************)
(* The rails of Engine._dispatch: a dispatch is admitted against the       *)
(* subtree of its caller and of every ancestor of it, reserves a unit per  *)
(* task there, and every first push of a child turns one reserved unit     *)
(* into a durable descendant.  Callers in different branches of the tree   *)
(* dispatch at the same time; the reservations are lost in a crash and     *)
(* rebuilt from the pending calls of the journal.                          *)
(*                                                                         *)
(* Abstracted: who dispatches what, if it does, is fixed (a call names the *)
(* frames of its tasks; a frame's rig is its cost); costs are whole        *)
(* numbers.  Dispatches are parallel (a serial one pushes its children in  *)
(* one of the orders).  Left out: retry_frame, which pushes a frame that   *)
(* is a descendant already, calls that are not dispatches, and append      *)
(* failures.  A body that ends, by whatever exception (its children's or   *)
(* the skill library's, engine.py 1180-1193), clears its reservation and   *)
(* then returns or fails; it returns once all that it pushed has exited.   *)
(***************************************************************************)
EXTENDS Naturals, FiniteSets

CONSTANTS
  Frames, Root,
  Above,        \* frame -> itself and its ancestors
  Cost,         \* frame -> the cost of its rig
  Calls,        \* numbers of dispatch calls, in the order of their callers
  Caller,       \* call -> frame
  Tasks,        \* call -> the frames of its tasks
  Disallowed,   \* calls that name an unknown rig
  MaxDepth, MaxBreadth, MaxFrames, MaxSpend,   \* the AdmissionPolicy
  MaxRestarts   \* bound: restarts of the engine process

ASSUME ConstantsAssumption ==
  /\ IsFiniteSet(Frames) /\ Root \in Frames
  /\ Above \in [Frames -> SUBSET Frames] /\ Above[Root] = {Root}
  /\ Cost \in [Frames -> Nat \ {0}]
  /\ Calls \subseteq Nat /\ IsFiniteSet(Calls)
  /\ Caller \in [Calls -> Frames] /\ Tasks \in [Calls -> SUBSET (Frames \ {Root})]
  /\ \A c \in Calls : \A f \in Tasks[c] : Above[f] = {f} \cup Above[Caller[c]]
  /\ \A c, d \in Calls : c # d => Tasks[c] \cap Tasks[d] = {}
  /\ Disallowed \subseteq Calls
  /\ {MaxDepth, MaxBreadth, MaxFrames, MaxSpend, MaxRestarts} \subseteq Nat

VARIABLES
  \* the journal
  called,      \* calls with a dispatch_called
  result,      \* call -> what completed or refused it, or "none"
  pushed,      \* frames with a frame_pushed
  exited,      \* frames with an outcome
  \* the engine process
  up,          \* is there one?
  live,        \* frames whose launch is running
  step,        \* call -> where its handler is
  touched,     \* calls begun or replayed by the present attempt of their caller
  table,       \* _dispatch_reservations
  resFrames,   \* _reservation_frames
  resSpend,    \* _reservation_spend
  \* history and bound
  loose,       \* calls that came back from a crash, or were run again,
               \* without the reservation of their tasks
  restarts

journal  == <<called, result, pushed, exited>>
reserved == <<table, resFrames, resSpend>>
vars     == <<journal, up, live, step, touched, reserved, loose, restarts>>

\* The sum of the weights of the members of S, counted unit by unit.
Total(w, S) == Cardinality(UNION {{x} \X (1..w[x]) : x \in S})

SumCost(S) == Total(Cost, S)

Nothing == [frames |-> 0, spend |-> 0]

\* What a dispatch reserves for the tasks in S.
Units(S) == [frames |-> Cardinality(S), spend |-> SumCost(S)]

Unlaunched(c) == Tasks[c] \ pushed
Pending(c)    == c \in called /\ result[c] = "none"

Init ==
  /\ called = {} /\ result = [c \in Calls |-> "none"]
  /\ pushed = {Root} /\ exited = {}
  /\ up = TRUE /\ live = {Root}
  /\ step = [c \in Calls |-> "no"] /\ touched = {}
  /\ table = [c \in Calls |-> Nothing]
  /\ resFrames = [f \in Frames |-> 0] /\ resSpend = [f \in Frames |-> 0]
  /\ loose = {} /\ restarts = 0

Goto(c, s) == step' = [step EXCEPT ![c] = s]

-----------------------------------------------------------------------------
(* The rails.                                                              *)

Depth(f)       == Cardinality(Above[f]) - 1
Descendants(f) == {g \in pushed \ {f} : f \in Above[g]}

\* _subtree_admission_usage.
FramesUsed(f) == Cardinality(Descendants(f)) + resFrames[f]
SpendUsed(f)  == SumCost(Descendants(f)) + resSpend[f]

ShapeFits(c) ==
  Depth(Caller[c]) + 1 <= MaxDepth /\ Cardinality(Tasks[c]) <= MaxBreadth

FramesFit(c, f) == FramesUsed(f) + Cardinality(Tasks[c]) <= MaxFrames
SpendFits(c, f) == SpendUsed(f) + SumCost(Tasks[c]) <= MaxSpend

\* The rigs are resolved before the spend, at the caller itself.
RigRefused(c) ==
  ShapeFits(c) /\ FramesFit(c, Caller[c]) /\ c \in Disallowed

\* Bug: only the subtree of the caller is looked at.
BugCallerOnly(c) ==
  /\ ShapeFits(c) /\ c \notin Disallowed
  /\ FramesFit(c, Caller[c]) /\ SpendFits(c, Caller[c])

\* admit_dispatch, for the caller and every ancestor.
Admits(c) ==
  /\ ShapeFits(c) /\ c \notin Disallowed
  /\ \A f \in Above[Caller[c]] : FramesFit(c, f) /\ SpendFits(c, f)

\* Bug: only the caller's subtree gives its units back.
BugSubtractsOnce(c, u) ==
  /\ resFrames' = [resFrames EXCEPT ![Caller[c]] = @ - u.frames]
  /\ resSpend' = [resSpend EXCEPT ![Caller[c]] = @ - u.spend]

\* The units u of call c leave, or enter, the counters above it.
Subtract(c, u) ==
  /\ resFrames' = [f \in Frames |->
       IF f \in Above[Caller[c]] THEN resFrames[f] - u.frames ELSE resFrames[f]]
  /\ resSpend' = [f \in Frames |->
       IF f \in Above[Caller[c]] THEN resSpend[f] - u.spend ELSE resSpend[f]]

Add(c, u) ==
  /\ resFrames' = [f \in Frames |->
       IF f \in Above[Caller[c]] THEN resFrames[f] + u.frames ELSE resFrames[f]]
  /\ resSpend' = [f \in Frames |->
       IF f \in Above[Caller[c]] THEN resSpend[f] + u.spend ELSE resSpend[f]]

-----------------------------------------------------------------------------
(* A dispatch.                                                             *)

\* The caller is at work, in no other call, and done with its earlier ones.
MayCall(c) ==
  /\ up /\ Caller[c] \in live
  /\ \A d \in Calls : Caller[d] = Caller[c] =>
       step[d] = "no" /\ (d < c => result[d] # "none")

\* Under the admission lock: checked, reserved and journalled at once.
Admit(c) ==
  /\ MayCall(c) /\ c \notin called /\ result[c] = "none"
  /\ Admits(c)
  /\ called' = called \cup {c}
  /\ touched' = touched \cup {c}
  /\ table' = [table EXCEPT ![c] = Units(Tasks[c])]
  /\ Add(c, Units(Tasks[c]))
  /\ Goto(c, "working")
  /\ UNCHANGED <<result, pushed, exited, up, live, loose, restarts>>

\* An unknown rig is a call_refused, without a dispatch_called.
RefuseRig(c) ==
  /\ MayCall(c) /\ c \notin called /\ result[c] = "none"
  /\ RigRefused(c)
  /\ result' = [result EXCEPT ![c] = "call_refused"]
  /\ UNCHANGED <<called, pushed, exited, up, live, step, touched, reserved, loose,
                 restarts>>

\* Any other refusal leaves the lock with nothing reserved...
TurnAway(c) ==
  /\ MayCall(c) /\ c \notin called /\ result[c] = "none"
  /\ ~Admits(c) /\ ~RigRefused(c)
  /\ Goto(c, "turned")
  /\ UNCHANGED <<journal, up, live, touched, reserved, loose, restarts>>

\* ... is journalled as called...
LogTurnedAway(c) ==
  /\ up /\ step[c] = "turned"
  /\ called' = called \cup {c}
  /\ touched' = touched \cup {c}
  /\ Goto(c, "refusing")
  /\ UNCHANGED <<result, pushed, exited, up, live, reserved, loose, restarts>>

\* ... and then as returned.
ReturnRefusal(c) ==
  /\ up /\ step[c] = "refusing"
  /\ result' = [result EXCEPT ![c] = "refused"]
  /\ Goto(c, "no")
  /\ UNCHANGED <<called, pushed, exited, up, live, touched, reserved, loose, restarts>>

\* A pending call is replayed, and not checked again.
Replay(c) ==
  /\ MayCall(c) /\ Pending(c)
  /\ touched' = touched \cup {c}
  /\ loose' = IF table[c] # Units(Unlaunched(c)) THEN loose \cup {c} ELSE loose
  /\ Goto(c, "working")
  /\ UNCHANGED <<journal, up, live, reserved, restarts>>

\* _consume_dispatch_reservation, if there is one.
Consume(c, f) ==
  IF table[c].frames = 0 THEN UNCHANGED reserved
  ELSE LET u == table[c] IN
       /\ table' = [table EXCEPT ![c] =
            [frames |-> u.frames - 1, spend |-> u.spend - Cost[f]]]
       /\ Subtract(c, Units({f}))

\* The first push of a child, under the admission lock.
Push(c, f) ==
  /\ up /\ step[c] = "working" /\ f \in Unlaunched(c)
  /\ pushed' = pushed \cup {f}
  /\ live' = live \cup {f}
  /\ Consume(c, f)
  /\ UNCHANGED <<called, result, exited, up, step, touched, loose, restarts>>

\* What a launch and an exit of frame f do to the calls of its last attempt:
\* those that were begun and never returned are failed.
Settle(f) ==
  /\ result' = [c \in Calls |->
       IF Caller[c] = f /\ c \in touched /\ Pending(c) THEN "failed" ELSE result[c]]
  /\ touched' = {c \in touched : Caller[c] # f}

AtRest(f) == \A c \in Calls : Caller[c] = f => step[c] = "no"

\* A child without an outcome is launched again by the replay of its call,
\* the root by the engine.
Relaunch(f) ==
  /\ up /\ f \in pushed \ (exited \cup live)
  /\ f # Root => \E c \in Calls : step[c] = "working" /\ f \in Tasks[c]
  /\ live' = live \cup {f}
  /\ Settle(f)
  /\ UNCHANGED <<called, pushed, exited, up, step, reserved, loose, restarts>>

\* frame_exited.
ExitFrame(f) ==
  /\ up /\ f \in live /\ AtRest(f)
  /\ exited' = exited \cup {f}
  /\ live' = live \ {f}
  /\ Settle(f)
  /\ UNCHANGED <<called, pushed, up, step, reserved, loose, restarts>>

\* The launch of a child raises after its push: it has no outcome.
Unwind(f) ==
  /\ up /\ f \in live \ {Root} /\ AtRest(f)
  /\ live' = live \ {f}
  /\ UNCHANGED <<journal, up, step, touched, reserved, loose, restarts>>

\* _clear_dispatch_reservation: what was not launched is given back.
Clear(c) ==
  /\ table' = [table EXCEPT ![c] = Nothing]
  /\ Subtract(c, table[c])

\* The body of the dispatch ends, by itself or with an exception.
EndBody(c) ==
  /\ up /\ step[c] = "working" /\ Tasks[c] \cap live = {}
  /\ Goto(c, "ending")
  /\ Clear(c)
  /\ UNCHANGED <<journal, up, live, touched, loose, restarts>>

\* dispatch_returned; a task that was never pushed counts as failed.
Return(c) ==
  /\ up /\ step[c] = "ending" /\ Tasks[c] \cap pushed \subseteq exited
  /\ result' = [result EXCEPT ![c] = "returned"]
  /\ Goto(c, "no")
  /\ UNCHANGED <<called, pushed, exited, up, live, touched, reserved, loose, restarts>>

\* An exception leaves the call pending.
Fail(c) ==
  /\ up /\ step[c] = "ending"
  /\ Goto(c, "no")
  /\ UNCHANGED <<journal, up, live, touched, reserved, loose, restarts>>

-----------------------------------------------------------------------------
(* The engine process.                                                     *)

Crash ==
  /\ up
  /\ up' = FALSE
  /\ loose' = loose \cup
       {c \in Calls : Pending(c) /\ table[c] # Units(Unlaunched(c))}
  /\ live' = {} /\ touched' = {}
  /\ step' = [c \in Calls |-> "no"]
  /\ table' = [c \in Calls |-> Nothing]
  /\ resFrames' = [f \in Frames |-> 0] /\ resSpend' = [f \in Frames |-> 0]
  /\ UNCHANGED <<journal, restarts>>

\* What _restore_dispatch_reservations finds for call c.
Restored(c) == IF Pending(c) THEN Units(Unlaunched(c)) ELSE Nothing

RestoredFrames == [c \in Calls |-> Restored(c).frames]
RestoredSpend  == [c \in Calls |-> Restored(c).spend]

\* The calls in the subtree of f.
CallsBelow(f) == {c \in Calls : f \in Above[Caller[c]]}

\* The next engine rebuilds the reservations of every pending dispatch.
Restart ==
  /\ ~up /\ restarts < MaxRestarts
  /\ up' = TRUE /\ restarts' = restarts + 1
  /\ table' = [c \in Calls |-> Restored(c)]
  /\ resFrames' = [f \in Frames |-> Total(RestoredFrames, CallsBelow(f))]
  /\ resSpend' = [f \in Frames |-> Total(RestoredSpend, CallsBelow(f))]
  /\ UNCHANGED <<journal, live, step, touched, loose>>

-----------------------------------------------------------------------------
Next ==
  \/ \E c \in Calls :
       \/ Admit(c) \/ RefuseRig(c) \/ TurnAway(c) \/ LogTurnedAway(c)
       \/ ReturnRefusal(c) \/ Replay(c) \/ EndBody(c) \/ Return(c) \/ Fail(c)
       \/ \E f \in Tasks[c] : Push(c, f)
  \/ \E f \in Frames : Relaunch(f) \/ ExitFrame(f) \/ Unwind(f)
  \/ Crash \/ Restart

Spec == Init /\ [][Next]_vars

-----------------------------------------------------------------------------
(* Properties.                                                             *)

Reservations == [frames : Nat, spend : Nat]

\* The state is made of values the program can hold.
TypeOK ==
  /\ called \subseteq Calls
  /\ result \in [Calls -> {"none", "refused", "call_refused", "returned", "failed"}]
  /\ pushed \subseteq Frames /\ exited \subseteq pushed
  /\ up \in BOOLEAN /\ live \subseteq pushed \ exited
  /\ step \in [Calls -> {"no", "turned", "refusing", "working", "ending"}]
  /\ touched \subseteq called
  /\ table \in [Calls -> Reservations]
  /\ resFrames \in [Frames -> Nat] /\ resSpend \in [Frames -> Nat]
  /\ loose \subseteq called /\ restarts \in 0..MaxRestarts

\* What an engine counts as reserved in a subtree is the sum of the
\* reservations of the calls in it, each of which is empty or covers exactly
\* the tasks of a pending call that were not launched: no unit leaks or is
\* given back twice, whichever callers interleave and however many restarts
\* rebuilt the counters.
ReservationsAreExact ==
  /\ \A c \in Calls :
       table[c] # Nothing => Pending(c) /\ table[c] = Units(Unlaunched(c))
  /\ \A f \in Frames :
       /\ resFrames[f] = Total([c \in Calls |-> table[c].frames], CallsBelow(f))
       /\ resSpend[f] = Total([c \in Calls |-> table[c].spend], CallsBelow(f))

\* The frames and the spend of a subtree, reserved or launched, stay within
\* the policy, unless a call in it went on without its reservation.
CapsHold ==
  \A f \in Frames :
    \/ FramesUsed(f) <= MaxFrames /\ SpendUsed(f) <= MaxSpend
    \/ loose \cap CallsBelow(f) # {}

=============================================================================
