--------------------------- MODULE RigSlotsProofs ---------------------------
(***************************************************************************)
(* No lane leaks or is shared, no lease outlives its work, and a worker is *)
(* charged and timed out for what it thought and nothing else: proved for  *)
(* any tree of frames, any number of lanes, any budget, over shutdowns,    *)
(* crashes and restarts.  The invariant says, of each frame, in which one  *)
(* hand its lane is, what the journal knows of it, and where the ticks of  *)
(* its worker are: charged, on the clock, or owed by the hand that brings  *)
(* the lane back.                                                          *)
(***************************************************************************)
EXTENDS RigSlots, FiniteSetTheorems, WellFoundedInduction, TLAPS

-----------------------------------------------------------------------------
(* The invariant. *)

\* A hand that carries a lane, what it has not yet charged, nobody who carries one.
Full(f, a)    == bag[f][a].lane # None
Owed(f, a)    == IF bag[f][a].logged THEN 0 ELSE bag[f][a].amount
EmptyHands(f) == \A a \in Carriers : bag[f][a] = NoBag

\* The engine's process is there and past its sweep.
Running       == main \notin {"down", "sweeping"}

\* Nothing of a frame is in the engine's memory: before its launch, and while the
\* process is down or sweeps.
Quiet(f) ==
  /\ ex[f] = NewExecution /\ timers[f] = {} /\ call[f] = "none" /\ acq[f] = "no"
  /\ EmptyHands(f) /\ thought[f] = 0 /\ charged[f] = 0

OffIsQuiet(f) ==
  /\ ~Running => Quiet(f) /\ life[f] \in {"absent", "exited"}
  /\ life[f] = "absent" => Quiet(f)

\* The places of the launch, the call and the acquisition of a frame fit together:
\* an acquisition is made by one of the other two, and the execution is open as
\* long as the launch has not closed it.
Control(f) ==
  /\ acq[f] # "no" => (life[f] = "starting" /\ call[f] = "none") \/ call[f] = "resuming"
  /\ life[f] = "starting" => call[f] = "none" /\ acq[f] # "no"
  /\ call[f] = "resuming" => acq[f] # "no"
  /\ life[f] \in {"starting", "running", "returned"} => ex[f].open
  /\ life[f] \in {"absent", "closing", "joining", "exited"} => ~ex[f].open
  /\ life[f] = "exited" => call[f] = "none"
  /\ life[f] = "unwound" => f = Root
  /\ f = Root /\ main \notin {"driving", "down", "sweeping"} =>
       life[f] \notin {"absent", "exited", "starting", "running"}

\* A lease is exclusive: whoever has one acquires nothing, brings nothing back, is
\* not parked, and has its interval in the journal.
Leased(f) ==
  LET e == ex[f] IN
  /\ e.lane # None =>
       /\ e.open /\ ~e.timedOut /\ acq[f] = "no" /\ call[f] \in {"none", "gating"}
       /\ EmptyHands(f) /\ jlane[f] = e.lane
  /\ e.lane = None => ~e.counting /\ e.lease = 0
  /\ e.counting => call[f] = "none"
  /\ ~e.counting => e.elapsed = 0

\* One hand at most carries a lane back, and only from where its thread is.
Handed(f) ==
  /\ \A a \in Carriers : Full(f, a) \/ bag[f][a] = NoBag
  /\ \A a, b \in Carriers : Full(f, a) /\ Full(f, b) => a = b
  /\ Full(f, "launch") => ~ex[f].open /\ acq[f] = "no" /\ life[f] = "closing"
  /\ Full(f, "call") => call[f] = "parking"
  /\ Full(f, "timer") => ex[f].timedOut /\ ~ex[f].reaped
  /\ Full(f, "acquire") <=> acq[f] = "returning"
  /\ Full(f, "acquire") =>
       bag[f]["acquire"].amount = 0 /\ (~ex[f].open \/ ex[f].timedOut)
  /\ acq[f] \in {"enter", "append", "wait", "owned", "logged"} => EmptyHands(f)
  /\ acq[f] \in {"owned", "logged"} => got[f] \in Lanes

\* The main thread was interrupted with the lane of the root frame in its hand.
Lost(f) ==
  /\ f = Root /\ main # "driving" /\ acq[f] = "no"
  /\ ~ex[f].open \/ (call[f] = "none" /\ life[f] # "running")

\* The open interval of a frame is that of the lane it has, in whichever hand.
Journalled(f) ==
  /\ acq[f] \in {"enter", "append", "wait", "owned"} => jlane[f] = None
  /\ acq[f] = "logged" => jlane[f] = got[f]
  /\ \A a \in Carriers : Full(f, a) =>
       jlane[f] = IF bag[f][a].logged THEN None ELSE bag[f][a].lane
  /\ Running /\ jlane[f] # None =>
       \/ ex[f].lane # None \/ acq[f] = "logged" \/ Lost(f)
       \/ \E a \in Carriers : Full(f, a) /\ ~bag[f][a].logged

\* The clock has counted what the worker thought; only the timer of the running
\* clock is armed, and not for less than what is left.
Clocked(f) ==
  LET e == ex[f] IN
  /\ e.used + e.elapsed = thought[f]
  /\ e.timedOut => thought[f] >= Budget
  /\ \A x \in timers[f] :
       /\ x[1] <= e.gen
       /\ x[2] > 0 => x[1] = e.gen /\ e.counting
       /\ x[1] = e.gen /\ e.counting => e.used + e.elapsed + x[2] >= Budget
       /\ \A y \in timers[f] : y[1] = x[1] => y = x

\* What the worker thought is charged, on the lease, or owed by a hand.
Charged(f) ==
  /\ f # Root \/ main = "driving" =>
       charged[f] + ex[f].lease + ex[f].elapsed + Owed(f, "launch")
         + Owed(f, "call") + Owed(f, "timer") + Owed(f, "acquire") = thought[f]
  /\ life[f] = "exited" => charged[f] = thought[f]

\* A worker that may think has a lease, unless its stop is under way.
Working(f) ==
  /\ life[f] = "running" /\ call[f] \in {"none", "gating"} /\ ~cancelled[f] =>
       ex[f].lane # None \/ ex[f].timedOut \/ stopping[f]
  /\ ex[f].timedOut => stopping[f] \/ Full(f, "timer") \/ acq[f] = "spent"
  /\ acq[f] = "spent" =>
       ex[f].timedOut /\ ~Full(f, "timer") /\ life[f] # "starting"
  /\ life[f] = "starting" => thought[f] = 0
  /\ Full(f, "timer") /\ bag[f]["timer"].logged => stopping[f]
  /\ stopped => stopping[f]
  /\ ex[f].reaped => ex[f].timedOut

\* What is left of a frame when its calls are joined, and when it exits.
Ended(f) ==
  /\ life[f] = "joining" =>
       ~Full(f, "launch") /\ (ex[f].timedOut => ex[f].reaped)
  /\ life[f] = "exited" =>
       /\ acq[f] = "no" /\ call[f] = "none" /\ ex[f].lane = None
       /\ EmptyHands(f) /\ jlane[f] = None

\* Frame f has lane l in some hand.
Holds(f, l) ==
  \/ ex[f].lane = l \/ (acq[f] \in {"owned", "logged"} /\ got[f] = l)
  \/ \E a \in Carriers : bag[f][a].lane = l

\* The scheduler and the hands agree on who has a lane.
Owning(f) ==
  /\ ex[f].lane # None => owner[ex[f].lane] = f
  /\ acq[f] \in {"owned", "logged"} => owner[got[f]] = f
  /\ \A a \in Carriers : Full(f, a) => owner[bag[f][a].lane] = f
  /\ Running /\ jlane[f] # None => owner[jlane[f]] = f
  /\ f # Root \/ main = "driving" =>
       \A l \in Lanes : owner[l] = f => Holds(f, l)

\* All of it.
Part(f) ==
  /\ OffIsQuiet(f) /\ Control(f) /\ Leased(f) /\ Handed(f) /\ Journalled(f)
  /\ Clocked(f) /\ Charged(f) /\ Working(f) /\ Ended(f) /\ Owning(f)

\* A process that is not there owns no lane.
OffIsFree == ~Running => \A l \in Lanes : owner[l] = None

\* The inductive invariant.
IInv == TypeOK /\ OffIsFree /\ \A f \in Frames : Part(f)

\* What a step leaves of frame g as it is: the journal, the execution and its
\* timers, the ways back, the places of its threads, the signals, the process.
SameJournal(g) == jlane'[g] = jlane[g] /\ charged'[g] = charged[g]
SameRecord(g)  == ex'[g] = ex[g] /\ timers'[g] = timers[g]
SameBag(g)     == bag'[g] = bag[g]
SamePlace(g)   == /\ life'[g] = life[g] /\ call'[g] = call[g]
                  /\ acq'[g] = acq[g] /\ got'[g] = got[g]
SameSignals(g) == /\ stopping'[g] = stopping[g] /\ cancelled'[g] = cancelled[g]
                  /\ thought'[g] = thought[g]
SameMain       == main' = main /\ stopped' = stopped
SameLanes(g)   == \A l \in Lanes : owner'[l] = g <=> owner[l] = g

Same(g) ==
  /\ SameJournal(g) /\ SameRecord(g) /\ SameBag(g) /\ SamePlace(g)
  /\ SameSignals(g) /\ SameMain /\ SameLanes(g)

-----------------------------------------------------------------------------
(* The operators of the model. *)

\* A set of natural numbers has a least element.
LEMMA LeastElement ==
  ASSUME NEW S \in SUBSET Nat, S # {}
  PROVE  \E m \in S : \A n \in S : m <= n
<1> DEFINE T == {0 .. n : n \in S}
<1>1. T # {} /\ T \subseteq FiniteSubsetsOf(Nat)
  <2>1. T # {}
    OBVIOUS
  <2>2. \A n \in S : IsFiniteSet(0 .. n) /\ (0 .. n) \subseteq Nat
    BY FS_Interval
  <2> QED BY <2>1, <2>2 DEF FiniteSubsetsOf
<1>2. IsWellFoundedOn(StrictSubsetOrdering(Nat), FiniteSubsetsOf(Nat))
  BY FS_StrictSubsetOrderingWellFounded
<1>3. PICK X \in T : \A Y \in T : <<Y, X>> \notin StrictSubsetOrdering(Nat)
  <2> HIDE DEF T
  <2> QED BY <1>1, <1>2, WFMin, Zenon
<1>4. PICK m \in S : X = 0 .. m
  OBVIOUS
<1>5. \A n \in S : m <= n
  <2> SUFFICES ASSUME NEW n \in S, n < m PROVE FALSE
    OBVIOUS
  <2>1. 0 .. n \in T /\ (0 .. n) \subseteq (0 .. m) /\ m \in 0 .. m /\ m \notin 0 .. n
    OBVIOUS
  <2>2. <<0 .. n, X>> \in StrictSubsetOrdering(Nat)
    BY <1>4, <2>1 DEF StrictSubsetOrdering
  <2> QED BY <1>3, <2>1, <2>2
<1> QED BY <1>5

\* A lane that is chosen is free.
LEMMA ChosenLaneIsFree ==
  ASSUME TypeOK, NEW f \in Frames, FreeLanes # {}
  PROVE  ChosenLane(f) \in Lanes /\ owner[ChosenLane(f)] = None
<1>1. FreeLanes \in SUBSET Nat
  BY ConstantsAssumption DEF ConstantsAssumption, FreeLanes, Lanes
<1>2. \E m \in FreeLanes : \A n \in FreeLanes : m <= n
  BY <1>1, LeastElement
<1>3. Min(FreeLanes) \in FreeLanes
  BY <1>2 DEF Min
<1> QED BY <1>3 DEF ChosenLane, FreeLanes

\* A timer is armed for what is left of the budget.
LEMMA NewTimerFacts ==
  ASSUME TypeOK, NEW f \in Frames
  PROVE  /\ NewTimer(f) \in Nat \X Nat
         /\ NewTimer(f)[1] = ex[f].gen + 1
         /\ ex[f].used + NewTimer(f)[2] >= Budget
<1> DEFINE n == Budget - ex[f].used
<1>1. ex[f].gen \in Nat /\ ex[f].used \in Nat /\ n \in Int
  <2>1. ex[f] \in Executions
    BY DEF TypeOK
  <2>2. ex[f].gen \in Nat /\ ex[f].used \in Nat
    BY <2>1 DEF Executions
  <2>3. Budget \in Nat
    BY ConstantsAssumption DEF ConstantsAssumption
  <2> QED BY <2>2, <2>3
<1>2. \E x \in {0, n} : \A y \in {0, n} : x >= y
  BY <1>1
<1>3. Max({0, n}) \in {0, n} /\ \A y \in {0, n} : Max({0, n}) >= y
  BY <1>2 DEF Max
<1>4. Max({0, n}) \in Nat /\ Max({0, n}) >= n
  BY <1>1, <1>3
<1>5. NewTimer(f) = <<ex[f].gen + 1, Max({0, n})>>
  BY DEF NewTimer
<1> QED BY <1>1, <1>4, <1>5, ConstantsAssumption DEF ConstantsAssumption

\* What a clock that stops or starts does to an execution.
LEMMA StopClockFields ==
  ASSUME NEW e \in Executions
  PROVE  LET s == StopClock(e) IN
         /\ s \in Executions
         /\ s.open = e.open /\ s.timedOut = e.timedOut /\ s.lane = e.lane
         /\ s.reaped = e.reaped /\ s.used = e.used + e.elapsed
         /\ s.lease = e.lease + e.elapsed /\ s.elapsed = 0
         /\ ~s.counting /\ s.gen = e.gen + 1
<1>1. e.elapsed \in Nat /\ e.used \in Nat /\ e.lease \in Nat /\ e.gen \in Nat
  BY DEF Executions
<1>2. /\ e.used + e.elapsed \in Nat /\ e.lease + e.elapsed \in Nat
      /\ e.gen + 1 \in Nat
  BY <1>1
<1> QED BY <1>1, <1>2 DEF Executions, StopClock

LEMMA StartClockFields ==
  ASSUME NEW e \in Executions
  PROVE  LET s == StartClock(e) IN
         /\ s \in Executions
         /\ s.open = e.open /\ s.timedOut = e.timedOut /\ s.lane = e.lane
         /\ s.reaped = e.reaped /\ s.used = e.used /\ s.lease = e.lease
         /\ s.elapsed = e.elapsed /\ s.counting /\ s.gen = e.gen + 1
<1>1. e.gen + 1 \in Nat
  BY DEF Executions
<1> QED BY <1>1 DEF Executions, StartClock

\* A new execution, and an empty hand.
LEMMA NewFacts == NewExecution \in Executions /\ NoBag \in Bags
BY DEF NewExecution, Executions, NoBag, Bags

\* A lane that is detached is in the hand of carrier a, with its self time.
LEMMA DetachFacts ==
  ASSUME TypeOK, NEW f \in Frames, NEW a \in Carriers, NEW e \in Executions,
         Detach(f, a, e)
  PROVE  /\ ex' \in [Frames -> Executions]
         /\ ex'[f].open = e.open /\ ex'[f].timedOut = e.timedOut
         /\ ex'[f].lane = None /\ ex'[f].reaped = e.reaped
         /\ ex'[f].used = e.used + e.elapsed /\ ex'[f].lease = 0
         /\ ex'[f].elapsed = 0 /\ ~ex'[f].counting /\ ex'[f].gen = e.gen + 1
         /\ \A g \in Frames \ {f} : ex'[g] = ex[g] /\ bag'[g] = bag[g]
         /\ bag' \in [Frames -> [Carriers -> Bags]]
         /\ \A b \in Carriers \ {a} : bag'[f][b] = bag[f][b]
         /\ bag'[f][a].lane = e.lane /\ bag'[f][a].amount = e.lease + e.elapsed
         /\ ~bag'[f][a].logged
<1> DEFINE s == [StopClock(e) EXCEPT !.lane = None, !.lease = 0]
           b == [lane |-> e.lane, amount |-> StopClock(e).lease, logged |-> FALSE]
<1>1. /\ s \in Executions
      /\ s.open = e.open /\ s.timedOut = e.timedOut
      /\ s.lane = None /\ s.reaped = e.reaped
      /\ s.used = e.used + e.elapsed /\ s.lease = 0
      /\ s.elapsed = 0 /\ ~s.counting /\ s.gen = e.gen + 1
  BY StopClockFields DEF Executions
<1>2. b \in Bags /\ b.lane = e.lane /\ b.amount = e.lease + e.elapsed /\ ~b.logged
  BY StopClockFields DEF Executions, Bags
<1> HIDE DEF s, b
<1>3. ex' = [ex EXCEPT ![f] = s] /\ bag' = [bag EXCEPT ![f][a] = b]
  BY DEF Detach, s, b
<1>4. /\ ex' \in [Frames -> Executions] /\ ex'[f] = s
      /\ \A g \in Frames \ {f} : ex'[g] = ex[g]
  BY <1>1, <1>3 DEF TypeOK
<1>5. /\ bag' \in [Frames -> [Carriers -> Bags]] /\ bag'[f][a] = b
      /\ \A g \in Frames \ {f} : bag'[g] = bag[g]
      /\ \A c \in Carriers \ {a} : bag'[f][c] = bag[f][c]
  BY <1>2, <1>3 DEF TypeOK
<1> QED BY <1>1, <1>2, <1>4, <1>5

\* A token that is discarded leaves a queue of frames.
LEMMA DiscardedType ==
  ASSUME TypeOK, NEW f \in Frames
  PROVE  Discarded(f) \in Seq(Frames)
<1> DEFINE at == {i \in 1 .. Len(waiters) : waiters[i] = f}
<1>1. waiters \in Seq(Frames)
  BY DEF TypeOK
<1>2. CASE at = {}
  BY <1>1, <1>2 DEF Discarded
<1>3. CASE at # {}
  <2> DEFINE i == CHOOSE i \in at : TRUE
  <2>1. i \in 1 .. Len(waiters)
    BY <1>3
  <2> HIDE DEF i
  <2>2. /\ SubSeq(waiters, 1, i - 1) \in Seq(Frames)
        /\ SubSeq(waiters, i + 1, Len(waiters)) \in Seq(Frames)
    BY <1>1, <2>1
  <2>3. Discarded(f) = SubSeq(waiters, 1, i - 1) \o SubSeq(waiters, i + 1, Len(waiters))
    BY <1>3 DEF Discarded, RemoveAt, i
  <2> QED BY <2>2, <2>3
<1> QED BY <1>2, <1>3

-----------------------------------------------------------------------------
(* Type correctness. *)

\* The values of the beginning are such values.
LEMMA InitTypes == Init => TypeOK
<1> SUFFICES ASSUME Init PROVE TypeOK
  OBVIOUS
<1>1. ex \in [Frames -> Executions] /\ bag \in [Frames -> [Carriers -> Bags]]
  BY NewFacts DEF Init
<1>2. timers \in [Frames -> SUBSET (Nat \X Nat)] /\ waiters \in Seq(Frames)
  BY DEF Init
<1>3. /\ calls \in [Frames -> 0..MaxCalls] /\ restarts \in 0..MaxRestarts
      /\ charged \in [Frames -> Nat] /\ thought \in [Frames -> Nat]
  BY ConstantsAssumption DEF ConstantsAssumption, Init
<1>4. /\ jlane \in [Frames -> Lanes \cup {None}] /\ last \in [Frames -> Lanes \cup {None}]
      /\ owner \in [Lanes -> Frames \cup {None}] /\ kind \in [Frames -> Kinds \cup {None}]
      /\ got \in [Frames -> Lanes \cup {None}] /\ env \in [Frames -> Lanes \cup {None}]
  BY DEF Init
<1> QED BY <1>1, <1>2, <1>3, <1>4 DEF Init, TypeOK

\* A field of an execution is set to a value of its type.
LEMMA FieldTypes ==
  ASSUME NEW e \in Executions, NEW b \in BOOLEAN, NEW l \in Lanes \cup {None},
         NEW n \in Nat
  PROVE  /\ [e EXCEPT !.open = b] \in Executions
         /\ [e EXCEPT !.timedOut = b] \in Executions
         /\ [e EXCEPT !.reaped = b] \in Executions
         /\ [e EXCEPT !.lane = l] \in Executions
         /\ [e EXCEPT !.elapsed = n] \in Executions
BY DEF Executions

\* The record of one frame is replaced.
LEMMA RecordUpdate ==
  ASSUME TypeOK, NEW f \in Frames, NEW e \in Executions, ex' = [ex EXCEPT ![f] = e]
  PROVE  /\ ex' \in [Frames -> Executions] /\ ex'[f] = e
         /\ \A g \in Frames \ {f} : ex'[g] = ex[g]
BY DEF TypeOK

\* One hand of a frame is filled or emptied.
LEMMA BagUpdate ==
  ASSUME TypeOK, NEW f \in Frames, NEW a \in Carriers, NEW b \in Bags,
         bag' = [bag EXCEPT ![f][a] = b]
  PROVE  /\ bag' \in [Frames -> [Carriers -> Bags]] /\ bag'[f][a] = b
         /\ \A c \in Carriers \ {a} : bag'[f][c] = bag[f][c]
         /\ \A g \in Frames \ {f} : bag'[g] = bag[g]
BY DEF TypeOK

\* A lane is granted.
LEMMA GrantFacts ==
  ASSUME TypeOK, NEW f \in Frames, Grant(f), FreeLanes # {}
  PROVE  /\ owner' \in [Lanes -> Frames \cup {None}]
         /\ got' \in [Frames -> Lanes \cup {None}] /\ got'[f] \in Lanes
         /\ owner[got'[f]] = None /\ owner' = [owner EXCEPT ![got'[f]] = f]
         /\ acq' = [acq EXCEPT ![f] = "owned"]
         /\ \A g \in Frames \ {f} : got'[g] = got[g]
BY ChosenLaneIsFree DEF TypeOK, Grant

\* What an acquisition does.
LEMMA AcquireTypes ==
  ASSUME TypeOK, NEW f \in Frames, AcquireStep(f)
  PROVE  TypeOK'
<1> USE DEF AcquireFails, AcquireStays, journal, scheduler, threads, process
<1>0. ex[f] \in Executions /\ got[f] \in Lanes \cup {None}
  BY DEF TypeOK
<1>1. CASE CheckBudget(f)
  <2>1. ex' = ex \/ ex' = [ex EXCEPT ![f] = [ex[f] EXCEPT !.timedOut = TRUE]]
    BY <1>1 DEF CheckBudget
  <2>2. [ex[f] EXCEPT !.timedOut = TRUE] \in Executions
    BY <1>0, FieldTypes
  <2>3. ex' \in [Frames -> Executions]
    BY <2>1, <2>2, RecordUpdate DEF TypeOK
  <2>4. /\ UNCHANGED <<jlane, last, charged, owner, waiters, stopped, timers, kind, calls,
                        got, env, bag, stopping, cancelled, thought, main, restarts>>
        /\ \/ AcquireFails(f)
           \/ acq' = [acq EXCEPT ![f] = "spent"] /\ UNCHANGED <<life, call>>
           \/ acq' = [acq EXCEPT ![f] = "enter"] /\ UNCHANGED <<life, call>>
    BY <1>1 DEF CheckBudget
  <2> QED BY <2>3, <2>4 DEF TypeOK
<1>7. CASE StopSpent(f)
  <2>1. ex' = [ex EXCEPT ![f] = [ex[f] EXCEPT !.reaped = TRUE]]
    BY <1>7 DEF StopSpent
  <2>2. [ex[f] EXCEPT !.reaped = TRUE] \in Executions
    BY <1>0, FieldTypes
  <2>3. ex' \in [Frames -> Executions]
    BY <2>1, <2>2, RecordUpdate DEF TypeOK
  <2>4. stopping' \in [Frames -> BOOLEAN]
    BY <1>7 DEF StopSpent, TypeOK
  <2>5. /\ UNCHANGED <<jlane, last, charged, owner, waiters, stopped, timers, kind, calls,
                        got, env, bag, cancelled, thought, main, restarts>>
        /\ AcquireFails(f)
    BY <1>7 DEF StopSpent
  <2> QED BY <2>3, <2>4, <2>5 DEF TypeOK
<1>2. CASE EnterPool(f)
  <2>1. CASE stopped /\ AcquireFails(f) /\ UNCHANGED <<owner, waiters, got>>
    BY <1>2, <2>1 DEF EnterPool, TypeOK
  <2>2. CASE FreeLanes # {} /\ Grant(f) /\ UNCHANGED <<waiters, life, call>>
    BY <1>2, <2>2, GrantFacts DEF EnterPool, TypeOK
  <2>3. CASE /\ waiters' = Append(waiters, f)
             /\ acq' = [acq EXCEPT ![f] = "append"]
             /\ UNCHANGED <<owner, got, life, call>>
    <3>1. waiters' \in Seq(Frames)
      BY <2>3 DEF TypeOK
    <3> QED BY <1>2, <2>3, <3>1 DEF EnterPool, TypeOK
  <2> QED BY <1>2, <2>1, <2>2, <2>3 DEF EnterPool
<1>3. CASE AppendQueued(f)
  BY <1>3 DEF AppendQueued, TypeOK
<1>4. CASE Wake(f)
  <2>1. CASE waiters' = Discarded(f) /\ AcquireFails(f) /\ UNCHANGED <<owner, got>>
    BY <1>4, <2>1, DiscardedType DEF Wake, TypeOK
  <2>2. CASE /\ waiters # <<>> /\ FreeLanes # {} /\ Grant(f)
             /\ waiters' = Tail(waiters) /\ UNCHANGED <<life, call>>
    <3>1. waiters' \in Seq(Frames)
      BY <2>2 DEF TypeOK
    <3> QED BY <1>4, <2>2, <3>1, GrantFacts DEF Wake, TypeOK
  <2> QED BY <1>4, <2>1, <2>2 DEF Wake
<1>5. CASE LogAcquired(f)
  BY <1>5 DEF LogAcquired, TypeOK
<1>6. CASE StartLease(f)
  <2>1. CASE MayLease(ex[f])
    <3>1. ex' = [ex EXCEPT ![f] = [StartClock(ex[f]) EXCEPT !.lane = got[f]]]
      BY <1>6, <2>1 DEF StartLease
    <3>2. StartClock(ex[f]) \in Executions
      BY <1>0, StartClockFields
    <3>3. [StartClock(ex[f]) EXCEPT !.lane = got[f]] \in Executions
      BY <1>0, <3>2 DEF Executions
    <3>4. ex' \in [Frames -> Executions]
      BY <3>1, <3>3, RecordUpdate
    <3>5. NewTimer(f) \in Nat \X Nat
      BY NewTimerFacts
    <3>6. timers' = [timers EXCEPT ![f] = @ \cup {NewTimer(f)}]
      BY <1>6, <2>1 DEF StartLease
    <3>7. timers' \in [Frames -> SUBSET (Nat \X Nat)]
      BY <3>5, <3>6 DEF TypeOK
    <3> QED BY <1>6, <2>1, <3>4, <3>7 DEF StartLease, TypeOK
  <2>2. CASE ~MayLease(ex[f])
    <3>1. [lane |-> got[f], amount |-> 0, logged |-> FALSE] \in Bags
      BY <1>0 DEF Bags
    <3>2. bag' \in [Frames -> [Carriers -> Bags]]
      BY <1>6, <2>2, <3>1, BagUpdate DEF StartLease, Carriers
    <3> QED BY <1>6, <2>2, <3>2 DEF StartLease, TypeOK
  <2> QED BY <2>1, <2>2
<1> QED BY <1>1, <1>2, <1>3, <1>4, <1>5, <1>6, <1>7 DEF AcquireStep

\* What brings a lane back, and the passing of time.
LEMMA CarryTypes ==
  ASSUME TypeOK, NEW f \in Frames,
         \/ \E a \in Carriers : Carry(f, a)
         \/ \E x \in timers[f] : Expire(f, x)
         \/ Tick(f)
  PROVE  TypeOK'
<1> USE DEF journal, scheduler, threads, process
<1>0. ex[f] \in Executions /\ \A a \in Carriers : bag[f][a] \in Bags
  BY DEF TypeOK
<1>1. CASE \E a \in Carriers : Carry(f, a)
  <2>1. PICK a \in Carriers : Carry(f, a)
    BY <1>1
  <2>2. CASE LogReleased(f, a)
    <3>1. [bag[f][a] EXCEPT !.logged = TRUE] \in Bags /\ bag[f][a].amount \in Nat
      BY <1>0 DEF Bags
    <3>2. bag' = [bag EXCEPT ![f][a] = [bag[f][a] EXCEPT !.logged = TRUE]]
      BY <2>2 DEF LogReleased
    <3>3. bag' \in [Frames -> [Carriers -> Bags]]
      BY <3>1, <3>2, BagUpdate
    <3>4. charged' \in [Frames -> Nat] /\ stopping' \in [Frames -> BOOLEAN]
      BY <2>2, <3>1 DEF LogReleased, TypeOK
    <3> QED BY <2>2, <3>3, <3>4 DEF LogReleased, TypeOK
  <2>3. CASE FreeLane(f, a)
    <3>1. bag' \in [Frames -> [Carriers -> Bags]]
      BY <2>3, NewFacts, BagUpdate DEF FreeLane
    <3>2. ex' = [ex EXCEPT ![f] = [ex[f] EXCEPT !.reaped = @ \/ a = "timer"]]
      BY <2>3 DEF FreeLane
    <3>3. (ex[f].reaped \/ a = "timer") \in BOOLEAN
      OBVIOUS
    <3>4. ex' \in [Frames -> Executions]
      BY <1>0, <3>2, <3>3, FieldTypes, RecordUpdate
    <3>5. owner' \in [Lanes -> Frames \cup {None}]
      BY <2>3 DEF FreeLane, TypeOK
    <3>6. /\ acq' = acq \/ acq' = [acq EXCEPT ![f] = "no"]
          /\ life' = life \/ life' = [life EXCEPT ![f] = "returned"]
          /\ call' = call \/ call' = [call EXCEPT ![f] = "none"]
      BY <2>3 DEF FreeLane, AcquireFails
    <3> QED BY <2>3, <3>1, <3>4, <3>5, <3>6 DEF FreeLane, TypeOK
  <2> QED BY <2>1, <2>2, <2>3 DEF Carry
<1>2. CASE \E x \in timers[f] : Expire(f, x)
  <2>1. PICK x \in timers[f] : Expire(f, x)
    BY <1>2
  <2>2. timers' \in [Frames -> SUBSET (Nat \X Nat)]
    BY <2>1 DEF Expire, TypeOK
  <2>3. [ex[f] EXCEPT !.timedOut = TRUE] \in Executions
    BY <1>0, FieldTypes
  <2>4. Detach(f, "timer", [ex[f] EXCEPT !.timedOut = TRUE]) \/ UNCHANGED <<ex, bag>>
    BY <2>1 DEF Expire
  <2>5. ex' \in [Frames -> Executions] /\ bag' \in [Frames -> [Carriers -> Bags]]
    BY <2>3, <2>4, DetachFacts DEF Carriers, TypeOK
  <2> QED BY <2>1, <2>2, <2>5 DEF Expire, TypeOK
<1>3. CASE Tick(f)
  <2>1. (IF ex[f].counting THEN ex[f].elapsed + 1 ELSE ex[f].elapsed) \in Nat
    BY <1>0 DEF Executions
  <2>2. ex' = [ex EXCEPT ![f] = [ex[f] EXCEPT !.elapsed =
                 IF ex[f].counting THEN ex[f].elapsed + 1 ELSE ex[f].elapsed]]
    BY <1>3 DEF Tick
  <2>3. ex' \in [Frames -> Executions]
    BY <1>0, <2>1, <2>2, FieldTypes, RecordUpdate
  <2>4. timers' \in [Frames -> SUBSET (Nat \X Nat)]
    BY <1>3 DEF Tick, TypeOK
  <2>5. thought' \in [Frames -> Nat]
    BY <1>3 DEF Tick, TypeOK
  <2> QED BY <1>3, <2>3, <2>4, <2>5 DEF Tick, TypeOK
<1> QED BY <1>1, <1>2, <1>3

\* The launch of a frame, its calls and its exit.
FrameStep(f) ==
  \/ Launch(f) \/ (\E k \in Kinds : StartCall(f, k)) \/ Parked(f) \/ EndCall(f)
  \/ EndGate(f) \/ AdapterReturns(f) \/ CloseReturned(f) \/ Closed(f)
  \/ JoinCancels(f) \/ ExitFrame(f) \/ CloseLeft(f)

\* The timers that are left when they are cancelled.
LEMMA DisarmedTypes ==
  ASSUME TypeOK, NEW f \in Frames, timers' = [timers EXCEPT ![f] = Disarmed(f)]
  PROVE  timers' \in [Frames -> SUBSET (Nat \X Nat)]
<1>1. timers \in [Frames -> SUBSET (Nat \X Nat)]
  BY DEF TypeOK
<1>2. Disarmed(f) \in SUBSET (Nat \X Nat)
  BY <1>1 DEF Disarmed
<1> QED BY <1>1, <1>2

\* A clock that pauses.
LEMMA PauseTypes ==
  ASSUME TypeOK, NEW f \in Frames, Pause(f)
  PROVE  /\ ex' \in [Frames -> Executions]
         /\ timers' \in [Frames -> SUBSET (Nat \X Nat)]
<1>1. ex[f] \in Executions
  BY DEF TypeOK
<1>2. CASE ex[f].counting
  <2>1. ex' = [ex EXCEPT ![f] = StopClock(ex[f])]
    BY <1>2 DEF Pause
  <2>2. timers' \in [Frames -> SUBSET (Nat \X Nat)]
    BY <1>2, DisarmedTypes DEF Pause
  <2> QED BY <1>1, <2>1, <2>2, StopClockFields, RecordUpdate
<1> QED BY <1>2 DEF Pause, TypeOK

\* An execution that is closed with what it holds.
LEMMA CloseTypes ==
  ASSUME TypeOK, NEW f \in Frames, Close(f)
  PROVE  TypeOK'
<1> USE DEF journal, scheduler, threads, process
<1> DEFINE closed == [ex[f] EXCEPT !.open = FALSE]
<1>1. closed \in Executions
  BY FieldTypes DEF TypeOK
<1>2. /\ ex' \in [Frames -> Executions] /\ bag' \in [Frames -> [Carriers -> Bags]]
      /\ timers' \in [Frames -> SUBSET (Nat \X Nat)]
  <2>1. CASE ex' = [ex EXCEPT ![f] = closed] /\ UNCHANGED <<timers, bag>>
    BY <1>1, <2>1, RecordUpdate DEF TypeOK
  <2>2. CASE Detach(f, "launch", closed) /\ timers' = [timers EXCEPT ![f] = Disarmed(f)]
    <3>1. timers' \in [Frames -> SUBSET (Nat \X Nat)]
      BY <2>2, DisarmedTypes
    <3> QED BY <1>1, <2>2, <3>1, DetachFacts DEF Carriers
  <2> QED BY <2>1, <2>2 DEF Close
<1> QED BY <1>2 DEF Close, TypeOK

LEMMA FrameTypes ==
  ASSUME TypeOK, NEW f \in Frames, FrameStep(f)
  PROVE  TypeOK'
<1> USE DEF journal, scheduler, threads, process
<1>0. ex[f] \in Executions
  BY DEF TypeOK
<1>1. CASE Launch(f)
  <2>1. [NewExecution EXCEPT !.open = TRUE] \in Executions
    BY NewFacts, FieldTypes
  <2>2. ex' \in [Frames -> Executions]
    BY <1>1, <2>1, RecordUpdate DEF Launch
  <2> QED BY <1>1, <2>2 DEF Launch, TypeOK
<1>2. CASE \E k \in Kinds : StartCall(f, k)
  <2>1. PICK k \in Kinds : StartCall(f, k)
    BY <1>2
  <2>2. calls' \in [Frames -> 0..MaxCalls] /\ kind' \in [Frames -> Kinds \cup {None}]
    BY <2>1, ConstantsAssumption DEF StartCall, TypeOK, ConstantsAssumption
  <2>3. CASE k = "gate"
    BY <2>1, <2>2, <2>3, PauseTypes DEF StartCall, TypeOK
  <2>4. CASE k # "gate"
    <3>1. Park(f)
      BY <2>1, <2>4 DEF StartCall
    <3>2. CASE ex[f].lane = None
      BY <2>1, <2>2, <2>4, <3>1, <3>2 DEF StartCall, Park, TypeOK
    <3>3. CASE ex[f].lane # None
      <4>1. Detach(f, "call", ex[f])
        BY <3>1, <3>3 DEF Park
      <4>2. ex' \in [Frames -> Executions] /\ bag' \in [Frames -> [Carriers -> Bags]]
        BY <1>0, <4>1, DetachFacts DEF Carriers
      <4>3. timers' \in [Frames -> SUBSET (Nat \X Nat)]
        BY <3>1, <3>3, DisarmedTypes DEF Park
      <4> QED BY <2>1, <2>2, <2>4, <4>2, <4>3 DEF StartCall, TypeOK
    <3> QED BY <3>2, <3>3
  <2> QED BY <2>3, <2>4
<1>3. CASE Parked(f)
  BY <1>3 DEF Parked, TypeOK
<1>4. CASE EndCall(f)
  BY <1>4 DEF EndCall, TypeOK
<1>5. CASE EndGate(f)
  <2>1. CASE UNCHANGED <<ex, timers>>
    BY <1>5, <2>1 DEF EndGate, TypeOK
  <2>2. CASE /\ ex' = [ex EXCEPT ![f] = StartClock(ex[f])]
             /\ timers' = [timers EXCEPT ![f] = @ \cup {NewTimer(f)}]
    <3>1. ex' \in [Frames -> Executions]
      BY <1>0, <2>2, StartClockFields, RecordUpdate
    <3>2. NewTimer(f) \in Nat \X Nat
      BY NewTimerFacts
    <3>3. timers' \in [Frames -> SUBSET (Nat \X Nat)]
      BY <2>2, <3>2 DEF TypeOK
    <3> QED BY <1>5, <3>1, <3>3 DEF EndGate, TypeOK
  <2> QED BY <1>5, <2>1, <2>2 DEF EndGate
<1>6. CASE AdapterReturns(f)
  BY <1>6 DEF AdapterReturns, TypeOK
<1>7. CASE CloseReturned(f) \/ CloseLeft(f)
  BY <1>7, CloseTypes DEF CloseReturned, CloseLeft
<1>8. CASE Closed(f)
  BY <1>8 DEF Closed, TypeOK
<1>9. CASE JoinCancels(f)
  BY <1>9 DEF JoinCancels, TypeOK
<1>10. CASE ExitFrame(f)
  BY <1>10 DEF ExitFrame, TypeOK
<1> QED
  BY <1>1, <1>2, <1>3, <1>4, <1>5, <1>6, <1>7, <1>8, <1>9, <1>10 DEF FrameStep

\* The engine process.
ProcessStep ==
  \/ BeginShutdown \/ CancelAll \/ StopPools \/ JoinAll \/ Interrupt \/ Drive
  \/ Crash \/ Restart \/ \E f \in Frames : Sweep(f)

LEMMA ProcessTypes ==
  ASSUME TypeOK, ProcessStep
  PROVE  TypeOK'
<1> USE DEF journal, scheduler, threads, process
<1>1. CASE BeginShutdown
  <2>1. waiters' = waiters \/ waiters' = Discarded(Root)
    BY <1>1 DEF BeginShutdown
  <2>2. waiters' \in Seq(Frames)
    BY <2>1, DiscardedType, ConstantsAssumption DEF ConstantsAssumption, TypeOK
  <2>3. PICK lost \in SUBSET Carriers :
          bag' = [bag EXCEPT ![Root] =
                    [a \in Carriers |-> IF a \in lost THEN NoBag ELSE bag[Root][a]]]
    BY <1>1 DEF BeginShutdown, Carriers
  <2>3a. [a \in Carriers |-> IF a \in lost THEN NoBag ELSE bag[Root][a]]
           \in [Carriers -> Bags]
    BY NewFacts, ConstantsAssumption DEF ConstantsAssumption, TypeOK
  <2>4. bag' \in [Frames -> [Carriers -> Bags]]
    BY <2>3, <2>3a DEF TypeOK
  <2>5. /\ life' = [life EXCEPT ![Root] = "returned"]
           \/ life' = [life EXCEPT ![Root] = "unwound"]
        /\ acq' = [acq EXCEPT ![Root] = "no"] \/ acq' = acq
    BY <1>1 DEF BeginShutdown, TypeOK
  <2> QED BY <1>1, <2>2, <2>4, <2>5 DEF BeginShutdown, TypeOK
<1>2. CASE CancelAll
  BY <1>2 DEF CancelAll, TypeOK
<1>3. CASE StopPools
  BY <1>3 DEF StopPools, TypeOK
<1>4. CASE JoinAll
  BY <1>4 DEF JoinAll, TypeOK
<1>5. CASE Interrupt
  BY <1>5 DEF Interrupt, TypeOK
<1>6. CASE Drive
  BY <1>6 DEF Drive, TypeOK
<1>7. CASE Crash
  <2>1. ex' \in [Frames -> Executions] /\ bag' \in [Frames -> [Carriers -> Bags]]
    BY <1>7, NewFacts DEF Crash
  <2>2. /\ timers' \in [Frames -> SUBSET (Nat \X Nat)] /\ waiters' \in Seq(Frames)
        /\ calls' \in [Frames -> 0..MaxCalls]
    BY <1>7, ConstantsAssumption DEF Crash, ConstantsAssumption
  <2>3. life' \in [Frames -> {"absent", "starting", "running", "returned", "closing",
                              "joining", "exited", "unwound"}]
    BY <1>7 DEF Crash
  <2> QED BY <1>7, <2>1, <2>2, <2>3 DEF Crash, TypeOK
<1>8. CASE Restart
  BY <1>8, ConstantsAssumption DEF Restart, TypeOK, ConstantsAssumption
<1>9. CASE \E f \in Frames : Sweep(f)
  BY <1>9 DEF Sweep, TypeOK
<1> QED
  BY <1>1, <1>2, <1>3, <1>4, <1>5, <1>6, <1>7, <1>8, <1>9 DEF ProcessStep

\* The steps, as the proofs take them apart.
LEMMA NextSteps ==
  ASSUME Next
  PROVE  \/ ProcessStep
         \/ \E f \in Frames :
              \/ AcquireStep(f) \/ FrameStep(f) \/ Tick(f)
              \/ \E a \in Carriers : Carry(f, a)
              \/ \E x \in timers[f] : Expire(f, x)
BY DEF Next, MainStep, ProcessStep, FrameStep

\* Every variable holds a value of its type: the phases of launch, call and
\* acquisition, the records, the queue and the bounds.
THEOREM TypesHold == Spec => []TypeOK
<1>1. ASSUME TypeOK, [Next]_vars PROVE TypeOK'
  <2>1. CASE Next
    BY <1>1, <2>1, NextSteps, ProcessTypes, AcquireTypes, FrameTypes, CarryTypes
  <2>2. CASE UNCHANGED vars
    BY <1>1, <2>2 DEF vars, journal, scheduler, threads, process, TypeOK
  <2> QED BY <1>1, <2>1, <2>2
<1> QED BY <1>1, InitTypes, PTL DEF Spec

-----------------------------------------------------------------------------
(* The invariant is inductive. *)

\* A frame that a step does not touch keeps its part of the invariant.
LEMMA SameKeepsPart ==
  ASSUME TypeOK, TypeOK', NEW g \in Frames, Part(g), Same(g)
  PROVE  Part(g)'
<1> USE DEF Part, Same, SameJournal, SameRecord, SameBag, SamePlace, SameSignals,
            SameMain, SameLanes
<1>1. OffIsQuiet(g)'
  BY DEF OffIsQuiet, Quiet, Running, EmptyHands
<1>2. Control(g)'
  BY DEF Control
<1>3. Leased(g)'
  BY DEF Leased, EmptyHands
<1>4. Handed(g)'
  BY DEF Handed, EmptyHands, Full
<1>5. Journalled(g)'
  BY DEF Journalled, Lost, Full, Running
<1>6. Clocked(g)'
  BY DEF Clocked
<1>7. Charged(g)'
  BY DEF Charged, Owed
<1>8. Working(g)'
  BY DEF Working, Full
<1>9. Ended(g)'
  BY DEF Ended, EmptyHands, Full
<1>10. Owning(g)'
  BY DEF Owning, Handed, Full, Running, TypeOK, Executions, Bags, Holds
<1> QED BY <1>1, <1>2, <1>3, <1>4, <1>5, <1>6, <1>7, <1>8, <1>9, <1>10

\* So a step of one frame is only about that frame.
LEMMA OneFrame ==
  ASSUME IInv, TypeOK', NEW f \in Frames, Part(f)', OffIsFree',
         \A g \in Frames \ {f} : Same(g)
  PROVE  IInv'
BY SameKeepsPart DEF IInv

\* The parts of the invariant of one frame.
LEMMA Parts ==
  ASSUME IInv, NEW f \in Frames
  PROVE  /\ OffIsQuiet(f) /\ Control(f) /\ Leased(f) /\ Handed(f) /\ Journalled(f)
         /\ Clocked(f) /\ Charged(f) /\ Working(f) /\ Ended(f) /\ Owning(f)
BY DEF IInv, Part

\* ... and the types of what it is about.
LEMMA FrameFacts ==
  ASSUME TypeOK, NEW f \in Frames
  PROVE  /\ ex[f] \in Executions /\ \A a \in Carriers : bag[f][a] \in Bags
         /\ ex[f].elapsed \in Nat /\ ex[f].used \in Nat /\ ex[f].lease \in Nat
         /\ ex[f].gen \in Nat /\ ex[f].lane \in Lanes \cup {None}
         /\ timers[f] \subseteq Nat \X Nat /\ charged[f] \in Nat /\ thought[f] \in Nat
         /\ \A a \in Carriers : bag[f][a].lane \in Lanes \cup {None}
                                  /\ bag[f][a].amount \in Nat
         /\ jlane[f] \in Lanes \cup {None} /\ got[f] \in Lanes \cup {None}
BY DEF TypeOK, Executions, Bags

\* What is still to be charged is a number of ticks.
LEMMA OwedIsNat ==
  ASSUME TypeOK, NEW f \in Frames, NEW a \in Carriers
  PROVE  Owed(f, a) \in Nat
BY FrameFacts DEF Owed

\* An empty hand holds no lane, and owes nothing.
LEMMA EmptyHand == NoBag.lane = None /\ NoBag.amount = 0 /\ ~NoBag.logged
BY DEF NoBag

\* An acquisition that fails, for a launch or for a call.
Failed(f) ==
  /\ acq'[f] = "no" /\ got'[f] = got[f]
  /\ \/ life[f] = "starting" /\ life'[f] = "returned" /\ call'[f] = call[f]
     \/ life[f] # "starting" /\ life'[f] = life[f] /\ call'[f] = "none"

LEMMA FailsEffect ==
  ASSUME TypeOK, NEW f \in Frames, AcquireFails(f), got' = got
  PROVE  /\ Failed(f)
         /\ \A g \in Frames \ {f} : SamePlace(g)
BY DEF TypeOK, AcquireFails, Failed, SamePlace

\* It leaves the frame as it should, if there was a reason: the execution ended,
\* its worker is stopped, its call is cancelled.
LEMMA FailedStep ==
  ASSUME IInv, NEW f \in Frames, acq[f] \in {"check", "enter", "wait"}, Failed(f),
         SameJournal(f), SameRecord(f), SameBag(f), SameSignals(f), SameMain, owner' = owner,
         \/ life[f] = "starting" \/ ~ex[f].open \/ ex[f].timedOut
         \/ stopping[f] \/ cancelled[f], TypeOK'
  PROVE  Part(f)'
<1> USE DEF SameJournal, SameRecord, SameBag, SamePlace, SameSignals, SameMain, SameLanes,
            journal, scheduler, threads, process
<1>1. TypeOK /\ OffIsFree
  BY DEF IInv
<1>2. /\ OffIsQuiet(f) /\ Control(f) /\ Leased(f) /\ Handed(f) /\ Journalled(f)
      /\ Clocked(f) /\ Charged(f) /\ Working(f) /\ Ended(f) /\ Owning(f)
  BY Parts
<1>3. /\ acq[f] \in {"check", "enter", "wait"} /\ Failed(f) /\ SameJournal(f)
      /\ SameRecord(f) /\ SameBag(f) /\ SameSignals(f) /\ SameMain /\ owner' = owner
      /\ \/ life[f] = "starting" \/ ~ex[f].open \/ ex[f].timedOut
         \/ stopping[f] \/ cancelled[f]
  BY <1>1
<1>4. Part(f)'
  <2>1. (OffIsQuiet(f) /\ Control(f) /\ Working(f) /\ Ended(f))'
    BY <1>2, <1>3 DEF OffIsQuiet, Quiet, Running, EmptyHands, Control, Working, Full,
      Ended, Failed
  <2>2. (Leased(f) /\ Handed(f))'
    BY <1>2, <1>3 DEF Leased, EmptyHands, Control, Handed, Full, Carriers, Failed
  <2>3. (Journalled(f) /\ Owning(f))'
    BY <1>2, <1>3 DEF Journalled, Lost, Full, Running, Control, Leased, Handed,
      EmptyHands, OffIsQuiet, Quiet, Carriers, Owning, Holds, Failed
  <2>4. (Clocked(f) /\ Charged(f))'
    BY <1>2, <1>3 DEF Clocked, Charged, Owed, Failed
  <2> QED BY <2>1, <2>2, <2>3, <2>4 DEF Part
<1> QED BY <1>4

\* The check of the budget.
LEMMA CheckBudgetStep ==
  ASSUME IInv, NEW f \in Frames, CheckBudget(f), TypeOK'
  PROVE  IInv'
<1> USE DEF SameJournal, SameRecord, SameBag, SamePlace, SameSignals, SameMain, SameLanes,
            journal, scheduler, threads, process
<1>1. TypeOK /\ OffIsFree
  BY DEF IInv
<1>2. /\ OffIsQuiet(f) /\ Control(f) /\ Leased(f) /\ Handed(f) /\ Journalled(f)
      /\ Clocked(f) /\ Charged(f) /\ Working(f) /\ Ended(f) /\ Owning(f)
  BY Parts
<1>3. /\ acq[f] = "check" /\ SameJournal(f) /\ SameBag(f) /\ SameMain /\ owner' = owner
      /\ timers'[f] = timers[f] /\ cancelled'[f] = cancelled[f] /\ thought'[f] = thought[f]
      /\ got'[f] = got[f] /\ ex[f] \in Executions
  BY <1>1 DEF CheckBudget, AcquireStays, TypeOK
<1>4. OffIsFree' /\ \A g \in Frames \ {f} : Same(g)
  <2>1. \A g \in Frames \ {f} :
          SameJournal(g) /\ SameBag(g) /\ timers'[g] = timers[g] /\ got'[g] = got[g]
          /\ cancelled'[g] = cancelled[g] /\ thought'[g] = thought[g]
    BY <1>1 DEF CheckBudget, AcquireStays
  <2>2. ex' = ex \/ ex' = [ex EXCEPT ![f] = [ex[f] EXCEPT !.timedOut = TRUE]]
    BY DEF CheckBudget
  <2>3. /\ stopping' = stopping
        /\ \/ acq' = [acq EXCEPT ![f] = "no"] \/ acq' = [acq EXCEPT ![f] = "enter"]
           \/ acq' = [acq EXCEPT ![f] = "spent"]
        /\ life' = life \/ life' = [life EXCEPT ![f] = "returned"]
        /\ call' = call \/ call' = [call EXCEPT ![f] = "none"]
    BY DEF CheckBudget, AcquireFails
  <2>4. \A g \in Frames \ {f} : ex'[g] = ex[g] /\ stopping'[g] = stopping[g] /\ SamePlace(g)
    BY <1>1, <2>1, <2>2, <2>3 DEF TypeOK
  <2> QED BY <1>1, <1>3, <2>1, <2>2, <2>3, <2>4 DEF OffIsFree, Running, Same
<1>5. SUFFICES Part(f)'
  BY <1>4, OneFrame
<1>6. CASE ex[f].open /\ ~ex[f].timedOut /\ ex[f].used < Budget
  <2>0. ~(ex[f].used >= Budget)
    BY <1>1, <1>6, FrameFacts, ConstantsAssumption DEF ConstantsAssumption
  <2>1. /\ acq'[f] = "enter" /\ life'[f] = life[f] /\ call'[f] = call[f]
        /\ ex'[f] = ex[f] /\ stopping'[f] = stopping[f]
    <3>1. /\ acq' = [acq EXCEPT ![f] = "enter"]
          /\ UNCHANGED <<ex, life, call, stopping>>
      BY <1>6, <2>0 DEF CheckBudget
    <3>2. f \in DOMAIN acq
      BY <1>1 DEF TypeOK
    <3> QED BY <3>1, <3>2
  <2>2. (OffIsQuiet(f) /\ Control(f) /\ Working(f) /\ Ended(f))'
    BY <1>2, <1>3, <2>1, <1>6 DEF OffIsQuiet, Quiet, Running, EmptyHands, Control,
      Working, Full, Ended, Failed
  <2>3. (Leased(f) /\ Handed(f))'
    BY <1>2, <1>3, <2>1, <1>6 DEF Leased, EmptyHands, Control, Handed, Full, Carriers,
      Failed
  <2>4. (Journalled(f) /\ Owning(f))'
    BY <1>2, <1>3, <2>1, <1>6 DEF Journalled, Lost, Full, Running, Control, Leased,
      Handed, EmptyHands, OffIsQuiet, Quiet, Carriers, Owning, Holds, Failed
  <2>5. (Clocked(f) /\ Charged(f))'
    BY <1>2, <1>3, <2>1, <1>6 DEF Clocked, Charged, Owed, Failed
  <2> QED BY <2>2, <2>3, <2>4, <2>5 DEF Part
<1>7. CASE ex[f].open /\ ~ex[f].timedOut /\ ex[f].used >= Budget
  <2>1. /\ acq' = [acq EXCEPT ![f] = "spent"] /\ UNCHANGED <<life, call, stopping>>
        /\ ex' = [ex EXCEPT ![f] = [ex[f] EXCEPT !.timedOut = TRUE]]
    BY <1>1, <1>7, FrameFacts, ConstantsAssumption DEF CheckBudget, ConstantsAssumption
  <2>2. /\ acq'[f] = "spent" /\ life'[f] = life[f] /\ call'[f] = call[f]
        /\ stopping'[f] = stopping[f]
        /\ ex'[f] = [ex[f] EXCEPT !.timedOut = TRUE]
    BY <1>1, <2>1 DEF TypeOK
  <2>3. /\ ex'[f].timedOut /\ ex'[f].reaped = ex[f].reaped
        /\ ex'[f].open = ex[f].open /\ ex'[f].lane = ex[f].lane
        /\ ex'[f].counting = ex[f].counting /\ ex'[f].elapsed = ex[f].elapsed
        /\ ex'[f].used = ex[f].used /\ ex'[f].lease = ex[f].lease /\ ex'[f].gen = ex[f].gen
    BY <1>3, <2>2 DEF Executions
  <2>4. thought[f] >= Budget /\ life[f] # "starting"
    BY <1>1, <1>2, <1>7, FrameFacts, ConstantsAssumption DEF Clocked, Working,
       ConstantsAssumption
  <2>5. ~Full(f, "timer")
    BY <1>2, <1>7 DEF Handed
  <2>6. (OffIsQuiet(f) /\ Control(f) /\ Working(f) /\ Ended(f))'
    BY <1>2, <1>3, <1>7, <2>2, <2>3, <2>4, <2>5 DEF OffIsQuiet, Quiet, Running,
      EmptyHands, Control, Working, Full, Ended
  <2>7. (Leased(f) /\ Handed(f))'
    BY <1>2, <1>3, <1>7, <2>2, <2>3, <2>5 DEF Leased, EmptyHands, Control,
      Handed, Full, Carriers
  <2>8. (Journalled(f) /\ Owning(f))'
    BY <1>2, <1>3, <1>7, <2>2, <2>3 DEF Journalled, Lost, Full,
      Running, Control, Leased, Handed, EmptyHands, OffIsQuiet, Quiet, Carriers, Owning,
      Holds
  <2>9. (Clocked(f) /\ Charged(f))'
    BY <1>2, <1>3, <2>2, <2>3, <2>4 DEF Clocked, Charged, Owed
  <2> QED BY <2>6, <2>7, <2>8, <2>9 DEF Part
<1>8. CASE ~ex[f].open \/ ex[f].timedOut
  <2>0. AcquireFails(f) /\ got' = got
    BY <1>8 DEF CheckBudget
  <2>1. Failed(f) /\ ex'[f] = ex[f] /\ stopping'[f] = stopping[f]
    BY <1>1, <1>8, <2>0, FailsEffect DEF CheckBudget, TypeOK
  <2> QED BY <1>1, <1>3, <1>8, <2>1, FailedStep DEF Failed
<1>9. ex[f].used < Budget \/ ex[f].used >= Budget
  BY <1>1, FrameFacts, ConstantsAssumption DEF ConstantsAssumption
<1> QED BY <1>3, <1>6, <1>7, <1>8, <1>9

\* The stop of a worker whose budget is spent.
LEMMA StopSpentStep ==
  ASSUME IInv, NEW f \in Frames, StopSpent(f), TypeOK'
  PROVE  IInv'
<1> USE DEF SameJournal, SameRecord, SameBag, SamePlace, SameSignals, SameMain, SameLanes,
            journal, scheduler, threads, process
<1>1. TypeOK /\ OffIsFree
  BY DEF IInv
<1>2. /\ OffIsQuiet(f) /\ Control(f) /\ Leased(f) /\ Handed(f) /\ Journalled(f)
      /\ Clocked(f) /\ Charged(f) /\ Working(f) /\ Ended(f) /\ Owning(f)
  BY Parts
<1>3. /\ acq[f] = "spent" /\ SameJournal(f) /\ SameBag(f) /\ SameMain /\ owner' = owner
      /\ timers'[f] = timers[f] /\ cancelled'[f] = cancelled[f] /\ thought'[f] = thought[f]
      /\ got'[f] = got[f] /\ ex[f] \in Executions
  BY <1>1 DEF StopSpent, AcquireStays, TypeOK
<1>4. /\ stopping' = [stopping EXCEPT ![f] = TRUE]
      /\ ex' = [ex EXCEPT ![f] = [ex[f] EXCEPT !.reaped = TRUE]]
      /\ AcquireFails(f) /\ got' = got
  BY DEF StopSpent
<1>5. Failed(f) /\ \A g \in Frames \ {f} : SamePlace(g)
  BY <1>1, <1>4, FailsEffect
<1>6. OffIsFree' /\ \A g \in Frames \ {f} : Same(g)
  <2>1. \A g \in Frames \ {f} :
          /\ SameJournal(g) /\ SameBag(g) /\ timers'[g] = timers[g]
          /\ cancelled'[g] = cancelled[g] /\ thought'[g] = thought[g]
    BY <1>1 DEF StopSpent, AcquireStays
  <2>2. \A g \in Frames \ {f} : ex'[g] = ex[g] /\ stopping'[g] = stopping[g]
    BY <1>1, <1>4 DEF TypeOK
  <2> QED BY <1>1, <1>3, <1>5, <2>1, <2>2 DEF OffIsFree, Running, Same
<1>7. SUFFICES Part(f)'
  BY <1>6, OneFrame
<1>8. stopping'[f] /\ ex'[f] = [ex[f] EXCEPT !.reaped = TRUE]
  BY <1>1, <1>4 DEF TypeOK
<1>9. /\ ex'[f].reaped /\ ex'[f].timedOut = ex[f].timedOut
      /\ ex'[f].open = ex[f].open /\ ex'[f].lane = ex[f].lane
      /\ ex'[f].counting = ex[f].counting /\ ex'[f].elapsed = ex[f].elapsed
      /\ ex'[f].used = ex[f].used /\ ex'[f].lease = ex[f].lease /\ ex'[f].gen = ex[f].gen
  BY <1>3, <1>8 DEF Executions
<1>10. ex[f].timedOut /\ ~Full(f, "timer") /\ life[f] # "starting"
  BY <1>2, <1>3 DEF Working
<1>11. (OffIsQuiet(f) /\ Control(f) /\ Working(f) /\ Ended(f))'
  BY <1>2, <1>3, <1>5, <1>8, <1>9, <1>10 DEF OffIsQuiet, Quiet, Running, EmptyHands,
    Control, Working, Full, Ended, Failed
<1>12. (Leased(f) /\ Handed(f))'
  BY <1>2, <1>3, <1>5, <1>9, <1>10 DEF Leased, EmptyHands, Control, Handed, Full,
    Carriers, Failed
<1>13. (Journalled(f) /\ Owning(f))'
  BY <1>2, <1>3, <1>5, <1>9, <1>10 DEF Journalled, Lost, Full, Running, Control, Leased,
    Handed, EmptyHands, OffIsQuiet, Quiet, Carriers, Owning, Holds, Failed
<1>14. (Clocked(f) /\ Charged(f))'
  BY <1>2, <1>3, <1>5, <1>9 DEF Clocked, Charged, Owed, Failed
<1> QED BY <1>11, <1>12, <1>13, <1>14 DEF Part

\* A frame that is granted a lane owns it, and has nothing else in its hands.
LEMMA GrantStep ==
  ASSUME IInv, NEW f \in Frames, acq[f] \in {"enter", "wait"}, FreeLanes # {}, Grant(f),
         SameJournal(f), SameRecord(f), SameBag(f), SameSignals(f), SameMain,
         life'[f] = life[f], call'[f] = call[f], TypeOK'
  PROVE  Part(f)'
<1> USE DEF SameJournal, SameRecord, SameBag, SamePlace, SameSignals, SameMain, SameLanes,
            journal, scheduler, threads, process
<1>1. TypeOK /\ OffIsFree
  BY DEF IInv
<1>2. /\ OffIsQuiet(f) /\ Control(f) /\ Leased(f) /\ Handed(f) /\ Journalled(f)
      /\ Clocked(f) /\ Charged(f) /\ Working(f) /\ Ended(f) /\ Owning(f)
  BY Parts
<1>3. /\ acq[f] \in {"enter", "wait"} /\ acq'[f] = "owned" /\ SameJournal(f)
      /\ SameRecord(f) /\ SameBag(f) /\ SameSignals(f) /\ SameMain
      /\ life'[f] = life[f] /\ call'[f] = call[f]
      /\ got'[f] \in Lanes /\ owner[got'[f]] = None
      /\ \A l \in Lanes : owner'[l] = IF l = got'[f] THEN f ELSE owner[l]
  BY <1>1, GrantFacts DEF TypeOK
<1>4. Part(f)'
  <2>1. (OffIsQuiet(f) /\ Control(f) /\ Working(f) /\ Ended(f))'
    BY <1>2, <1>3 DEF OffIsQuiet, Quiet, Running, EmptyHands, Control, Working, Full,
      Ended
  <2>2. (Leased(f) /\ Handed(f))'
    BY <1>2, <1>3 DEF Leased, EmptyHands, Control, Handed, Full, Carriers
  <2>3. Journalled(f)'
    BY <1>2, <1>3 DEF Journalled, Lost, Full, Running, Control, Leased, Handed,
      EmptyHands, OffIsQuiet, Quiet, Carriers
  <2>4. Owning(f)'
    BY <1>2, <1>3, <1>1, FrameFacts, ConstantsAssumption DEF Owning, Holds, Full,
      Running, Control, Leased, Handed, EmptyHands, ConstantsAssumption
  <2>5. (Clocked(f) /\ Charged(f))'
    BY <1>2, <1>3 DEF Clocked, Charged, Owed
  <2> QED BY <2>1, <2>2, <2>3, <2>4, <2>5 DEF Part
<1> QED BY <1>4

\* The first critical section of acquire.
LEMMA EnterPoolStep ==
  ASSUME IInv, NEW f \in Frames, EnterPool(f), TypeOK'
  PROVE  IInv'
<1> USE DEF SameJournal, SameRecord, SameBag, SamePlace, SameSignals, SameMain, SameLanes,
            journal, scheduler, threads, process
<1>1. TypeOK /\ OffIsFree
  BY DEF IInv
<1>2. /\ OffIsQuiet(f) /\ Control(f) /\ Leased(f) /\ Handed(f) /\ Journalled(f)
      /\ Clocked(f) /\ Charged(f) /\ Working(f) /\ Ended(f) /\ Owning(f)
  BY Parts
<1>3. /\ acq[f] = "enter" /\ SameJournal(f) /\ SameRecord(f) /\ SameBag(f) /\ SameSignals(f)
      /\ SameMain
  BY <1>1 DEF EnterPool, AcquireStays
<1>4. OffIsFree' /\ \A g \in Frames \ {f} : Same(g)
  <2>1. \A g \in Frames \ {f} : SameJournal(g) /\ SameRecord(g) /\ SameBag(g) /\ SameSignals(g)
    BY <1>1 DEF EnterPool, AcquireStays
  <2>2. /\ acq' \in {[acq EXCEPT ![f] = a] : a \in {"no", "append", "owned"}}
        /\ life' = life \/ life' = [life EXCEPT ![f] = "returned"]
        /\ call' = call \/ call' = [call EXCEPT ![f] = "none"]
        /\ got' = got \/ got' = [got EXCEPT ![f] = ChosenLane(f)]
    BY DEF EnterPool, AcquireFails, Grant
  <2>3. \A g \in Frames \ {f} : SamePlace(g)
    <3>1. \A g \in Frames \ {f} : acq'[g] = acq[g]
      BY <1>1, <2>2 DEF TypeOK
    <3>2. \A g \in Frames \ {f} : /\ life'[g] = life[g] /\ call'[g] = call[g]
                                 /\ got'[g] = got[g]
      BY <1>1, <2>2 DEF TypeOK
    <3> QED BY <3>1, <3>2
  <2>4. \/ owner' = owner
        \/ ChosenLane(f) \in Lanes /\ owner[ChosenLane(f)] = None /\ owner' = [owner EXCEPT ![ChosenLane(f)] = f]
    BY <1>1, ChosenLaneIsFree DEF EnterPool, Grant
  <2>5. Running
    BY <1>2, <1>3 DEF OffIsQuiet, Quiet
  <2>6. \/ owner' = owner
        \/ \E c \in Lanes : owner[c] = None /\ \A l \in Lanes : owner'[l] = IF l = c THEN f ELSE owner[l]
    BY <1>1, <2>4 DEF TypeOK
  <2>7. f # None /\ \A g \in Frames : g # None
    BY ConstantsAssumption DEF ConstantsAssumption
  <2>8. \A g \in Frames \ {f} : SameLanes(g)
    BY <2>6, <2>7
  <2> QED BY <1>1, <1>3, <2>1, <2>2, <2>3, <2>4, <2>5, <2>6, <2>7, <2>8 DEF OffIsFree, Running, Same
<1>5. SUFFICES Part(f)'
  BY <1>4, OneFrame
<1>6. CASE stopped /\ AcquireFails(f) /\ UNCHANGED <<owner, waiters, got>>
  <2>1. Failed(f) /\ stopping[f]
    BY <1>1, <1>2, <1>6, FailsEffect DEF Working
  <2> QED BY <1>1, <1>3, <2>1, <1>6, FailedStep
<1>7. CASE ~stopped /\ FreeLanes # {} /\ Grant(f) /\ UNCHANGED <<waiters, life, call>>
  BY <1>1, <1>3, <1>7, GrantStep
<1>8. CASE acq' = [acq EXCEPT ![f] = "append"] /\ UNCHANGED <<owner, got, life, call>>
  <2>1. /\ acq'[f] = "append" /\ got'[f] = got[f] /\ life'[f] = life[f]
        /\ call'[f] = call[f] /\ owner' = owner
    BY <1>1, <1>8 DEF TypeOK
  <2>2. (OffIsQuiet(f) /\ Control(f) /\ Working(f) /\ Ended(f))'
    BY <1>2, <1>3, <2>1, <1>8 DEF OffIsQuiet, Quiet, Running, EmptyHands, Control,
      Working, Full, Ended
  <2>3. (Leased(f) /\ Handed(f))'
    BY <1>2, <1>3, <2>1, <1>8 DEF Leased, EmptyHands, Control, Handed, Full, Carriers
  <2>4. (Journalled(f) /\ Owning(f))'
    BY <1>2, <1>3, <2>1, <1>8 DEF Journalled, Lost, Full, Running, Control, Leased,
      Handed, EmptyHands, OffIsQuiet, Quiet, Carriers, Owning, Holds
  <2>5. (Clocked(f) /\ Charged(f))'
    BY <1>2, <1>3, <2>1, <1>8 DEF Clocked, Charged, Owed
  <2> QED BY <2>2, <2>3, <2>4, <2>5 DEF Part
<1> QED BY <1>6, <1>7, <1>8 DEF EnterPool

\* The queue is journalled.
LEMMA AppendQueuedStep ==
  ASSUME IInv, NEW f \in Frames, AppendQueued(f), TypeOK'
  PROVE  IInv'
<1> USE DEF SameJournal, SameRecord, SameBag, SamePlace, SameSignals, SameMain, SameLanes,
            journal, scheduler, threads, process
<1>1. TypeOK /\ OffIsFree
  BY DEF IInv
<1>2. /\ OffIsQuiet(f) /\ Control(f) /\ Leased(f) /\ Handed(f) /\ Journalled(f)
      /\ Clocked(f) /\ Charged(f) /\ Working(f) /\ Ended(f) /\ Owning(f)
  BY Parts
<1>3. /\ acq[f] = "append" /\ SameJournal(f) /\ SameRecord(f) /\ SameBag(f) /\ SameSignals(f)
      /\ SameMain /\ owner' = owner /\ acq'[f] = "wait" /\ life'[f] = life[f] /\ call'[f] = call[f]
      /\ got'[f] = got[f]
  BY <1>1 DEF AppendQueued, AcquireStays, TypeOK
<1>4. OffIsFree' /\ \A g \in Frames \ {f} : Same(g)
  BY <1>1, <1>3 DEF AppendQueued, AcquireStays, TypeOK, OffIsFree, Running, Same
<1>5. SUFFICES Part(f)'
  BY <1>4, OneFrame
<1>6. Part(f)'
  <2>1. (OffIsQuiet(f) /\ Control(f) /\ Working(f) /\ Ended(f))'
    BY <1>2, <1>3 DEF OffIsQuiet, Quiet, Running, EmptyHands, Control, Working, Full,
      Ended
  <2>2. (Leased(f) /\ Handed(f))'
    BY <1>2, <1>3 DEF Leased, EmptyHands, Control, Handed, Full, Carriers
  <2>3. (Journalled(f) /\ Owning(f))'
    BY <1>2, <1>3 DEF Journalled, Lost, Full, Running, Control, Leased, Handed,
      EmptyHands, OffIsQuiet, Quiet, Carriers, Owning, Holds
  <2>4. (Clocked(f) /\ Charged(f))'
    BY <1>2, <1>3 DEF Clocked, Charged, Owed
  <2> QED BY <2>1, <2>2, <2>3, <2>4 DEF Part
<1> QED BY <1>6

\* The wait loop of acquire.
LEMMA WakeStep ==
  ASSUME IInv, NEW f \in Frames, Wake(f), TypeOK'
  PROVE  IInv'
<1> USE DEF SameJournal, SameRecord, SameBag, SamePlace, SameSignals, SameMain, SameLanes,
            journal, scheduler, threads, process
<1>1. TypeOK /\ OffIsFree
  BY DEF IInv
<1>2. /\ OffIsQuiet(f) /\ Control(f) /\ Leased(f) /\ Handed(f) /\ Journalled(f)
      /\ Clocked(f) /\ Charged(f) /\ Working(f) /\ Ended(f) /\ Owning(f)
  BY Parts
<1>3. /\ acq[f] = "wait" /\ SameJournal(f) /\ SameRecord(f) /\ SameBag(f) /\ SameSignals(f)
      /\ SameMain
  BY <1>1 DEF Wake, AcquireStays
<1>4. OffIsFree' /\ \A g \in Frames \ {f} : Same(g)
  <2>1. \A g \in Frames \ {f} : SameJournal(g) /\ SameRecord(g) /\ SameBag(g) /\ SameSignals(g)
    BY <1>1 DEF Wake, AcquireStays
  <2>2. /\ acq' \in {[acq EXCEPT ![f] = a] : a \in {"no", "owned"}}
        /\ life' = life \/ life' = [life EXCEPT ![f] = "returned"]
        /\ call' = call \/ call' = [call EXCEPT ![f] = "none"]
        /\ got' = got \/ got' = [got EXCEPT ![f] = ChosenLane(f)]
    BY DEF Wake, AcquireFails, Grant
  <2>3. \A g \in Frames \ {f} : SamePlace(g)
    <3>1. \A g \in Frames \ {f} : acq'[g] = acq[g]
      BY <1>1, <2>2 DEF TypeOK
    <3>2. \A g \in Frames \ {f} : /\ life'[g] = life[g] /\ call'[g] = call[g]
                                 /\ got'[g] = got[g]
      BY <1>1, <2>2 DEF TypeOK
    <3> QED BY <3>1, <3>2
  <2>4. \/ owner' = owner
        \/ ChosenLane(f) \in Lanes /\ owner[ChosenLane(f)] = None /\ owner' = [owner EXCEPT ![ChosenLane(f)] = f]
    BY <1>1, ChosenLaneIsFree DEF Wake, Grant
  <2>5. Running
    BY <1>2, <1>3 DEF OffIsQuiet, Quiet
  <2>6. \/ owner' = owner
        \/ \E c \in Lanes : owner[c] = None /\ \A l \in Lanes : owner'[l] = IF l = c THEN f ELSE owner[l]
    BY <1>1, <2>4 DEF TypeOK
  <2>7. f # None /\ \A g \in Frames : g # None
    BY ConstantsAssumption DEF ConstantsAssumption
  <2>8. \A g \in Frames \ {f} : SameLanes(g)
    BY <2>6, <2>7
  <2> QED BY <1>1, <1>3, <2>1, <2>2, <2>3, <2>4, <2>5, <2>6, <2>7, <2>8 DEF OffIsFree, Running, Same
<1>5. SUFFICES Part(f)'
  BY <1>4, OneFrame
<1>6. CASE (stopped \/ IsCancelled(f)) /\ AcquireFails(f) /\ UNCHANGED <<owner, got>>
  <2>1. Failed(f) /\ (life[f] = "starting" \/ stopping[f] \/ cancelled[f])
    BY <1>1, <1>2, <1>6, FailsEffect DEF Working, IsCancelled
  <2> QED BY <1>1, <1>3, <2>1, <1>6, FailedStep
<1>7. CASE FreeLanes # {} /\ Grant(f) /\ UNCHANGED <<life, call>>
  BY <1>1, <1>3, <1>7, GrantStep
<1> QED BY <1>3, <1>6, <1>7 DEF Wake

\* The journal learns of the lane.
LEMMA LogAcquiredStep ==
  ASSUME IInv, NEW f \in Frames, LogAcquired(f), TypeOK'
  PROVE  IInv'
<1> USE DEF SameJournal, SameRecord, SameBag, SamePlace, SameSignals, SameMain, SameLanes,
            journal, scheduler, threads, process
<1>1. TypeOK /\ OffIsFree
  BY DEF IInv
<1>2. /\ OffIsQuiet(f) /\ Control(f) /\ Leased(f) /\ Handed(f) /\ Journalled(f)
      /\ Clocked(f) /\ Charged(f) /\ Working(f) /\ Ended(f) /\ Owning(f)
  BY Parts
<1>3. /\ acq[f] = "owned" /\ acq'[f] = "logged" /\ jlane'[f] = got[f] /\ charged'[f] = charged[f]
      /\ SameRecord(f) /\ SameBag(f) /\ SameSignals(f)
      /\ SameMain /\ owner' = owner /\ life'[f] = life[f] /\ call'[f] = call[f]
      /\ got'[f] = got[f]
  BY <1>1 DEF LogAcquired, TypeOK
<1>4. OffIsFree' /\ \A g \in Frames \ {f} : Same(g)
  BY <1>1, <1>3 DEF LogAcquired, TypeOK, OffIsFree, Running, Same
<1>5. SUFFICES Part(f)'
  BY <1>4, OneFrame
<1>6. Part(f)'
  <2>1. (OffIsQuiet(f) /\ Control(f) /\ Working(f) /\ Ended(f))'
    BY <1>2, <1>3 DEF OffIsQuiet, Quiet, Running, EmptyHands, Control, Working, Full,
      Ended
  <2>2. (Leased(f) /\ Handed(f))'
    BY <1>2, <1>3 DEF Leased, EmptyHands, Control, Handed, Full, Carriers
  <2>3. (Journalled(f) /\ Owning(f))'
    BY <1>2, <1>3 DEF Journalled, Lost, Full, Running, Control, Leased, Handed,
      EmptyHands, OffIsQuiet, Quiet, Carriers, Owning, Holds
  <2>4. (Clocked(f) /\ Charged(f))'
    BY <1>2, <1>3 DEF Clocked, Charged, Owed
  <2> QED BY <2>1, <2>2, <2>3, <2>4 DEF Part
<1> QED BY <1>6
\* The lease starts, or the lane goes back.
LEMMA StartLeaseStep ==
  ASSUME IInv, NEW f \in Frames, StartLease(f), TypeOK'
  PROVE  IInv'
<1> USE DEF SameJournal, SameRecord, SameBag, SamePlace, SameSignals, SameMain, SameLanes,
            journal, scheduler, threads, process
<1>1. TypeOK /\ OffIsFree
  BY DEF IInv
<1>2. /\ OffIsQuiet(f) /\ Control(f) /\ Leased(f) /\ Handed(f) /\ Journalled(f)
      /\ Clocked(f) /\ Charged(f) /\ Working(f) /\ Ended(f) /\ Owning(f)
  BY Parts
<1>3. /\ acq[f] = "logged" /\ SameJournal(f) /\ SameSignals(f)
      /\ SameMain /\ owner' = owner /\ got'[f] = None /\ ex[f] \in Executions /\ got[f] \in Lanes \cup {None}
  BY <1>1 DEF StartLease, TypeOK
<1>4. OffIsFree' /\ \A g \in Frames \ {f} : Same(g)
  <2>1. \A g \in Frames \ {f} : SameJournal(g) /\ SameSignals(g)
    BY <1>1 DEF StartLease
  <2>2. /\ bag' = bag \/ bag' = [bag EXCEPT ![f]["acquire"] =
                    [lane |-> got[f], amount |-> 0, logged |-> FALSE]]
        /\ ex' = ex \/ ex' = [ex EXCEPT ![f] = [StartClock(ex[f]) EXCEPT !.lane = got[f]]]
        /\ timers' = timers \/ timers' = [timers EXCEPT ![f] = @ \cup {NewTimer(f)}]
    BY DEF StartLease
  <2>3. /\ acq' \in {[acq EXCEPT ![f] = a] : a \in {"no", "returning"}}
        /\ life' = life \/ life' = [life EXCEPT ![f] = "running"]
        /\ call' = call \/ call' = [call EXCEPT ![f] = "none"]
        /\ got' = [got EXCEPT ![f] = None]
    BY DEF StartLease
  <2>4. \A g \in Frames \ {f} : SamePlace(g)
    <3>1. \A g \in Frames \ {f} : acq'[g] = acq[g]
      BY <1>1, <2>3 DEF TypeOK
    <3>2. \A g \in Frames \ {f} : /\ life'[g] = life[g] /\ call'[g] = call[g]
                                 /\ got'[g] = got[g]
      BY <1>1, <2>3 DEF TypeOK
    <3> QED BY <3>1, <3>2
  <2>5. \A g \in Frames \ {f} : SameRecord(g) /\ SameBag(g)
    <3>1. \A g \in Frames \ {f} : bag'[g] = bag[g]
      BY <1>1, <2>2 DEF TypeOK
    <3>2. \A g \in Frames \ {f} : ex'[g] = ex[g]
      BY <1>1, <2>2 DEF TypeOK
    <3>3. \A g \in Frames \ {f} : timers'[g] = timers[g]
      BY <1>1, <2>2 DEF TypeOK
    <3> QED BY <3>1, <3>2, <3>3
  <2> QED BY <1>1, <1>3, <2>1, <2>2, <2>3, <2>4, <2>5 DEF OffIsFree, Running, Same
<1>5. SUFFICES Part(f)'
  BY <1>4, OneFrame
<1>6. CASE MayLease(ex[f])
  <2>1. /\ ex' = [ex EXCEPT ![f] = [StartClock(ex[f]) EXCEPT !.lane = got[f]]]
        /\ timers' = [timers EXCEPT ![f] = @ \cup {NewTimer(f)}]
        /\ acq' = [acq EXCEPT ![f] = "no"] /\ bag' = bag
        /\ \/ life[f] = "starting" /\ life' = [life EXCEPT ![f] = "running"] /\ call' = call
           \/ life[f] # "starting" /\ life' = life /\ call' = [call EXCEPT ![f] = "none"]
    BY <1>6 DEF StartLease
  <2>2. ex'[f] = [StartClock(ex[f]) EXCEPT !.lane = got[f]]
    BY <1>1, <2>1 DEF TypeOK
  <2>3. /\ timers'[f] = timers[f] \cup {NewTimer(f)} /\ acq'[f] = "no" /\ bag'[f] = bag[f]
        /\ \/ life[f] = "starting" /\ life'[f] = "running" /\ call'[f] = call[f]
           \/ life[f] # "starting" /\ life'[f] = life[f] /\ call'[f] = "none"
    BY <1>1, <2>1 DEF TypeOK
  <2>4. /\ ex'[f].open = ex[f].open /\ ex'[f].timedOut = ex[f].timedOut
        /\ ex'[f].lane = got[f] /\ ex'[f].counting
        /\ ex'[f].elapsed = ex[f].elapsed /\ ex'[f].used = ex[f].used
        /\ ex'[f].lease = ex[f].lease /\ ex'[f].gen = ex[f].gen + 1
        /\ ex'[f].reaped = ex[f].reaped
    BY <1>3, <2>2, StartClockFields DEF Executions
  <2>5. ex[f].open /\ ~ex[f].timedOut
    BY <1>6 DEF MayLease
  <2>6. /\ call'[f] = "none" /\ got[f] \in Lanes /\ got[f] # None /\ jlane[f] = got[f]
        /\ EmptyHands(f)
    BY <1>2, <1>3, <2>3, ConstantsAssumption
      DEF Control, Handed, Journalled, ConstantsAssumption
  <2>7. (OffIsQuiet(f) /\ Control(f) /\ Working(f) /\ Ended(f))'
    BY <1>2, <1>3, <2>3, <2>4, <2>5, <2>6, ConstantsAssumption DEF OffIsQuiet, Quiet,
      Running, EmptyHands, Control, Working, Full, Ended, Handed, ConstantsAssumption
  <2>8. Leased(f)'
    BY <1>2, <1>3, <2>3, <2>4, <2>5, <2>6, ConstantsAssumption DEF Leased, EmptyHands,
      Control, Handed, Journalled, ConstantsAssumption
  <2>9. Handed(f)'
    BY <1>2, <1>3, <2>3, <2>4, <2>5, <2>6, ConstantsAssumption DEF Handed, EmptyHands,
      Full, Control, Carriers, ConstantsAssumption, NoBag
  <2>10. Journalled(f)'
    BY <1>2, <1>3, <2>3, <2>4, <2>5, <2>6 DEF Journalled, Lost, Full, Running, Control,
      Leased, Handed, EmptyHands, OffIsQuiet, Quiet, Carriers
  <2>11. Owning(f)'
    BY <1>2, <1>3, <2>3, <2>4, <2>5, <2>6, <1>1, FrameFacts, ConstantsAssumption DEF
      Owning, Holds, Full, Running, Control, Leased, Handed, EmptyHands,
      ConstantsAssumption, Journalled
  <2>12. Clocked(f)'
    BY <1>2, <1>3, <2>3, <2>4, <2>5, <2>6, <1>1, FrameFacts, ConstantsAssumption, NewTimerFacts DEF
      Clocked, Leased
  <2>13. Charged(f)'
    BY <1>2, <1>3, <2>3, <2>4, <2>5, <2>6 DEF Charged, Owed
  <2> QED BY <2>7, <2>8, <2>9, <2>10, <2>11, <2>12, <2>13 DEF Part
<1>7. CASE ~MayLease(ex[f])
  <2>1. /\ bag' = [bag EXCEPT ![f]["acquire"] =
                    [lane |-> got[f], amount |-> 0, logged |-> FALSE]]
        /\ acq' = [acq EXCEPT ![f] = "returning"]
        /\ ex' = ex /\ timers' = timers /\ life' = life /\ call' = call
    BY <1>7 DEF StartLease
  <2>2. /\ bag'[f]["acquire"] = [lane |-> got[f], amount |-> 0, logged |-> FALSE]
        /\ \A a \in Carriers \ {"acquire"} : bag'[f][a] = bag[f][a]
        /\ acq'[f] = "returning" /\ SameRecord(f) /\ life'[f] = life[f] /\ call'[f] = call[f]
    BY <1>1, <2>1 DEF TypeOK, Carriers
  <2>3. /\ bag'[f]["acquire"].lane = got[f] /\ bag'[f]["acquire"].amount = 0
        /\ ~bag'[f]["acquire"].logged /\ "acquire" \in Carriers
    BY <2>2 DEF Carriers
  <2>4. (OffIsQuiet(f) /\ Control(f) /\ Working(f) /\ Ended(f))'
    BY <1>2, <1>3, <2>2, <2>3 DEF OffIsQuiet, Quiet, Running, EmptyHands, Control,
      Working, Full, Ended, Handed, Carriers
  <2>5. Leased(f)'
    BY <1>2, <1>3, <2>2, <2>3 DEF Leased, EmptyHands, Control
  <2>6. Handed(f)'
    BY <1>2, <1>3, <2>2, <2>3, ConstantsAssumption, <1>7 DEF Handed, EmptyHands, Full,
      Control, Carriers, NoBag, ConstantsAssumption, MayLease
  <2>7. Journalled(f)'
    BY <1>2, <1>3, <2>2, <2>3 DEF Journalled, Lost, Full, Running, Control, Leased,
      Handed, EmptyHands, OffIsQuiet, Quiet, Carriers
  <2>8. Owning(f)'
    BY <1>2, <1>3, <2>2, <2>3, <1>1, FrameFacts, ConstantsAssumption DEF Owning, Holds,
      Full, Running, Control, Leased, Handed, EmptyHands, ConstantsAssumption,
      Journalled
  <2>9. Clocked(f)'
    BY <1>2, <1>3, <2>2, <2>3 DEF Clocked
  <2>10. Charged(f)'
    BY <1>2, <1>3, <2>2, <2>3 DEF Charged, Owed, Carriers, NoBag, Handed, EmptyHands
  <2> QED BY <2>4, <2>5, <2>6, <2>7, <2>8, <2>9, <2>10 DEF Part
<1> QED BY <1>3, <1>6, <1>7
\* Time passes for a frame: only a worker that thinks has a clock that runs.
LEMMA TickStep ==
  ASSUME IInv, NEW f \in Frames, Tick(f), TypeOK'
  PROVE  IInv'
<1> USE DEF SameJournal, SameRecord, SameBag, SamePlace, SameSignals, SameMain, SameLanes,
            journal, scheduler, threads, process
<1>1. TypeOK /\ OffIsFree
  BY DEF IInv
<1>2. /\ OffIsQuiet(f) /\ Control(f) /\ Leased(f) /\ Handed(f) /\ Journalled(f)
      /\ Clocked(f) /\ Charged(f) /\ Working(f) /\ Ended(f) /\ Owning(f)
  BY Parts
<1>3. /\ SameJournal(f) /\ SameBag(f) /\ SamePlace(f) /\ SameMain /\ owner' = owner
      /\ stopping'[f] = stopping[f] /\ cancelled'[f] = cancelled[f] /\ ex[f] \in Executions
  BY <1>1 DEF Tick, TypeOK
<1>4. OffIsFree' /\ \A g \in Frames \ {f} : Same(g)
  <2>1. \A g \in Frames \ {f} : SameJournal(g) /\ SameBag(g) /\ SamePlace(g) /\ SameSignals(g)
    BY <1>1 DEF Tick, TypeOK
  <2>2. \E e, t : ex' = [ex EXCEPT ![f] = e] /\ timers' = [timers EXCEPT ![f] = t]
    BY DEF Tick
  <2>3. \A g \in Frames \ {f} : SameRecord(g)
    BY <1>1, <2>2 DEF TypeOK
  <2> QED BY <1>1, <1>3, <2>1, <2>2, <2>3 DEF OffIsFree, Running, Same
<1>5. SUFFICES Part(f)'
  BY <1>4, OneFrame
<1>6. Part(f)'
  <2>1. /\ ex' = [ex EXCEPT ![f] = [ex[f] EXCEPT !.elapsed =
                 IF ex[f].counting THEN ex[f].elapsed + 1 ELSE ex[f].elapsed]]
        /\ timers' = [timers EXCEPT ![f] =
                 {<<x[1], IF x[2] > 0 THEN x[2] - 1 ELSE 0>> : x \in timers[f]}]
        /\ thought' = [thought EXCEPT ![f] =
                 IF life[f] \in {"running", "returned", "unwound"} /\ call[f] = "none"
                 THEN thought[f] + 1 ELSE thought[f]]
    BY DEF Tick
  <2>2. /\ ex[f].counting \/ \E x \in timers[f] : x[2] > 0
    BY DEF Tick
  <2>3. /\ ex[f].counting /\ ex[f].lane # None
    BY <1>2, <2>2 DEF Clocked, Leased
  <2>4. /\ life[f] \in {"running", "returned", "unwound"} /\ call[f] = "none"
    BY <1>1, <1>2, <2>3 DEF Leased, Control, TypeOK
  <2>5. ex'[f] = [ex[f] EXCEPT !.elapsed = ex[f].elapsed + 1]
    BY <1>1, <2>1, <2>3 DEF TypeOK
  <2>6. /\ ex'[f].open = ex[f].open /\ ex'[f].timedOut = ex[f].timedOut
        /\ ex'[f].lane = ex[f].lane /\ ex'[f].counting = ex[f].counting
        /\ ex'[f].elapsed = ex[f].elapsed + 1 /\ ex'[f].used = ex[f].used
        /\ ex'[f].lease = ex[f].lease /\ ex'[f].gen = ex[f].gen
        /\ ex'[f].reaped = ex[f].reaped
    BY <1>3, <2>5 DEF Executions
  <2>7. thought'[f] = thought[f] + 1
    BY <1>1, <2>1, <2>4 DEF TypeOK
  <2>8. timers'[f] = {<<x[1], IF x[2] > 0 THEN x[2] - 1 ELSE 0>> : x \in timers[f]}
    BY <1>1, <2>1 DEF TypeOK
  <2>9. (OffIsQuiet(f) /\ Control(f) /\ Working(f) /\ Ended(f))'
    BY <1>2, <1>3, <2>3, <2>4, <2>6, <2>7 DEF OffIsQuiet, Quiet, Running, EmptyHands,
      Control, Working, Full, Ended, Leased
  <2>10. (Leased(f) /\ Handed(f))'
    BY <1>2, <1>3, <2>3, <2>4, <2>6, <2>7 DEF Leased, EmptyHands, Control, Handed, Full,
      Carriers
  <2>11. Journalled(f)'
    BY <1>2, <1>3, <2>3, <2>4, <2>6, <2>7 DEF Journalled, Lost, Full, Running, Control,
      Leased, Handed, EmptyHands, OffIsQuiet, Quiet, Carriers
  <2>12. Owning(f)'
    BY <1>2, <1>3, <2>3, <2>4, <2>6, <2>7, <1>1, FrameFacts, ConstantsAssumption DEF
      Owning, Holds, Full, Running, Control, Leased, Handed, EmptyHands,
      ConstantsAssumption, Journalled
  <2>13. Clocked(f)'
    <3>1. /\ ex[f].used \in Nat /\ ex[f].elapsed \in Nat /\ ex[f].gen \in Nat
          /\ thought[f] \in Nat /\ Budget \in Nat
          /\ \A x \in timers[f] : x[1] \in Nat /\ x[2] \in Nat
      BY <1>1, FrameFacts, ConstantsAssumption DEF ConstantsAssumption
    <3>2. ex'[f].used + ex'[f].elapsed = thought'[f]
      BY <1>2, <2>6, <2>7, <3>1 DEF Clocked
    <3>3. ex'[f].timedOut => thought'[f] >= Budget
      BY <1>2, <2>6, <2>7, <3>1 DEF Clocked
    <3>4. ASSUME NEW x \in timers'[f]
          PROVE  /\ x[1] <= ex'[f].gen
                 /\ x[2] > 0 => x[1] = ex'[f].gen /\ ex'[f].counting
                 /\ x[1] = ex'[f].gen /\ ex'[f].counting =>
                      ex'[f].used + ex'[f].elapsed + x[2] >= Budget
                 /\ \A y \in timers'[f] : y[1] = x[1] => y = x
      <4>1. PICK w \in timers[f] : x = <<w[1], IF w[2] > 0 THEN w[2] - 1 ELSE 0>>
        BY <2>8
      <4>2. /\ w[1] <= ex[f].gen
            /\ w[2] > 0 => w[1] = ex[f].gen /\ ex[f].counting
            /\ w[1] = ex[f].gen /\ ex[f].counting =>
                 ex[f].used + ex[f].elapsed + w[2] >= Budget
            /\ \A v \in timers[f] : v[1] = w[1] => v = w
        BY <1>2 DEF Clocked
      <4>3. /\ x[1] = w[1] /\ x[2] \in Nat /\ x[2] >= w[2] - 1 /\ (x[2] > 0 => w[2] > 0)
            /\ w[1] \in Nat /\ w[2] \in Nat
        BY <3>1, <4>1
      <4>4. \A y \in timers'[f] : y[1] = x[1] => y = x
        BY <2>8, <4>1, <4>2
      <4>5. x[2] > 0 => x[1] = ex'[f].gen /\ ex'[f].counting
        BY <2>6, <4>2, <4>3
      <4>6. ASSUME x[1] = ex'[f].gen, ex'[f].counting
            PROVE  ex'[f].used + ex'[f].elapsed + x[2] >= Budget
        BY <2>3, <2>6, <3>1, <4>2, <4>3, <4>6
      <4> QED BY <2>6, <4>2, <4>3, <4>4, <4>5, <4>6
    <3> QED BY <3>2, <3>3, <3>4 DEF Clocked
  <2>14. Charged(f)'
    <3>1. /\ Owed(f, "launch")' = Owed(f, "launch") /\ Owed(f, "launch") \in Nat
          /\ Owed(f, "call")' = Owed(f, "call") /\ Owed(f, "call") \in Nat
          /\ Owed(f, "timer")' = Owed(f, "timer") /\ Owed(f, "timer") \in Nat
          /\ Owed(f, "acquire")' = Owed(f, "acquire") /\ Owed(f, "acquire") \in Nat
      BY <1>1, <1>3, OwedIsNat DEF Owed, Carriers
    <3>2. life[f] # "exited" /\ life'[f] # "exited"
      BY <1>3, <2>4
    <3>3. /\ ex[f].lease \in Nat /\ ex[f].elapsed \in Nat /\ charged[f] \in Nat
          /\ thought[f] \in Nat
      BY <1>1, FrameFacts
    <3> QED BY <1>2, <1>3, <2>6, <2>7, <3>1, <3>2, <3>3 DEF Charged
  <2> QED BY <2>9, <2>10, <2>11, <2>12, <2>13, <2>14 DEF Part
<1> QED BY <1>6

\* An interval is closed in the journal, and charged.
LEMMA LogReleasedStep ==
  ASSUME IInv, NEW f \in Frames, NEW a \in Carriers, LogReleased(f, a), TypeOK'
  PROVE  IInv'
<1> USE DEF SameJournal, SameRecord, SameBag, SamePlace, SameSignals, SameMain, SameLanes,
            journal, scheduler, threads, process
<1>1. TypeOK /\ OffIsFree
  BY DEF IInv
<1>2. /\ OffIsQuiet(f) /\ Control(f) /\ Leased(f) /\ Handed(f) /\ Journalled(f)
      /\ Clocked(f) /\ Charged(f) /\ Working(f) /\ Ended(f) /\ Owning(f)
  BY Parts
<1>3. /\ Full(f, a) /\ ~bag[f][a].logged /\ SameRecord(f) /\ SamePlace(f) /\ SameMain
      /\ owner' = owner /\ cancelled'[f] = cancelled[f] /\ thought'[f] = thought[f]
      /\ jlane'[f] = None /\ charged'[f] = charged[f] + bag[f][a].amount
      /\ \A b \in Carriers \ {a} : bag'[f][b] = bag[f][b]
      /\ stopping'[f] = (stopping[f] \/ a = "timer")
  BY <1>1 DEF LogReleased, TypeOK, Full
<1>4. OffIsFree' /\ \A g \in Frames \ {f} : Same(g)
  <2>1. \A g \in Frames \ {f} : SameJournal(g) /\ SameRecord(g) /\ SamePlace(g) /\ SameSignals(g)
    BY <1>1 DEF LogReleased, TypeOK
  <2>2. bag' = [bag EXCEPT ![f][a].logged = TRUE]
    BY DEF LogReleased
  <2>3. \A g \in Frames \ {f} : SameBag(g)
    BY <1>1, <2>2 DEF TypeOK
  <2> QED BY <1>1, <1>3, <2>1, <2>2, <2>3 DEF OffIsFree, Running, Same
<1>5. SUFFICES Part(f)'
  BY <1>4, OneFrame
<1>6. Part(f)'
  <2>1. bag' = [bag EXCEPT ![f][a] = [bag[f][a] EXCEPT !.logged = TRUE]]
    BY DEF LogReleased
  <2>2. bag'[f][a] = [bag[f][a] EXCEPT !.logged = TRUE] /\ bag[f][a] \in Bags
    BY <1>1, <2>1 DEF TypeOK
  <2>3. /\ bag'[f][a].lane = bag[f][a].lane /\ bag'[f][a].amount = bag[f][a].amount
        /\ bag'[f][a].logged
    BY <2>2 DEF Bags
  <2>4. /\ \A b \in Carriers \ {a} : bag[f][b] = NoBag
        /\ ex[f].lane = None /\ ~EmptyHands(f)
    BY <1>2, <1>3, EmptyHand DEF Leased, Handed, Full, EmptyHands
  <2>5. \A b \in Carriers : bag'[f][b].lane = bag[f][b].lane
    BY <1>3, <2>3
  <2>6. (OffIsQuiet(f) /\ Control(f))'
    BY <1>2, <1>3, <2>3, <2>4, <2>5 DEF OffIsQuiet, Quiet, Running, EmptyHands, Control
  <2>7. Working(f)'
    BY <1>2, <1>3, <2>3, <2>4, <2>5 DEF Working, Full, Carriers
  <2>8. Ended(f)'
    BY <1>2, <1>3, <2>3, <2>4, <2>5 DEF Ended, EmptyHands, Full, Carriers
  <2>9. Leased(f)'
    BY <1>2, <1>3, <2>3, <2>4, <2>5 DEF Leased, EmptyHands, Control
  <2>10. Handed(f)'
    BY <1>2, <1>3, <2>3, <2>4, <2>5 DEF Handed, EmptyHands, Full, Control, Carriers
  <2>11. Journalled(f)'
    BY <1>2, <1>3, <2>3, <2>4, <2>5, EmptyHand DEF Journalled, Lost, Full, Running,
      Control, Leased, Handed, EmptyHands, OffIsQuiet, Quiet, Carriers
  <2>12. Owning(f)'
    BY <1>2, <1>3, <2>3, <2>4, <2>5 DEF Owning, Holds, Full, Running, Control, Leased,
      Handed, EmptyHands
  <2>13. Clocked(f)'
    BY <1>2, <1>3, <2>3, <2>4, <2>5 DEF Clocked
  <2>14. Charged(f)'
    <3>1. \A b \in Carriers : Owed(f, b)' = 0 /\ (b # a => Owed(f, b) = 0)
      BY <1>3, <2>3, <2>4, EmptyHand DEF Owed
    <3>2. Owed(f, a) = bag[f][a].amount /\ bag[f][a].amount \in Nat
      BY <1>1, <1>3, FrameFacts DEF Owed
    <3>3. Owed(f, "launch") + Owed(f, "call") + Owed(f, "timer") + Owed(f, "acquire")
            = bag[f][a].amount
      BY <3>1, <3>2 DEF Carriers
    <3>4. /\ ex[f].lease \in Nat /\ ex[f].elapsed \in Nat /\ charged[f] \in Nat
          /\ thought[f] \in Nat
          /\ Owed(f, "launch") \in Nat /\ Owed(f, "call") \in Nat
          /\ Owed(f, "timer") \in Nat /\ Owed(f, "acquire") \in Nat
      BY <1>1, FrameFacts, OwedIsNat DEF Carriers
    <3>5. /\ Owed(f, "launch")' = 0 /\ Owed(f, "call")' = 0
          /\ Owed(f, "timer")' = 0 /\ Owed(f, "acquire")' = 0
      BY <3>1 DEF Carriers
    <3>6. life[f] # "exited" /\ life'[f] = life[f] /\ ex'[f] = ex[f]
      BY <1>2, <1>3, <2>4 DEF Ended
    <3> QED BY <1>2, <1>3, <3>2, <3>3, <3>4, <3>5, <3>6 DEF Charged
  <2> QED BY <2>6, <2>7, <2>8, <2>9, <2>10, <2>11, <2>12, <2>13, <2>14 DEF Part
<1> QED BY <1>6
\* A lane is free again.
LEMMA FreeLaneStep ==
  ASSUME IInv, NEW f \in Frames, NEW a \in Carriers, FreeLane(f, a), TypeOK'
  PROVE  IInv'
<1> USE DEF SameJournal, SameRecord, SameBag, SamePlace, SameSignals, SameMain, SameLanes,
            journal, scheduler, threads, process
<1>1. TypeOK /\ OffIsFree
  BY DEF IInv
<1>2. /\ OffIsQuiet(f) /\ Control(f) /\ Leased(f) /\ Handed(f) /\ Journalled(f)
      /\ Clocked(f) /\ Charged(f) /\ Working(f) /\ Ended(f) /\ Owning(f)
  BY Parts
<1>3. /\ Full(f, a) /\ bag[f][a].logged /\ SameJournal(f) /\ SameSignals(f) /\ SameMain
      /\ timers'[f] = timers[f] /\ got'[f] = got[f]
      /\ bag'[f][a] = NoBag /\ \A b \in Carriers \ {a} : bag'[f][b] = bag[f][b]
      /\ bag[f][a].lane \in Lanes
      /\ \A l \in Lanes : owner'[l] = IF l = bag[f][a].lane THEN None ELSE owner[l]
  BY <1>1, FrameFacts DEF FreeLane, MayFree, TypeOK, Full
<1>4. OffIsFree' /\ \A g \in Frames \ {f} : Same(g)
  <2>1. \A g \in Frames \ {f} : SameJournal(g) /\ SameBag(g) /\ SameSignals(g)
    BY <1>1 DEF FreeLane, TypeOK
  <2>2. \E e \in Executions : ex' = [ex EXCEPT ![f] = e] /\ timers' = timers
    BY <1>1, FieldTypes DEF FreeLane, TypeOK
  <2>3. \A g \in Frames \ {f} : SameRecord(g)
    BY <1>1, <2>2 DEF TypeOK
  <2>4. /\ acq' = acq \/ acq' = [acq EXCEPT ![f] = "no"]
        /\ life' = life \/ life' = [life EXCEPT ![f] = "returned"]
        /\ call' = call \/ call' = [call EXCEPT ![f] = "none"]
        /\ got' = got
    BY DEF FreeLane, AcquireFails
  <2>5. \A g \in Frames \ {f} : SamePlace(g)
    BY <1>1, <2>4 DEF TypeOK
  <2>6. owner[bag[f][a].lane] = f /\ f # None /\ \A g \in Frames : g # None
    BY <1>2, <1>3, ConstantsAssumption DEF Owning, ConstantsAssumption
  <2>7. \A g \in Frames \ {f} : SameLanes(g)
    BY <1>3, <2>6
  <2> QED BY <1>1, <1>3, <2>1, <2>2, <2>3, <2>4, <2>5, <2>6, <2>7 DEF OffIsFree, Running, Same
<1>5. SUFFICES Part(f)'
  BY <1>4, OneFrame
<1>6. Part(f)'
  <2>1. /\ ex' = [ex EXCEPT ![f] = [ex[f] EXCEPT !.reaped = ex[f].reaped \/ a = "timer"]]
        /\ IF a = "acquire" THEN AcquireFails(f) ELSE UNCHANGED <<acq, life, call>>
        /\ got' = got
    BY DEF FreeLane
  <2>2. ex'[f] = [ex[f] EXCEPT !.reaped = ex[f].reaped \/ a = "timer"] /\ ex[f] \in Executions
    BY <1>1, <2>1 DEF TypeOK
  <2>3. /\ ex'[f].open = ex[f].open /\ ex'[f].timedOut = ex[f].timedOut
        /\ ex'[f].lane = ex[f].lane /\ ex'[f].counting = ex[f].counting
        /\ ex'[f].elapsed = ex[f].elapsed /\ ex'[f].used = ex[f].used
        /\ ex'[f].lease = ex[f].lease /\ ex'[f].gen = ex[f].gen
        /\ ex'[f].reaped = (ex[f].reaped \/ a = "timer")
    BY <2>2 DEF Executions
  <2>4. IF a = "acquire" THEN Failed(f) ELSE SamePlace(f)
    BY <1>1, <2>1, FailsEffect
  <2>5. /\ \A b \in Carriers \ {a} : bag[f][b] = NoBag
        /\ ex[f].lane = None /\ ~EmptyHands(f)
    BY <1>2, <1>3, EmptyHand DEF Leased, Handed, Full, EmptyHands
  <2>6. /\ EmptyHands(f)' /\ jlane[f] = None
        /\ acq[f] \notin {"enter", "append", "wait", "owned", "logged"}
    BY <1>2, <1>3, <2>5 DEF EmptyHands, Handed, Journalled
  <2>7. (OffIsQuiet(f) /\ Control(f))'
    BY <1>2, <1>3, <2>3, <2>4, <2>5, <2>6 DEF OffIsQuiet, Quiet, Running, EmptyHands,
      Control, Failed, Handed
  <2>8. Working(f)'
    BY <1>2, <1>3, <2>3, <2>4, <2>5, <2>6, EmptyHand DEF Working, Full, Control,
      Carriers, Failed, Handed, EmptyHands
  <2>9. Ended(f)'
    BY <1>2, <1>3, <2>3, <2>4, <2>5, <2>6, EmptyHand DEF Ended, EmptyHands, Full,
      Carriers, Failed
  <2>10. Leased(f)'
    BY <1>2, <1>3, <2>3, <2>4, <2>5, <2>6 DEF Leased, EmptyHands, Control, Failed
  <2>11. Handed(f)'
    BY <1>2, <1>3, <2>3, <2>4, <2>5, <2>6, EmptyHand DEF Handed, EmptyHands, Full,
      Control, Carriers, Failed
  <2>12. Journalled(f)'
    BY <1>2, <1>3, <2>3, <2>4, <2>5, <2>6, EmptyHand DEF Journalled, Lost, Full,
      Running, Control, Leased, Handed, EmptyHands, OffIsQuiet, Quiet, Carriers, Failed
  <2>13. Owning(f)'
    <3>1. acq'[f] \notin {"owned", "logged"} /\ ex'[f].lane = None /\ jlane'[f] = None
      BY <2>3, <2>4, <2>5, <2>6, <1>3 DEF Failed
    <3>2. \A b \in Carriers : bag'[f][b].lane = None
      BY <2>6, EmptyHand DEF EmptyHands
    <3>3. f # None
      BY ConstantsAssumption DEF ConstantsAssumption
    <3>4. ASSUME NEW l \in Lanes, owner'[l] = f, f # Root \/ main' = "driving" PROVE FALSE
      <4>1. l # bag[f][a].lane /\ Holds(f, l)
        BY <1>2, <1>3, <3>3, <3>4 DEF Owning
      <4>2. l # None
        BY ConstantsAssumption DEF ConstantsAssumption
      <4> QED BY <2>5, <2>6, <4>1, <4>2, EmptyHand DEF Holds
    <3> QED BY <3>1, <3>2, <3>4 DEF Owning, Full
  <2>14. Clocked(f)'
    BY <1>2, <1>3, <2>3, <2>4, <2>5, <2>6 DEF Clocked
  <2>15. Charged(f)'
    <3>1. \A b \in Carriers : Owed(f, b) = 0 /\ Owed(f, b)' = 0
      BY <1>3, <2>5, <2>6, EmptyHand DEF Owed, EmptyHands
    <3>2. life[f] # "exited" /\ life'[f] # "exited"
      BY <1>2, <2>4, <2>5 DEF Ended, Failed
    <3> QED BY <1>2, <1>3, <2>3, <3>1, <3>2 DEF Charged, Carriers
  <2> QED BY <2>7, <2>8, <2>9, <2>10, <2>11, <2>12, <2>13, <2>14, <2>15 DEF Part
<1> QED BY <1>6

\* A lane that was detached is in one hand, with the time that is to be charged.
Detached(f, a) ==
  /\ ex'[f].lane = None /\ ~ex'[f].counting /\ ex'[f].elapsed = 0 /\ ex'[f].lease = 0
  /\ ex'[f].reaped = ex[f].reaped /\ ex'[f].used = ex[f].used + ex[f].elapsed
  /\ ex'[f].gen = ex[f].gen + 1
  /\ bag'[f][a].lane = ex[f].lane /\ bag'[f][a].amount = ex[f].lease + ex[f].elapsed
  /\ ~bag'[f][a].logged
  /\ \A b \in Carriers \ {a} : bag'[f][b] = NoBag

\* An execution that is timed out, or closed, is otherwise as before.
LEMMA EndedFields ==
  ASSUME NEW e \in Executions
  PROVE  /\ LET t == [e EXCEPT !.timedOut = TRUE] IN
            /\ t \in Executions /\ t.timedOut /\ t.open = e.open /\ t.lane = e.lane
            /\ t.reaped = e.reaped /\ t.used = e.used /\ t.elapsed = e.elapsed
            /\ t.lease = e.lease /\ t.gen = e.gen /\ t.counting = e.counting
         /\ LET c == [e EXCEPT !.open = FALSE] IN
            /\ c \in Executions /\ ~c.open /\ c.timedOut = e.timedOut /\ c.lane = e.lane
            /\ c.reaped = e.reaped /\ c.used = e.used /\ c.elapsed = e.elapsed
            /\ c.lease = e.lease /\ c.gen = e.gen /\ c.counting = e.counting
BY DEF Executions

LEMMA DetachedEffect ==
  ASSUME TypeOK, NEW f \in Frames, NEW a \in Carriers, NEW e \in Executions,
         Detach(f, a, e), EmptyHands(f), e.lane = ex[f].lane,
         e.reaped = ex[f].reaped, e.used = ex[f].used, e.elapsed = ex[f].elapsed,
         e.lease = ex[f].lease, e.gen = ex[f].gen
  PROVE  /\ Detached(f, a) /\ ex'[f].open = e.open /\ ex'[f].timedOut = e.timedOut
         /\ \A g \in Frames \ {f} : ex'[g] = ex[g] /\ bag'[g] = bag[g]
<1>1. Detached(f, a)
  BY DetachFacts DEF Detached, EmptyHands
<1> QED BY <1>1, DetachFacts

\* The parts of the invariant that are about lanes and time survive it.
LEMMA DetachedKeeps ==
  ASSUME IInv, TypeOK', NEW f \in Frames, NEW a \in Carriers, ex[f].lane # None,
         Detached(f, a), SameJournal(f), SameMain, owner' = owner,
         thought'[f] = thought[f], acq'[f] = acq[f], life'[f] # "exited",
         timers'[f] \subseteq timers[f], \A x \in timers'[f] : x[2] = 0,
         ex'[f].timedOut => thought[f] >= Budget
  PROVE  (Leased(f) /\ Journalled(f) /\ Owning(f) /\ Clocked(f) /\ Charged(f))'
<1> USE DEF SameJournal, SameMain, Detached
<1>1. TypeOK
  BY DEF IInv
<1>2. /\ Leased(f) /\ Handed(f) /\ Journalled(f) /\ Clocked(f) /\ Charged(f) /\ Owning(f)
  BY Parts
<1>3. /\ EmptyHands(f) /\ acq[f] = "no" /\ jlane[f] = ex[f].lane
      /\ owner[ex[f].lane] = f /\ ex[f].lane \in Lanes
  BY <1>1, <1>2, FrameFacts DEF Leased, Owning
<1>4. Leased(f)'
  BY DEF Leased
<1>5. Journalled(f)'
  BY <1>3, EmptyHand DEF Journalled, Full
<1>6. Owning(f)'
  <2>1. \A l \in Lanes : Holds(f, l) => Holds(f, l)'
    BY <1>3, EmptyHand, ConstantsAssumption
      DEF Holds, EmptyHands, ConstantsAssumption
  <2> QED BY <1>2, <1>3, <2>1, EmptyHand DEF Owning, Full
<1>7. Clocked(f)'
  <2>1. /\ ex[f].used \in Nat /\ ex[f].elapsed \in Nat /\ ex[f].gen \in Nat
        /\ thought[f] \in Nat /\ timers[f] \subseteq Nat \X Nat
    BY <1>1, FrameFacts
  <2>2. ex'[f].used + ex'[f].elapsed = thought'[f]
    BY <1>2, <2>1 DEF Clocked
  <2>3. \A x \in timers'[f] : x[1] <= ex'[f].gen /\ x[2] = 0
    BY <1>2, <2>1 DEF Clocked
  <2>4. \A x, y \in timers'[f] : y[1] = x[1] => y = x
    BY <1>2 DEF Clocked
  <2> QED BY <2>2, <2>3, <2>4 DEF Clocked
<1>8. Charged(f)'
  <2>1. \A b \in Carriers : Owed(f, b) = 0 /\ Owed(f, b)' = IF b = a THEN ex[f].lease + ex[f].elapsed ELSE 0
    BY <1>3, EmptyHand DEF Owed, EmptyHands
  <2>2. ex[f].lease \in Nat /\ ex[f].elapsed \in Nat /\ charged[f] \in Nat
    BY <1>1, FrameFacts
  <2>3. (Owed(f, "launch") + Owed(f, "call") + Owed(f, "timer") + Owed(f, "acquire"))'
          = ex[f].lease + ex[f].elapsed
    BY <2>1, <2>2 DEF Carriers
  <2>4. /\ Owed(f, "launch")' \in Nat /\ Owed(f, "call")' \in Nat
        /\ Owed(f, "timer")' \in Nat /\ Owed(f, "acquire")' \in Nat
    BY <2>1, <2>2 DEF Carriers
  <2>5. Owed(f, "launch") = 0 /\ Owed(f, "call") = 0 /\ Owed(f, "timer") = 0 /\ Owed(f, "acquire") = 0
    BY <2>1 DEF Carriers
  <2> QED BY <1>2, <2>2, <2>3, <2>4, <2>5 DEF Charged
<1> QED BY <1>4, <1>5, <1>6, <1>7, <1>8

\* A timer comes for its lane, or too late.
LEMMA ExpireStep ==
  ASSUME IInv, NEW f \in Frames, NEW x \in timers[f], Expire(f, x), TypeOK'
  PROVE  IInv'
<1> USE DEF SameJournal, SameRecord, SameBag, SamePlace, SameSignals, SameMain, SameLanes,
            journal, scheduler, threads, process
<1>1. TypeOK /\ OffIsFree
  BY DEF IInv
<1>2. /\ OffIsQuiet(f) /\ Control(f) /\ Leased(f) /\ Handed(f) /\ Journalled(f)
      /\ Clocked(f) /\ Charged(f) /\ Working(f) /\ Ended(f) /\ Owning(f)
  BY Parts
<1>3. /\ SameJournal(f) /\ SamePlace(f) /\ SameSignals(f) /\ SameMain /\ owner' = owner
      /\ x[2] = 0 /\ timers'[f] = timers[f] \ {x} /\ ex[f] \in Executions
  BY <1>1 DEF Expire, TypeOK
<1>4. OffIsFree' /\ \A g \in Frames \ {f} : Same(g)
  <2>1. \A g \in Frames \ {f} : SameJournal(g) /\ SamePlace(g) /\ SameSignals(g) /\ timers'[g] = timers[g]
    BY <1>1 DEF Expire, TypeOK
  <2>2. [ex[f] EXCEPT !.timedOut = TRUE] \in Executions
    BY <1>3, FieldTypes
  <2>3. UNCHANGED <<ex, bag>> \/ Detach(f, "timer", [ex[f] EXCEPT !.timedOut = TRUE])
    BY DEF Expire
  <2>4. \A g \in Frames \ {f} : ex'[g] = ex[g] /\ bag'[g] = bag[g]
    BY <1>1, <2>2, <2>3, DetachFacts DEF Carriers
  <2> QED BY <1>1, <1>3, <2>1, <2>2, <2>3, <2>4 DEF OffIsFree, Running, Same
<1>5. SUFFICES Part(f)'
  BY <1>4, OneFrame
<1>6. CASE ~IsTimerOf(ex[f], x[1])
  <2>1. ex'[f] = ex[f] /\ SameBag(f)
    BY <1>6 DEF Expire
  <2>2. (OffIsQuiet(f) /\ Control(f) /\ Working(f) /\ Ended(f))'
    BY <1>2, <1>3, <2>1, <1>6 DEF OffIsQuiet, Quiet, Running, EmptyHands, Control,
      Working, Full, Ended
  <2>3. (Leased(f) /\ Handed(f))'
    BY <1>2, <1>3, <2>1, <1>6 DEF Leased, EmptyHands, Control, Handed, Full, Carriers
  <2>4. (Journalled(f) /\ Owning(f))'
    BY <1>2, <1>3, <2>1, <1>6 DEF Journalled, Lost, Full, Running, Control, Leased,
      Handed, EmptyHands, OffIsQuiet, Quiet, Carriers, Owning, Holds
  <2>5. (Clocked(f) /\ Charged(f))'
    BY <1>2, <1>3, <2>1, <1>6 DEF Clocked, Charged, Owed
  <2> QED BY <2>2, <2>3, <2>4, <2>5 DEF Part
<1>7. CASE IsTimerOf(ex[f], x[1])
  <2>1. /\ ex[f].open /\ ~ex[f].timedOut /\ ex[f].counting /\ ex[f].gen = x[1]
        /\ ex[f].lane # None /\ EmptyHands(f) /\ acq[f] = "no" /\ call[f] \in {"none"}
    BY <1>2, <1>7 DEF IsTimerOf, Leased
  <2> DEFINE e == [ex[f] EXCEPT !.timedOut = TRUE]
  <2>2. Detach(f, "timer", e)
    BY <1>7 DEF Expire
  <2>3. /\ e \in Executions /\ e.timedOut /\ e.open = ex[f].open /\ e.lane = ex[f].lane
        /\ e.reaped = ex[f].reaped /\ e.used = ex[f].used /\ e.elapsed = ex[f].elapsed
        /\ e.lease = ex[f].lease /\ e.gen = ex[f].gen
    BY <1>3, EndedFields
  <2> HIDE DEF e
  <2>4. Detached(f, "timer") /\ ex'[f].open /\ ex'[f].timedOut
    BY <1>1, <2>1, <2>2, <2>3, DetachedEffect DEF Carriers
  <2>5. thought[f] >= Budget
    BY <1>1, <1>2, <1>3, <2>1, FrameFacts, ConstantsAssumption
      DEF Clocked, ConstantsAssumption
  <2>6. \A y \in timers'[f] : y[2] = 0
    BY <1>1, <1>2, <1>3, <2>1, FrameFacts DEF Clocked
  <2>7. life[f] # "exited" /\ ~ex[f].reaped
    BY <1>1, <1>2, <2>1 DEF Control, Working
  <2>8. (Leased(f) /\ Journalled(f) /\ Owning(f) /\ Clocked(f) /\ Charged(f))'
    BY <1>3, <2>1, <2>4, <2>5, <2>6, <2>7, DetachedKeeps DEF Carriers
  <2>9. (OffIsQuiet(f) /\ Control(f))'
    BY <1>2, <1>3, <2>1, <2>4, <2>7 DEF OffIsQuiet, Quiet, Running, EmptyHands, Control
  <2>10. Working(f)'
    BY <1>2, <1>3, <2>1, <2>4, <2>7, EmptyHand DEF Working, Full, Detached, Carriers,
      Leased, ConstantsAssumption
  <2>11. Ended(f)'
    BY <1>2, <1>3, <2>1, <2>4, <2>7 DEF Ended, EmptyHands, Full, Control
  <2>12. Handed(f)'
    BY <1>2, <1>3, <2>1, <2>4, <2>7, EmptyHand DEF Handed, EmptyHands, Full, Control,
      Carriers, Detached
  <2> QED BY <2>8, <2>9, <2>10, <2>11, <2>12 DEF Part
<1> QED BY <1>3, <1>6, <1>7
\* A frame is launched: nothing is left of an execution before.
LEMMA LaunchStep ==
  ASSUME IInv, NEW f \in Frames, Launch(f), TypeOK'
  PROVE  IInv'
<1> USE DEF SameJournal, SameRecord, SameBag, SamePlace, SameSignals, SameMain, SameLanes,
            journal, scheduler, threads, process
<1>1. TypeOK /\ OffIsFree
  BY DEF IInv
<1>2. /\ OffIsQuiet(f) /\ Control(f) /\ Leased(f) /\ Handed(f) /\ Journalled(f)
      /\ Clocked(f) /\ Charged(f) /\ Working(f) /\ Ended(f) /\ Owning(f)
  BY Parts
<1>3. /\ life[f] = "absent" /\ life'[f] = "starting" /\ acq[f] = "no" /\ acq'[f] = "check"
      /\ SameJournal(f) /\ SameBag(f) /\ SameSignals(f) /\ SameMain /\ owner' = owner
      /\ call'[f] = call[f] /\ got'[f] = got[f] /\ timers'[f] = timers[f]
      /\ ex'[f] = [NewExecution EXCEPT !.open = TRUE]
  BY <1>1, <1>2 DEF Launch, TypeOK, OffIsQuiet, Quiet
<1>4. OffIsFree' /\ \A g \in Frames \ {f} : Same(g)
  <2>1. \A g \in Frames \ {f} : SameJournal(g) /\ SameBag(g) /\ SameSignals(g) /\ timers'[g] = timers[g]
    BY <1>1 DEF Launch
  <2>2. \A g \in Frames \ {f} : SamePlace(g) /\ ex'[g] = ex[g]
    BY <1>1 DEF Launch, TypeOK
  <2> QED BY <1>1, <1>3, <2>1, <2>2 DEF OffIsFree, Running, Same
<1>5. SUFFICES Part(f)'
  BY <1>4, OneFrame
<1>6. Part(f)'
  <2>1. Quiet(f)
    BY <1>2, <1>3 DEF OffIsQuiet
  <2>2. /\ ex'[f].open /\ ~ex'[f].timedOut /\ ex'[f].lane = None /\ ~ex'[f].counting
        /\ ex'[f].elapsed = 0 /\ ex'[f].used = 0 /\ ex'[f].lease = 0 /\ ex'[f].gen = 0 /\ ~ex'[f].reaped
    BY <1>3 DEF NewExecution
  <2>3. /\ ex[f].open = FALSE /\ ~ex[f].timedOut /\ ex[f].lane = None /\ ~ex[f].counting
        /\ ex[f].elapsed = 0 /\ ex[f].used = 0 /\ ex[f].lease = 0 /\ ex[f].gen = 0 /\ ~ex[f].reaped
    BY <2>1 DEF Quiet, NewExecution
  <2>4. /\ call[f] = "none" /\ EmptyHands(f) /\ timers[f] = {} /\ thought[f] = 0 /\ charged[f] = 0
    BY <2>1 DEF Quiet
  <2>5. Running /\ (f = Root => main = "driving")
    BY <1>1, Parts, ConstantsAssumption
      DEF Launch, OffIsQuiet, Quiet, Running, ConstantsAssumption
  <2>6. (OffIsQuiet(f) /\ Control(f) /\ Working(f) /\ Ended(f))'
    BY <1>2, <1>3, <2>2, <2>3, <2>4, <2>5 DEF OffIsQuiet, Quiet, Running, EmptyHands,
      Control, Working, Full, Ended
  <2>7. (Leased(f) /\ Handed(f))'
    BY <1>2, <1>3, <2>2, <2>3, <2>4, <2>5, EmptyHand DEF Leased, EmptyHands, Control,
      Handed, Full, Carriers
  <2>8. Journalled(f)'
    BY <1>2, <1>3, <2>2, <2>3, <2>4, <2>5, EmptyHand DEF Journalled, Lost, Full,
      Running, Control, Leased, Handed, EmptyHands, OffIsQuiet, Quiet, Carriers
  <2>9. Owning(f)'
    BY <1>2, <1>3, <2>2, <2>3, <2>4, <2>5, EmptyHand DEF Owning, Holds, Full, Running,
      Control, Leased, Handed, EmptyHands
  <2>10. Clocked(f)'
    BY <1>2, <1>3, <2>2, <2>3, <2>4, <2>5 DEF Clocked
  <2>11. Charged(f)'
    <3>1. \A a \in Carriers : Owed(f, a)' = 0
      BY <1>3, <2>4, EmptyHand DEF Owed, EmptyHands
    <3> QED BY <1>3, <2>2, <2>4, <3>1 DEF Charged, Carriers
  <2> QED BY <2>6, <2>7, <2>8, <2>9, <2>10, <2>11 DEF Part
<1> QED BY <1>6

\* The lane of a parked frame is back.
LEMMA ParkedStep ==
  ASSUME IInv, NEW f \in Frames, Parked(f), TypeOK'
  PROVE  IInv'
<1> USE DEF SameJournal, SameRecord, SameBag, SamePlace, SameSignals, SameMain, SameLanes,
            journal, scheduler, threads, process
<1>1. TypeOK /\ OffIsFree
  BY DEF IInv
<1>2. /\ OffIsQuiet(f) /\ Control(f) /\ Leased(f) /\ Handed(f) /\ Journalled(f)
      /\ Clocked(f) /\ Charged(f) /\ Working(f) /\ Ended(f) /\ Owning(f)
  BY Parts
<1>3. /\ SameJournal(f) /\ SameRecord(f) /\ SameBag(f)
      /\ SameSignals(f) /\ SameMain /\ owner' = owner /\ bag[f]["call"] = NoBag
      /\ call[f] = "parking" /\ call'[f] = "working" /\ life'[f] = life[f]
      /\ acq'[f] = acq[f] /\ got'[f] = got[f]
  BY <1>1 DEF Parked, TypeOK
<1>4. OffIsFree' /\ \A g \in Frames \ {f} : Same(g)
  BY <1>1, <1>3 DEF Parked, TypeOK, OffIsFree, Running, Same
<1>5. SUFFICES Part(f)'
  BY <1>4, OneFrame
<1>6. Part(f)'
  <2>1. (OffIsQuiet(f) /\ Control(f) /\ Working(f) /\ Ended(f))'
    BY <1>2, <1>3 DEF OffIsQuiet, Quiet, Running, EmptyHands, Control, Working, Full,
      Ended
  <2>2. (Leased(f) /\ Handed(f))'
    BY <1>2, <1>3, EmptyHand DEF Leased, EmptyHands, Control, Handed, Full, Carriers
  <2>3. (Journalled(f) /\ Owning(f))'
    BY <1>2, <1>3 DEF Journalled, Lost, Full, Running, Control, Leased, Handed,
      EmptyHands, OffIsQuiet, Quiet, Carriers, Owning, Holds
  <2>4. (Clocked(f) /\ Charged(f))'
    BY <1>2, <1>3 DEF Clocked, Charged, Owed
  <2> QED BY <2>1, <2>2, <2>3, <2>4 DEF Part
<1> QED BY <1>6

\* The adapter ends.
LEMMA AdapterReturnsStep ==
  ASSUME IInv, NEW f \in Frames, AdapterReturns(f), TypeOK'
  PROVE  IInv'
<1> USE DEF SameJournal, SameRecord, SameBag, SamePlace, SameSignals, SameMain, SameLanes,
            journal, scheduler, threads, process
<1>1. TypeOK /\ OffIsFree
  BY DEF IInv
<1>2. /\ OffIsQuiet(f) /\ Control(f) /\ Leased(f) /\ Handed(f) /\ Journalled(f)
      /\ Clocked(f) /\ Charged(f) /\ Working(f) /\ Ended(f) /\ Owning(f)
  BY Parts
<1>3. /\ SameJournal(f) /\ SameRecord(f) /\ SameBag(f)
      /\ SameSignals(f) /\ SameMain /\ owner' = owner
      /\ life[f] = "running" /\ life'[f] = "returned" /\ call'[f] = call[f]
      /\ acq'[f] = acq[f] /\ got'[f] = got[f]
  BY <1>1 DEF AdapterReturns, TypeOK
<1>4. OffIsFree' /\ \A g \in Frames \ {f} : Same(g)
  BY <1>1, <1>3 DEF AdapterReturns, TypeOK, OffIsFree, Running, Same
<1>5. SUFFICES Part(f)'
  BY <1>4, OneFrame
<1>6. Part(f)'
  <2>1. (OffIsQuiet(f) /\ Control(f) /\ Working(f) /\ Ended(f))'
    BY <1>2, <1>3 DEF OffIsQuiet, Quiet, Running, EmptyHands, Control, Working, Full,
      Ended
  <2>2. (Leased(f) /\ Handed(f))'
    BY <1>2, <1>3 DEF Leased, EmptyHands, Control, Handed, Full, Carriers
  <2>3. (Journalled(f) /\ Owning(f))'
    BY <1>2, <1>3 DEF Journalled, Lost, Full, Running, Control, Leased, Handed,
      EmptyHands, OffIsQuiet, Quiet, Carriers, Owning, Holds
  <2>4. (Clocked(f) /\ Charged(f))'
    BY <1>2, <1>3 DEF Clocked, Charged, Owed
  <2> QED BY <2>1, <2>2, <2>3, <2>4 DEF Part
<1> QED BY <1>6

\* The close is over.
LEMMA ClosedStep ==
  ASSUME IInv, NEW f \in Frames, Closed(f), TypeOK'
  PROVE  IInv'
<1> USE DEF SameJournal, SameRecord, SameBag, SamePlace, SameSignals, SameMain, SameLanes,
            journal, scheduler, threads, process
<1>1. TypeOK /\ OffIsFree
  BY DEF IInv
<1>2. /\ OffIsQuiet(f) /\ Control(f) /\ Leased(f) /\ Handed(f) /\ Journalled(f)
      /\ Clocked(f) /\ Charged(f) /\ Working(f) /\ Ended(f) /\ Owning(f)
  BY Parts
<1>3. /\ SameJournal(f) /\ SameRecord(f) /\ SameBag(f)
      /\ SameSignals(f) /\ SameMain /\ owner' = owner /\ bag[f]["launch"] = NoBag
      /\ life[f] = "closing" /\ life'[f] = "joining" /\ call'[f] = call[f]
      /\ acq'[f] = acq[f] /\ got'[f] = got[f] /\ (ex[f].timedOut => ex[f].reaped)
  BY <1>1 DEF Closed, TypeOK
<1>4. OffIsFree' /\ \A g \in Frames \ {f} : Same(g)
  BY <1>1, <1>3 DEF Closed, TypeOK, OffIsFree, Running, Same
<1>5. SUFFICES Part(f)'
  BY <1>4, OneFrame
<1>6. Part(f)'
  <2>1. (OffIsQuiet(f) /\ Control(f) /\ Working(f) /\ Ended(f))'
    BY <1>2, <1>3, EmptyHand DEF OffIsQuiet, Quiet, Running, EmptyHands, Control,
      Working, Full, Ended
  <2>2. (Leased(f) /\ Handed(f))'
    BY <1>2, <1>3, EmptyHand DEF Leased, EmptyHands, Control, Handed, Full, Carriers
  <2>3. (Journalled(f) /\ Owning(f))'
    BY <1>2, <1>3 DEF Journalled, Lost, Full, Running, Control, Leased, Handed,
      EmptyHands, OffIsQuiet, Quiet, Carriers, Owning, Holds
  <2>4. (Clocked(f) /\ Charged(f))'
    BY <1>2, <1>3 DEF Clocked, Charged, Owed
  <2> QED BY <2>1, <2>2, <2>3, <2>4 DEF Part
<1> QED BY <1>6

\* A join cancels the call of its frame.
LEMMA JoinCancelsStep ==
  ASSUME IInv, NEW f \in Frames, JoinCancels(f), TypeOK'
  PROVE  IInv'
<1> USE DEF SameJournal, SameRecord, SameBag, SamePlace, SameSignals, SameMain, SameLanes,
            journal, scheduler, threads, process
<1>1. TypeOK /\ OffIsFree
  BY DEF IInv
<1>2. /\ OffIsQuiet(f) /\ Control(f) /\ Leased(f) /\ Handed(f) /\ Journalled(f)
      /\ Clocked(f) /\ Charged(f) /\ Working(f) /\ Ended(f) /\ Owning(f)
  BY Parts
<1>3. /\ SameJournal(f) /\ SameRecord(f) /\ SameBag(f)
      /\ SamePlace(f) /\ SameMain /\ owner' = owner /\ cancelled'[f]
      /\ stopping'[f] = stopping[f] /\ thought'[f] = thought[f]
  BY <1>1 DEF JoinCancels, TypeOK
<1>4. OffIsFree' /\ \A g \in Frames \ {f} : Same(g)
  BY <1>1, <1>3 DEF JoinCancels, TypeOK, OffIsFree, Running, Same
<1>5. SUFFICES Part(f)'
  BY <1>4, OneFrame
<1>6. Part(f)'
  <2>1. (OffIsQuiet(f) /\ Control(f) /\ Working(f) /\ Ended(f))'
    BY <1>2, <1>3 DEF OffIsQuiet, Quiet, Running, EmptyHands, Control, Working, Full,
      Ended
  <2>2. (Leased(f) /\ Handed(f))'
    BY <1>2, <1>3 DEF Leased, EmptyHands, Control, Handed, Full, Carriers
  <2>3. (Journalled(f) /\ Owning(f))'
    BY <1>2, <1>3 DEF Journalled, Lost, Full, Running, Control, Leased, Handed,
      EmptyHands, OffIsQuiet, Quiet, Carriers, Owning, Holds
  <2>4. (Clocked(f) /\ Charged(f))'
    BY <1>2, <1>3 DEF Clocked, Charged, Owed
  <2> QED BY <2>1, <2>2, <2>3, <2>4 DEF Part
<1> QED BY <1>6

\* The body of a call ended.
LEMMA EndCallStep ==
  ASSUME IInv, NEW f \in Frames, EndCall(f), TypeOK'
  PROVE  IInv'
<1> USE DEF SameJournal, SameRecord, SameBag, SamePlace, SameSignals, SameMain, SameLanes,
            journal, scheduler, threads, process
<1>1. TypeOK /\ OffIsFree
  BY DEF IInv
<1>2. /\ OffIsQuiet(f) /\ Control(f) /\ Leased(f) /\ Handed(f) /\ Journalled(f)
      /\ Clocked(f) /\ Charged(f) /\ Working(f) /\ Ended(f) /\ Owning(f)
  BY Parts
<1>3. /\ SameJournal(f) /\ SameRecord(f) /\ SameBag(f)
      /\ SameSignals(f) /\ SameMain /\ owner' = owner
      /\ call[f] = "working" /\ life'[f] = life[f] /\ got'[f] = got[f]
      /\ \/ ex[f].open /\ call'[f] = "resuming" /\ acq'[f] = "check"
         \/ (~ex[f].open \/ cancelled[f]) /\ call'[f] = "none" /\ acq'[f] = acq[f]
  BY <1>1 DEF EndCall, Resumes, TypeOK
<1>4. OffIsFree' /\ \A g \in Frames \ {f} : Same(g)
  BY <1>1, <1>3 DEF EndCall, TypeOK, OffIsFree, Running, Same
<1>5. SUFFICES Part(f)'
  BY <1>4, OneFrame
<1>6. Part(f)'
  <2>1. (OffIsQuiet(f) /\ Control(f) /\ Working(f) /\ Ended(f))'
    BY <1>2, <1>3 DEF OffIsQuiet, Quiet, Running, EmptyHands, Control, Working, Full,
      Ended
  <2>2. (Leased(f) /\ Handed(f))'
    BY <1>2, <1>3 DEF Leased, EmptyHands, Control, Handed, Full, Carriers
  <2>3. (Journalled(f) /\ Owning(f))'
    BY <1>2, <1>3 DEF Journalled, Lost, Full, Running, Control, Leased, Handed,
      EmptyHands, OffIsQuiet, Quiet, Carriers, Owning, Holds
  <2>4. (Clocked(f) /\ Charged(f))'
    BY <1>2, <1>3 DEF Clocked, Charged, Owed
  <2> QED BY <2>1, <2>2, <2>3, <2>4 DEF Part
<1> QED BY <1>6

\* A frame exits: its lane, its interval and its calls are gone.
LEMMA ExitFrameStep ==
  ASSUME IInv, NEW f \in Frames, ExitFrame(f), TypeOK'
  PROVE  IInv'
<1> USE DEF SameJournal, SameRecord, SameBag, SamePlace, SameSignals, SameMain, SameLanes,
            journal, scheduler, threads, process
<1>1. TypeOK /\ OffIsFree
  BY DEF IInv
<1>2. /\ OffIsQuiet(f) /\ Control(f) /\ Leased(f) /\ Handed(f) /\ Journalled(f)
      /\ Clocked(f) /\ Charged(f) /\ Working(f) /\ Ended(f) /\ Owning(f)
  BY Parts
<1>3. /\ SameJournal(f) /\ SameRecord(f) /\ SameBag(f)
      /\ SameSignals(f) /\ SameMain /\ owner' = owner
      /\ life[f] = "joining" /\ life'[f] = "exited" /\ call[f] = "none" /\ call'[f] = call[f]
      /\ acq'[f] = acq[f] /\ got'[f] = got[f] /\ (f = Root => main = "driving")
  BY <1>1 DEF ExitFrame, TypeOK
<1>4. OffIsFree' /\ \A g \in Frames \ {f} : Same(g)
  BY <1>1, <1>3 DEF ExitFrame, TypeOK, OffIsFree, Running, Same
<1>5. SUFFICES Part(f)'
  BY <1>4, OneFrame
<1>6. Part(f)'
  <2>1. acq[f] = "no" /\ ex[f].lane = None /\ EmptyHands(f)
    BY <1>2, <1>3 DEF Control, Leased, Handed, Ended, EmptyHands, Full, Carriers
  <2>2. ex[f].elapsed = 0 /\ ex[f].lease = 0
    BY <1>2, <2>1 DEF Leased
  <2>3. jlane[f] = None
    BY <1>2, <1>3, <2>1, EmptyHand DEF Journalled, OffIsQuiet, Quiet, Lost, Full, EmptyHands, Running
  <2>4. (OffIsQuiet(f) /\ Control(f) /\ Working(f))'
    BY <1>2, <1>3, <2>1, <2>2, <2>3 DEF OffIsQuiet, Quiet, Running, EmptyHands, Control,
      Working, Full
  <2>5. Ended(f)'
    BY <1>2, <1>3, <2>1, <2>2, <2>3 DEF Ended, EmptyHands, Full
  <2>6. (Leased(f) /\ Handed(f))'
    BY <1>2, <1>3, <2>1, <2>2, <2>3, EmptyHand DEF Leased, EmptyHands, Control, Handed,
      Full, Carriers
  <2>7. (Journalled(f) /\ Owning(f))'
    BY <1>2, <1>3, <2>1, <2>2, <2>3 DEF Journalled, Lost, Full, Running, Control,
      Leased, Handed, EmptyHands, OffIsQuiet, Quiet, Carriers, Owning, Holds
  <2>8. Clocked(f)'
    BY <1>2, <1>3, <2>1, <2>2, <2>3 DEF Clocked
  <2>9. Charged(f)'
    <3>1. \A a \in Carriers : Owed(f, a)' = 0 /\ Owed(f, a) = 0
      BY <1>3, <2>1, EmptyHand DEF Owed, EmptyHands
    <3>2. /\ Owed(f, "launch") = 0 /\ Owed(f, "call") = 0 /\ Owed(f, "timer") = 0
          /\ Owed(f, "acquire") = 0 /\ Owed(f, "launch")' = 0 /\ Owed(f, "call")' = 0
          /\ Owed(f, "timer")' = 0 /\ Owed(f, "acquire")' = 0
      BY <3>1 DEF Carriers
    <3>3. charged[f] \in Nat /\ thought[f] \in Nat
      BY <1>1, FrameFacts
    <3> QED BY <1>2, <1>3, <2>2, <3>2, <3>3 DEF Charged
  <2> QED BY <2>4, <2>5, <2>6, <2>7, <2>8, <2>9 DEF Part
<1> QED BY <1>6
\* A worker calls a tool: a gate stops its clock, the others give up its lane.
LEMMA StartCallStep ==
  ASSUME IInv, NEW f \in Frames, NEW k \in Kinds, StartCall(f, k), TypeOK'
  PROVE  IInv'
<1> USE DEF SameJournal, SameRecord, SameBag, SamePlace, SameSignals, SameMain, SameLanes,
            journal, scheduler, threads, process
<1>1. TypeOK /\ OffIsFree
  BY DEF IInv
<1>2. /\ OffIsQuiet(f) /\ Control(f) /\ Leased(f) /\ Handed(f) /\ Journalled(f)
      /\ Clocked(f) /\ Charged(f) /\ Working(f) /\ Ended(f) /\ Owning(f)
  BY Parts
<1>3. /\ SameJournal(f) /\ SameSignals(f) /\ SameMain /\ owner' = owner /\ ex[f] \in Executions
      /\ life[f] = "running" /\ life'[f] = life[f] /\ acq'[f] = acq[f] /\ got'[f] = got[f]
      /\ call[f] = "none" /\ call'[f] = (IF k = "gate" THEN "gating" ELSE "parking")
      /\ acq[f] = "no" /\ ex[f].open
  BY <1>1, <1>2 DEF StartCall, TypeOK, Control
<1>4. OffIsFree' /\ \A g \in Frames \ {f} : Same(g)
  <2>1. \A g \in Frames \ {f} : SameJournal(g) /\ SamePlace(g) /\ SameSignals(g)
    BY <1>1 DEF StartCall, TypeOK
  <2>2. /\ timers' = timers \/ timers' = [timers EXCEPT ![f] = Disarmed(f)]
        /\ \/ ex' = ex /\ bag' = bag
           \/ ex' = [ex EXCEPT ![f] = StopClock(ex[f])] /\ bag' = bag
           \/ Detach(f, "call", ex[f])
    BY DEF StartCall, Pause, Park
  <2>3. \A g \in Frames \ {f} : timers'[g] = timers[g]
    BY <1>1, <2>2 DEF TypeOK
  <2>4. \A g \in Frames \ {f} : ex'[g] = ex[g] /\ bag'[g] = bag[g]
    <3>1. CASE ex' = ex \/ ex' = [ex EXCEPT ![f] = StopClock(ex[f])]
      <4>1. \A g \in Frames \ {f} : ex'[g] = ex[g]
        BY <1>1, <3>1 DEF TypeOK
      <4>2. CASE bag' = bag
        BY <4>1, <4>2
      <4>3. CASE Detach(f, "call", ex[f])
        BY <1>1, <1>3, <4>3, DetachFacts DEF Carriers
      <4> QED BY <2>2, <4>2, <4>3
    <3>2. CASE Detach(f, "call", ex[f])
      BY <1>1, <1>3, <3>2, DetachFacts DEF Carriers
    <3> QED BY <2>2, <3>1, <3>2
  <2> QED BY <1>1, <1>3, <2>1, <2>2, <2>3, <2>4 DEF OffIsFree, Running, Same
<1>5. SUFFICES Part(f)'
  BY <1>4, OneFrame
<1>6. CASE k = "gate" /\ ex[f].counting
  <2>1. /\ ex' = [ex EXCEPT ![f] = StopClock(ex[f])]
        /\ timers' = [timers EXCEPT ![f] = Disarmed(f)] /\ bag' = bag
    BY <1>6 DEF StartCall, Pause
  <2>2. ex'[f] = StopClock(ex[f]) /\ timers'[f] = Disarmed(f) /\ SameBag(f)
    BY <1>1, <2>1 DEF TypeOK
  <2>3. /\ ex'[f].open /\ ex'[f].timedOut = ex[f].timedOut /\ ex'[f].lane = ex[f].lane
        /\ ~ex'[f].counting /\ ex'[f].elapsed = 0 /\ ex'[f].used = ex[f].used + ex[f].elapsed
        /\ ex'[f].lease = ex[f].lease + ex[f].elapsed /\ ex'[f].gen = ex[f].gen + 1
        /\ ex'[f].reaped = ex[f].reaped
    BY <1>3, <2>2, StopClockFields
  <2>4. timers'[f] \subseteq timers[f] /\ \A x \in timers'[f] : x[2] = 0
    BY <2>2 DEF Disarmed
  <2>5. ex[f].lane # None
    BY <1>2, <1>6 DEF Leased
  <2>6. /\ ex[f].used \in Nat /\ ex[f].elapsed \in Nat /\ ex[f].lease \in Nat /\ ex[f].gen \in Nat
        /\ thought[f] \in Nat /\ charged[f] \in Nat /\ timers[f] \subseteq Nat \X Nat
    BY <1>1, FrameFacts
  <2>7. (OffIsQuiet(f) /\ Control(f) /\ Working(f) /\ Ended(f))'
    BY <1>2, <1>3, <1>6, <2>2, <2>3, <2>4, <2>5 DEF OffIsQuiet, Quiet, Running,
      EmptyHands, Control, Working, Full, Ended
  <2>8. (Leased(f) /\ Handed(f))'
    BY <1>2, <1>3, <1>6, <2>2, <2>3, <2>4, <2>5 DEF Leased, EmptyHands, Control, Handed,
      Full, Carriers
  <2>9. Journalled(f)'
    BY <1>2, <1>3, <1>6, <2>2, <2>3, <2>4, <2>5 DEF Journalled, Lost, Full, Running,
      Control, Leased, Handed, EmptyHands, OffIsQuiet, Quiet, Carriers
  <2>10. Owning(f)'
    BY <1>2, <1>3, <1>6, <2>2, <2>3, <2>4, <2>5 DEF Owning, Holds, Full, Running,
      Control, Leased, Handed, EmptyHands
  <2>11. Clocked(f)'
    <3>1. ex'[f].used + ex'[f].elapsed = thought'[f]
      BY <1>2, <1>3, <2>3, <2>6 DEF Clocked
    <3>2. \A x \in timers'[f] : x[1] <= ex'[f].gen /\ x[2] = 0
      BY <1>2, <2>3, <2>4, <2>6 DEF Clocked
    <3>3. \A x, y \in timers'[f] : y[1] = x[1] => y = x
      BY <1>2, <2>4 DEF Clocked
    <3> QED BY <1>2, <1>3, <2>3, <3>1, <3>2, <3>3 DEF Clocked
  <2>12. Charged(f)'
    <3>1. /\ Owed(f, "launch")' = Owed(f, "launch") /\ Owed(f, "launch") \in Nat
          /\ Owed(f, "call")' = Owed(f, "call") /\ Owed(f, "call") \in Nat
          /\ Owed(f, "timer")' = Owed(f, "timer") /\ Owed(f, "timer") \in Nat
          /\ Owed(f, "acquire")' = Owed(f, "acquire") /\ Owed(f, "acquire") \in Nat
      BY <1>1, <2>2, OwedIsNat DEF Owed, Carriers
    <3> QED BY <1>2, <1>3, <2>3, <2>6, <3>1 DEF Charged
  <2> QED BY <2>7, <2>8, <2>9, <2>10, <2>11, <2>12 DEF Part
<1>7. CASE k = "gate" /\ ~ex[f].counting
  <2>1. SameRecord(f) /\ SameBag(f)
    BY <1>7 DEF StartCall, Pause
  <2>2. (OffIsQuiet(f) /\ Control(f) /\ Working(f) /\ Ended(f))'
    BY <1>2, <1>3, <2>1, <1>7 DEF OffIsQuiet, Quiet, Running, EmptyHands, Control,
      Working, Full, Ended
  <2>3. (Leased(f) /\ Handed(f))'
    BY <1>2, <1>3, <2>1, <1>7 DEF Leased, EmptyHands, Control, Handed, Full, Carriers
  <2>4. (Journalled(f) /\ Owning(f))'
    BY <1>2, <1>3, <2>1, <1>7 DEF Journalled, Lost, Full, Running, Control, Leased,
      Handed, EmptyHands, OffIsQuiet, Quiet, Carriers, Owning, Holds
  <2>5. (Clocked(f) /\ Charged(f))'
    BY <1>2, <1>3, <2>1, <1>7 DEF Clocked, Charged, Owed
  <2> QED BY <2>2, <2>3, <2>4, <2>5 DEF Part
<1>8. CASE k # "gate" /\ ex[f].lane = None
  <2>1. SameRecord(f) /\ SameBag(f)
    BY <1>8 DEF StartCall, Park
  <2>2. (OffIsQuiet(f) /\ Control(f) /\ Working(f) /\ Ended(f))'
    BY <1>2, <1>3, <2>1, <1>8 DEF OffIsQuiet, Quiet, Running, EmptyHands, Control,
      Working, Full, Ended
  <2>3. (Leased(f) /\ Handed(f))'
    BY <1>2, <1>3, <2>1, <1>8 DEF Leased, EmptyHands, Control, Handed, Full, Carriers
  <2>4. (Journalled(f) /\ Owning(f))'
    BY <1>2, <1>3, <2>1, <1>8 DEF Journalled, Lost, Full, Running, Control, Leased,
      Handed, EmptyHands, OffIsQuiet, Quiet, Carriers, Owning, Holds
  <2>5. (Clocked(f) /\ Charged(f))'
    BY <1>2, <1>3, <2>1, <1>8 DEF Clocked, Charged, Owed
  <2> QED BY <2>2, <2>3, <2>4, <2>5 DEF Part
<1>9. CASE k # "gate" /\ ex[f].lane # None
  <2>1. Detach(f, "call", ex[f]) /\ timers' = [timers EXCEPT ![f] = Disarmed(f)]
    BY <1>9 DEF StartCall, Park
  <2>2. EmptyHands(f) /\ ~ex[f].timedOut
    BY <1>2, <1>9 DEF Leased
  <2>3. Detached(f, "call") /\ ex'[f].open /\ ~ex'[f].timedOut
    BY <1>1, <1>3, <2>1, <2>2, DetachedEffect DEF Carriers
  <2>4. timers'[f] \subseteq timers[f] /\ \A y \in timers'[f] : y[2] = 0
    BY <1>1, <2>1 DEF TypeOK, Disarmed
  <2>5. (Leased(f) /\ Journalled(f) /\ Owning(f) /\ Clocked(f) /\ Charged(f))'
    BY <1>3, <1>9, <2>3, <2>4, DetachedKeeps DEF Carriers
  <2>6. (OffIsQuiet(f) /\ Control(f))'
    BY <1>2, <1>3, <1>9, <2>2, <2>3 DEF OffIsQuiet, Quiet, Running, EmptyHands, Control
  <2>7. Working(f)'
    BY <1>2, <1>3, <1>9, <2>2, <2>3, EmptyHand DEF Working, Full, Detached, Carriers,
      Leased, ConstantsAssumption
  <2>8. Ended(f)'
    BY <1>2, <1>3, <1>9, <2>2, <2>3 DEF Ended, EmptyHands, Full, Control
  <2>9. Handed(f)'
    BY <1>2, <1>3, <1>9, <2>2, <2>3, EmptyHand DEF Handed, EmptyHands, Full, Control,
      Carriers, Detached
  <2> QED BY <2>5, <2>6, <2>7, <2>8, <2>9 DEF Part
<1> QED BY <1>3, <1>6, <1>7, <1>8, <1>9

\* A gate ends: the clock runs again, if the lane is still leased.
LEMMA EndGateStep ==
  ASSUME IInv, NEW f \in Frames, EndGate(f), TypeOK'
  PROVE  IInv'
<1> USE DEF SameJournal, SameRecord, SameBag, SamePlace, SameSignals, SameMain, SameLanes,
            journal, scheduler, threads, process
<1>1. TypeOK /\ OffIsFree
  BY DEF IInv
<1>2. /\ OffIsQuiet(f) /\ Control(f) /\ Leased(f) /\ Handed(f) /\ Journalled(f)
      /\ Clocked(f) /\ Charged(f) /\ Working(f) /\ Ended(f) /\ Owning(f)
  BY Parts
<1>3. /\ SameJournal(f) /\ SameSignals(f) /\ SameBag(f) /\ SameMain /\ owner' = owner /\ ex[f] \in Executions
      /\ life'[f] = life[f] /\ acq'[f] = acq[f] /\ got'[f] = got[f]
      /\ call[f] = "gating" /\ call'[f] = "none" /\ acq[f] = "no"
      /\ ~ex[f].counting /\ ex[f].elapsed = 0
  BY <1>1, <1>2 DEF EndGate, TypeOK, Control, Leased
<1>4. OffIsFree' /\ \A g \in Frames \ {f} : Same(g)
  <2>1. \A g \in Frames \ {f} : SameJournal(g) /\ SamePlace(g) /\ SameSignals(g) /\ SameBag(g)
    BY <1>1 DEF EndGate, TypeOK
  <2>2. \/ UNCHANGED <<ex, timers>>
        \/ /\ ex' = [ex EXCEPT ![f] = StartClock(ex[f])]
           /\ timers' = [timers EXCEPT ![f] = @ \cup {NewTimer(f)}]
    BY DEF EndGate
  <2>3. \A g \in Frames \ {f} : SameRecord(g)
    BY <1>1, <2>2 DEF TypeOK
  <2> QED BY <1>1, <1>3, <2>1, <2>2, <2>3 DEF OffIsFree, Running, Same
<1>5. SUFFICES Part(f)'
  BY <1>4, OneFrame
<1>6. CASE UNCHANGED <<ex, timers>>
  <2>1. SameRecord(f)
    BY <1>6
  <2>2. (OffIsQuiet(f) /\ Control(f) /\ Working(f) /\ Ended(f))'
    BY <1>2, <1>3, <2>1, <1>6 DEF OffIsQuiet, Quiet, Running, EmptyHands, Control,
      Working, Full, Ended
  <2>3. (Leased(f) /\ Handed(f))'
    BY <1>2, <1>3, <2>1, <1>6 DEF Leased, EmptyHands, Control, Handed, Full, Carriers
  <2>4. (Journalled(f) /\ Owning(f))'
    BY <1>2, <1>3, <2>1, <1>6 DEF Journalled, Lost, Full, Running, Control, Leased,
      Handed, EmptyHands, OffIsQuiet, Quiet, Carriers, Owning, Holds
  <2>5. (Clocked(f) /\ Charged(f))'
    BY <1>2, <1>3, <2>1, <1>6 DEF Clocked, Charged, Owed
  <2> QED BY <2>2, <2>3, <2>4, <2>5 DEF Part
<1>7. CASE ex[f].lane # None /\ ex[f].open /\ ~ex[f].timedOut
          /\ ex' = [ex EXCEPT ![f] = StartClock(ex[f])]
          /\ timers' = [timers EXCEPT ![f] = @ \cup {NewTimer(f)}]
  <2>1. ex'[f] = StartClock(ex[f]) /\ timers'[f] = timers[f] \cup {NewTimer(f)}
    BY <1>1, <1>7 DEF TypeOK
  <2>2. /\ ex'[f].open = ex[f].open /\ ex'[f].timedOut = ex[f].timedOut /\ ex'[f].lane = ex[f].lane
        /\ ex'[f].counting /\ ex'[f].elapsed = 0 /\ ex'[f].used = ex[f].used
        /\ ex'[f].lease = ex[f].lease /\ ex'[f].gen = ex[f].gen + 1
        /\ ex'[f].reaped = ex[f].reaped
    BY <1>3, <2>1, StartClockFields
  <2>3. ex[f].lane # None /\ ex[f].open /\ ~ex[f].timedOut
    BY <1>7
  <2>4. /\ ex[f].used \in Nat /\ ex[f].lease \in Nat /\ ex[f].gen \in Nat /\ Budget \in Nat
        /\ thought[f] \in Nat /\ charged[f] \in Nat /\ timers[f] \subseteq Nat \X Nat
    BY <1>1, FrameFacts, ConstantsAssumption DEF ConstantsAssumption
  <2>5. /\ NewTimer(f) \in Nat \X Nat /\ NewTimer(f)[1] = ex[f].gen + 1
        /\ ex[f].used + NewTimer(f)[2] >= Budget
    BY <1>1, NewTimerFacts
  <2>6. (OffIsQuiet(f) /\ Control(f) /\ Working(f) /\ Ended(f))'
    BY <1>2, <1>3, <2>2, <2>3 DEF OffIsQuiet, Quiet, Running, EmptyHands, Control,
      Working, Full, Ended
  <2>7. (Leased(f) /\ Handed(f))'
    BY <1>2, <1>3, <2>2, <2>3 DEF Leased, EmptyHands, Control, Handed, Full, Carriers
  <2>8. Journalled(f)'
    BY <1>2, <1>3, <2>2, <2>3 DEF Journalled, Lost, Full, Running, Control, Leased,
      Handed, EmptyHands, OffIsQuiet, Quiet, Carriers
  <2>9. Owning(f)'
    BY <1>2, <1>3, <2>2, <2>3 DEF Owning, Holds, Full, Running, Control, Leased, Handed,
      EmptyHands
  <2>10. Clocked(f)'
    <3>1. ex'[f].used + ex'[f].elapsed = thought'[f]
      BY <1>2, <1>3, <2>2, <2>4 DEF Clocked
    <3>2. \A x \in timers[f] : x[1] <= ex[f].gen /\ x[2] = 0 /\ x[1] \in Nat
                                 /\ \A y \in timers[f] : y[1] = x[1] => y = x
      <4>1. \A x \in timers[f] : x[1] \in Nat /\ x[2] \in Nat
        BY <2>4
      <4> QED BY <1>2, <1>3, <4>1 DEF Clocked
    <3>3. ~ex'[f].timedOut
      BY <2>2, <2>3
    <3>4. ASSUME NEW x \in timers'[f]
          PROVE  /\ x[1] <= ex'[f].gen
                 /\ x[2] > 0 => x[1] = ex'[f].gen /\ ex'[f].counting
                 /\ x[1] = ex'[f].gen /\ ex'[f].counting =>
                      ex'[f].used + ex'[f].elapsed + x[2] >= Budget
                 /\ \A y \in timers'[f] : y[1] = x[1] => y = x
      <4>1. CASE x = NewTimer(f)
        <5>1. \A y \in timers'[f] : y[1] = x[1] => y = x
          BY <2>1, <2>4, <2>5, <3>2, <4>1
        <5> QED BY <2>2, <2>4, <2>5, <4>1, <5>1
      <4>2. CASE x \in timers[f]
        <5>1. x[1] <= ex[f].gen /\ x[2] = 0 /\ x[1] \in Nat
          BY <3>2, <4>2
        <5>2. \A y \in timers'[f] : y[1] = x[1] => y = x
          BY <2>1, <2>4, <2>5, <3>2, <4>2, <5>1
        <5> QED BY <2>2, <2>4, <5>1, <5>2
      <4> QED BY <2>1, <4>1, <4>2
    <3> QED BY <3>1, <3>3, <3>4 DEF Clocked
  <2>11. Charged(f)'
    <3>1. /\ Owed(f, "launch")' = Owed(f, "launch") /\ Owed(f, "launch") \in Nat
          /\ Owed(f, "call")' = Owed(f, "call") /\ Owed(f, "call") \in Nat
          /\ Owed(f, "timer")' = Owed(f, "timer") /\ Owed(f, "timer") \in Nat
          /\ Owed(f, "acquire")' = Owed(f, "acquire") /\ Owed(f, "acquire") \in Nat
      BY <1>1, <1>3, OwedIsNat DEF Owed, Carriers
    <3> QED BY <1>2, <1>3, <2>2, <2>4, <3>1 DEF Charged
  <2> QED BY <2>6, <2>7, <2>8, <2>9, <2>10, <2>11 DEF Part
<1> QED BY <1>6, <1>7 DEF EndGate

\* An execution is closed: nobody leases it a lane any more.
LEMMA CloseStep ==
  ASSUME IInv, NEW f \in Frames, CloseReturned(f) \/ CloseLeft(f), TypeOK'
  PROVE  IInv'
<1> USE DEF SameJournal, SameRecord, SameBag, SamePlace, SameSignals, SameMain, SameLanes,
            journal, scheduler, threads, process
<1>1. TypeOK /\ OffIsFree
  BY DEF IInv
<1>2. /\ OffIsQuiet(f) /\ Control(f) /\ Leased(f) /\ Handed(f) /\ Journalled(f)
      /\ Clocked(f) /\ Charged(f) /\ Working(f) /\ Ended(f) /\ Owning(f)
  BY Parts
<1>3. /\ SameJournal(f) /\ SameSignals(f) /\ SameMain /\ owner' = owner /\ ex[f] \in Executions
      /\ life[f] \in {"returned", "unwound"} /\ life'[f] = "closing" /\ acq'[f] = acq[f]
      /\ call'[f] = call[f] /\ got'[f] = got[f] /\ Close(f)
      /\ ex[f].open /\ (life[f] = "returned" => main \notin {"down", "sweeping"})
  BY <1>1, <1>2 DEF CloseReturned, CloseLeft, Close, TypeOK, Control, OffIsQuiet, Running
<1>4. OffIsFree' /\ \A g \in Frames \ {f} : Same(g)
  <2>1. \A g \in Frames \ {f} : SameJournal(g) /\ SamePlace(g) /\ SameSignals(g)
    BY <1>1, <1>3 DEF Close, TypeOK
  <2>2. [ex[f] EXCEPT !.open = FALSE] \in Executions
    BY <1>3, FieldTypes
  <2>3. /\ timers' = timers \/ timers' = [timers EXCEPT ![f] = Disarmed(f)]
        /\ \/ ex' = [ex EXCEPT ![f] = [ex[f] EXCEPT !.open = FALSE]] /\ bag' = bag
           \/ Detach(f, "launch", [ex[f] EXCEPT !.open = FALSE])
    BY <1>3 DEF Close
  <2>4. \A g \in Frames \ {f} : timers'[g] = timers[g]
    BY <1>1, <2>3 DEF TypeOK
  <2>5. \A g \in Frames \ {f} : ex'[g] = ex[g] /\ bag'[g] = bag[g]
    BY <1>1, <2>2, <2>3, DetachFacts DEF TypeOK, Carriers
  <2> QED BY <1>1, <1>3, <2>1, <2>2, <2>3, <2>4, <2>5 DEF OffIsFree, Running, Same
<1>5. SUFFICES Part(f)'
  BY <1>4, OneFrame
<1>6. CASE ex[f].lane = None
  <2> DEFINE e == [ex[f] EXCEPT !.open = FALSE]
  <2>1. /\ e \in Executions /\ ~e.open /\ e.timedOut = ex[f].timedOut /\ e.lane = ex[f].lane
        /\ e.reaped = ex[f].reaped /\ e.used = ex[f].used /\ e.elapsed = ex[f].elapsed
        /\ e.lease = ex[f].lease /\ e.gen = ex[f].gen /\ e.counting = ex[f].counting
    BY <1>3, EndedFields
  <2>2. ex' = [ex EXCEPT ![f] = e] /\ UNCHANGED <<timers, bag>>
    BY <1>3, <1>6, <2>1 DEF Close
  <2> HIDE DEF e
  <2>3. ex'[f] = e /\ timers'[f] = timers[f] /\ SameBag(f)
    BY <1>1, <2>2 DEF TypeOK
  <2>4. /\ ~ex'[f].open /\ ex'[f].timedOut = ex[f].timedOut /\ ex'[f].lane = ex[f].lane
        /\ ex'[f].reaped = ex[f].reaped /\ ex'[f].used = ex[f].used
        /\ ex'[f].elapsed = ex[f].elapsed /\ ex'[f].lease = ex[f].lease
        /\ ex'[f].gen = ex[f].gen /\ ex'[f].counting = ex[f].counting
    BY <2>1, <2>3
  <2>5. timers'[f] = timers[f] /\ SameBag(f)
    BY <2>3
  <2>6. (OffIsQuiet(f) /\ Control(f))'
    BY <1>2, <1>3, <1>6, <2>4, <2>5 DEF OffIsQuiet, Quiet, Running, EmptyHands, Control
  <2>7. Working(f)'
    BY <1>2, <1>3, <1>6, <2>4, <2>5 DEF Working, Full
  <2>8. Ended(f)'
    BY <1>2, <1>3, <1>6, <2>4, <2>5 DEF Ended, EmptyHands, Full
  <2>9. Leased(f)'
    BY <1>2, <1>3, <1>6, <2>4, <2>5 DEF Leased, EmptyHands, Control
  <2>10. Handed(f)'
    BY <1>2, <1>3, <1>6, <2>4, <2>5 DEF Handed, EmptyHands, Full, Control, Carriers
  <2>11. Journalled(f)'
    BY <1>2, <1>3, <1>6, <2>4, <2>5 DEF Journalled, Lost, Full, Running, Control,
      Leased, Handed, EmptyHands, OffIsQuiet, Quiet, Carriers
  <2>12. Owning(f)'
    BY <1>2, <1>3, <1>6, <2>4, <2>5 DEF Owning, Holds, Full, Running, Control, Leased,
      Handed, EmptyHands
  <2>13. Clocked(f)'
    BY <1>2, <1>3, <1>6, <2>4, <2>5 DEF Clocked
  <2>14. Charged(f)'
    BY <1>2, <1>3, <1>6, <2>4, <2>5 DEF Charged, Owed
  <2> QED BY <2>6, <2>7, <2>8, <2>9, <2>10, <2>11, <2>12, <2>13, <2>14 DEF Part
<1>7. CASE ex[f].lane # None
  <2> DEFINE e == [ex[f] EXCEPT !.open = FALSE]
  <2>1. /\ e \in Executions /\ ~e.open /\ e.timedOut = ex[f].timedOut /\ e.lane = ex[f].lane
        /\ e.reaped = ex[f].reaped /\ e.used = ex[f].used /\ e.elapsed = ex[f].elapsed
        /\ e.lease = ex[f].lease /\ e.gen = ex[f].gen /\ e.counting = ex[f].counting
    BY <1>3, EndedFields
  <2>2. Detach(f, "launch", e) /\ timers' = [timers EXCEPT ![f] = Disarmed(f)]
    BY <1>3, <1>7, <2>1 DEF Close
  <2> HIDE DEF e
  <2>3. EmptyHands(f) /\ ~ex[f].timedOut /\ acq[f] = "no"
    BY <1>2, <1>7 DEF Leased
  <2>4. Detached(f, "launch") /\ ~ex'[f].open /\ ~ex'[f].timedOut
    BY <1>1, <2>1, <2>2, <2>3, DetachedEffect DEF Carriers
  <2>5. timers'[f] \subseteq timers[f] /\ \A y \in timers'[f] : y[2] = 0
    BY <1>1, <2>2 DEF TypeOK, Disarmed
  <2>6. (Leased(f) /\ Journalled(f) /\ Owning(f) /\ Clocked(f) /\ Charged(f))'
    BY <1>3, <1>7, <2>4, <2>5, DetachedKeeps DEF Carriers
  <2>7. (OffIsQuiet(f) /\ Control(f))'
    BY <1>2, <1>3, <1>7, <2>3, <2>4 DEF OffIsQuiet, Quiet, Running, EmptyHands, Control
  <2>8. Working(f)'
    BY <1>2, <1>3, <1>7, <2>3, <2>4, EmptyHand DEF Working, Full, Detached, Carriers,
      Leased, ConstantsAssumption
  <2>9. Ended(f)'
    BY <1>2, <1>3, <1>7, <2>3, <2>4 DEF Ended, EmptyHands, Full, Control
  <2>10. Handed(f)'
    BY <1>2, <1>3, <1>7, <2>3, <2>4, EmptyHand DEF Handed, EmptyHands, Full, Control,
      Carriers, Detached, Leased
  <2> QED BY <2>6, <2>7, <2>8, <2>9, <2>10 DEF Part
<1> QED BY <1>3, <1>6, <1>7
\* The main thread moves on: what a frame holds does not depend on where it is,
\* as long as it is up and not about to drive.
LEMMA MainMoves ==
  ASSUME IInv, TypeOK', NEW g \in Frames, Running, Running',
         SameJournal(g), SameRecord(g), SameBag(g), SamePlace(g), owner' = owner,
         thought'[g] = thought[g], stopping[g] => stopping'[g],
         cancelled[g] => cancelled'[g], stopped' => stopped \/ stopping'[g],
         g # Root \/ (main # "driving" /\ main' # "driving")
  PROVE  Part(g)'
<1> USE DEF SameJournal, SameRecord, SameBag, SamePlace
<1>1. /\ OffIsQuiet(g) /\ Control(g) /\ Leased(g) /\ Handed(g) /\ Journalled(g)
      /\ Clocked(g) /\ Charged(g) /\ Working(g) /\ Ended(g) /\ Owning(g)
  BY Parts
<1>2. (OffIsQuiet(g) /\ Control(g))'
  BY <1>1 DEF OffIsQuiet, Quiet, Running, EmptyHands, Control
<1>3. (Leased(g) /\ Handed(g) /\ Ended(g))'
  BY <1>1 DEF Leased, Handed, Ended, EmptyHands, Full
<1>4. Journalled(g)'
  BY <1>1 DEF Journalled, Lost, Full, Running
<1>5. (Clocked(g) /\ Charged(g))'
  BY <1>1 DEF Clocked, Charged, Owed
<1>6. Working(g)'
  BY <1>1 DEF Working, Full, TypeOK
<1>7. Owning(g)'
  BY <1>1 DEF Owning, Handed, Full, Running, Holds
<1> QED BY <1>1, <1>2, <1>3, <1>4, <1>5, <1>6, <1>7 DEF Part

\* Nothing runs: a frame of which nothing is left keeps the invariant.
LEMMA QuietPart ==
  ASSUME TypeOK', NEW f \in Frames, Quiet(f)', life'[f] \in {"absent", "exited"},
         main' \in {"driving", "down", "sweeping"}, \A l \in Lanes : owner'[l] = None,
         main' = "driving" \/ life'[f] = "exited" => jlane'[f] = None,
         stopped' => stopping'[f]
  PROVE  Part(f)'
<1>1. /\ ~ex'[f].open /\ ~ex'[f].timedOut /\ ex'[f].lane = None /\ ~ex'[f].counting
      /\ ex'[f].elapsed = 0 /\ ex'[f].used = 0 /\ ex'[f].lease = 0 /\ ~ex'[f].reaped
  BY DEF Quiet, NewExecution
<1>2. /\ call'[f] = "none" /\ acq'[f] = "no" /\ EmptyHands(f)' /\ timers'[f] = {}
      /\ thought'[f] = 0 /\ charged'[f] = 0
  BY DEF Quiet
<1>3. \A a \in Carriers : bag'[f][a] = NoBag /\ ~Full(f, a)'
  BY <1>2, EmptyHand DEF EmptyHands, Full
<1>4. OffIsQuiet(f)'
  BY DEF OffIsQuiet
<1>5. Control(f)'
  BY <1>1, <1>2 DEF Control
<1>6. Leased(f)'
  BY <1>1, <1>2 DEF Leased
<1>7. Handed(f)'
  BY <1>2, <1>3 DEF Handed, Carriers
<1>8. Journalled(f)'
  BY <1>2, <1>3 DEF Journalled, Running
<1>9. Clocked(f)'
  BY <1>1, <1>2 DEF Clocked
<1>10. Charged(f)'
  <2>1. /\ Owed(f, "launch")' = 0 /\ Owed(f, "call")' = 0
        /\ Owed(f, "timer")' = 0 /\ Owed(f, "acquire")' = 0
    BY <1>3, EmptyHand DEF Owed, Carriers
  <2> QED BY <1>1, <1>2, <2>1 DEF Charged
<1>11. Working(f)'
  BY <1>1, <1>2, <1>3 DEF Working, Carriers
<1>12. Ended(f)'
  BY <1>1, <1>2, <1>3 DEF Ended
<1>13. Owning(f)'
  <2>1. f # None
    BY ConstantsAssumption DEF ConstantsAssumption
  <2> QED BY <1>1, <1>2, <1>3, <2>1 DEF Owning, Running
<1> QED BY <1>4, <1>5, <1>6, <1>7, <1>8, <1>9, <1>10, <1>11, <1>12, <1>13 DEF Part

\* A shutdown begins: the main thread leaves the launch of the root frame.
LEMMA RootIsLeft ==
  ASSUME IInv, BeginShutdown, TypeOK', NEW r \in Frames, r = Root
  PROVE  Part(r)'
<1> USE DEF SameJournal, SameRecord
<1> DEFINE at == life[r]
<1>1. TypeOK /\ Running
  BY DEF IInv, BeginShutdown, Running
<1>2. /\ OffIsQuiet(r) /\ Control(r) /\ Leased(r) /\ Handed(r) /\ Journalled(r)
      /\ Clocked(r) /\ Charged(r) /\ Working(r) /\ Ended(r) /\ Owning(r)
  BY Parts
<1>3. /\ main = "driving" /\ main' = "unwinding" /\ at # "exited"
      /\ owner' = owner /\ stopped' = stopped /\ stopping' = stopping
      /\ cancelled' = cancelled /\ thought' = thought
      /\ SameJournal(r) /\ SameRecord(r) /\ call'[r] = call[r] /\ got'[r] = got[r]
  BY DEF BeginShutdown, journal
<1>4. CASE at = "starting"
  <2>1. /\ life'[r] = "returned" /\ acq'[r] = "no"
        /\ \A a \in Carriers : bag'[r][a] = IF a = "acquire" THEN NoBag ELSE bag[r][a]
    BY <1>1, <1>4 DEF BeginShutdown, TypeOK
  <2>2. call[r] = "none" /\ acq[r] # "no" /\ ex[r].lane = None
    BY <1>2, <1>4 DEF Control, Leased
  <2>3. (OffIsQuiet(r) /\ Control(r))'
    BY <1>2, <1>3, <1>4, <2>1, <2>2 DEF OffIsQuiet, Running, Control
  <2>4. (Leased(r) /\ Ended(r))'
    BY <1>2, <1>3, <2>1, <2>2 DEF Leased, Ended
  <2>5. Handed(r)'
    BY <1>2, <1>3, <2>1, <2>2, EmptyHand DEF Handed, Full, EmptyHands, Carriers
  <2>6. Journalled(r)'
    BY <1>2, <1>3, <2>1, <2>2, EmptyHand DEF Journalled, Lost, Full, Carriers
  <2>7. (Clocked(r) /\ Charged(r))'
    BY <1>2, <1>3, <2>1 DEF Clocked, Charged
  <2>8. Working(r)'
    BY <1>2, <1>3, <1>4, <2>1 DEF Working, Full, Carriers
  <2>9. Owning(r)'
    BY <1>2, <1>3, <2>1, <2>2, EmptyHand DEF Owning, Full, Running
  <2> QED BY <2>3, <2>4, <2>5, <2>6, <2>7, <2>8, <2>9 DEF Part
<1>5. CASE at = "running"
  <2>1. /\ life'[r] = "returned" /\ acq'[r] = acq[r]
        /\ \A a \in Carriers : bag'[r][a] = bag[r][a]
    BY <1>1, <1>5 DEF BeginShutdown, TypeOK
  <2>2. (OffIsQuiet(r) /\ Control(r))'
    BY <1>2, <1>3, <1>5, <2>1 DEF OffIsQuiet, Running, Control
  <2>3. (Leased(r) /\ Ended(r))'
    BY <1>2, <1>3, <2>1 DEF Leased, Ended, EmptyHands
  <2>4. Handed(r)'
    BY <1>2, <1>3, <1>5, <2>1 DEF Handed, Full, EmptyHands, Carriers
  <2>5. Journalled(r)'
    BY <1>2, <1>3, <2>1 DEF Journalled, Lost, Full, Running
  <2>6. (Clocked(r) /\ Charged(r))'
    BY <1>2, <1>3, <2>1 DEF Clocked, Charged
  <2>7. Working(r)'
    BY <1>2, <1>3, <2>1 DEF Working, Full, Carriers
  <2>8. Owning(r)'
    BY <1>2, <1>3, <2>1 DEF Owning, Full, Running
  <2> QED BY <2>2, <2>3, <2>4, <2>5, <2>6, <2>7, <2>8 DEF Part
<1>6. CASE at \notin {"starting", "running"}
  <2>1. /\ life'[r] = "unwound" /\ acq'[r] = acq[r]
        /\ \A a \in Carriers : bag'[r][a] = IF a = "launch" THEN NoBag ELSE bag[r][a]
    BY <1>1, <1>6 DEF BeginShutdown, TypeOK
  <2>2. (OffIsQuiet(r) /\ Control(r))'
    BY <1>2, <1>3, <1>6, <2>1 DEF OffIsQuiet, Running, Control
  <2>3. (Leased(r) /\ Ended(r))'
    BY <1>2, <1>3, <2>1 DEF Leased, Ended, EmptyHands
  <2>4. Handed(r)'
    BY <1>2, <1>3, <2>1, EmptyHand DEF Handed, Full, EmptyHands, Carriers
  <2>5. Journalled(r)'
    BY <1>2, <1>3, <2>1, EmptyHand DEF Journalled, Lost, Full, Running, Handed, Carriers
  <2>6. (Clocked(r) /\ Charged(r))'
    BY <1>2, <1>3, <2>1 DEF Clocked, Charged
  <2>7. Working(r)'
    BY <1>2, <1>3, <2>1 DEF Working, Full, Carriers
  <2>8. Owning(r)'
    BY <1>2, <1>3, <2>1, EmptyHand DEF Owning, Full, Running, Carriers
  <2> QED BY <2>2, <2>3, <2>4, <2>5, <2>6, <2>7, <2>8 DEF Part
<1> QED BY <1>4, <1>5, <1>6

\* No other frame notices.
LEMMA BeginShutdownStep ==
  ASSUME IInv, BeginShutdown, TypeOK'
  PROVE  IInv'
<1> USE DEF SameJournal, SameRecord, SameBag, SamePlace, journal
<1>1. TypeOK /\ OffIsFree /\ Root \in Frames
  BY ConstantsAssumption DEF IInv, ConstantsAssumption
<1>2. /\ main = "driving" /\ main' = "unwinding" /\ owner' = owner /\ stopped' = stopped
      /\ stopping' = stopping /\ cancelled' = cancelled /\ thought' = thought
      /\ \A g \in Frames : SameJournal(g) /\ SameRecord(g) /\ call'[g] = call[g]
                             /\ got'[g] = got[g]
  BY DEF BeginShutdown
<1>3. OffIsFree'
  BY <1>2 DEF OffIsFree, Running
<1>4. ASSUME NEW g \in Frames \ {Root} PROVE Part(g)'
  <2>1. SamePlace(g) /\ SameBag(g)
    BY <1>1, <1>2 DEF BeginShutdown, TypeOK
  <2> QED BY <1>2, <2>1, MainMoves DEF Running
<1>5. \A r \in Frames : r = Root => Part(r)'
  BY RootIsLeft
<1> QED BY <1>3, <1>4, <1>5 DEF IInv

\* The engine process.
LEMMA ProcessKeeps ==
  ASSUME IInv, ProcessStep, TypeOK'
  PROVE  IInv'
<1> USE DEF SameJournal, SameRecord, SameBag, SamePlace, journal, scheduler, threads, process
<1>1. TypeOK /\ OffIsFree /\ \A f \in Frames : OffIsQuiet(f) /\ Ended(f) /\ Working(f)
  BY Parts DEF IInv
<1>2. CASE BeginShutdown
  BY <1>2, BeginShutdownStep
<1>3. CASE CancelAll \/ StopPools \/ JoinAll \/ Interrupt
  <2>1. /\ owner' = owner /\ \A g \in Frames :
             /\ SameJournal(g) /\ SameRecord(g) /\ SameBag(g) /\ SamePlace(g)
             /\ thought'[g] = thought[g]
    BY <1>3 DEF CancelAll, StopPools, JoinAll, Interrupt
  <2>2. /\ main \notin {"driving", "down", "sweeping"}
        /\ main' \notin {"driving", "down", "sweeping"}
    BY <1>3 DEF CancelAll, StopPools, JoinAll, Interrupt
  <2>3. \A g \in Frames :
          /\ stopping[g] => stopping'[g]
          /\ cancelled[g] => cancelled'[g]
          /\ stopped' => stopped \/ stopping'[g]
    BY <1>3 DEF CancelAll, StopPools, JoinAll, Interrupt
  <2>4. \A g \in Frames : Part(g)'
    BY <2>1, <2>2, <2>3, MainMoves DEF Running
  <2> QED BY <2>2, <2>4 DEF IInv, OffIsFree, Running
<1>4. CASE Drive \/ Restart \/ \E f \in Frames : Sweep(f)
  <2>1. /\ owner' = owner /\ stopped' = stopped /\ stopping' = stopping /\ ex' = ex
        /\ timers' = timers /\ bag' = bag /\ thought' = thought /\ charged' = charged
        /\ life' = life /\ call' = call /\ acq' = acq
    BY <1>4 DEF Drive, Restart, Sweep
  <2>2. main \in {"down", "sweeping"} /\ main' \in {"driving", "down", "sweeping"}
    BY <1>4 DEF Drive, Restart, Sweep
  <2>3. \A g \in Frames : jlane'[g] = None \/ jlane'[g] = jlane[g]
    BY <1>1, <1>4 DEF Drive, Restart, Sweep, TypeOK
  <2>4. main' = "driving" => \A g \in Frames : jlane'[g] = None
    BY <1>4 DEF Drive, Restart, Sweep, Swept
  <2>5. \A l \in Lanes : owner'[l] = None
    BY <1>1, <2>1, <2>2 DEF OffIsFree, Running
  <2>6. ASSUME NEW g \in Frames PROVE Part(g)'
    <3>1. Quiet(g)' /\ life'[g] \in {"absent", "exited"}
      BY <1>1, <2>1, <2>2 DEF OffIsQuiet, Running, Quiet, EmptyHands
    <3>2. life'[g] = "exited" => jlane'[g] = None
      BY <1>1, <2>1, <2>3 DEF Ended
    <3>3. stopped' => stopping'[g]
      BY <1>1, <2>1 DEF Working
    <3> QED BY <2>2, <2>4, <2>5, <3>1, <3>2, <3>3, QuietPart
  <2> QED BY <2>5, <2>6 DEF IInv, OffIsFree
<1>5. CASE Crash
  <2>1. /\ main' = "down" /\ ~stopped' /\ \A l \in Lanes : owner'[l] = None
        /\ \A g \in Frames : jlane'[g] = jlane[g]
    BY <1>5 DEF Crash
  <2>2. ASSUME NEW g \in Frames PROVE Part(g)'
    <3>1. Quiet(g)'
      BY <1>5 DEF Crash, Quiet, EmptyHands
    <3>2. life'[g] = IF life[g] = "exited" THEN "exited" ELSE "absent"
      BY <1>5 DEF Crash
    <3>3. life'[g] = "exited" => jlane'[g] = None
      BY <1>1, <2>1, <3>2 DEF Ended
    <3> QED BY <2>1, <3>1, <3>2, <3>3, QuietPart
  <2> QED BY <2>1, <2>2 DEF IInv, OffIsFree
<1> QED BY <1>2, <1>3, <1>4, <1>5 DEF ProcessStep

-----------------------------------------------------------------------------
(* The invariant holds. *)

LEMMA InitInvariant == Init => IInv
<1> SUFFICES ASSUME Init PROVE IInv
  OBVIOUS
<1>1. TypeOK /\ OffIsFree
  BY InitTypes DEF Init, OffIsFree
<1>2. ASSUME NEW f \in Frames PROVE Part(f)
  <2>1. /\ ex[f] = NewExecution /\ timers[f] = {} /\ life[f] = "absent"
        /\ call[f] = "none" /\ acq[f] = "no" /\ thought[f] = 0 /\ charged[f] = 0
        /\ jlane[f] = None /\ main = "driving" /\ ~stopped
        /\ \A l \in Lanes : owner[l] = None
    BY DEF Init
  <2>2. \A a \in Carriers : bag[f][a] = NoBag /\ ~Full(f, a)
    BY EmptyHand DEF Init, Full
  <2>3. /\ ~ex[f].open /\ ~ex[f].timedOut /\ ex[f].lane = None /\ ~ex[f].counting
        /\ ex[f].elapsed = 0 /\ ex[f].used = 0 /\ ex[f].lease = 0 /\ ~ex[f].reaped
    BY <2>1 DEF NewExecution
  <2>4. OffIsQuiet(f) /\ Control(f)
    BY <2>1, <2>2, <2>3 DEF OffIsQuiet, Quiet, EmptyHands, Running, Control
  <2>5. Leased(f) /\ Ended(f)
    BY <2>1, <2>3 DEF Leased, Ended
  <2>6. Handed(f)
    BY <2>1, <2>2 DEF Handed, Carriers
  <2>7. Journalled(f)
    BY <2>1, <2>2 DEF Journalled
  <2>8. Clocked(f)
    BY <2>1, <2>3 DEF Clocked
  <2>9. Charged(f)
    <3>1. /\ Owed(f, "launch") = 0 /\ Owed(f, "call") = 0
          /\ Owed(f, "timer") = 0 /\ Owed(f, "acquire") = 0
      BY <2>2, EmptyHand DEF Owed, Carriers
    <3> QED BY <2>1, <2>3, <3>1 DEF Charged
  <2>10. Working(f)
    BY <2>1, <2>2, <2>3 DEF Working, Carriers
  <2>11. Owning(f)
    <3>1. f # None
      BY ConstantsAssumption DEF ConstantsAssumption
    <3> QED BY <2>1, <2>2, <2>3, <3>1 DEF Owning
  <2> QED BY <2>4, <2>5, <2>6, <2>7, <2>8, <2>9, <2>10, <2>11 DEF Part
<1> QED BY <1>1, <1>2 DEF IInv

LEMMA AcquireKeeps ==
  ASSUME IInv, TypeOK', NEW f \in Frames, AcquireStep(f)
  PROVE  IInv'
BY CheckBudgetStep, StopSpentStep, EnterPoolStep, AppendQueuedStep, WakeStep, LogAcquiredStep,
   StartLeaseStep DEF AcquireStep

LEMMA FrameKeeps ==
  ASSUME IInv, TypeOK', NEW f \in Frames, FrameStep(f)
  PROVE  IInv'
BY LaunchStep, StartCallStep, ParkedStep, EndCallStep, EndGateStep, AdapterReturnsStep,
   ClosedStep, JoinCancelsStep, ExitFrameStep, CloseStep DEF FrameStep

LEMMA InvariantIsInductive ==
  ASSUME IInv, [Next]_vars
  PROVE  IInv'
<1>1. TypeOK
  BY DEF IInv
<1>2. CASE Next
  <2>1. TypeOK'
    BY <1>1, <1>2, NextSteps, ProcessTypes, AcquireTypes, FrameTypes, CarryTypes
  <2>2. CASE ProcessStep
    BY <2>1, <2>2, ProcessKeeps
  <2>3. ASSUME NEW f \in Frames, AcquireStep(f) \/ FrameStep(f) \/ Tick(f) PROVE IInv'
    BY <2>1, <2>3, AcquireKeeps, FrameKeeps, TickStep
  <2>4. ASSUME NEW f \in Frames, NEW a \in Carriers, Carry(f, a) PROVE IInv'
    BY <2>1, <2>4, LogReleasedStep, FreeLaneStep DEF Carry
  <2>5. ASSUME NEW f \in Frames, NEW x \in timers[f], Expire(f, x) PROVE IInv'
    BY <2>1, <2>5, ExpireStep
  <2> QED BY <1>2, <2>2, <2>3, <2>4, <2>5, NextSteps
<1>3. CASE UNCHANGED vars
  <2>1. TypeOK'
    BY <1>1, <1>3 DEF vars, journal, scheduler, threads, process, TypeOK
  <2>2. \A g \in Frames : Same(g)
    BY <1>3 DEF vars, journal, scheduler, threads, process, Same, SameJournal,
      SameRecord, SameBag, SamePlace, SameSignals, SameMain, SameLanes
  <2>3. OffIsFree'
    BY <1>3 DEF IInv, OffIsFree, Running, vars, scheduler, process
  <2> QED BY <1>1, <2>1, <2>2, <2>3, SameKeepsPart DEF IInv
<1> QED BY <1>2, <1>3

\* The inductive invariant: in which hand the lane of each frame is, what the
\* journal and the scheduler know of it, and where the ticks of its worker are.
THEOREM IInvHolds == Spec => []IInv
BY InitInvariant, InvariantIsInductive, PTL DEF Spec

-----------------------------------------------------------------------------
(* What the invariant says of lanes, leases, time-outs and charges. *)

\* A lane is in one hand at most.
LEMMA OneHand ==
  ASSUME IInv, NEW f \in Frames, NEW l \in Lanes
  PROVE  /\ Holds(f, l) => owner[l] = f /\ \E h : Holders(f, l) = {h}
         /\ ~Holds(f, l) => Holders(f, l) = {}
<1>1. Leased(f) /\ Handed(f) /\ Owning(f)
  BY Parts
<1>2. l # None
  BY ConstantsAssumption DEF ConstantsAssumption
<1>3. ASSUME ex[f].lane = l PROVE owner[l] = f /\ Holders(f, l) = {"lease"}
  <2>1. acq[f] = "no" /\ \A a \in Carriers : bag[f][a].lane = None
    BY <1>1, <1>2, <1>3, EmptyHand DEF Leased, EmptyHands
  <2>2. {a \in Carriers : bag[f][a].lane = l} = {}
    BY <1>2, <2>1
  <2> QED BY <1>1, <1>2, <1>3, <2>1, <2>2 DEF Owning, Holders
<1>4. ASSUME acq[f] \in {"owned", "logged"}, got[f] = l
      PROVE  owner[l] = f /\ Holders(f, l) = {"acquisition"}
  <2>1. ex[f].lane # l /\ \A a \in Carriers : bag[f][a].lane = None
    BY <1>1, <1>2, <1>4, EmptyHand DEF Leased, Handed, EmptyHands
  <2>2. {a \in Carriers : bag[f][a].lane = l} = {}
    BY <1>2, <2>1
  <2> QED BY <1>1, <1>4, <2>1, <2>2 DEF Owning, Holders
<1>5. ASSUME NEW a \in Carriers, bag[f][a].lane = l
      PROVE  owner[l] = f /\ Holders(f, l) = {a}
  <2>1. Full(f, a)
    BY <1>2, <1>5 DEF Full
  <2>2. ex[f].lane # l /\ acq[f] \notin {"owned", "logged"}
    BY <1>1, <1>2, <2>1, EmptyHand DEF Leased, Handed, EmptyHands, Full
  <2>3. {b \in Carriers : bag[f][b].lane = l} = {a}
    BY <1>1, <1>2, <1>5, <2>1 DEF Handed, Full
  <2> QED BY <1>1, <1>5, <2>1, <2>2, <2>3 DEF Owning, Holders
<1>6. ASSUME ~Holds(f, l) PROVE Holders(f, l) = {}
  BY <1>6 DEF Holds, Holders
<1> QED BY <1>3, <1>4, <1>5, <1>6 DEF Holds

\* While the engine drives, a lane the scheduler counts as taken by a frame is
\* in exactly one hand of that frame and a lane it does not is in none: no
\* interleaving of park, close, expiry, resume and release leaks a lane or
\* returns it twice.
THEOREM LanesAreCarriedHolds == Spec => []LanesAreCarried
<1>1. ASSUME IInv PROVE LanesAreCarried
  <2> SUFFICES ASSUME main = "driving", NEW f \in Frames, NEW l \in Lanes
               PROVE  Cardinality(Holders(f, l)) = IF owner[l] = f THEN 1 ELSE 0
    BY DEF LanesAreCarried
  <2>1. CASE owner[l] = f
    <3>1. Holds(f, l)
      BY <1>1, <2>1, Parts DEF Owning
    <3>2. PICK h : Holders(f, l) = {h}
      BY <1>1, <3>1, OneHand
    <3>3. Cardinality({h}) = 1
      BY FS_Singleton
    <3> QED BY <2>1, <3>2, <3>3
  <2>2. CASE owner[l] # f
    BY <1>1, <2>2, OneHand, FS_EmptySet
  <2> QED BY <2>1, <2>2
<1> QED BY <1>1, IInvHolds, PTL

\* A worker that thinks has a lane or is being stopped for its time-out, and a
\* frame that exits leaves no lane, no acquisition and no open interval.
THEOREM LeaseFollowsWorkHolds == Spec => []LeaseFollowsWork
<1>1. ASSUME IInv PROVE LeaseFollowsWork
  <2> SUFFICES ASSUME NEW f \in Frames
               PROVE  /\ life[f] = "running" /\ call[f] = "none" /\ ~stopping[f]
                           /\ ~cancelled[f] =>
                           ex[f].lane # None \/ bag[f]["timer"] # NoBag
                      /\ life[f] = "exited" =>
                           /\ jlane[f] = None /\ acq[f] = "no"
                           /\ \A l \in Lanes : owner[l] # f
    BY DEF LeaseFollowsWork
  <2>1. Control(f) /\ Working(f) /\ Ended(f) /\ Owning(f) /\ OffIsFree
    BY <1>1, Parts DEF IInv
  <2>2. life[f] = "running" /\ call[f] = "none" /\ ~stopping[f] /\ ~cancelled[f] =>
          ex[f].lane # None \/ bag[f]["timer"] # NoBag
    BY <2>1, EmptyHand DEF Control, Working, Full
  <2>3. ASSUME life[f] = "exited", NEW l \in Lanes PROVE owner[l] # f
    <3>1. f # None /\ l # None
      BY ConstantsAssumption DEF ConstantsAssumption
    <3>2. ~Holds(f, l)
      BY <2>1, <2>3, <3>1, EmptyHand DEF Ended, Holds, EmptyHands
    <3>3. CASE Running
      BY <2>1, <2>3, <3>2, <3>3 DEF Control, Owning, Running
    <3>4. CASE ~Running
      BY <2>1, <3>1, <3>4 DEF OffIsFree
    <3> QED BY <3>3, <3>4
  <2> QED BY <2>1, <2>2, <2>3 DEF Ended
<1> QED BY <1>1, IInvHolds, PTL

\* No frame is timed out before its worker thought for the whole budget, with
\* whatever timers of earlier leases come late.
THEOREM TimeoutIsEarnedHolds == Spec => []TimeoutIsEarned
<1>1. ASSUME IInv PROVE TimeoutIsEarned
  BY <1>1, Parts DEF TimeoutIsEarned, Clocked
<1> QED BY <1>1, IInvHolds, PTL

\* A frame that exits was charged in the journal what its worker thought: each
\* stretch once, whichever way its lane went back.
THEOREM SelfTimeIsChargedHolds == Spec => []SelfTimeIsCharged
<1>1. ASSUME IInv PROVE SelfTimeIsCharged
  BY <1>1, Parts DEF SelfTimeIsCharged, Charged
<1> QED BY <1>1, IInvHolds, PTL

\* The steps that write an interval.
LEMMA IntervalSteps ==
  ASSUME [Next]_vars
  PROVE  \/ jlane' = jlane
         \/ \E f \in Frames : LogAcquired(f) \/ Sweep(f) \/ \E a \in Carriers : LogReleased(f, a)
<1> USE DEF journal
<1>1. CASE UNCHANGED vars
  BY <1>1 DEF vars
<1>2. CASE ProcessStep
  BY <1>2 DEF ProcessStep, BeginShutdown, CancelAll, StopPools, JoinAll, Interrupt, Drive,
    Crash, Restart
<1>3. ASSUME NEW f \in Frames, FrameStep(f) PROVE jlane' = jlane
  BY <1>3 DEF FrameStep, Launch, StartCall, Parked, EndCall, EndGate, AdapterReturns,
    CloseReturned, Closed, JoinCancels, ExitFrame, CloseLeft, Close
<1>4. ASSUME NEW f \in Frames, AcquireStep(f) PROVE LogAcquired(f) \/ jlane' = jlane
  BY <1>4 DEF AcquireStep, CheckBudget, StopSpent, EnterPool, AppendQueued, Wake, StartLease,
    AcquireStays
<1>5. ASSUME NEW f \in Frames, Tick(f) \/ \E x \in timers[f] : Expire(f, x)
      PROVE  jlane' = jlane
  BY <1>5 DEF Tick, Expire
<1>6. ASSUME NEW f \in Frames, NEW a \in Carriers, Carry(f, a)
      PROVE  LogReleased(f, a) \/ jlane' = jlane
  BY <1>6 DEF Carry, FreeLane
<1> QED BY <1>1, <1>2, <1>3, <1>4, <1>5, <1>6, NextSteps

\* The journalled intervals are those of SlotIntervals: never two open on a
\* lane, never two of a frame, over crashes and the sweep of a resumed engine.
THEOREM ImplementsIntervalsHolds == Spec => ImplementsIntervals
<1>1. Init => Intervals!Init
  BY DEF Init, Intervals!Init
<1>2. ASSUME IInv, [Next]_vars PROVE [Intervals!Next]_jlane
  <2>1. ASSUME NEW f \in Frames, LogAcquired(f) PROVE Intervals!Next
    <3>1. jlane[f] = None /\ got[f] \in Lanes /\ owner[got[f]] = f
      BY <1>2, <2>1, Parts DEF LogAcquired, Journalled, Handed, Owning
    <3>2. ASSUME NEW g \in Frames, jlane[g] = got[f] PROVE FALSE
      <4>1. jlane[g] # None /\ g # f
        BY <3>1, <3>2, ConstantsAssumption DEF ConstantsAssumption
      <4>2. owner[jlane[g]] = g
        <5>1. Running
          BY <1>2, <2>1, Parts DEF LogAcquired, OffIsQuiet, Quiet
        <5> QED BY <1>2, <4>1, <5>1, Parts DEF Owning
      <4> QED BY <3>1, <3>2, <4>1, <4>2
    <3>3. Intervals!Acquire(f, got[f])
      BY <2>1, <3>1, <3>2 DEF Intervals!Acquire, LogAcquired
    <3> QED BY <3>1, <3>3 DEF Intervals!Next
  <2>2. ASSUME NEW f \in Frames, Sweep(f) \/ \E a \in Carriers : LogReleased(f, a)
        PROVE  Intervals!Next
    <3>1. jlane[f] # None
      BY <1>2, <2>2, Parts DEF Sweep, LogReleased, Journalled, Full
    <3>2. Intervals!Release(f)
      BY <2>2, <3>1 DEF Sweep, LogReleased, Intervals!Release
    <3> QED BY <3>2 DEF Intervals!Next
  <2> QED BY <1>2, <2>1, <2>2, IntervalSteps
<1> QED BY <1>1, <1>2, IInvHolds, PTL
      DEF Spec, ImplementsIntervals, Intervals!Spec
====
