--------------------------- MODULE AdmissionProofs ---------------------------
(***************************************************************************)
(* Exact reservations and the caps of the admission policy, proved for     *)
(* every tree of frames, every policy, and any number of dispatches and    *)
(* restarts.                                                               *)
(***************************************************************************)
EXTENDS Admission, Integers, FiniteSetTheorems, TLAPS

-----------------------------------------------------------------------------
(* Sums over finite sets.                                                  *)

\* The units Total counts.
UnitSet(w, S) == UNION {{x} \X (1..w[x]) : x \in S}

\* The units of one member.
LEMMA UnitsOfOne ==
  ASSUME NEW x, NEW n \in Nat
  PROVE  IsFiniteSet({x} \X (1..n)) /\ Cardinality({x} \X (1..n)) = n
<1>1. IsFiniteSet({x}) /\ Cardinality({x}) = 1
  BY FS_Singleton
<1>2. IsFiniteSet(1..n) /\ Cardinality(1..n) = IF 1 > n THEN 0 ELSE n - 1 + 1
  BY FS_Interval
<1>3. Cardinality(1..n) = n
  BY <1>2
<1>4. /\ IsFiniteSet({x} \X (1..n))
      /\ Cardinality({x} \X (1..n)) = Cardinality({x}) * Cardinality(1..n)
  BY <1>1, <1>2, FS_Product
<1> QED BY <1>1, <1>3, <1>4

\* A sum over a finite set is a number.
LEMMA TotalIsNat ==
  ASSUME NEW S, IsFiniteSet(S), NEW w, \A x \in S : w[x] \in Nat
  PROVE  /\ IsFiniteSet(UnitSet(w, S))
         /\ Total(w, S) = Cardinality(UnitSet(w, S)) /\ Total(w, S) \in Nat
<1> DEFINE g == [x \in S |-> {x} \X (1..w[x])]
           T == {{x} \X (1..w[x]) : x \in S}
<1>1. g \in Surjection(S, T)
  BY DEF Surjection
<1>2. IsFiniteSet(T)
  BY <1>1, FS_Surjection
<1>3. ASSUME NEW u \in T PROVE IsFiniteSet(u)
  <2>1. PICK x \in S : u = {x} \X (1..w[x])
    OBVIOUS
  <2> QED BY <2>1, UnitsOfOne
<1>4. IsFiniteSet(UNION T)
  BY <1>2, <1>3, FS_UNION
<1>5. IsFiniteSet(UnitSet(w, S)) /\ Total(w, S) = Cardinality(UnitSet(w, S))
  BY <1>4 DEF UnitSet, Total
<1> QED BY <1>5, FS_CardinalityType

\* Only the weights of the members matter.
LEMMA TotalDepends ==
  ASSUME NEW S, NEW w, NEW v, \A x \in S : w[x] = v[x]
  PROVE  Total(w, S) = Total(v, S)
<1>1. {{x} \X (1..w[x]) : x \in S} = {{x} \X (1..v[x]) : x \in S}
  OBVIOUS
<1> QED BY <1>1 DEF Total

\* The sum over one member.
LEMMA TotalOfOne ==
  ASSUME NEW x, NEW w, w[x] \in Nat
  PROVE  Total(w, {x}) = w[x]
<1>1. UNION {{y} \X (1..w[y]) : y \in {x}} = {x} \X (1..w[x])
  OBVIOUS
<1> QED BY <1>1, UnitsOfOne DEF Total

\* The sum of zeros.
LEMMA TotalOfZeros ==
  ASSUME NEW S, NEW w, \A x \in S : w[x] = 0
  PROVE  Total(w, S) = 0
<1>1. 1..0 = {}
  OBVIOUS
<1>2. UNION {{x} \X (1..w[x]) : x \in S} = {}
  BY <1>1
<1> QED BY <1>2, FS_EmptySet DEF Total

\* The sum over two sets without a common member.
LEMMA TotalOfUnion ==
  ASSUME NEW A, NEW B, IsFiniteSet(A), IsFiniteSet(B), A \cap B = {},
         NEW w, \A x \in A \cup B : w[x] \in Nat
  PROVE  Total(w, A \cup B) = Total(w, A) + Total(w, B)
<1>1. UnitSet(w, A \cup B) = UnitSet(w, A) \cup UnitSet(w, B)
  BY DEF UnitSet
<1>2. UnitSet(w, A) \cap UnitSet(w, B) = {}
  BY DEF UnitSet
<1>3. /\ IsFiniteSet(UnitSet(w, A)) /\ Total(w, A) = Cardinality(UnitSet(w, A))
      /\ IsFiniteSet(UnitSet(w, B)) /\ Total(w, B) = Cardinality(UnitSet(w, B))
      /\ Total(w, A) \in Nat /\ Total(w, B) \in Nat
  BY TotalIsNat
<1>4. Cardinality(UnitSet(w, A) \cup UnitSet(w, B)) =
        Cardinality(UnitSet(w, A)) + Cardinality(UnitSet(w, B))
          - Cardinality(UnitSet(w, A) \cap UnitSet(w, B))
  BY <1>3, FS_Union
<1>5. Cardinality(UnitSet(w, A) \cap UnitSet(w, B)) = 0
  BY <1>2, FS_EmptySet
<1>6. Total(w, A \cup B) = Cardinality(UnitSet(w, A \cup B))
  BY DEF Total, UnitSet
<1>7. Total(w, A \cup B) =
        Cardinality(UnitSet(w, A)) + Cardinality(UnitSet(w, B))
          - Cardinality(UnitSet(w, A) \cap UnitSet(w, B))
  BY <1>1, <1>4, <1>6
<1>8. Total(w, A \cup B) = Total(w, A) + Total(w, B) - 0
  BY <1>3, <1>5, <1>7
<1> QED BY <1>3, <1>8

\* A member counts once.
LEMMA TotalSplits ==
  ASSUME NEW S, IsFiniteSet(S), NEW x \in S, NEW w, \A y \in S : w[y] \in Nat
  PROVE  /\ Total(w, S) = Total(w, S \ {x}) + w[x]
         /\ Total(w, S \ {x}) \in Nat
<1>1. IsFiniteSet(S \ {x}) /\ IsFiniteSet({x})
  BY FS_RemoveElement, FS_Singleton
<1>2. S = (S \ {x}) \cup {x} /\ (S \ {x}) \cap {x} = {}
  OBVIOUS
<1>3. \A y \in (S \ {x}) \cup {x} : w[y] \in Nat
  OBVIOUS
<1>4. Total(w, (S \ {x}) \cup {x}) = Total(w, S \ {x}) + Total(w, {x})
  BY <1>1, <1>2, <1>3, TotalOfUnion
<1>5. Total(w, {x}) = w[x]
  BY TotalOfOne
<1>6. Total(w, S \ {x}) \in Nat
  BY <1>1, TotalIsNat
<1> QED BY <1>2, <1>4, <1>5, <1>6

\* One weight changes.
LEMMA TotalChanges ==
  ASSUME NEW S, IsFiniteSet(S), NEW x \in S, NEW w, \A y \in S : w[y] \in Nat,
         NEW v, v[x] \in Nat, \A y \in S \ {x} : v[y] = w[y]
  PROVE  Total(v, S) = Total(w, S) - w[x] + v[x]
<1>1. \A y \in S : v[y] \in Nat
  OBVIOUS
<1>2. Total(w, S) = Total(w, S \ {x}) + w[x] /\ Total(w, S \ {x}) \in Nat
  BY TotalSplits
<1>3. Total(v, S) = Total(v, S \ {x}) + v[x]
  BY <1>1, TotalSplits
<1>4. Total(v, S \ {x}) = Total(w, S \ {x})
  BY TotalDepends
<1> QED BY <1>2, <1>3, <1>4

\* A call in flight has a caller that is alive, and is journalled before its
\* tasks are pushed.  Without a process there is neither.
Control ==
  /\ ~up => live = {} /\ touched = {}
  /\ \A c \in Calls :
       /\ step[c] # "no" => Caller[c] \in live
       /\ step[c] \in {"refusing", "working", "ending"} => c \in called
       /\ Tasks[c] \cap pushed # {} => c \in called

\* Only a dispatch whose body runs, or that no process has replayed yet, has
\* a reservation.
Idle ==
  \A c \in Calls :
    \/ step[c] \in {"turned", "refusing", "ending"}
    \/ step[c] = "no" /\ c \in touched
    => table[c] = Nothing

\* A dispatch that runs has the reservation of the tasks it has yet to launch,
\* or is known to go without.
Covered ==
  \A c \in Calls :
    step[c] = "working" => table[c] = Units(Unlaunched(c)) \/ c \in loose

\* The reservations the next process will restore stay within the policy.
Restorable ==
  ~up => \A f \in Frames :
    \/ loose \cap CallsBelow(f) # {}
    \/ /\ Cardinality(Descendants(f)) + Total(RestoredFrames, CallsBelow(f)) <= MaxFrames
       /\ SumCost(Descendants(f)) + Total(RestoredSpend, CallsBelow(f)) <= MaxSpend

\* The inductive invariant.
IInv ==
  /\ TypeOK /\ ReservationsAreExact /\ CapsHold
  /\ Control /\ Idle /\ Covered /\ Restorable

-----------------------------------------------------------------------------
(* Units, subtrees and counters.                                           *)

\* The constants are finite sets and functions on them.
LEMMA Finite ==
  /\ IsFiniteSet(Frames) /\ IsFiniteSet(Calls)
  /\ \A S \in SUBSET Frames : IsFiniteSet(S) /\ Cardinality(S) \in Nat
  /\ \A f \in Frames : Cost[f] \in Nat
  /\ \A f \in Frames : IsFiniteSet(CallsBelow(f)) /\ CallsBelow(f) \subseteq Calls
  /\ \A c \in Calls : Tasks[c] \subseteq Frames /\ Above[Caller[c]] \subseteq Frames
<1>1. IsFiniteSet(Frames) /\ IsFiniteSet(Calls)
  BY ConstantsAssumption DEF ConstantsAssumption
<1>2. \A S \in SUBSET Frames : IsFiniteSet(S) /\ Cardinality(S) \in Nat
  BY <1>1, FS_Subset, FS_CardinalityType
<1>3. \A f \in Frames : Cost[f] \in Nat
  BY ConstantsAssumption DEF ConstantsAssumption
<1>4. \A f \in Frames : CallsBelow(f) \in SUBSET Calls
  BY DEF CallsBelow
<1>5. \A f \in Frames : IsFiniteSet(CallsBelow(f))
  BY <1>1, <1>4, FS_Subset
<1>6. \A c \in Calls : Tasks[c] \subseteq Frames /\ Above[Caller[c]] \subseteq Frames
  BY ConstantsAssumption DEF ConstantsAssumption
<1> QED BY <1>1, <1>2, <1>3, <1>4, <1>5, <1>6

\* What a dispatch reserves for a set of frames.
LEMMA UnitsFacts ==
  ASSUME NEW S \in SUBSET Frames
  PROVE  /\ Cardinality(S) \in Nat /\ SumCost(S) \in Nat
         /\ Units(S) \in Reservations
         /\ Units(S).frames = Cardinality(S) /\ Units(S).spend = SumCost(S)
         /\ Units(S).frames = 0 <=> S = {}
         /\ S = {} => Units(S) = Nothing
<1>1. IsFiniteSet(S) /\ Cardinality(S) \in Nat /\ \A f \in S : Cost[f] \in Nat
  BY Finite
<1>2. SumCost(S) \in Nat
  BY <1>1, TotalIsNat DEF SumCost
<1>3. Cardinality(S) = 0 <=> S = {}
  BY <1>1, FS_EmptySet
<1>4. S = {} => SumCost(S) = 0
  BY TotalOfZeros DEF SumCost
<1> QED BY <1>1, <1>2, <1>3, <1>4 DEF Units, Reservations, Nothing

\* One task less.
LEMMA UnitsWithout ==
  ASSUME NEW S \in SUBSET Frames, NEW g \in S
  PROVE  /\ Units(S \ {g}).frames = Units(S).frames - 1
         /\ Units(S \ {g}).spend = Units(S).spend - Cost[g]
         /\ Units({g}).frames = 1 /\ Units({g}).spend = Cost[g]
<1>1. IsFiniteSet(S) /\ \A f \in S : Cost[f] \in Nat
  BY Finite
<1>2. Cardinality(S \ {g}) = Cardinality(S) - 1
  BY <1>1, FS_RemoveElement
<1>3. SumCost(S) = SumCost(S \ {g}) + Cost[g] /\ SumCost(S \ {g}) \in Nat
  BY <1>1, TotalSplits DEF SumCost
<1>4. SumCost(S \ {g}) = SumCost(S) - Cost[g]
  BY <1>1, <1>3
<1>5. Cardinality({g}) = 1 /\ SumCost({g}) = Cost[g]
  BY <1>1, FS_Singleton, TotalOfOne DEF SumCost
<1> QED BY <1>2, <1>4, <1>5 DEF Units

\* A frame that is pushed descends from its caller and whatever is above it.
LEMMA PushDescendants ==
  ASSUME TypeOK, NEW c \in Calls, NEW g \in Tasks[c], g \notin pushed,
         pushed' = pushed \cup {g}, NEW f \in Frames
  PROVE  /\ f \notin Above[Caller[c]] => Descendants(f)' = Descendants(f)
         /\ Cardinality(Descendants(f)') <= Cardinality(Descendants(f)) + 1
         /\ SumCost(Descendants(f)') <= SumCost(Descendants(f)) + Cost[g]
<1>1. g \in Frames /\ Above[g] = {g} \cup Above[Caller[c]] /\ Cost[g] \in Nat
  BY ConstantsAssumption, Finite DEF ConstantsAssumption
<1>2. Descendants(f)' = {h \in (pushed \cup {g}) \ {f} : f \in Above[h]}
  BY DEF Descendants
<1>3. \/ Descendants(f)' = Descendants(f)
      \/ f \in Above[Caller[c]] /\ Descendants(f)' = Descendants(f) \cup {g}
  BY <1>1, <1>2 DEF Descendants
<1>4. Descendants(f) \in SUBSET Frames /\ g \notin Descendants(f)
  BY DEF Descendants, TypeOK
<1>5. Cardinality(Descendants(f)) \in Nat /\ SumCost(Descendants(f)) \in Nat
  BY <1>4, UnitsFacts
<1>6. CASE Descendants(f)' = Descendants(f)
  BY <1>1, <1>5, <1>6
<1>7. CASE f \in Above[Caller[c]] /\ Descendants(f)' = Descendants(f) \cup {g}
  <2> DEFINE D == Descendants(f) \cup {g}
  <2>1. D \in SUBSET Frames /\ g \in D /\ D \ {g} = Descendants(f)
    BY <1>1, <1>4
  <2>2. /\ Units(D \ {g}).frames = Units(D).frames - 1
        /\ Units(D \ {g}).spend = Units(D).spend - Cost[g]
    BY <2>1, UnitsWithout
  <2>3. /\ Cardinality(D) \in Nat /\ SumCost(D) \in Nat
        /\ Units(D).frames = Cardinality(D) /\ Units(D).spend = SumCost(D)
        /\ Units(Descendants(f)).frames = Cardinality(Descendants(f))
        /\ Units(Descendants(f)).spend = SumCost(Descendants(f))
    BY <1>4, <2>1, UnitsFacts
  <2>4. /\ Cardinality(D) = Cardinality(Descendants(f)) + 1
        /\ SumCost(D) = SumCost(Descendants(f)) + Cost[g]
    <3> HIDE DEF D
    <3> QED BY <1>1, <1>5, <2>1, <2>2, <2>3
  <2> QED BY <1>5, <1>7, <2>3, <2>4
<1> QED BY <1>3, <1>6, <1>7

\* The two halves of ReservationsAreExact.
Earmarked ==
  \A c \in Calls :
    table[c] # Nothing => Pending(c) /\ table[c] = Units(Unlaunched(c))

Counted ==
  \A f \in Frames :
    /\ resFrames[f] = Total([c \in Calls |-> table[c].frames], CallsBelow(f))
    /\ resSpend[f] = Total([c \in Calls |-> table[c].spend], CallsBelow(f))

\* The counters follow a change of one reservation.
LEMMA CountersFollow ==
  ASSUME TypeOK, Counted, NEW c \in Calls, NEW u \in Reservations,
         table' = [table EXCEPT ![c] = u],
         \A f \in Frames :
           /\ resFrames'[f] = IF f \in Above[Caller[c]]
                              THEN resFrames[f] - table[c].frames + u.frames
                              ELSE resFrames[f]
           /\ resSpend'[f] = IF f \in Above[Caller[c]]
                             THEN resSpend[f] - table[c].spend + u.spend
                             ELSE resSpend[f]
  PROVE  Counted'
<1> SUFFICES ASSUME NEW f \in Frames
             PROVE  /\ resFrames'[f] =
                         Total([d \in Calls |-> table'[d].frames], CallsBelow(f))
                    /\ resSpend'[f] =
                         Total([d \in Calls |-> table'[d].spend], CallsBelow(f))
  BY DEF Counted, CallsBelow
<1> DEFINE wf == [d \in Calls |-> table[d].frames]
           vf == [d \in Calls |-> table'[d].frames]
           ws == [d \in Calls |-> table[d].spend]
           vs == [d \in Calls |-> table'[d].spend]
<1>1. \A d \in Calls : table'[d] = IF d = c THEN u ELSE table[d]
  BY DEF TypeOK
<1>2. u.frames \in Nat /\ u.spend \in Nat
  BY DEF Reservations
<1>3. \A d \in Calls : table[d].frames \in Nat /\ table[d].spend \in Nat
  BY DEF TypeOK, Reservations
<1>4. /\ \A d \in Calls : wf[d] \in Nat /\ ws[d] \in Nat
      /\ wf[c] = table[c].frames /\ ws[c] = table[c].spend
  BY <1>3
<1>5. vf[c] = u.frames /\ vs[c] = u.spend
  BY <1>1
<1>6. \A d \in Calls \ {c} : vf[d] = wf[d] /\ vs[d] = ws[d]
  BY <1>1
<1>7. IsFiniteSet(CallsBelow(f)) /\ CallsBelow(f) \subseteq Calls
  BY Finite
<1>8. /\ resFrames[f] = Total(wf, CallsBelow(f))
      /\ resSpend[f] = Total(ws, CallsBelow(f))
  BY DEF Counted
<1>9. f \in Above[Caller[c]] <=> c \in CallsBelow(f)
  BY DEF CallsBelow
<1> HIDE DEF wf, vf, ws, vs
<1>10. CASE c \in CallsBelow(f)
  <2>1. Total(vf, CallsBelow(f)) = Total(wf, CallsBelow(f)) - wf[c] + vf[c]
    BY <1>2, <1>4, <1>5, <1>6, <1>7, <1>10, TotalChanges
  <2>2. Total(vs, CallsBelow(f)) = Total(ws, CallsBelow(f)) - ws[c] + vs[c]
    BY <1>2, <1>4, <1>5, <1>6, <1>7, <1>10, TotalChanges
  <2>3. Total(vf, CallsBelow(f)) = resFrames'[f] /\ Total(vs, CallsBelow(f)) = resSpend'[f]
    BY <1>4, <1>5, <1>8, <1>9, <1>10, <2>1, <2>2
  <2> QED BY <2>3 DEF vf, vs
<1>11. CASE c \notin CallsBelow(f)
  <2>1. Total(vf, CallsBelow(f)) = Total(wf, CallsBelow(f))
    BY <1>6, <1>7, <1>11, TotalDepends
  <2>2. Total(vs, CallsBelow(f)) = Total(ws, CallsBelow(f))
    BY <1>6, <1>7, <1>11, TotalDepends
  <2> QED BY <1>8, <1>9, <1>11, <2>1, <2>2 DEF vf, vs
<1> QED BY <1>10, <1>11

\* Exact counters are numbers.
LEMMA CountersAreNat ==
  ASSUME Counted, table \in [Calls -> Reservations], NEW f \in Frames
  PROVE  resFrames[f] \in Nat /\ resSpend[f] \in Nat
<1> DEFINE wf == [d \in Calls |-> table[d].frames]
           ws == [d \in Calls |-> table[d].spend]
<1>1. \A d \in Calls : table[d].frames \in Nat /\ table[d].spend \in Nat
  BY DEF Reservations
<1>2. \A d \in CallsBelow(f) : wf[d] \in Nat /\ ws[d] \in Nat
  BY <1>1, Finite
<1>3. resFrames[f] = Total(wf, CallsBelow(f)) /\ resSpend[f] = Total(ws, CallsBelow(f))
  BY DEF Counted
<1> HIDE DEF wf, ws
<1> QED BY <1>2, <1>3, Finite, TotalIsNat

-----------------------------------------------------------------------------
(* Steps that neither push a frame nor touch a reservation.                *)

\* The handlers' steps before and after the body, and the frames' launches
\* and exits.
QuietStep ==
  \/ \E c \in Calls :
       \/ RefuseRig(c) \/ TurnAway(c) \/ LogTurnedAway(c) \/ ReturnRefusal(c)
       \/ Replay(c) \/ Return(c) \/ Fail(c)
  \/ \E f \in Frames : Relaunch(f) \/ ExitFrame(f) \/ Unwind(f)

\* They leave the counters alone.
LEMMA QuietFrame ==
  ASSUME QuietStep
  PROVE  up /\ UNCHANGED <<pushed, up, reserved, restarts>> /\ loose \subseteq loose'
BY DEF QuietStep, RefuseRig, TurnAway, LogTurnedAway, ReturnRefusal, Replay, Return, Fail,
   Relaunch, ExitFrame, Unwind, MayCall, journal

\* They keep the types.
LEMMA QuietTypes ==
  ASSUME IInv, QuietStep
  PROVE  TypeOK'
<1> USE DEF IInv, TypeOK, journal, reserved, Goto
<1>1. ASSUME NEW c \in Calls, RefuseRig(c) \/ ReturnRefusal(c) \/ Return(c) PROVE TypeOK'
  BY <1>1 DEF RefuseRig, ReturnRefusal, Return
<1>2. ASSUME NEW c \in Calls, TurnAway(c) \/ LogTurnedAway(c) \/ Fail(c) PROVE TypeOK'
  BY <1>2 DEF TurnAway, LogTurnedAway, Fail
<1>3. ASSUME NEW c \in Calls, Replay(c) PROVE TypeOK'
  BY <1>3 DEF Replay, Pending
<1>4. ASSUME NEW f \in Frames, Relaunch(f) PROVE TypeOK'
  BY <1>4 DEF Relaunch, Settle
<1>5. ASSUME NEW f \in Frames, ExitFrame(f) PROVE TypeOK'
  BY <1>5 DEF ExitFrame, Settle
<1>6. ASSUME NEW f \in Frames, Unwind(f) PROVE TypeOK'
  BY <1>6 DEF Unwind
<1> QED BY <1>1, <1>2, <1>3, <1>4, <1>5, <1>6 DEF QuietStep

\* A launch or an exit of frame f finds the calls of f at rest, and those it
\* fails without a reservation.
LEMMA SettleFinds ==
  ASSUME IInv, NEW f \in Frames, Settle(f),
         f \notin live \/ AtRest(f)
  PROVE  /\ \A c \in Calls : Caller[c] = f => step[c] = "no"
         /\ \A c \in Calls : table[c] # Nothing => result'[c] = result[c]
         /\ touched' \subseteq touched
<1>1. \A c \in Calls : Caller[c] = f => step[c] = "no"
  BY DEF IInv, Control, AtRest
<1> QED BY <1>1 DEF Settle, IInv, Idle

\* They complete no call that has a reservation.
LEMMA QuietEarmarks ==
  ASSUME IInv, QuietStep
  PROVE  /\ called \subseteq called'
         /\ \A c \in Calls : table[c] # Nothing => result'[c] = result[c]
<1> USE DEF journal
<1>1. ASSUME NEW c \in Calls, RefuseRig(c)
      PROVE  called' = called /\ result' = [result EXCEPT ![c] = "call_refused"]
             /\ table[c] = Nothing
  BY <1>1 DEF RefuseRig, IInv, ReservationsAreExact, Pending
<1>2. ASSUME NEW c \in Calls, ReturnRefusal(c)
      PROVE  called' = called /\ result' = [result EXCEPT ![c] = "refused"]
             /\ table[c] = Nothing
  BY <1>2 DEF ReturnRefusal, IInv, Idle
<1>3. ASSUME NEW c \in Calls, Return(c)
      PROVE  called' = called /\ result' = [result EXCEPT ![c] = "returned"]
             /\ table[c] = Nothing
  BY <1>3 DEF Return, IInv, Idle
<1>4. ASSUME NEW c \in Calls, TurnAway(c) \/ LogTurnedAway(c) \/ Replay(c) \/ Fail(c)
      PROVE  called \subseteq called' /\ result' = result
  BY <1>4 DEF TurnAway, LogTurnedAway, Replay, Fail
<1>5. ASSUME NEW f \in Frames, Relaunch(f) \/ ExitFrame(f)
      PROVE  called \subseteq called'
             /\ \A c \in Calls : table[c] # Nothing => result'[c] = result[c]
  BY <1>5, SettleFinds DEF Relaunch, ExitFrame
<1>6. ASSUME NEW f \in Frames, Unwind(f)
      PROVE  called' = called /\ result' = result
  BY <1>6 DEF Unwind
<1> HIDE DEF journal
<1>7. result \in [Calls -> {"none", "refused", "call_refused", "returned", "failed"}]
  BY DEF IInv, TypeOK
<1> QED BY <1>1, <1>2, <1>3, <1>4, <1>5, <1>6, <1>7 DEF QuietStep

\* They keep Control and Idle.
LEMMA QuietControl ==
  ASSUME IInv, QuietStep
  PROVE  Control' /\ Idle' /\ Covered'
<1>1. /\ up /\ up' /\ UNCHANGED <<pushed, table>> /\ loose \subseteq loose'
      /\ called \subseteq called' /\ TypeOK /\ Control /\ Idle /\ Covered
  BY QuietFrame, QuietEarmarks DEF reserved, IInv
<1>2. \A c \in Calls : Unlaunched(c)' = Unlaunched(c)
  BY <1>1 DEF Unlaunched
<1>3. ASSUME NEW c \in Calls, NEW s \in {"no", "turned", "refusing", "working"},
             step' = [step EXCEPT ![c] = s], UNCHANGED live,
             s # "no" => Caller[c] \in live,
             s \in {"refusing", "working"} => c \in called',
             \/ s = "working" /\ (table[c] = Units(Unlaunched(c)) \/ c \in loose')
             \/ s # "working" /\ table[c] = Nothing,
             touched' \subseteq touched \cup {c}
      PROVE  Control' /\ Idle' /\ Covered'
  <2>1. \A d \in Calls : step'[d] = IF d = c THEN s ELSE step[d]
    BY <1>1, <1>3 DEF TypeOK
  <2>2. Control'
    BY <1>1, <1>3, <2>1 DEF Control
  <2>3. Idle'
    BY <1>1, <1>3, <2>1 DEF Idle
  <2>4. Covered'
    BY <1>1, <1>2, <1>3, <2>1 DEF Covered, Units
  <2> QED BY <2>2, <2>3, <2>4
<1>4. ASSUME NEW f \in Frames, UNCHANGED step, live \ {f} \subseteq live',
             f \in live' \/ \A c \in Calls : Caller[c] = f => step[c] = "no",
             touched' \subseteq touched
      PROVE  Control' /\ Idle' /\ Covered'
  <2>1. Control'
    BY <1>1, <1>4 DEF Control
  <2>2. Idle'
    BY <1>1, <1>4 DEF Idle
  <2>3. Covered'
    BY <1>1, <1>2, <1>4 DEF Covered, Units
  <2> QED BY <2>1, <2>2, <2>3
<1>5. ASSUME NEW c \in Calls, TurnAway(c) PROVE Control' /\ Idle' /\ Covered'
  <2>1. table[c] = Nothing
    BY <1>5 DEF TurnAway, IInv, ReservationsAreExact, Pending
  <2> QED BY <1>3, <1>5, <2>1 DEF TurnAway, Goto, MayCall
<1>6. ASSUME NEW c \in Calls, LogTurnedAway(c) PROVE Control' /\ Idle' /\ Covered'
  <2>1. table[c] = Nothing /\ Caller[c] \in live
    BY <1>1, <1>6 DEF LogTurnedAway, Idle, Control
  <2> QED BY <1>3, <1>6, <2>1 DEF LogTurnedAway, Goto
<1>7. ASSUME NEW c \in Calls, ReturnRefusal(c) \/ Return(c) \/ Fail(c)
      PROVE  Control' /\ Idle' /\ Covered'
  <2>1. table[c] = Nothing
    BY <1>1, <1>7 DEF ReturnRefusal, Return, Fail, Idle
  <2> QED BY <1>3, <1>7, <2>1 DEF ReturnRefusal, Return, Fail, Goto
<1>8. ASSUME NEW c \in Calls, Replay(c) PROVE Control' /\ Idle' /\ Covered'
  <2>1. table[c] = Units(Unlaunched(c)) \/ c \in loose'
    BY <1>8 DEF Replay
  <2>2. c \in called' /\ Caller[c] \in live /\ UNCHANGED live
    BY <1>8 DEF Replay, Pending, MayCall, journal
  <2> QED BY <1>3, <1>8, <2>1, <2>2 DEF Replay, Goto
<1>9. ASSUME NEW c \in Calls, RefuseRig(c) PROVE Control' /\ Idle' /\ Covered'
  <2>1. UNCHANGED <<step, live, touched>>
    BY <1>9 DEF RefuseRig
  <2>2. Control' /\ Idle'
    BY <1>1, <2>1 DEF Control, Idle
  <2> QED BY <1>1, <1>2, <2>1, <2>2 DEF Covered, Units
<1>10. ASSUME NEW f \in Frames, Relaunch(f) PROVE Control' /\ Idle' /\ Covered'
  <2>1. touched' \subseteq touched /\ UNCHANGED step /\ live' = live \cup {f}
    BY <1>10 DEF Relaunch, Settle
  <2> QED BY <1>4, <2>1
<1>11. ASSUME NEW f \in Frames, ExitFrame(f) PROVE Control' /\ Idle' /\ Covered'
  <2>1. touched' \subseteq touched /\ UNCHANGED step /\ live' = live \ {f}
    BY <1>11 DEF ExitFrame, Settle
  <2>2. \A c \in Calls : Caller[c] = f => step[c] = "no"
    BY <1>11 DEF ExitFrame, AtRest
  <2> QED BY <1>4, <2>1, <2>2
<1>12. ASSUME NEW f \in Frames, Unwind(f) PROVE Control' /\ Idle' /\ Covered'
  <2>1. touched' = touched /\ UNCHANGED step /\ live' = live \ {f}
    BY <1>12 DEF Unwind
  <2>2. \A c \in Calls : Caller[c] = f => step[c] = "no"
    BY <1>12 DEF Unwind, AtRest
  <2> QED BY <1>4, <2>1, <2>2
<1> QED
  BY <1>5, <1>6, <1>7, <1>8, <1>9, <1>10, <1>11, <1>12 DEF QuietStep

\* They keep the invariant.
LEMMA QuietIInv ==
  ASSUME IInv, QuietStep
  PROVE  IInv'
<1>1. /\ up' /\ UNCHANGED <<pushed, table, resFrames, resSpend>> /\ loose \subseteq loose'
  BY QuietFrame DEF reserved
<1>2. CapsHold'
  BY <1>1 DEF IInv, CapsHold, FramesUsed, SpendUsed, Descendants, CallsBelow
<1>3. ReservationsAreExact'
  <2>1. /\ called \subseteq called'
        /\ \A c \in Calls : table[c] # Nothing => result'[c] = result[c]
    BY QuietEarmarks
  <2>2. Counted'
    BY <1>1 DEF Counted, CallsBelow, IInv, ReservationsAreExact
  <2>3. Earmarked'
    BY <1>1, <2>1 DEF Earmarked, IInv, ReservationsAreExact, Pending, Unlaunched, Units
  <2> QED BY <2>2, <2>3 DEF ReservationsAreExact, Earmarked, Counted
<1>4. Restorable'
  BY <1>1 DEF Restorable
<1> QED BY <1>2, <1>3, <1>4, QuietTypes, QuietControl DEF IInv

-----------------------------------------------------------------------------
(* Steps of a dispatch that change its reservation.                        *)

\* What every such step has to show of the counters.
LEMMA NewCounters ==
  ASSUME IInv, NEW c \in Calls, NEW u \in Reservations,
         table' = [table EXCEPT ![c] = u],
         resFrames' = [f \in Frames |-> IF f \in Above[Caller[c]]
                         THEN resFrames[f] - table[c].frames + u.frames
                         ELSE resFrames[f]],
         resSpend' = [f \in Frames |-> IF f \in Above[Caller[c]]
                        THEN resSpend[f] - table[c].spend + u.spend
                        ELSE resSpend[f]]
  PROVE  /\ Counted' /\ table' \in [Calls -> Reservations]
         /\ resFrames' \in [Frames -> Nat] /\ resSpend' \in [Frames -> Nat]
<1>1. TypeOK /\ Counted
  BY DEF IInv, ReservationsAreExact, Counted
<1>2. \A f \in Frames :
        /\ resFrames'[f] = IF f \in Above[Caller[c]]
                           THEN resFrames[f] - table[c].frames + u.frames
                           ELSE resFrames[f]
        /\ resSpend'[f] = IF f \in Above[Caller[c]]
                          THEN resSpend[f] - table[c].spend + u.spend
                          ELSE resSpend[f]
  OBVIOUS
<1>3. Counted'
  BY <1>1, <1>2, CountersFollow
<1>4. table' \in [Calls -> Reservations]
  BY <1>1 DEF TypeOK
<1>5. \A f \in Frames : (resFrames[f] \in Nat /\ resSpend[f] \in Nat)'
  <2> SUFFICES ASSUME NEW f \in Frames
               PROVE  resFrames'[f] \in Nat /\ resSpend'[f] \in Nat
    OBVIOUS
  <2> DEFINE wf == [d \in Calls |-> table'[d].frames]
             ws == [d \in Calls |-> table'[d].spend]
  <2>1. \A d \in Calls : table'[d].frames \in Nat /\ table'[d].spend \in Nat
    BY <1>4 DEF Reservations
  <2>2. \A d \in CallsBelow(f) : wf[d] \in Nat /\ ws[d] \in Nat
    BY <2>1, Finite
  <2>3. resFrames'[f] = Total(wf, CallsBelow(f)) /\ resSpend'[f] = Total(ws, CallsBelow(f))
    BY <1>3 DEF Counted, CallsBelow
  <2> HIDE DEF wf, ws
  <2> QED BY <2>2, <2>3, Finite, TotalIsNat
<1> QED BY <1>3, <1>4, <1>5

\* The counters and the subtrees have natural numbers.
LEMMA Numbers ==
  ASSUME TypeOK, NEW f \in Frames
  PROVE  /\ Cardinality(Descendants(f)) \in Nat /\ SumCost(Descendants(f)) \in Nat
         /\ resFrames[f] \in Nat /\ resSpend[f] \in Nat
         /\ MaxFrames \in Nat /\ MaxSpend \in Nat
<1>1. Descendants(f) \in SUBSET Frames
  BY DEF Descendants, TypeOK
<1>2. Cardinality(Descendants(f)) \in Nat /\ SumCost(Descendants(f)) \in Nat
  BY <1>1, UnitsFacts
<1>3. MaxFrames \in Nat /\ MaxSpend \in Nat
  BY ConstantsAssumption DEF ConstantsAssumption
<1> QED BY <1>2, <1>3 DEF TypeOK

\* An admission reserves what every subtree above it has room for.
LEMMA AdmitIInv ==
  ASSUME IInv, NEW c \in Calls, Admit(c)
  PROVE  IInv'
<1>1. TypeOK /\ Control /\ Idle /\ Covered /\ up /\ c \notin called /\ result[c] = "none"
      /\ Caller[c] \in live
  BY DEF IInv, Admit, MayCall
<1>2. table[c] = Nothing
  BY <1>1 DEF IInv, ReservationsAreExact, Pending
<1> DEFINE u == Units(Tasks[c])
<1>3. /\ u \in Reservations
      /\ u.frames = Cardinality(Tasks[c]) /\ u.spend = SumCost(Tasks[c])
      /\ Cardinality(Tasks[c]) \in Nat /\ SumCost(Tasks[c]) \in Nat
  BY Finite, UnitsFacts
<1> HIDE DEF u
<1>4. /\ called' = called \cup {c} /\ touched' = touched \cup {c}
      /\ table' = [table EXCEPT ![c] = u] /\ step' = [step EXCEPT ![c] = "working"]
      /\ UNCHANGED <<result, pushed, exited, up, live, loose, restarts>>
  BY DEF Admit, Goto, u
<1>5. /\ \A d \in Calls : table'[d] = IF d = c THEN u ELSE table[d]
      /\ \A d \in Calls : step'[d] = IF d = c THEN "working" ELSE step[d]
  BY <1>1, <1>4 DEF TypeOK
<1>6. /\ resFrames' = [f \in Frames |-> IF f \in Above[Caller[c]]
                         THEN resFrames[f] + u.frames ELSE resFrames[f]]
      /\ resSpend' = [f \in Frames |-> IF f \in Above[Caller[c]]
                        THEN resSpend[f] + u.spend ELSE resSpend[f]]
  BY DEF Admit, Add, u
<1>7. /\ Counted' /\ table' \in [Calls -> Reservations]
      /\ resFrames' \in [Frames -> Nat] /\ resSpend' \in [Frames -> Nat]
  <2>1. table[c].frames = 0 /\ table[c].spend = 0
    BY <1>2 DEF Nothing
  <2>2. \A f \in Frames : /\ resFrames[f] - table[c].frames + u.frames = resFrames[f] + u.frames
                          /\ resSpend[f] - table[c].spend + u.spend = resSpend[f] + u.spend
    BY <1>1, <1>3, <2>1, Numbers
  <2>3. /\ resFrames' = [f \in Frames |-> IF f \in Above[Caller[c]]
                           THEN resFrames[f] - table[c].frames + u.frames
                           ELSE resFrames[f]]
        /\ resSpend' = [f \in Frames |-> IF f \in Above[Caller[c]]
                          THEN resSpend[f] - table[c].spend + u.spend
                          ELSE resSpend[f]]
    BY <1>6, <2>2
  <2> QED BY <1>3, <1>4, <2>3, NewCounters
<1>8. TypeOK'
  BY <1>1, <1>4, <1>7 DEF TypeOK
<1>9. Tasks[c] \cap pushed = {} /\ Unlaunched(c)' = Tasks[c]
  BY <1>1, <1>4 DEF Control, Unlaunched
<1>10. Earmarked'
  <2> SUFFICES ASSUME NEW d \in Calls, table'[d] # Nothing
               PROVE  Pending(d)' /\ table'[d] = Units(Unlaunched(d))'
    BY DEF Earmarked
  <2>1. CASE d = c
    BY <1>1, <1>4, <1>5, <1>9, <2>1 DEF Pending, u, Units
  <2>2. CASE d # c
    BY <1>4, <1>5, <2>2 DEF IInv, ReservationsAreExact, Pending, Units, Unlaunched
  <2> QED BY <2>1, <2>2
<1>11. CapsHold'
  <2> SUFFICES ASSUME NEW f \in Frames,
                      loose \cap CallsBelow(f) = {}
               PROVE  /\ Cardinality(Descendants(f)) + resFrames'[f] <= MaxFrames
                      /\ SumCost(Descendants(f)) + resSpend'[f] <= MaxSpend
    BY <1>4 DEF CapsHold, FramesUsed, SpendUsed, Descendants, CallsBelow
  <2>1. CASE f \in Above[Caller[c]]
    <3>1. FramesFit(c, f) /\ SpendFits(c, f)
      BY <2>1 DEF Admit, Admits
    <3>2. resFrames'[f] = resFrames[f] + Cardinality(Tasks[c])
          /\ resSpend'[f] = resSpend[f] + SumCost(Tasks[c])
      BY <1>3, <1>6, <2>1
    <3> QED BY <1>1, <1>3, <3>1, <3>2, Numbers DEF FramesFit, SpendFits, FramesUsed, SpendUsed
  <2>2. CASE f \notin Above[Caller[c]]
    BY <1>6, <2>2 DEF IInv, CapsHold, FramesUsed, SpendUsed
  <2> QED BY <2>1, <2>2
<1>12. Control'
  BY <1>1, <1>4, <1>5 DEF Control
<1>13. Idle'
  BY <1>1, <1>4, <1>5 DEF Idle
<1>14. Covered'
  <2> SUFFICES ASSUME NEW d \in Calls, step'[d] = "working"
               PROVE  table'[d] = Units(Unlaunched(d))' \/ d \in loose'
    BY DEF Covered
  <2>1. CASE d = c
    BY <1>5, <1>9, <2>1 DEF u, Units
  <2>2. CASE d # c
    BY <1>1, <1>4, <1>5, <2>2 DEF Covered, Units, Unlaunched
  <2> QED BY <2>1, <2>2
<1>15. Restorable'
  BY <1>1, <1>4 DEF Restorable
<1> QED
  BY <1>7, <1>8, <1>10, <1>11, <1>12, <1>13, <1>14, <1>15
     DEF IInv, ReservationsAreExact, Earmarked, Counted

\* What a call that ends gives back.
LEMMA EndBodyIInv ==
  ASSUME IInv, NEW c \in Calls, EndBody(c)
  PROVE  IInv'
<1>1. TypeOK /\ Control /\ Idle /\ Covered /\ up /\ step[c] = "working"
  BY DEF IInv, EndBody
<1>2. /\ UNCHANGED <<called, result, pushed, exited, up, live, touched, loose, restarts>>
      /\ table' = [table EXCEPT ![c] = Nothing] /\ step' = [step EXCEPT ![c] = "ending"]
  BY DEF EndBody, Clear, Goto, journal
<1>3. /\ \A d \in Calls : table'[d] = IF d = c THEN Nothing ELSE table[d]
      /\ \A d \in Calls : step'[d] = IF d = c THEN "ending" ELSE step[d]
  BY <1>1, <1>2 DEF TypeOK
<1>4. /\ resFrames' = [f \in Frames |-> IF f \in Above[Caller[c]]
                         THEN resFrames[f] - table[c].frames ELSE resFrames[f]]
      /\ resSpend' = [f \in Frames |-> IF f \in Above[Caller[c]]
                        THEN resSpend[f] - table[c].spend ELSE resSpend[f]]
  BY DEF EndBody, Clear, Subtract
<1>5. table[c].frames \in Nat /\ table[c].spend \in Nat
  <2>1. table[c] \in Reservations
    BY <1>1 DEF TypeOK
  <2> QED BY <2>1 DEF Reservations
<1>6. /\ Nothing \in Reservations /\ Nothing.frames = 0 /\ Nothing.spend = 0
  BY DEF Nothing, Reservations
<1>7. /\ Counted' /\ table' \in [Calls -> Reservations]
      /\ resFrames' \in [Frames -> Nat] /\ resSpend' \in [Frames -> Nat]
  <2>1. \A f \in Frames :
          /\ resFrames[f] - table[c].frames + Nothing.frames = resFrames[f] - table[c].frames
          /\ resSpend[f] - table[c].spend + Nothing.spend = resSpend[f] - table[c].spend
    BY <1>1, <1>5, <1>6, Numbers
  <2>2. /\ resFrames' = [f \in Frames |-> IF f \in Above[Caller[c]]
                           THEN resFrames[f] - table[c].frames + Nothing.frames
                           ELSE resFrames[f]]
        /\ resSpend' = [f \in Frames |-> IF f \in Above[Caller[c]]
                          THEN resSpend[f] - table[c].spend + Nothing.spend
                          ELSE resSpend[f]]
    BY <1>4, <2>1
  <2> QED BY <1>2, <1>6, <2>2, NewCounters
<1>8. TypeOK'
  BY <1>1, <1>2, <1>7 DEF TypeOK
<1>9. Earmarked'
  BY <1>2, <1>3 DEF IInv, ReservationsAreExact, Earmarked, Pending, Unlaunched, Units
<1>10. CapsHold'
  <2> SUFFICES ASSUME NEW f \in Frames,
                      loose \cap CallsBelow(f) = {}
               PROVE  /\ Cardinality(Descendants(f)) + resFrames'[f] <= MaxFrames
                      /\ SumCost(Descendants(f)) + resSpend'[f] <= MaxSpend
    BY <1>2 DEF CapsHold, FramesUsed, SpendUsed, Descendants, CallsBelow
  <2>1. /\ Cardinality(Descendants(f)) + resFrames[f] <= MaxFrames
        /\ SumCost(Descendants(f)) + resSpend[f] <= MaxSpend
    BY DEF IInv, CapsHold, FramesUsed, SpendUsed
  <2>2. resFrames'[f] <= resFrames[f] /\ resSpend'[f] <= resSpend[f]
        /\ resFrames'[f] \in Nat /\ resSpend'[f] \in Nat
    BY <1>1, <1>4, <1>5, <1>7, Numbers
  <2> QED BY <1>1, <2>1, <2>2, Numbers
<1>11. Control'
  BY <1>1, <1>2, <1>3 DEF Control
<1>12. Idle' /\ Covered'
  BY <1>1, <1>2, <1>3 DEF Idle, Covered, Units, Unlaunched
<1>13. Restorable'
  BY <1>1, <1>2 DEF Restorable
<1> QED
  BY <1>7, <1>8, <1>9, <1>10, <1>11, <1>12, <1>13
     DEF IInv, ReservationsAreExact, Earmarked, Counted

\* A push turns a reserved unit into a descendant; a dispatch without a
\* reservation is known to be one.
LEMMA PushIInv ==
  ASSUME IInv, NEW c \in Calls, NEW g \in Tasks[c], Push(c, g)
  PROVE  IInv'
<1>1. TypeOK /\ Control /\ Idle /\ Covered /\ up /\ step[c] = "working"
      /\ g \in Unlaunched(c) /\ g \notin pushed /\ Counted /\ Earmarked
  BY DEF IInv, Push, Unlaunched, ReservationsAreExact, Counted, Earmarked
<1>2. /\ pushed' = pushed \cup {g} /\ live' = live \cup {g}
      /\ UNCHANGED <<called, result, exited, up, step, touched, loose, restarts>>
  BY DEF Push
<1>3. g \in Frames /\ Cost[g] \in Nat /\ Unlaunched(c) \in SUBSET Frames
  BY Finite DEF Unlaunched
<1>4. Unlaunched(c)' = Unlaunched(c) \ {g}
  BY <1>2 DEF Unlaunched
<1>5. \A d \in Calls \ {c} : Unlaunched(d)' = Unlaunched(d)
  <2>1. \A d \in Calls \ {c} : g \notin Tasks[d]
    BY ConstantsAssumption DEF ConstantsAssumption
  <2> QED BY <1>2, <2>1 DEF Unlaunched
<1>6. Control'
  BY <1>1, <1>2, <1>5 DEF Control, Unlaunched
<1>7. Restorable'
  BY <1>1, <1>2 DEF Restorable
<1>8. /\ Units(Unlaunched(c)).frames # 0
      /\ Units(Unlaunched(c) \ {g}).frames = Units(Unlaunched(c)).frames - 1
      /\ Units(Unlaunched(c) \ {g}).spend = Units(Unlaunched(c)).spend - Cost[g]
      /\ Units(Unlaunched(c)) \in Reservations
      /\ Units(Unlaunched(c) \ {g}) \in Reservations
      /\ Units({g}).frames = 1 /\ Units({g}).spend = Cost[g]
  <2>1. Unlaunched(c) \ {g} \in SUBSET Frames
    BY <1>3
  <2> QED BY <1>1, <1>3, <2>1, UnitsFacts, UnitsWithout
<1>9. ASSUME table'[c] = Units(Unlaunched(c) \ {g}) \/ (table'[c] = Nothing /\ c \in loose),
             \A d \in Calls \ {c} : table'[d] = table[d],
             table[c] = Nothing => table'[c] = Nothing
      PROVE  Earmarked' /\ Covered' /\ Idle'
  <2>1. Earmarked'
    <3> SUFFICES ASSUME NEW d \in Calls, table'[d] # Nothing
                 PROVE  Pending(d)' /\ table'[d] = Units(Unlaunched(d))'
      BY DEF Earmarked
    <3>1. Pending(d)'
      BY <1>1, <1>2, <1>9 DEF Earmarked, Pending
    <3>2. CASE d = c
      BY <1>4, <1>9, <3>1, <3>2 DEF Units
    <3>3. CASE d # c
      BY <1>1, <1>5, <1>9, <3>1, <3>3 DEF Earmarked, Units
    <3> QED BY <3>2, <3>3
  <2>2. Covered'
    <3> SUFFICES ASSUME NEW d \in Calls, step'[d] = "working"
                 PROVE  table'[d] = Units(Unlaunched(d))' \/ d \in loose'
      BY DEF Covered
    <3>1. CASE d = c
      BY <1>2, <1>4, <1>9, <3>1 DEF Units
    <3>2. CASE d # c
      BY <1>1, <1>2, <1>5, <1>9, <3>2 DEF Covered, Units
    <3> QED BY <3>1, <3>2
  <2>3. Idle'
    BY <1>1, <1>2, <1>9 DEF Idle
  <2> QED BY <2>1, <2>2, <2>3
<1>10. CASE table[c].frames = 0
  <2>1. UNCHANGED <<table, resFrames, resSpend>>
    BY <1>10 DEF Push, Consume, reserved
  <2>2. table[c] = Nothing /\ c \in loose
    BY <1>1, <1>8, <1>10 DEF Earmarked, Covered
  <2>3. Earmarked' /\ Covered' /\ Idle'
    BY <1>9, <2>1, <2>2
  <2>4. Counted'
    BY <1>1, <2>1 DEF Counted, CallsBelow
  <2>5. TypeOK'
    BY <1>1, <1>2, <1>3, <2>1 DEF TypeOK
  <2>6. CapsHold'
    <3> SUFFICES ASSUME NEW f \in Frames, loose \cap CallsBelow(f) = {}
                 PROVE  /\ Cardinality(Descendants(f)') + resFrames[f] <= MaxFrames
                        /\ SumCost(Descendants(f)') + resSpend[f] <= MaxSpend
      BY <1>2, <2>1 DEF CapsHold, FramesUsed, SpendUsed, CallsBelow, SumCost, Total
    <3>1. f \notin Above[Caller[c]]
      BY <2>2 DEF CallsBelow
    <3>2. Descendants(f)' = Descendants(f)
      BY <1>1, <1>2, <3>1, PushDescendants
    <3> QED BY <3>2 DEF IInv, CapsHold, FramesUsed, SpendUsed
  <2> QED BY <1>6, <1>7, <2>3, <2>4, <2>5, <2>6
       DEF IInv, ReservationsAreExact, Earmarked, Counted
<1>11. CASE table[c].frames # 0
  <2>1. table[c] = Units(Unlaunched(c))
    BY <1>1, <1>11 DEF Earmarked, Nothing
  <2> DEFINE u == [frames |-> table[c].frames - 1, spend |-> table[c].spend - Cost[g]]
  <2>2. u = Units(Unlaunched(c) \ {g})
    BY <1>8, <2>1 DEF Units
  <2>3. table' = [table EXCEPT ![c] = u]
    BY <1>11 DEF Push, Consume
  <2>4. /\ u \in Reservations /\ u.frames = table[c].frames - 1
        /\ u.spend = table[c].spend - Cost[g]
    BY <1>8, <2>2
  <2>5. /\ resFrames' = [f \in Frames |-> IF f \in Above[Caller[c]]
                           THEN resFrames[f] - 1 ELSE resFrames[f]]
        /\ resSpend' = [f \in Frames |-> IF f \in Above[Caller[c]]
                          THEN resSpend[f] - Cost[g] ELSE resSpend[f]]
    BY <1>8, <1>11 DEF Push, Consume, Subtract
  <2> HIDE DEF u
  <2>6. table[c].frames \in Nat /\ table[c].spend \in Nat
    <3>1. table[c] \in Reservations
      BY <1>1 DEF TypeOK
    <3> QED BY <3>1 DEF Reservations
  <2>7. /\ Counted' /\ table' \in [Calls -> Reservations]
        /\ resFrames' \in [Frames -> Nat] /\ resSpend' \in [Frames -> Nat]
    <3>1. \A f \in Frames :
            /\ resFrames[f] - table[c].frames + u.frames = resFrames[f] - 1
            /\ resSpend[f] - table[c].spend + u.spend = resSpend[f] - Cost[g]
      BY <1>1, <1>3, <2>4, <2>6, Numbers
    <3>2. /\ resFrames' = [f \in Frames |-> IF f \in Above[Caller[c]]
                             THEN resFrames[f] - table[c].frames + u.frames
                             ELSE resFrames[f]]
          /\ resSpend' = [f \in Frames |-> IF f \in Above[Caller[c]]
                            THEN resSpend[f] - table[c].spend + u.spend
                            ELSE resSpend[f]]
      BY <2>5, <3>1
    <3> QED BY <2>3, <2>4, <3>2, NewCounters
  <2>8. TypeOK'
    BY <1>1, <1>2, <1>3, <2>7 DEF TypeOK
  <2>9. Earmarked' /\ Covered' /\ Idle'
    <3>1. \A d \in Calls : table'[d] = IF d = c THEN u ELSE table[d]
      BY <1>1, <2>3 DEF TypeOK
    <3>2. table[c] # Nothing
      BY <1>11 DEF Nothing
    <3> QED BY <1>9, <2>2, <3>1, <3>2
  <2>10. CapsHold'
    <3> SUFFICES ASSUME NEW f \in Frames, loose \cap CallsBelow(f) = {}
                 PROVE  /\ Cardinality(Descendants(f)') + resFrames'[f] <= MaxFrames
                        /\ SumCost(Descendants(f)') + resSpend'[f] <= MaxSpend
      BY <1>2 DEF CapsHold, FramesUsed, SpendUsed, CallsBelow, SumCost, Total
    <3>1. /\ Cardinality(Descendants(f)) + resFrames[f] <= MaxFrames
          /\ SumCost(Descendants(f)) + resSpend[f] <= MaxSpend
      BY DEF IInv, CapsHold, FramesUsed, SpendUsed
    <3>2. CASE f \notin Above[Caller[c]]
      <4>1. Descendants(f)' = Descendants(f)
        BY <1>1, <1>2, <3>2, PushDescendants
      <4> QED BY <2>5, <3>1, <3>2, <4>1
    <3>3. CASE f \in Above[Caller[c]]
      <4>1. /\ Cardinality(Descendants(f)') <= Cardinality(Descendants(f)) + 1
            /\ SumCost(Descendants(f)') <= SumCost(Descendants(f)) + Cost[g]
        BY <1>1, <1>2, PushDescendants
      <4>2. resFrames'[f] = resFrames[f] - 1 /\ resSpend'[f] = resSpend[f] - Cost[g]
        BY <2>5, <3>3
      <4>3. Cardinality(Descendants(f)') \in Nat /\ SumCost(Descendants(f)') \in Nat
        <5>1. Descendants(f)' \in SUBSET Frames
          BY <2>8 DEF Descendants, TypeOK
        <5> QED BY <5>1, UnitsFacts
      <4> QED BY <1>1, <1>3, <3>1, <4>1, <4>2, <4>3, Numbers
    <3> QED BY <3>2, <3>3
  <2> QED BY <1>6, <1>7, <2>7, <2>8, <2>9, <2>10
       DEF IInv, ReservationsAreExact, Earmarked, Counted
<1> QED BY <1>10, <1>11

-----------------------------------------------------------------------------
(* Crash and restart.                                                      *)

\* A crash forgets the reservations; those that were complete can be restored.
LEMMA CrashIInv ==
  ASSUME IInv, Crash
  PROVE  IInv'
<1>1. TypeOK /\ Control /\ up
  BY DEF IInv, Crash
<1>2. /\ ~up' /\ live' = {} /\ touched' = {} /\ step' = [c \in Calls |-> "no"]
      /\ table' = [c \in Calls |-> Nothing]
      /\ resFrames' = [f \in Frames |-> 0] /\ resSpend' = [f \in Frames |-> 0]
      /\ loose' = loose \cup {c \in Calls : Pending(c) /\ table[c] # Units(Unlaunched(c))}
      /\ UNCHANGED <<called, result, pushed, exited, restarts>>
  BY DEF Crash, journal
<1>3. TypeOK'
  <2>1. loose' \subseteq called'
    BY <1>1, <1>2 DEF TypeOK, Pending
  <2>2. Nothing \in Reservations
    BY DEF Nothing, Reservations
  <2>3. /\ table' \in [Calls -> Reservations]
        /\ resFrames' \in [Frames -> Nat] /\ resSpend' \in [Frames -> Nat]
    BY <1>2, <2>2
  <2>4. /\ step' \in [Calls -> {"no", "turned", "refusing", "working", "ending"}]
        /\ up' \in BOOLEAN /\ live' \subseteq pushed' \ exited' /\ touched' \subseteq called'
    BY <1>1, <1>2 DEF Crash
  <2> QED BY <1>1, <1>2, <2>1, <2>3, <2>4 DEF TypeOK
<1>4. Control' /\ Idle' /\ Covered' /\ Earmarked'
  BY <1>1, <1>2 DEF Control, Idle, Covered, Earmarked
<1>5. Counted'
  <2> SUFFICES ASSUME NEW f \in Frames
               PROVE  /\ Total([d \in Calls |-> table'[d].frames], CallsBelow(f)) = 0
                      /\ Total([d \in Calls |-> table'[d].spend], CallsBelow(f)) = 0
    BY <1>2 DEF Counted, CallsBelow
  <2>1. \A d \in CallsBelow(f) : /\ [e \in Calls |-> table'[e].frames][d] = 0
                                 /\ [e \in Calls |-> table'[e].spend][d] = 0
    BY <1>2 DEF CallsBelow, Nothing
  <2> QED BY <2>1, TotalOfZeros
<1>6. ASSUME NEW f \in Frames, loose' \cap CallsBelow(f) = {}
      PROVE  /\ Cardinality(Descendants(f)) + resFrames[f] <= MaxFrames
             /\ SumCost(Descendants(f)) + resSpend[f] <= MaxSpend
  <2>1. loose \cap CallsBelow(f) = {}
    BY <1>2, <1>6
  <2> QED BY <2>1 DEF IInv, CapsHold, FramesUsed, SpendUsed
<1>7. CapsHold'
  <2> SUFFICES ASSUME NEW f \in Frames, loose' \cap CallsBelow(f) = {}
               PROVE  /\ Cardinality(Descendants(f)) + 0 <= MaxFrames
                      /\ SumCost(Descendants(f)) + 0 <= MaxSpend
    BY <1>2 DEF CapsHold, FramesUsed, SpendUsed, Descendants, CallsBelow
  <2>1. /\ Cardinality(Descendants(f)) + resFrames[f] <= MaxFrames
        /\ SumCost(Descendants(f)) + resSpend[f] <= MaxSpend
    BY <1>6
  <2> QED BY <1>1, <2>1, Numbers
<1>8. Restorable'
  <2> SUFFICES ASSUME NEW f \in Frames, loose' \cap CallsBelow(f) = {}
               PROVE  /\ Cardinality(Descendants(f))
                           + Total(RestoredFrames', CallsBelow(f)) <= MaxFrames
                      /\ SumCost(Descendants(f))
                           + Total(RestoredSpend', CallsBelow(f)) <= MaxSpend
    BY <1>2 DEF Restorable, Descendants, CallsBelow, Total
  <2>1. \A d \in Calls : Restored(d)' = Restored(d)
    BY <1>2 DEF Restored, Pending, Unlaunched, Units
  <2>2. \A d \in CallsBelow(f) : Restored(d) = table[d]
    <3> SUFFICES ASSUME NEW d \in CallsBelow(f) PROVE Restored(d) = table[d]
      OBVIOUS
    <3>1. d \in Calls /\ d \notin loose'
      BY DEF CallsBelow
    <3>2. Pending(d) => table[d] = Units(Unlaunched(d))
      BY <1>2, <3>1
    <3>3. ~Pending(d) => table[d] = Nothing
      BY <3>1 DEF IInv, ReservationsAreExact
    <3> QED BY <3>2, <3>3 DEF Restored
  <2>3. CallsBelow(f) \subseteq Calls
    BY DEF CallsBelow
  <2> DEFINE wf == [d \in Calls |-> table[d].frames]
             ws == [d \in Calls |-> table[d].spend]
  <2>4. \A d \in CallsBelow(f) : RestoredFrames'[d] = wf[d] /\ RestoredSpend'[d] = ws[d]
    BY <2>1, <2>2, <2>3 DEF RestoredFrames, RestoredSpend
  <2>5. /\ resFrames[f] = Total(wf, CallsBelow(f))
        /\ resSpend[f] = Total(ws, CallsBelow(f))
    BY DEF IInv, ReservationsAreExact
  <2> HIDE DEF wf, ws
  <2>6. /\ Total(RestoredFrames', CallsBelow(f)) = resFrames[f]
        /\ Total(RestoredSpend', CallsBelow(f)) = resSpend[f]
    BY <2>4, <2>5, TotalDepends
  <2> QED BY <1>6, <2>6
<1> QED BY <1>3, <1>4, <1>5, <1>7, <1>8
     DEF IInv, ReservationsAreExact, Earmarked, Counted

\* A restart restores what the pending dispatches have yet to launch.
LEMMA RestartIInv ==
  ASSUME IInv, Restart
  PROVE  IInv'
<1>1. TypeOK /\ Control /\ Idle /\ Covered /\ Restorable /\ ~up
  BY DEF IInv, Restart
<1>2. /\ up' /\ restarts < MaxRestarts /\ restarts' = restarts + 1
      /\ table' = [c \in Calls |-> Restored(c)]
      /\ resFrames' = [f \in Frames |-> Total(RestoredFrames, CallsBelow(f))]
      /\ resSpend' = [f \in Frames |-> Total(RestoredSpend, CallsBelow(f))]
      /\ UNCHANGED <<called, result, pushed, exited, live, step, touched, loose>>
  BY DEF Restart, journal
<1>3. \A c \in Calls : Restored(c) \in Reservations
  <2>1. \A c \in Calls : Unlaunched(c) \in SUBSET Frames
    BY Finite DEF Unlaunched
  <2>2. Nothing \in Reservations
    BY DEF Nothing, Reservations
  <2> QED BY <2>1, <2>2, UnitsFacts DEF Restored
<1>4. Counted'
  <2>1. \A c \in Calls : table'[c] = Restored(c)
    BY <1>2
  <2>2. /\ [c \in Calls |-> table'[c].frames] = RestoredFrames
        /\ [c \in Calls |-> table'[c].spend] = RestoredSpend
    BY <2>1 DEF RestoredFrames, RestoredSpend
  <2> QED BY <1>2, <2>2 DEF Counted, CallsBelow
<1>5. /\ table' \in [Calls -> Reservations]
      /\ resFrames' \in [Frames -> Nat] /\ resSpend' \in [Frames -> Nat]
  <2>1. \A c \in Calls : RestoredFrames[c] \in Nat /\ RestoredSpend[c] \in Nat
    BY <1>3 DEF RestoredFrames, RestoredSpend, Reservations
  <2>2. \A f \in Frames : /\ Total(RestoredFrames, CallsBelow(f)) \in Nat
                          /\ Total(RestoredSpend, CallsBelow(f)) \in Nat
    <3> SUFFICES ASSUME NEW f \in Frames
                 PROVE  /\ Total(RestoredFrames, CallsBelow(f)) \in Nat
                        /\ Total(RestoredSpend, CallsBelow(f)) \in Nat
      OBVIOUS
    <3>1. IsFiniteSet(CallsBelow(f)) /\ CallsBelow(f) \subseteq Calls
      BY Finite
    <3> QED BY <2>1, <3>1, TotalIsNat
  <2> QED BY <1>2, <1>3, <2>2
<1>6. TypeOK'
  <2>1. restarts' \in 0..MaxRestarts
    BY <1>1, <1>2, ConstantsAssumption DEF TypeOK, ConstantsAssumption
  <2> QED BY <1>1, <1>2, <1>5, <2>1 DEF TypeOK
<1>7. Earmarked'
  BY <1>2 DEF Earmarked, Restored, Pending, Units, Unlaunched
<1>8. CapsHold'
  BY <1>1, <1>2 DEF CapsHold, Restorable, FramesUsed, SpendUsed, Descendants, CallsBelow
<1>9. Control' /\ Restorable'
  BY <1>1, <1>2 DEF Control, Restorable
<1>10. \A c \in Calls : step[c] = "no" /\ c \notin touched
  BY <1>1 DEF Control, TypeOK
<1>11. Idle' /\ Covered'
  BY <1>2, <1>10 DEF Idle, Covered
<1> QED BY <1>4, <1>6, <1>7, <1>8, <1>9, <1>11
     DEF IInv, ReservationsAreExact, Earmarked, Counted

-----------------------------------------------------------------------------
(* The theorems.                                                           *)

\* Initially nothing is reserved.
LEMMA InitIInv == Init => IInv
<1> SUFFICES ASSUME Init PROVE IInv
  OBVIOUS
<1>1. TypeOK
  <2>1. restarts \in 0..MaxRestarts
    BY ConstantsAssumption DEF ConstantsAssumption, Init
  <2>2. Nothing \in Reservations /\ Root \in Frames
    BY ConstantsAssumption DEF Nothing, Reservations, ConstantsAssumption
  <2> QED BY <2>1, <2>2 DEF Init, TypeOK
<1>2. Control /\ Idle /\ Covered /\ Restorable /\ Earmarked
  <2>1. \A c \in Calls : Root \notin Tasks[c]
    BY ConstantsAssumption DEF ConstantsAssumption
  <2> QED BY <2>1 DEF Init, Control, Idle, Covered, Restorable, Earmarked
<1>3. Counted
  <2> SUFFICES ASSUME NEW f \in Frames
               PROVE  /\ Total([d \in Calls |-> table[d].frames], CallsBelow(f)) = 0
                      /\ Total([d \in Calls |-> table[d].spend], CallsBelow(f)) = 0
    BY DEF Counted, Init
  <2>1. \A d \in CallsBelow(f) : /\ [e \in Calls |-> table[e].frames][d] = 0
                                 /\ [e \in Calls |-> table[e].spend][d] = 0
    BY DEF CallsBelow, Nothing, Init
  <2> QED BY <2>1, TotalOfZeros
<1>4. CapsHold
  <2> SUFFICES ASSUME NEW f \in Frames
               PROVE  FramesUsed(f) <= MaxFrames /\ SpendUsed(f) <= MaxSpend
    BY DEF CapsHold
  <2>1. Above[Root] = {Root}
    BY ConstantsAssumption DEF ConstantsAssumption
  <2>2. Descendants(f) = {}
    BY <2>1 DEF Init, Descendants
  <2>3. Cardinality({}) = 0 /\ SumCost({}) = 0
    BY FS_EmptySet, TotalOfZeros DEF SumCost
  <2>4. resFrames[f] = 0 /\ resSpend[f] = 0
    BY DEF Init
  <2> QED BY <1>1, <2>2, <2>3, <2>4, Numbers DEF FramesUsed, SpendUsed
<1> QED BY <1>1, <1>2, <1>3, <1>4 DEF IInv, ReservationsAreExact, Earmarked, Counted

\* Every step keeps the invariant.
LEMMA NextIInv ==
  ASSUME IInv, [Next]_vars
  PROVE  IInv'
<1>1. CASE UNCHANGED vars
  <2>1. /\ UNCHANGED <<called, result, pushed, exited, up, live, step, touched>>
        /\ UNCHANGED <<table, resFrames, resSpend, loose, restarts>>
    BY <1>1 DEF vars, journal, reserved
  <2>2. TypeOK' /\ Control' /\ Idle'
    BY <2>1 DEF IInv, TypeOK, Control, Idle
  <2>3. ReservationsAreExact' /\ Covered'
    BY <2>1 DEF IInv, ReservationsAreExact, Covered, Pending, Units, Unlaunched, CallsBelow
  <2>4. CapsHold'
    BY <2>1 DEF IInv, CapsHold, FramesUsed, SpendUsed, Descendants, CallsBelow
  <2>5. RestoredFrames' = RestoredFrames /\ RestoredSpend' = RestoredSpend
    BY <2>1 DEF RestoredFrames, RestoredSpend, Restored, Pending, Units, Unlaunched
  <2>6. Restorable'
    BY <2>1, <2>5 DEF IInv, Restorable, Descendants, CallsBelow
  <2> QED BY <2>2, <2>3, <2>4, <2>6 DEF IInv
<1>2. CASE Next
  <2>1. ASSUME NEW c \in Calls, Admit(c) PROVE IInv'
    BY <2>1, AdmitIInv
  <2>2. ASSUME NEW c \in Calls, EndBody(c) PROVE IInv'
    BY <2>2, EndBodyIInv
  <2>3. ASSUME NEW c \in Calls, NEW g \in Tasks[c], Push(c, g) PROVE IInv'
    BY <2>3, PushIInv
  <2>4. CASE QuietStep
    BY <2>4, QuietIInv
  <2>5. CASE Crash \/ Restart
    BY <2>5, CrashIInv, RestartIInv
  <2> QED BY <1>2, <2>1, <2>2, <2>3, <2>4, <2>5 DEF Next, QuietStep
<1> QED BY <1>1, <1>2

\* IInv is an inductive invariant of admission.
THEOREM IInvHolds == Spec => []IInv
<1>1. IInv /\ [Next]_vars => IInv'
  BY NextIInv
<1> QED BY <1>1, InitIInv, PTL DEF Spec

\* The journal, the handlers, the reservations and their counters keep their
\* types; in particular no counter goes below zero.
THEOREM TypesHold == Spec => []TypeOK
<1>1. IInv => TypeOK
  BY DEF IInv
<1> QED BY <1>1, IInvHolds, PTL

\* The incremental counters of _dispatch are the sums of the reservations
\* below each frame, and a reservation is that of the tasks of a pending call
\* that are not launched yet, whichever callers interleave.
THEOREM ReservationsAreExactHolds == Spec => []ReservationsAreExact
<1>1. IInv => ReservationsAreExact
  BY DEF IInv
<1> QED BY <1>1, IInvHolds, PTL

\* No subtree grows over its caps, with all admissions in flight counted, as
\* long as no call in it was replayed without its reservation.
THEOREM CapsHoldHolds == Spec => []CapsHold
<1>1. IInv => CapsHold
  BY DEF IInv
<1> QED BY <1>1, IInvHolds, PTL
=============================================================================
