----------------------------- MODULE ShimProofs -----------------------------
(***************************************************************************)
(* The two ends number the calls of an agent on their own, and agree: for  *)
(* any number of concurrent calls, attempts and lost requests, and any     *)
(* contents, nothing is paid for twice and no call is rejected without a   *)
(* reason.  The invariant relates the indexes the extension handed out to  *)
(* the journal: who owns each of them, and that neither side skips one.    *)
(***************************************************************************)
EXTENDS Shim, FiniteSetTheorems, WellFoundedInduction, TLAPS

-----------------------------------------------------------------------------
(* The invariant. *)

Durable(i) == called[i] # None \/ refused[i] # None

\* A call that has not begun has nothing, and one that was sent has an index and a
\* content; a call may be over without an index, when the frontier was sealed.
Begun ==
  \A v \in Calls :
    /\ st[v] = "idle" => idx[v] = None /\ con[v] = None
    /\ st[v] \in {"sending", "waiting", "backoff"} => idx[v] # None
    /\ idx[v] # None => con[v] # None

\* The indexes an attempt hands out are bounded by the calls it and the attempts
\* before it made.
Budgeted ==
  next <= (attempt - 1) * Cardinality(Calls) + Cardinality({v \in Calls : idx[v] # None})

\* The extension is never behind the engine, and no index that it handed out since its
\* launch is skipped: it is durable, or belongs to a call of this attempt.
Numbered ==
  /\ first <= next
  /\ \A i \in Indexes : Durable(i) => i < next
  /\ \A v \in Calls : idx[v] # None => idx[v] < next
  /\ \A i \in Indexes : first <= i /\ i < next => Durable(i) \/ \E v \in Calls : idx[v] = i

\* The engine's own numbers have no gap since the launch (a join that reconciles a
\* rejected request leaves gaps before it), and a call is not refused and called.
Dense ==
  /\ first = 0 \/ \E k \in Indexes : k + 1 = first /\ Durable(k)
  /\ \A i, j \in Indexes : Durable(i) /\ first <= j /\ j < i => Durable(j)
  /\ \A i \in Indexes : called[i] = None \/ refused[i] = None

\* What may be claimed was called with that content, and who claimed is an agent's
\* call of this attempt.
Replayed ==
  /\ \A r \in replay : called[r.index] = r.content
  /\ \A i \in claimed : /\ \E r \in replay : r.index = i
                        /\ \E v \in Calls : idx[v] = i

\* A call that claimed nothing has an index of this launch, beyond all that could be
\* claimed, and left nothing of its content to claim.
Unclaimed ==
  \A v \in Calls : idx[v] # None /\ idx[v] \notin claimed =>
   /\ first <= idx[v]
   /\ \A r \in replay :
      /\ r.index < idx[v]
      /\ r.content = con[v] /\ Encodes(con[v]) => r.index \in claimed

\* Both ends mean one call by one index.
Agreed ==
  \A v \in Calls : idx[v] # None =>
    called[idx[v]] \in {None, con[v]} /\ refused[idx[v]] \in {None, con[v]}

\* Only calls of this attempt are under way.
Owned ==
  \A q \in queue \cup tracked \cup running :
    \E v \in Calls : idx[v] = q.index /\ con[v] = q.content

\* What is durable was so before this attempt, or is a call of it.
Ours ==
  \A i \in Indexes : called[i] # None =>
    (\E r \in replay : r.index = i) \/ \E v \in Calls : idx[v] = i

Counted ==
  \A c \in Contents : Cardinality({v \in Calls : con[v] = c}) <= most[c]

IInv ==
  /\ TypeOK /\ PaidOnce /\ Begun /\ Budgeted /\ Numbered /\ Dense /\ Replayed
  /\ Unclaimed /\ Agreed /\ Owned /\ Ours /\ Counted

-----------------------------------------------------------------------------
(* Constants, finite sets and the two bounds the code computes. *)

LEMMA ConstantFacts ==
  /\ Cardinality(Calls) \in Nat /\ IsFiniteSet(Calls)
  /\ MaxAttempts \in Nat /\ MaxAttempts > 0 /\ MaxLosses \in Nat
  /\ MaxAttempts * Cardinality(Calls) \in Nat
  /\ Indexes = 0 .. (MaxAttempts * Cardinality(Calls))
  /\ Indexes \subseteq Nat /\ None \notin Indexes /\ None \notin Contents
<1>1. Cardinality(Calls) \in Nat /\ IsFiniteSet(Calls)
  BY ConstantsAssumption, FS_CardinalityType
<1>2. MaxAttempts * Cardinality(Calls) \in Nat
  BY <1>1, ConstantsAssumption
<1>3. Indexes \subseteq Nat
  BY <1>2 DEF Indexes
<1> QED BY <1>1, <1>2, <1>3, ConstantsAssumption DEF Indexes

\* A set whose members are all images of members of another is no larger.
LEMMA ImageBound ==
  ASSUME NEW W, IsFiniteSet(W), NEW f, NEW D, \A d \in D : \E w \in W : f[w] = d
  PROVE  Cardinality(D) \in Nat /\ Cardinality(W) \in Nat
         /\ Cardinality(D) <= Cardinality(W)
<1> DEFINE T == {f[w] : w \in W}
           g == [w \in W |-> f[w]]
<1>1. g \in Surjection(W, T)
  BY DEF Surjection
<1>2. IsFiniteSet(T) /\ Cardinality(T) <= Cardinality(W)
  <2> HIDE DEF g, T
  <2> QED BY <1>1, FS_Surjection
<1>3. D \in SUBSET T
  OBVIOUS
<1>4. IsFiniteSet(D) /\ Cardinality(D) <= Cardinality(T)
  <2> HIDE DEF T
  <2> QED BY <1>2, <1>3, FS_Subset
<1>5. Cardinality(D) \in Nat /\ Cardinality(T) \in Nat /\ Cardinality(W) \in Nat
  BY <1>2, <1>4, FS_CardinalityType
<1> QED BY <1>2, <1>4, <1>5

LEMMA LeastElement ==
  ASSUME NEW S \in SUBSET Nat, S # {}
  PROVE  \E m \in S : \A n \in S : m <= n
<1> DEFINE T == {0 .. n : n \in S}
<1>1. T # {} /\ T \subseteq FiniteSubsetsOf(Nat)
  <2>1. T # {}
    OBVIOUS
  <2>2. \A n \in S : IsFiniteSet(0 .. n) /\ (0 .. n) \subseteq Nat
    BY FS_Interval
  <2> QED BY <2>1, <2>2 DEF FiniteSubsetsOf
<1>2. PICK X \in T : \A Y \in T : <<Y, X>> \notin StrictSubsetOrdering(Nat)
  <2>1. IsWellFoundedOn(StrictSubsetOrdering(Nat), FiniteSubsetsOf(Nat))
    BY FS_StrictSubsetOrderingWellFounded
  <2> HIDE DEF T
  <2> QED BY <1>1, <2>1, WFMin, Zenon
<1>3. PICK m \in S : X = 0 .. m
  OBVIOUS
<1>4. \A n \in S : m <= n
  <2> SUFFICES ASSUME NEW n \in S, n < m PROVE FALSE
    OBVIOUS
  <2>1. 0 .. n \in T /\ (0 .. n) \subseteq (0 .. m) /\ m \in 0 .. m /\ m \notin 0 .. n
    OBVIOUS
  <2>2. <<0 .. n, X>> \in StrictSubsetOrdering(Nat)
    BY <2>1, <1>3 DEF StrictSubsetOrdering
  <2> QED BY <2>1, <2>2, <1>2
<1> QED BY <1>4

\* A claim takes an index that may be claimed.
LEMMA ClaimedIndex ==
  ASSUME TypeOK, NEW c \in Contents, Claimable(c) # {}
  PROVE  Min(Claimable(c)) \in Claimable(c)
<1>1. Claimable(c) \in SUBSET Nat
  BY ConstantFacts DEF TypeOK, Claimable, Requests
<1>2. \E m \in Claimable(c) : \A n \in Claimable(c) : m <= n
  BY <1>1, LeastElement
<1> QED BY <1>2 DEF Min

\* One more than the last of some indexes.
LEMMA OneMore ==
  ASSUME NEW D \in SUBSET Indexes, NEW m, m = Max({-1} \cup D) + 1
  PROVE  /\ m \in Nat
         /\ \A i \in D : i < m
         /\ m # 0 => m - 1 \in D
<1> DEFINE S == {-1} \cup D
           U == {n \in Nat : \A i \in D : i < n}
<1>1. D \subseteq Indexes /\ Indexes \subseteq Nat
  BY ConstantFacts
<1>2. U \in SUBSET Nat /\ U # {}
  <2>1. MaxAttempts * Cardinality(Calls) + 1 \in U
    BY ConstantFacts
  <2> QED BY <2>1
<1>3. PICK n \in U : \A k \in U : n <= k
  <2> HIDE DEF U
  <2> QED BY <1>2, LeastElement
<1>4. n \in Nat /\ \A i \in D : i < n
  BY <1>3
<1>5. n # 0 => n - 1 \in D
  <2> SUFFICES ASSUME n # 0, n - 1 \notin D PROVE FALSE
    OBVIOUS
  <2>1. n - 1 \in Nat
    BY <1>4
  <2>2. \A i \in D : i < n - 1
    BY <1>1, <1>4, <2>1
  <2>3. n - 1 \in U
    BY <2>1, <2>2
  <2> QED BY <2>3, <1>3, <1>4
<1>6. n - 1 \in S /\ \A y \in S : n - 1 >= y
  BY <1>1, <1>4, <1>5
<1>7. \A x \in S : (\A y \in S : x >= y) => x = n - 1
  BY <1>1, <1>4, <1>6
<1>8. Max(S) = n - 1
  <2> HIDE DEF S
  <2> QED BY <1>6, <1>7 DEF Max
<1>9. m = n
  BY <1>8, <1>4
<1> QED BY <1>4, <1>5, <1>9

\* The engine's next index is the one after its last.
LEMMA NextIndexFacts ==
  /\ NextIndex \in Nat
  /\ \A i \in Indexes : Durable(i) => i < NextIndex
  /\ NextIndex # 0 => NextIndex - 1 \in Indexes /\ Durable(NextIndex - 1)
<1> DEFINE D == {i \in Indexes : Durable(i)}
<1>1. NextIndex = Max({-1} \cup D) + 1
  BY DEF NextIndex, Durable
<1>2. /\ NextIndex \in Nat /\ \A i \in D : i < NextIndex
      /\ NextIndex # 0 => NextIndex - 1 \in D
  <2>1. D \in SUBSET Indexes
    OBVIOUS
  <2> HIDE DEF D
  <2> QED BY <1>1, <2>1, OneMore
<1> QED BY <1>2

\* Without gaps since the launch, what is below it is durable and nothing else is.
LEMMA DenseFacts ==
  ASSUME TypeOK, Dense
  PROVE  /\ first <= NextIndex
         /\ \A i \in Indexes : first <= i => (i < NextIndex <=> Durable(i))
<1>1. NextIndex \in Nat /\ Indexes \subseteq Nat /\ first \in Nat
  BY NextIndexFacts, ConstantFacts DEF TypeOK
<1>0. first <= NextIndex
  BY <1>1, NextIndexFacts DEF Dense
<1> SUFFICES ASSUME NEW i \in Indexes, first <= i, i < NextIndex PROVE Durable(i)
  BY <1>0, NextIndexFacts
<1>2. NextIndex - 1 \in Indexes /\ Durable(NextIndex - 1)
  BY <1>1, NextIndexFacts
<1>3. i = NextIndex - 1 \/ i < NextIndex - 1
  BY <1>1
<1> QED BY <1>2, <1>3 DEF Dense

-----------------------------------------------------------------------------
(* The invariant holds at first, and over the steps that number nothing and make *)
(* nothing durable. *)

LEMMA InitInvariant == Init => IInv
<1> SUFFICES ASSUME Init PROVE IInv
  OBVIOUS
<1>1. TypeOK
  <2>1. /\ called \in [Indexes -> Contents \cup {None}] /\ completed \subseteq Indexes
        /\ refused \in [Indexes -> Contents \cup {None}]
        /\ queue \subseteq Requests /\ tracked \subseteq Requests
        /\ running \subseteq Requests
        /\ replay \subseteq Requests /\ claimed \subseteq Indexes /\ sealed \in BOOLEAN
    BY DEF Init
  <2>2. /\ st \in [Calls -> {"idle", "sending", "waiting", "backoff", "over"}]
        /\ idx \in [Calls -> Indexes \cup {None}] /\ con \in [Calls -> Contents \cup {None}]
        /\ heard \in [Calls -> {None, "result", "rejected", "invalid", "fault", "aborted"}]
        /\ most \in [Contents -> Nat]
    BY DEF Init
  <2>3. attempt \in 1..MaxAttempts /\ losses \in 0..MaxLosses
    BY ConstantsAssumption DEF Init
  <2>4. first \in Indexes /\ next \in Indexes
    BY ConstantFacts DEF Init
  <2> QED BY <2>1, <2>2, <2>3, <2>4 DEF TypeOK
<1>2. \A c \in Contents : {i \in Indexes : called[i] = c} = {}
                          /\ {v \in Calls : con[v] = c} = {}
  BY ConstantsAssumption DEF Init
<1>3. \A c \in Contents : Cardinality({i \in Indexes : called[i] = c}) <= most[c]
                          /\ Cardinality({v \in Calls : con[v] = c}) <= most[c]
  <2>1. \A c \in Contents : most[c] = 0
    BY DEF Init
  <2> QED BY <1>2, <2>1, FS_EmptySet
<1>4. PaidOnce /\ Counted
  <2>1. \A v \in Calls : idx[v] = None
    BY DEF Init
  <2>2. PaidOnce
    BY <1>3, <2>1 DEF PaidOnce
  <2>3. Counted
    BY <1>3 DEF Counted
  <2> QED BY <2>2, <2>3
<1>5. Budgeted
  <2>1. {v \in Calls : idx[v] # None} = {}
    BY DEF Init
  <2>2. (attempt - 1) * Cardinality(Calls) = 0
    BY ConstantFacts DEF Init
  <2>3. Cardinality({v \in Calls : idx[v] # None}) = 0 /\ next = 0
    BY <2>1, FS_EmptySet DEF Init
  <2> QED BY <2>2, <2>3 DEF Budgeted
<1>6. \A i \in Indexes : ~Durable(i) /\ ~(i < next)
  BY ConstantFacts DEF Init, Durable
<1>7. Numbered /\ Dense
  BY <1>6 DEF Init, Numbered, Dense
<1>8. Begun /\ Replayed /\ Unclaimed /\ Agreed /\ Owned /\ Ours
  BY DEF Init, Begun, Replayed, Unclaimed, Agreed, Owned, Ours
<1> QED BY <1>1, <1>4, <1>5, <1>7, <1>8 DEF IInv

LEMMA SteadyStep ==
  ASSUME IInv, TypeOK',
         UNCHANGED <<called, refused, attempt, first, next, replay, claimed, idx, con, most>>,
         \A v \in Calls : st'[v] = "idle" => st[v] = "idle",
         \A v \in Calls : st'[v] \in {"sending", "waiting", "backoff"} =>
                            st[v] \in {"sending", "waiting", "backoff"},
         \A q \in queue' \cup tracked' \cup running' :
                                         \/ q \in queue \cup tracked \cup running
                                         \/ \E v \in Calls : q = Request(idx[v], con[v])
  PROVE  IInv'
<1>1. PaidOnce' /\ Counted' /\ Budgeted'
  BY DEF IInv, PaidOnce, Counted, Budgeted
<1>2. Begun'
  BY DEF IInv, Begun
<1>3. Numbered' /\ Dense'
  BY DEF IInv, Numbered, Dense, Durable
<1>4. Replayed' /\ Unclaimed' /\ Agreed' /\ Ours'
  BY DEF IInv, Replayed, Unclaimed, Agreed, Ours, Encodes
<1>5. Owned'
  BY DEF IInv, Owned, Request
<1> QED BY <1>1, <1>2, <1>3, <1>4, <1>5 DEF IInv

\* What answering does to the calls.
LEMMA AnswerFacts ==
  ASSUME TypeOK, NEW q, NEW what \in {"result", "rejected", "invalid", "fault"},
         Answer(q, what)
  PROVE  /\ st' \in [Calls -> {"idle", "sending", "waiting", "backoff", "over"}]
         /\ heard' \in [Calls -> {None, "result", "rejected", "invalid", "fault", "aborted"}]
         /\ idx' = idx /\ con' = con
         /\ \A v \in Calls : st'[v] = st[v] \/ st'[v] = "over"
BY DEF TypeOK, Answer

LEMMA ExtensionSteps ==
  ASSUME IInv, NEW v \in Calls, Send(v) \/ Lose(v) \/ Retry(v) \/ Abort(v)
  PROVE  IInv'
<1>1. CASE Send(v)
  <2>1. Request(idx[v], con[v]) \in Requests
    <3>1. idx[v] \in Indexes /\ con[v] \in Contents
      BY <1>1 DEF IInv, TypeOK, Begun, Send
    <3> QED BY <3>1 DEF Request, Requests
  <2>2. TypeOK'
    BY <1>1, <2>1 DEF IInv, TypeOK, Send, journal, extension
  <2>3. st' = [st EXCEPT ![v] = "waiting"] /\ st[v] = "sending"
        /\ queue' = queue \cup {Request(idx[v], con[v])} /\ running' = running
        /\ \/ tracked' = tracked
           \/ tracked' = tracked \cup {Request(idx[v], con[v])}
    BY <1>1 DEF Send
  <2>4. st \in [Calls -> {"idle", "sending", "waiting", "backoff", "over"}]
    BY DEF IInv, TypeOK
  <2>5. UNCHANGED <<called, refused, attempt, first, next, replay, claimed, idx, con, most>>
    BY <1>1 DEF Send, journal, extension
  <2> QED BY <2>2, <2>3, <2>4, <2>5, SteadyStep
<1>2. CASE Lose(v)
  <2>1. TypeOK'
    <3>1. losses' \in 0..MaxLosses
      BY <1>2, ConstantsAssumption DEF IInv, TypeOK, Lose
    <3> QED BY <1>2, <3>1 DEF IInv, TypeOK, Lose, engine, journal, extension
  <2>2. st' = [st EXCEPT ![v] = "backoff"] /\ st[v] \in {"sending", "waiting"}
    BY <1>2 DEF Lose
  <2>3. st \in [Calls -> {"idle", "sending", "waiting", "backoff", "over"}]
    BY DEF IInv, TypeOK
  <2> QED BY <1>2, <2>1, <2>2, <2>3, SteadyStep DEF Lose, engine, journal, extension
<1>3. CASE Retry(v)
  <2>1. TypeOK'
    BY <1>3 DEF IInv, TypeOK, Retry, engine, journal, extension
  <2>2. st' = [st EXCEPT ![v] = "sending"] /\ st[v] = "backoff"
    BY <1>3 DEF Retry
  <2>3. st \in [Calls -> {"idle", "sending", "waiting", "backoff", "over"}]
    BY DEF IInv, TypeOK
  <2> QED BY <1>3, <2>1, <2>2, <2>3, SteadyStep DEF Retry, engine, journal, extension
<1>4. CASE Abort(v)
  <2>1. TypeOK'
    BY <1>4 DEF IInv, TypeOK, Abort, engine, journal
  <2>2. st' = [st EXCEPT ![v] = "over"]
    BY <1>4 DEF Abort
  <2>3. st \in [Calls -> {"idle", "sending", "waiting", "backoff", "over"}]
    BY DEF IInv, TypeOK
  <2> QED BY <1>4, <2>1, <2>2, <2>3, SteadyStep DEF Abort, engine, journal
<1> QED BY <1>1, <1>2, <1>3, <1>4

LEMMA AnswerSteps ==
  ASSUME IInv, NEW q \in queue \cup running, Reply(q) \/ Return(q) \/ Fault(q)
  PROVE  IInv'
<1>1. PICK what \in {"result", "rejected", "invalid", "fault"} : Answer(q, what)
  BY DEF Reply, Return, Fault
<1>2. /\ st' \in [Calls -> {"idle", "sending", "waiting", "backoff", "over"}]
      /\ heard' \in [Calls -> {None, "result", "rejected", "invalid", "fault", "aborted"}]
      /\ idx' = idx /\ con' = con
      /\ \A v \in Calls : st'[v] = st[v] \/ st'[v] = "over"
  BY <1>1, AnswerFacts DEF IInv
<1>3. /\ UNCHANGED <<called, refused, extension, losses, most>>
      /\ queue' \subseteq queue /\ running' \subseteq running /\ tracked' = tracked
  BY DEF Reply, Return, Fault, journal
<1>4. completed' \subseteq Indexes
  <2>1. q.index \in Indexes
    BY DEF IInv, TypeOK, Requests
  <2>2. completed' = completed \/ completed' = completed \cup {q.index}
    BY DEF Reply, Return, Fault, journal
  <2> QED BY <2>1, <2>2 DEF IInv, TypeOK
<1>5. TypeOK'
  BY <1>2, <1>3, <1>4 DEF IInv, TypeOK, extension
<1> QED BY <1>2, <1>3, <1>5, SteadyStep DEF extension

-----------------------------------------------------------------------------
(* The steps that make a call durable.  Only Lead pays: the indexes called with its *)
(* content are then indexes of calls of this attempt with that content, because *)
(* whoever did not claim left nothing to claim. *)

\* A free request that is new to the journal has the engine's next index, belongs to
\* a call, and is below the extension's next index.
LEMMA NewRequest ==
  ASSUME IInv, NEW q \in queue, Free(q), ~Pending(q.index)
  PROVE  /\ q.index \in Indexes /\ q.content \in Contents
         /\ ~Durable(q.index) /\ q.index = NextIndex /\ q.index < next
         /\ \E v \in Calls : idx[v] = q.index /\ con[v] = q.content
<1>1. q.index \in Indexes /\ q.content \in Contents
  BY DEF IInv, TypeOK, Requests
<1>2. q.index = NextIndex
  BY DEF Free, MayLead
<1>3. ~Durable(q.index)
  BY DEF Free, Known, Pending, Durable
<1>4. PICK v \in Calls : idx[v] = q.index /\ con[v] = q.content
  BY DEF IInv, Owned
<1>5. q.index < next
  BY <1>1, <1>4, ConstantFacts DEF IInv, Numbered
<1> QED BY <1>1, <1>2, <1>3, <1>4, <1>5

\* What was called with the content of a call that claimed nothing belongs to calls of
\* this attempt with that content.
LEMMA AskedAgain ==
  ASSUME IInv, NEW v \in Calls, idx[v] # None, idx[v] \notin claimed,
         con[v] \in Contents \ Omitting,
         NEW d \in Indexes, called[d] = con[v]
  PROVE  \E w \in Calls : con[w] = con[v] /\ idx[w] = d
<1>1. None \notin Contents /\ None \notin Indexes
  BY ConstantFacts
<1>2. \E w \in Calls : idx[w] = d
  <2>1. CASE \E r \in replay : r.index = d
    <3>1. PICK r \in replay : r.index = d
      BY <2>1
    <3>2. r.content = con[v] /\ Encodes(con[v])
      BY <3>1 DEF IInv, Replayed, Encodes
    <3>3. d \in claimed
      BY <3>1, <3>2 DEF IInv, Unclaimed
    <3> QED BY <3>3 DEF IInv, Replayed
  <2>2. CASE ~ \E r \in replay : r.index = d
    BY <1>1, <2>2 DEF IInv, Ours
  <2> QED BY <2>1, <2>2
<1>3. PICK w \in Calls : idx[w] = d
  BY <1>2
<1>4. con[w] = con[v]
  BY <1>1, <1>3 DEF IInv, Agreed
<1> QED BY <1>3, <1>4

\* So many are paid for.
LEMMA PaidFor ==
  ASSUME IInv, NEW c \in Contents, NEW D,
         \A d \in D : \E w \in Calls : con[w] = c /\ idx[w] = d
  PROVE  Cardinality(D) <= most[c]
<1> DEFINE W == {w \in Calls : con[w] = c}
<1>1. IsFiniteSet(W) /\ \A d \in D : \E w \in W : idx[w] = d
  BY ConstantFacts, FS_Subset
<1>2. Cardinality(D) \in Nat /\ Cardinality(W) \in Nat /\ Cardinality(D) <= Cardinality(W)
  <2> HIDE DEF W
  <2> QED BY <1>1, ImageBound
<1>3. Cardinality(W) <= most[c] /\ most[c] \in Nat
  BY DEF IInv, Counted, TypeOK
<1> QED BY <1>2, <1>3

LEMMA LeadStep ==
  ASSUME IInv, NEW q \in queue, Lead(q)
  PROVE  IInv'
<1>1. Free(q) /\ q.index \in Indexes /\ q.content \in Contents
  BY DEF Lead, IInv, TypeOK, Requests
<1>2. /\ called' = [called EXCEPT ![q.index] = q.content]
      /\ running' = running \cup {q} /\ queue' = queue \ {q}
      /\ UNCHANGED <<completed, refused, tracked, attempt, first, next, replay, claimed,
                     sealed, st, idx, con, heard, losses, most>>
  BY DEF Lead, Free, extension, agent
<1>3. TypeOK'
  <2>1. called' \in [Indexes -> Contents \cup {None}] /\ running' \subseteq Requests
    BY <1>1, <1>2 DEF IInv, TypeOK
  <2> QED BY <1>2, <2>1 DEF IInv, TypeOK
<1>4. \A i \in Indexes : called'[i] = IF i = q.index THEN q.content ELSE called[i]
  BY <1>1, <1>2 DEF IInv, TypeOK
<1>5. \A p \in queue' \cup tracked' \cup running' : p \in queue \cup tracked \cup running
  BY <1>2
<1>6. CASE Pending(q.index)
  <2>1. called[q.index] = q.content
    BY <1>1, <1>6 DEF Free, Conflicts, Pending
  <2>2. called' = called
    BY <1>2, <2>1, <1>1 DEF IInv, TypeOK
  <2> QED BY <1>2, <1>3, <1>5, <2>2, SteadyStep
<1>7. CASE ~Pending(q.index)
  <2>1. /\ ~Durable(q.index) /\ q.index = NextIndex /\ q.index < next
    BY <1>1, <1>7, NewRequest
  <2>2. PICK v \in Calls : idx[v] = q.index /\ con[v] = q.content
    BY <1>1, <1>7, NewRequest
  <2>3. called[q.index] = None /\ refused[q.index] = None /\ None \notin Contents
        /\ None \notin Indexes
    BY <2>1, ConstantFacts DEF Durable
  <2>4. \A i \in Indexes : Durable(i)' <=> Durable(i) \/ i = q.index
    BY <1>1, <1>2, <1>4, <2>3 DEF Durable
  <2>5. Numbered'
    BY <1>2, <2>1, <2>4 DEF IInv, Numbered
  <2>6. Dense'
    <3>1. \A i \in Indexes : first <= i /\ i < NextIndex => Durable(i)
      BY DenseFacts DEF IInv
    <3>2. \A i, j \in Indexes : Durable(i)' /\ first <= j /\ j < i => Durable(j)'
      BY <2>1, <2>4, <3>1 DEF IInv, Dense
    <3>3. \A i \in Indexes : called'[i] = None \/ refused'[i] = None
      BY <1>2, <1>4, <2>3 DEF IInv, Dense
    <3>4. first = 0 \/ \E k \in Indexes : k + 1 = first /\ Durable(k)'
      BY <2>4 DEF IInv, Dense
    <3>5. first' = first
      BY <1>2
    <3> QED BY <3>2, <3>3, <3>4, <3>5 DEF Dense
  <2>7. \A r \in replay : r.index \in Indexes /\ r.index # q.index
    BY <2>3 DEF IInv, TypeOK, Replayed, Requests
  <2>8. Replayed'
    BY <1>2, <1>4, <2>7 DEF IInv, Replayed
  <2>9. Begun' /\ Unclaimed' /\ Budgeted' /\ Counted'
    BY <1>2 DEF IInv, Begun, Unclaimed, Budgeted, Counted, Encodes
  <2>10. \A w \in Calls : idx[w] = q.index => w = v
    BY <2>2, <2>3, <1>1 DEF IInv, PaidOnce
  <2>11. Agreed'
    <3> SUFFICES ASSUME NEW w \in Calls, idx[w] # None
                 PROVE  called'[idx[w]] \in {None, con[w]} /\ refused[idx[w]] \in {None, con[w]}
      BY <1>2 DEF Agreed
    <3>1. idx[w] \in Indexes
      BY DEF IInv, TypeOK
    <3> QED BY <1>4, <2>2, <2>10, <3>1 DEF IInv, Agreed
  <2>12. Owned'
    BY <1>2, <1>5 DEF IInv, Owned
  <2>13. Ours'
    BY <1>2, <1>4, <2>2 DEF IInv, Ours
  <2>14. idx[v] \notin claimed
    BY <2>2, <2>7 DEF IInv, Replayed
  <2>15. ASSUME NEW c \in Contents \ Omitting
         PROVE  Cardinality({i \in Indexes : called'[i] = c}) <= most[c]
    <3>1. CASE c # q.content
      <4>1. {i \in Indexes : called'[i] = c} = {i \in Indexes : called[i] = c}
        BY <1>4, <2>3, <3>1
      <4> QED BY <4>1 DEF IInv, PaidOnce
    <3>2. CASE c = q.content
      <4> DEFINE D == {i \in Indexes : called'[i] = c}
      <4>1. ASSUME NEW d \in D PROVE \E w \in Calls : con[w] = c /\ idx[w] = d
        <5>1. CASE d = q.index
          BY <5>1, <2>2, <3>2
        <5>2. CASE d # q.index
          <6>1. called[d] = con[v] /\ d \in Indexes /\ con[v] = c
            BY <1>4, <2>2, <3>2, <5>2
          <6> QED BY <1>1, <2>2, <2>3, <2>14, <6>1, AskedAgain
        <5> QED BY <5>1, <5>2
      <4> HIDE DEF D
      <4>2. Cardinality(D) <= most[c]
        BY <4>1, PaidFor
      <4> QED BY <4>2 DEF D
    <3> QED BY <3>1, <3>2
  <2>16. PaidOnce'
    BY <1>2, <2>15 DEF IInv, PaidOnce
  <2> QED BY <1>3, <2>5, <2>6, <2>8, <2>9, <2>11, <2>12, <2>13, <2>16 DEF IInv
<1> QED BY <1>6, <1>7

LEMMA RefuseStep ==
  ASSUME IInv, NEW q \in queue, Refuse(q)
  PROVE  IInv'
<1>1. /\ Free(q) /\ ~Pending(q.index) /\ Answer(q, "result")
      /\ refused' = [refused EXCEPT ![q.index] = q.content]
      /\ queue' = queue \ {q}
      /\ UNCHANGED <<called, completed, tracked, running, attempt, first, next, replay,
                     claimed, sealed, losses, most>>
  BY DEF Refuse, Free, extension
<1>2. /\ q.index \in Indexes /\ q.content \in Contents
      /\ ~Durable(q.index) /\ q.index = NextIndex /\ q.index < next
  BY <1>1, NewRequest
<1>3. PICK v \in Calls : idx[v] = q.index /\ con[v] = q.content
  BY <1>1, NewRequest
<1>4. /\ st' \in [Calls -> {"idle", "sending", "waiting", "backoff", "over"}]
      /\ heard' \in [Calls -> {None, "result", "rejected", "invalid", "fault", "aborted"}]
      /\ idx' = idx /\ con' = con
      /\ \A w \in Calls : st'[w] = st[w] \/ st'[w] = "over"
  BY <1>1, AnswerFacts DEF IInv
<1>5. \A i \in Indexes : refused'[i] = IF i = q.index THEN q.content ELSE refused[i]
  BY <1>1, <1>2 DEF IInv, TypeOK
<1>6. called[q.index] = None /\ None \notin Contents /\ None \notin Indexes
  BY <1>2, ConstantFacts DEF Durable
<1>7. TypeOK'
  <2>1. refused' \in [Indexes -> Contents \cup {None}]
    BY <1>1, <1>2 DEF IInv, TypeOK
  <2> QED BY <1>1, <1>4, <2>1 DEF IInv, TypeOK
<1>8. \A i \in Indexes : Durable(i)' <=> Durable(i) \/ i = q.index
  BY <1>1, <1>2, <1>5, <1>6 DEF Durable
<1>9. Numbered'
  BY <1>1, <1>2, <1>4, <1>8 DEF IInv, Numbered
<1>10. Dense'
  <2>1. \A i \in Indexes : first <= i /\ i < NextIndex => Durable(i)
    BY DenseFacts DEF IInv
  <2>2. \A i, j \in Indexes : Durable(i)' /\ first <= j /\ j < i => Durable(j)'
    BY <1>2, <1>8, <2>1 DEF IInv, Dense
  <2>3. \A i \in Indexes : called'[i] = None \/ refused'[i] = None
    BY <1>1, <1>5, <1>6 DEF IInv, Dense
  <2>4. first = 0 \/ \E k \in Indexes : k + 1 = first /\ Durable(k)'
    BY <1>8 DEF IInv, Dense
  <2>5. first' = first
    BY <1>1
  <2> QED BY <2>2, <2>3, <2>4, <2>5 DEF Dense
<1>11. \A w \in Calls : idx[w] = q.index => w = v
  BY <1>3, <1>6, <1>2 DEF IInv, PaidOnce
<1>12. Agreed'
  <2> SUFFICES ASSUME NEW w \in Calls, idx[w] # None
               PROVE  called[idx[w]] \in {None, con[w]} /\ refused'[idx[w]] \in {None, con[w]}
    BY <1>1, <1>4 DEF Agreed
  <2>1. idx[w] \in Indexes
    BY DEF IInv, TypeOK
  <2> QED BY <1>3, <1>5, <1>11, <2>1 DEF IInv, Agreed
<1>13. Replayed' /\ Unclaimed' /\ Budgeted' /\ Counted' /\ PaidOnce' /\ Ours'
  BY <1>1, <1>4
     DEF IInv, Replayed, Unclaimed, Budgeted, Counted, PaidOnce, Ours, Encodes
<1>14. Begun'
  BY <1>4 DEF IInv, Begun
<1>15. Owned'
  BY <1>1, <1>4 DEF IInv, Owned
<1> QED BY <1>7, <1>9, <1>10, <1>12, <1>13, <1>14, <1>15 DEF IInv

-----------------------------------------------------------------------------
(* The steps that number calls. *)

LEMMA MaxOfTwo ==
  ASSUME NEW a \in Nat, NEW b \in Nat
  PROVE  Max({a, b}) \in Nat /\ Max({a, b}) >= a /\ Max({a, b}) >= b
<1>1. \E x \in {a, b} : \A y \in {a, b} : x >= y
  OBVIOUS
<1> QED BY <1>1 DEF Max

\* What every call does, numbered or not: the attempt asked for c once more.
LEMMA CallFacts ==
  ASSUME IInv, NEW v \in Calls, NEW c \in Contents, Call(v, c)
  PROVE  /\ UNCHANGED <<called, completed, refused, queue, tracked, running, attempt, first,
                        replay, sealed, losses>>
         /\ idx[v] = None /\ con[v] = None /\ st[v] = "idle"
         /\ con' \in [Calls -> Contents \cup {None}] /\ most' \in [Contents -> Nat]
         /\ \A w \in Calls : con'[w] = IF w = v THEN c ELSE con[w]
         /\ \A d \in Contents : most'[d] >= most[d]
         /\ Counted'
<1> DEFINE n == Cardinality({w \in Calls : con'[w] = c})
<1>1. /\ UNCHANGED <<called, completed, refused, queue, tracked, running, attempt, first,
                     replay, sealed, losses>>
      /\ con' = [con EXCEPT ![v] = c] /\ most' = [most EXCEPT ![c] = Max({@, n})]
      /\ st[v] = "idle"
  BY DEF Call, engine, journal
<1>2. idx[v] = None /\ con[v] = None
  BY <1>1 DEF IInv, Begun
<1>3. con \in [Calls -> Contents \cup {None}] /\ most \in [Contents -> Nat]
  BY DEF IInv, TypeOK
<1>4. /\ con' \in [Calls -> Contents \cup {None}]
      /\ \A w \in Calls : con'[w] = IF w = v THEN c ELSE con[w]
  BY <1>1, <1>3
<1>5. n \in Nat
  <2>1. IsFiniteSet({w \in Calls : con'[w] = c})
    BY ConstantFacts, FS_Subset
  <2> QED BY <2>1, FS_CardinalityType
<1>6. \A d \in Contents : most'[d] = IF d = c THEN Max({most[c], n}) ELSE most[d]
  BY <1>1, <1>3
<1>7. Max({most[c], n}) \in Nat /\ Max({most[c], n}) >= most[c] /\ Max({most[c], n}) >= n
  BY <1>3, <1>5, MaxOfTwo
<1>8. most' \in [Contents -> Nat]
  BY <1>1, <1>3, <1>7
<1>9. \A d \in Contents : most'[d] >= most[d]
  BY <1>3, <1>6, <1>7
<1>10. \A d \in Contents : Cardinality({w \in Calls : con'[w] = d}) <= most'[d]
  <2> SUFFICES ASSUME NEW d \in Contents
               PROVE  Cardinality({w \in Calls : con'[w] = d}) <= most'[d]
    OBVIOUS
  <2>1. CASE d = c
    BY <2>1, <1>5, <1>6, <1>7
  <2>2. CASE d # c
    <3>1. {w \in Calls : con'[w] = d} = {w \in Calls : con[w] = d}
      BY <1>2, <1>4, <2>2, ConstantsAssumption
    <3>2. Cardinality({w \in Calls : con[w] = d}) <= most[d]
      BY DEF IInv, Counted
    <3> QED BY <3>1, <3>2, <1>6, <2>2
  <2> QED BY <2>1, <2>2
<1>11. Counted'
  BY <1>10 DEF Counted
<1> QED BY <1>1, <1>2, <1>4, <1>8, <1>9, <1>11

\* A call that is not numbered, because the frontier is sealed.
LEMMA SealedCall ==
  ASSUME IInv, NEW v \in Calls, NEW c \in Contents, Call(v, c), sealed
  PROVE  IInv'
<1>1. /\ UNCHANGED <<called, completed, refused, queue, tracked, running, attempt, first,
                     replay, sealed, losses>>
      /\ idx[v] = None /\ con[v] = None /\ st[v] = "idle"
      /\ con' \in [Calls -> Contents \cup {None}] /\ most' \in [Contents -> Nat]
      /\ \A w \in Calls : con'[w] = IF w = v THEN c ELSE con[w]
      /\ \A d \in Contents : most'[d] >= most[d]
      /\ Counted'
  BY CallFacts
<1>2. /\ st' = [st EXCEPT ![v] = "over"] /\ heard' = [heard EXCEPT ![v] = "aborted"]
      /\ UNCHANGED <<idx, next, claimed>>
  BY DEF Call
<1>3. TypeOK'
  BY <1>1, <1>2 DEF IInv, TypeOK
<1>4. \A w \in Calls : idx[w] # None => con'[w] = con[w]
  BY <1>1
<1>5. Begun'
  <2>1. \A w \in Calls : st'[w] = IF w = v THEN "over" ELSE st[w]
    BY <1>2 DEF IInv, TypeOK
  <2> QED BY <1>1, <1>2, <1>4, <2>1 DEF IInv, Begun
<1>6. Budgeted' /\ Numbered' /\ Dense' /\ Replayed' /\ Ours'
  BY <1>1, <1>2 DEF IInv, Budgeted, Numbered, Dense, Replayed, Ours, Durable
<1>7. Unclaimed' /\ Agreed'
  BY <1>1, <1>2, <1>4 DEF IInv, Unclaimed, Agreed, Encodes
<1>8. Owned'
  <2> SUFFICES ASSUME NEW q \in queue \cup tracked \cup running
               PROVE  \E w \in Calls : idx[w] = q.index /\ con'[w] = q.content
    BY <1>1, <1>2 DEF Owned
  <2>1. q.index # None
    BY ConstantFacts DEF IInv, TypeOK, Requests
  <2>2. PICK w \in Calls : idx[w] = q.index /\ con[w] = q.content
    BY DEF IInv, Owned
  <2> QED BY <1>4, <2>1, <2>2
<1>9. PaidOnce'
  <2>1. ASSUME NEW d \in Contents \ Omitting
        PROVE  Cardinality({i \in Indexes : called[i] = d}) <= most'[d]
    <3>1. IsFiniteSet(Indexes)
      BY ConstantFacts, FS_Interval
    <3>2. Cardinality({i \in Indexes : called[i] = d}) \in Nat
      BY <3>1, FS_Subset, FS_CardinalityType
    <3>3. Cardinality({i \in Indexes : called[i] = d}) <= most[d]
      BY DEF IInv, PaidOnce
    <3> QED BY <1>1, <3>2, <3>3 DEF IInv, TypeOK
  <2> QED BY <1>1, <1>2, <2>1 DEF IInv, PaidOnce
<1> QED BY <1>1, <1>3, <1>5, <1>6, <1>7, <1>8, <1>9 DEF IInv

\* The index a call is given: fresh, with nothing left to claim, or one it may claim.
LEMMA GivenIndex ==
  ASSUME IInv, NEW v \in Calls, NEW c \in Contents, Call(v, c), ~sealed
  PROVE  \E i \in Indexes :
           /\ idx' = [idx EXCEPT ![v] = i] /\ st' = [st EXCEPT ![v] = "sending"]
           /\ heard' = heard
           /\ \A w \in Calls : idx[w] # i
           /\ called[i] \in {None, c} /\ refused[i] = None
           /\ \/ /\ i = next /\ next' = next + 1 /\ claimed' = claimed
                 /\ \A r \in replay :
                      /\ r.index < i
                      /\ r.content = c /\ Encodes(c) => r.index \in claimed
              \/ /\ i < next /\ next' = next /\ claimed' = claimed \cup {i}
                 /\ \E r \in replay : r.index = i
<1>1. CASE Claimable(c) = {}
  <2>1. /\ idx' = [idx EXCEPT ![v] = next] /\ st' = [st EXCEPT ![v] = "sending"]
        /\ heard' = heard /\ next' = next + 1 /\ claimed' = claimed
    BY <1>1 DEF Call
  <2>2. next \in Indexes /\ next \in Nat /\ None # next /\ None \notin Contents
    BY ConstantFacts DEF IInv, TypeOK
  <2>3. \A w \in Calls : idx[w] # next
    BY <2>2, ConstantFacts DEF IInv, Numbered, TypeOK
  <2>4. called[next] = None /\ refused[next] = None
    BY <2>2 DEF IInv, Numbered, Durable
  <2>5. ASSUME NEW r \in replay
        PROVE  /\ r.index < next
               /\ r.content = c /\ Encodes(c) => r.index \in claimed
    <3>1. r.index \in Indexes /\ r.content \in Contents
      BY DEF IInv, TypeOK, Requests
    <3>2. Durable(r.index)
      BY <3>1, <2>2 DEF IInv, Replayed, Durable
    <3>3. r.content = c /\ Encodes(c) => r.index \in claimed
      BY <1>1 DEF Claimable
    <3> QED BY <3>1, <3>2, <3>3 DEF IInv, Numbered
  <2> QED BY <2>1, <2>2, <2>3, <2>4, <2>5
<1>2. CASE Claimable(c) # {}
  <2> DEFINE i == Min(Claimable(c))
  <2>1. i \in Claimable(c)
    BY <1>2, ClaimedIndex DEF IInv
  <2> HIDE DEF i
  <2>2. /\ idx' = [idx EXCEPT ![v] = i] /\ st' = [st EXCEPT ![v] = "sending"]
        /\ heard' = heard /\ next' = next /\ claimed' = claimed \cup (Claimable(c) \cap {i})
    BY <1>2 DEF Call, i
  <2>3. claimed' = claimed \cup {i}
    BY <2>1, <2>2
  <2>4. PICK r \in replay : r.index = i /\ r.content = c
    BY <2>1 DEF Claimable
  <2>5. i \in Indexes /\ i \notin claimed /\ called[i] = c /\ c # None
    BY <2>1, <2>4, ConstantFacts DEF IInv, TypeOK, Requests, Replayed, Claimable
  <2>6. i < next /\ refused[i] = None
    BY <2>5 DEF IInv, Numbered, Durable, Dense
  <2>7. \A w \in Calls : idx[w] # i
    BY <2>4, <2>5, ConstantFacts DEF IInv, Unclaimed
  <2> QED BY <2>2, <2>3, <2>4, <2>5, <2>6, <2>7
<1> QED BY <1>1, <1>2

LEMMA NumberedCall ==
  ASSUME IInv, NEW v \in Calls, NEW c \in Contents, Call(v, c), ~sealed
  PROVE  IInv'
<1>1. /\ UNCHANGED <<called, completed, refused, queue, tracked, running, attempt, first,
                     replay, sealed, losses>>
      /\ idx[v] = None /\ con[v] = None /\ st[v] = "idle"
      /\ con' \in [Calls -> Contents \cup {None}] /\ most' \in [Contents -> Nat]
      /\ \A w \in Calls : con'[w] = IF w = v THEN c ELSE con[w]
      /\ \A d \in Contents : most'[d] >= most[d]
      /\ Counted'
  BY CallFacts
<1>2. PICK i \in Indexes :
        /\ idx' = [idx EXCEPT ![v] = i] /\ st' = [st EXCEPT ![v] = "sending"]
        /\ heard' = heard
        /\ \A w \in Calls : idx[w] # i
        /\ called[i] \in {None, c} /\ refused[i] = None
        /\ \/ /\ i = next /\ next' = next + 1 /\ claimed' = claimed
              /\ \A r \in replay :
                   /\ r.index < i
                   /\ r.content = c /\ Encodes(c) => r.index \in claimed
           \/ /\ i < next /\ next' = next /\ claimed' = claimed \cup {i}
              /\ \E r \in replay : r.index = i
  BY GivenIndex
<1>3. /\ \A w \in Calls : idx'[w] = IF w = v THEN i ELSE idx[w]
      /\ \A w \in Calls : st'[w] = IF w = v THEN "sending" ELSE st[w]
      /\ idx' \in [Calls -> Indexes \cup {None}]
  BY <1>2 DEF IInv, TypeOK
<1>4. /\ None \notin Indexes /\ None \notin Contents /\ Indexes \subseteq Nat
      /\ next \in Nat
  BY ConstantFacts DEF IInv, TypeOK
<1>5. \A w \in Calls : idx[w] # None => w # v /\ idx'[w] = idx[w] /\ con'[w] = con[w]
  BY <1>1, <1>3
<1>6. Budgeted' /\ next' \in Indexes
  <2> DEFINE n == Cardinality(Calls)
             K == {w \in Calls : idx[w] # None}
             L == {w \in Calls : idx'[w] # None}
  <2>1. IsFiniteSet(K) /\ Cardinality(K) \in Nat
    BY ConstantFacts, FS_Subset, FS_CardinalityType
  <2>2. L = K \cup {v} /\ v \notin K
    BY <1>1, <1>3, <1>4
  <2>3. Cardinality(L) = Cardinality(K) + 1
    <3> HIDE DEF K, L
    <3> QED BY <2>1, <2>2, FS_AddElement
  <2>4. Cardinality(L) <= n
    BY ConstantFacts, FS_Subset
  <2>5. next <= (attempt - 1) * n + Cardinality(K)
    BY DEF IInv, Budgeted
  <2>6. next' <= next + 1 /\ next' \in Nat
    BY <1>2, <1>4
  <2>7. n \in Nat /\ MaxAttempts \in Nat /\ attempt \in 1 .. MaxAttempts
        /\ Indexes = 0 .. (MaxAttempts * n)
    BY ConstantFacts DEF IInv, TypeOK
  <2>8. PICK m \in Nat : m = (attempt - 1) * n
    BY <2>7
  <2>9. m + n <= MaxAttempts * n /\ MaxAttempts * n \in Nat
    <3> HIDE DEF n
    <3>1. m + n = attempt * n
      BY <2>7, <2>8
    <3>2. attempt * n <= MaxAttempts * n
      BY <2>7
    <3> QED BY <3>1, <3>2, <2>7
  <2>10. next' <= m + Cardinality(L)
    <3> HIDE DEF n, K, L
    <3> QED BY <2>1, <2>3, <2>5, <2>6, <2>8, <1>4
  <2>11. next' \in Indexes
    <3>1. Cardinality(L) \in Nat
      BY <2>1, <2>3
    <3> HIDE DEF n, K, L
    <3> QED BY <3>1, <2>4, <2>6, <2>7, <2>8, <2>9, <2>10
  <2>12. Budgeted'
    BY <1>1, <2>8, <2>10 DEF Budgeted
  <2> QED BY <2>11, <2>12
<1>7. TypeOK'
  <2>1. claimed' \subseteq Indexes
    BY <1>2 DEF IInv, TypeOK
  <2>2. st' \in [Calls -> {"idle", "sending", "waiting", "backoff", "over"}]
    BY <1>2 DEF IInv, TypeOK
  <2> QED BY <1>1, <1>2, <1>3, <1>6, <2>1, <2>2 DEF IInv, TypeOK
<1>8. Begun'
  BY <1>1, <1>3, <1>4 DEF IInv, Begun
<1>9. Numbered'
  <2>1. next <= next' /\ i < next' /\ \A j \in Indexes : j < next' => j < next \/ j = i
    BY <1>2, <1>4
  <2>2. \A j \in Indexes : Durable(j)' <=> Durable(j)
    BY <1>1 DEF Durable
  <2>3. \A j \in Indexes : Durable(j) => j < next'
    BY <2>1, <1>2, <1>4 DEF IInv, Numbered
  <2>4. \A w \in Calls : idx'[w] # None => idx'[w] < next'
    <3> SUFFICES ASSUME NEW w \in Calls, idx'[w] # None, w # v PROVE idx'[w] < next'
      BY <1>3, <2>1
    <3>1. idx[w] # None /\ idx[w] \in Indexes
      BY <1>3 DEF IInv, TypeOK
    <3>2. idx[w] < next /\ idx'[w] = idx[w]
      BY <1>3, <3>1 DEF IInv, Numbered
    <3>3. next' \in Nat /\ idx[w] \in Nat
      BY <1>4, <1>6, <3>1
    <3> QED BY <1>4, <2>1, <3>2, <3>3
  <2>6. first <= next' /\ first' = first
    BY <1>1, <1>4, <1>6, <2>1, ConstantFacts DEF IInv, Numbered, TypeOK
  <2>5. ASSUME NEW j \in Indexes, first <= j, j < next'
        PROVE  Durable(j) \/ \E w \in Calls : idx'[w] = j
    <3>1. CASE j = i
      BY <3>1, <1>3
    <3>2. CASE j < next /\ ~Durable(j)
      <4>1. PICK w \in Calls : idx[w] = j
        BY <2>5, <3>2 DEF IInv, Numbered
      <4> QED BY <4>1, <1>4, <1>5
    <3>3. CASE Durable(j)
      BY <3>3
    <3> QED BY <2>1, <2>5, <3>1, <3>2, <3>3
  <2> QED BY <2>2, <2>3, <2>4, <2>5, <2>6 DEF Numbered
<1>10. Dense'
  BY <1>1 DEF IInv, Dense, Durable
<1>11. Replayed'
  <2>1. ASSUME NEW j \in claimed'
        PROVE  (\E r \in replay : r.index = j) /\ \E w \in Calls : idx'[w] = j
    <3>1. CASE j \in claimed
      <4>1. PICK w \in Calls : idx[w] = j
        BY <3>1 DEF IInv, Replayed
      <4>2. j # None
        BY <3>1, <1>4 DEF IInv, TypeOK
      <4> QED BY <3>1, <4>1, <4>2, <1>5 DEF IInv, Replayed
    <3>2. CASE j \notin claimed
      BY <2>1, <3>2, <1>2, <1>3
    <3> QED BY <3>1, <3>2
  <2> QED BY <1>1, <2>1 DEF IInv, Replayed
<1>12. Unclaimed'
  <2>1. claimed \subseteq claimed'
    BY <1>2
  <2>4. \A w \in Calls : idx'[w] # None /\ idx'[w] \notin claimed' => first <= idx'[w]
    BY <1>2, <1>3, <2>1 DEF IInv, Unclaimed, Numbered
  <2> SUFFICES ASSUME NEW w \in Calls, idx'[w] # None, idx'[w] \notin claimed',
                      NEW r \in replay
               PROVE  /\ r.index < idx'[w]
                      /\ r.content = con'[w] /\ Encodes(con'[w]) => r.index \in claimed'
    BY <1>1, <2>4 DEF Unclaimed, Encodes
  <2>2. CASE w = v
    BY <1>1, <1>2, <1>3, <2>2
  <2>3. CASE w # v
    <3>1. idx[w] # None /\ idx[w] \notin claimed /\ idx'[w] = idx[w] /\ con'[w] = con[w]
      BY <1>1, <1>3, <2>1, <2>3
    <3> QED BY <2>1, <3>1 DEF IInv, Unclaimed
  <2> QED BY <2>2, <2>3
<1>13. Agreed'
  <2> SUFFICES ASSUME NEW w \in Calls, idx'[w] # None
               PROVE  called[idx'[w]] \in {None, con'[w]} /\ refused[idx'[w]] \in {None, con'[w]}
    BY <1>1 DEF Agreed
  <2>1. CASE w = v
    BY <1>1, <1>2, <1>3, <2>1
  <2>2. CASE w # v
    BY <1>1, <1>3, <2>2 DEF IInv, Agreed
  <2> QED BY <2>1, <2>2
<1>14. Owned'
  <2> SUFFICES ASSUME NEW q \in queue \cup tracked \cup running
               PROVE  \E w \in Calls : idx'[w] = q.index /\ con'[w] = q.content
    BY <1>1 DEF Owned
  <2>1. q.index # None
    BY <1>4 DEF IInv, TypeOK, Requests
  <2>2. PICK w \in Calls : idx[w] = q.index /\ con[w] = q.content
    BY DEF IInv, Owned
  <2> QED BY <1>5, <2>1, <2>2
<1>15. Ours'
  <2> SUFFICES ASSUME NEW j \in Indexes, called[j] # None, ~ \E r \in replay : r.index = j
               PROVE  \E w \in Calls : idx'[w] = j
    BY <1>1 DEF Ours
  <2>1. PICK w \in Calls : idx[w] = j
    BY DEF IInv, Ours
  <2> QED BY <1>4, <1>5, <2>1
<1>16. PaidOnce'
  <2>1. ASSUME NEW d \in Contents \ Omitting
        PROVE  Cardinality({j \in Indexes : called[j] = d}) <= most'[d]
    <3>1. IsFiniteSet(Indexes)
      BY ConstantFacts, FS_Interval
    <3>2. Cardinality({j \in Indexes : called[j] = d}) \in Nat
      BY <3>1, FS_Subset, FS_CardinalityType
    <3>3. Cardinality({j \in Indexes : called[j] = d}) <= most[d]
      BY DEF IInv, PaidOnce
    <3> QED BY <1>1, <3>2, <3>3 DEF IInv, TypeOK
  <2>2. \A u, w \in Calls : u # w /\ idx'[u] # None => idx'[u] # idx'[w]
    BY <1>2, <1>3 DEF IInv, PaidOnce
  <2> QED BY <1>1, <2>1, <2>2 DEF PaidOnce
<1> QED BY <1>1, <1>6, <1>7, <1>8, <1>9, <1>10, <1>11, <1>12, <1>13, <1>14, <1>15, <1>16
        DEF IInv

\* What the join makes durable are calls of the attempt that the journal did not know.
LEMMA RelaunchFacts ==
  ASSUME IInv, Relaunch
  PROVE  /\ attempt' = attempt + 1 /\ attempt < MaxAttempts
         /\ completed' \subseteq Indexes /\ called' \in [Indexes -> Contents \cup {None}]
         /\ first' = NextIndex' /\ next' = NextIndex'
         /\ replay' = {Request(i, called'[i]) : i \in {j \in Indexes : called'[j] # None}}
         /\ claimed' = {} /\ sealed' = FALSE /\ queue' = {} /\ tracked' = {}
         /\ running' = {} /\ UNCHANGED <<refused, losses, most>>
         /\ st' = [v \in Calls |-> "idle"] /\ idx' = [v \in Calls |-> None]
         /\ con' = [v \in Calls |-> None] /\ heard' = [v \in Calls |-> None]
         /\ \A i \in Indexes : called'[i] # called[i] =>
              /\ called[i] = None /\ refused[i] = None /\ called'[i] \in Contents
              /\ \E w \in Calls : idx[w] = i /\ con[w] = called'[i]
<1>1. /\ attempt' = attempt + 1 /\ attempt < MaxAttempts
      /\ first' = NextIndex' /\ next' = NextIndex'
      /\ replay' = {Request(i, called'[i]) : i \in {j \in Indexes : called'[j] # None}}
      /\ claimed' = {} /\ sealed' = FALSE /\ queue' = {} /\ tracked' = {}
      /\ running' = {} /\ UNCHANGED <<refused, losses, most>>
  BY DEF Relaunch
<1>2. /\ st' = [v \in Calls |-> "idle"] /\ idx' = [v \in Calls |-> None]
      /\ con' = [v \in Calls |-> None] /\ heard' = [v \in Calls |-> None]
  BY DEF Relaunch, Fresh
<1>3. PICK S \in SUBSET Unsettled :
        /\ completed' = completed \cup {q.index : q \in S}
        /\ called' = [i \in Indexes |->
             IF i \in {q.index : q \in S}
             THEN (CHOOSE q \in S : q.index = i).content ELSE called[i]]
  BY DEF Relaunch
<1>4. \A q \in S : /\ q \in tracked /\ q.index \in Indexes /\ q.content \in Contents
                   /\ refused[q.index] = None
                   /\ \E w \in Calls : idx[w] = q.index /\ con[w] = q.content
  <2>1. \A q \in S : q \in tracked /\ ~Known(q)
    BY DEF Unsettled
  <2>2. \A q \in S : q.index \in Indexes /\ q.content \in Contents
    BY <2>1 DEF IInv, TypeOK, Requests
  <2> QED BY <2>1, <2>2 DEF IInv, Owned, Known
<1>5. completed' \subseteq Indexes
  BY <1>3, <1>4 DEF IInv, TypeOK
<1>6. ASSUME NEW i \in Indexes, i \in {q.index : q \in S}
      PROVE  /\ called'[i] \in Contents /\ refused[i] = None
             /\ \E w \in Calls : idx[w] = i /\ con[w] = called'[i]
             /\ called[i] \in {None, called'[i]}
  <2> DEFINE p == CHOOSE q \in S : q.index = i
  <2>1. p \in S /\ p.index = i
    BY <1>6
  <2>2. called'[i] = p.content
    BY <1>3, <1>6
  <2> HIDE DEF p
  <2>3. /\ p.content \in Contents /\ refused[i] = None
        /\ \E w \in Calls : idx[w] = i /\ con[w] = p.content
    BY <1>4, <2>1
  <2>4. called[i] \in {None, p.content}
    BY <2>3, ConstantFacts DEF IInv, Agreed
  <2> QED BY <2>2, <2>3, <2>4
<1>7. \A i \in Indexes : i \notin {q.index : q \in S} => called'[i] = called[i]
  BY <1>3
<1>8. called' \in [Indexes -> Contents \cup {None}]
  <2>1. \A i \in Indexes : called'[i] \in Contents \cup {None}
    BY <1>6, <1>7 DEF IInv, TypeOK
  <2>2. called' = [i \in Indexes |-> called'[i]]
    BY <1>3
  <2> QED BY <2>1, <2>2
<1>9. ASSUME NEW i \in Indexes, called'[i] # called[i]
      PROVE  /\ called[i] = None /\ refused[i] = None /\ called'[i] \in Contents
             /\ \E w \in Calls : idx[w] = i /\ con[w] = called'[i]
  BY <1>6, <1>7, <1>9
<1> QED BY <1>1, <1>2, <1>5, <1>8, <1>9

LEMMA RelaunchStep ==
  ASSUME IInv, Relaunch
  PROVE  IInv'
<1>1. /\ attempt' = attempt + 1 /\ attempt < MaxAttempts
      /\ completed' \subseteq Indexes /\ called' \in [Indexes -> Contents \cup {None}]
      /\ first' = NextIndex' /\ next' = NextIndex'
      /\ replay' = {Request(i, called'[i]) : i \in {j \in Indexes : called'[j] # None}}
      /\ claimed' = {} /\ sealed' = FALSE /\ queue' = {} /\ tracked' = {}
      /\ running' = {} /\ UNCHANGED <<refused, losses, most>>
  BY RelaunchFacts
<1>2. /\ st' = [v \in Calls |-> "idle"] /\ idx' = [v \in Calls |-> None]
      /\ con' = [v \in Calls |-> None] /\ heard' = [v \in Calls |-> None]
  BY RelaunchFacts
<1>a. \A i \in Indexes : called'[i] # called[i] =>
        /\ called[i] = None /\ refused[i] = None /\ called'[i] \in Contents
        /\ \E w \in Calls : idx[w] = i /\ con[w] = called'[i]
  BY RelaunchFacts
<1>4. \A i \in Indexes : Durable(i)' => i < next
  <2> SUFFICES ASSUME NEW i \in Indexes, Durable(i)' PROVE i < next
    OBVIOUS
  <2>1. CASE Durable(i)
    BY <2>1 DEF IInv, Numbered
  <2>2. CASE ~Durable(i)
    <3>1. PICK w \in Calls : idx[w] = i
      BY <1>1, <1>a, <2>2 DEF Durable
    <3> QED BY <3>1, ConstantFacts DEF IInv, Numbered
  <2> QED BY <2>1, <2>2
<1>5. /\ next' \in Nat /\ \A i \in Indexes : Durable(i)' => i < next'
      /\ next' = 0 \/ \E k \in Indexes : k + 1 = next' /\ Durable(k)'
  <2> DEFINE D == {i \in Indexes : called'[i] # None \/ refused'[i] # None}
  <2>1. next' = Max({-1} \cup D) + 1
    BY <1>1 DEF NextIndex
  <2>2. /\ next' \in Nat /\ \A i \in D : i < next'
        /\ next' # 0 => next' - 1 \in D
    <3>1. D \in SUBSET Indexes
      OBVIOUS
    <3> HIDE DEF D
    <3> QED BY <2>1, <3>1, OneMore
  <2>5. D \subseteq Indexes
    OBVIOUS
  <2>3. next' = 0 \/ \E k \in Indexes : k + 1 = next' /\ k \in D
    <3>1. CASE next' # 0
      <4> HIDE DEF D
      <4>0. next' \in Nat
        BY <2>2
      <4>1. next' - 1 \in D
        BY <2>2, <3>1
      <4>a. \A n \in Nat : (n - 1) + 1 = n
        OBVIOUS
      <4>3. (next' - 1) + 1 = next'
        BY <4>0, <4>a, Zenon
      <4>2. next' - 1 \in Indexes
        BY <2>5, <4>1
      <4> QED BY <4>1, <4>2, <4>3
    <3> QED BY <3>1
  <2>4. \A k \in Indexes : k \in D <=> Durable(k)'
    BY DEF Durable
  <2> HIDE DEF D
  <2> QED BY <2>2, <2>3, <2>4, <2>5
<1>3. next' \in Nat /\ next' <= next /\ next \in Nat
  <2>1. next \in Nat
    BY ConstantFacts DEF IInv, TypeOK
  <2>2. next' # 0 => \E k \in Indexes : k + 1 = next' /\ k < next
    BY <1>4, <1>5
  <2> QED BY <2>1, <2>2, <1>5, ConstantFacts
<1>6. \A r \in replay' : r.index \in Indexes /\ called'[r.index] = r.content
                         /\ r.content \in Contents /\ r \in Requests
  BY <1>1 DEF Request, Requests
<1>7. TypeOK'
  <2>1. next' \in Indexes /\ first' \in Indexes
    BY <1>1, <1>3, ConstantFacts DEF IInv, TypeOK
  <2>2. attempt' \in 1..MaxAttempts
    BY <1>1, ConstantsAssumption DEF IInv, TypeOK
  <2>3. replay' \subseteq Requests
    BY <1>6
  <2>4. /\ st' \in [Calls -> {"idle", "sending", "waiting", "backoff", "over"}]
        /\ idx' \in [Calls -> Indexes \cup {None}] /\ con' \in [Calls -> Contents \cup {None}]
        /\ heard' \in [Calls -> {None, "result", "rejected", "invalid", "fault", "aborted"}]
    BY <1>2
  <2>5. /\ queue' \subseteq Requests /\ tracked' \subseteq Requests /\ running' \subseteq Requests
        /\ claimed' \subseteq Indexes /\ sealed' \in BOOLEAN
    BY <1>1
  <2> QED BY <1>1, <2>1, <2>2, <2>3, <2>4, <2>5 DEF IInv, TypeOK
<1>8. {v \in Calls : idx'[v] # None} = {} /\ \A v \in Calls : idx'[v] = None
  BY <1>2
<1>9. Budgeted'
  <2> DEFINE n == Cardinality(Calls)
             K == {v \in Calls : idx[v] # None}
  <2>1. Cardinality({v \in Calls : idx'[v] # None}) = 0
    BY <1>8, FS_EmptySet
  <2>2. Cardinality(K) \in Nat /\ Cardinality(K) <= n /\ n \in Nat
    BY ConstantFacts, FS_Subset, FS_CardinalityType
  <2>3. next <= (attempt - 1) * n + Cardinality(K)
    BY DEF IInv, Budgeted
  <2>4. attempt \in Nat
    BY ConstantFacts DEF IInv, TypeOK
  <2>5. next' <= attempt * n
    <3> HIDE DEF n, K
    <3>1. (attempt - 1) * n \in Int /\ (attempt - 1) * n + n = attempt * n
      BY <2>2, <2>4
    <3> QED BY <1>3, <2>2, <2>3, <3>1
  <2>6. (attempt' - 1) * n + 0 = attempt * n
    BY <1>1, <2>2, <2>4
  <2> QED BY <2>1, <2>5, <2>6 DEF Budgeted
<1>10. Begun' /\ Unclaimed' /\ Agreed' /\ Owned'
  BY <1>1, <1>2 DEF Begun, Unclaimed, Agreed, Owned
<1>b. first' = next'
  BY <1>1
<1>11. Numbered'
  <2>1. \A i \in Indexes : ~(first' <= i /\ i < next')
    BY <1>3, <1>b, ConstantFacts
  <2>2. first' <= next'
    BY <1>3, <1>b
  <2> QED BY <1>5, <1>8, <2>1, <2>2 DEF Numbered
<1>12. Dense'
  <2>1. \A i, j \in Indexes : Durable(i)' /\ first' <= j /\ j < i => Durable(j)'
    BY <1>3, <1>5, <1>b, ConstantFacts
  <2>2. \A i \in Indexes : called'[i] = None \/ refused'[i] = None
    BY <1>1, <1>a DEF IInv, Dense
  <2>3. first' = 0 \/ \E k \in Indexes : k + 1 = first' /\ Durable(k)'
    BY <1>5, <1>b
  <2> QED BY <2>1, <2>2, <2>3 DEF Dense
<1>13. Replayed'
  BY <1>1, <1>6 DEF Replayed
<1>14. Ours'
  <2> SUFFICES ASSUME NEW i \in Indexes, called'[i] # None
               PROVE  \E r \in replay' : r.index = i
    BY DEF Ours
  <2>1. Request(i, called'[i]) \in replay'
    BY <1>1
  <2> QED BY <2>1 DEF Request
<1>15. Counted'
  <2>1. \A c \in Contents : {v \in Calls : con'[v] = c} = {}
    BY <1>2, ConstantsAssumption
  <2>2. \A c \in Contents : most'[c] \in Nat
    BY <1>7 DEF TypeOK
  <2>3. \A c \in Contents : Cardinality({v \in Calls : con'[v] = c}) = 0
    BY <2>1, FS_EmptySet
  <2> QED BY <2>2, <2>3 DEF Counted
<1>16. PaidOnce'
  <2>1. ASSUME NEW c \in Contents \ Omitting
        PROVE  Cardinality({i \in Indexes : called'[i] = c}) <= most[c]
    <3>1. CASE \A i \in Indexes : called'[i] = c => called[i] = c
      <4>1. \A i \in Indexes : called[i] = c => called'[i] = c
        BY <1>a, ConstantFacts
      <4>2. {i \in Indexes : called'[i] = c} = {i \in Indexes : called[i] = c}
        BY <3>1, <4>1
      <4> QED BY <4>2 DEF IInv, PaidOnce
    <3>2. CASE \E i \in Indexes : called'[i] = c /\ called[i] # c
      <4> DEFINE D == {i \in Indexes : called'[i] = c}
      <4>1. PICK i \in Indexes : called'[i] = c /\ called[i] # c
        BY <3>2
      <4>2. PICK v \in Calls : idx[v] = i /\ con[v] = c
        BY <1>a, <4>1
      <4>3. called[i] = None
        BY <1>a, <4>1
      <4>4. idx[v] # None /\ idx[v] \notin claimed
        BY <4>2, <4>3, ConstantFacts DEF IInv, TypeOK, Replayed, Requests
      <4>5. ASSUME NEW d \in D PROVE \E w \in Calls : con[w] = c /\ idx[w] = d
        <5>1. CASE called[d] = c
          <6>1. d \in Indexes
            OBVIOUS
          <6> QED BY <4>2, <4>4, <5>1, <6>1, AskedAgain
        <5>2. CASE called[d] # c
          BY <1>a, <5>2
        <5> QED BY <5>1, <5>2
      <4> HIDE DEF D
      <4>6. Cardinality(D) <= most[c]
        BY <4>5, PaidFor
      <4> QED BY <4>6 DEF D
    <3> QED BY <3>1, <3>2
  <2>2. most' = most
    BY <1>1
  <2> QED BY <1>8, <2>1, <2>2 DEF PaidOnce
<1> QED BY <1>7, <1>9, <1>10, <1>11, <1>12, <1>13, <1>14, <1>15, <1>16 DEF IInv

-----------------------------------------------------------------------------
(* The theorems. *)

LEMMA InvariantStep == IInv /\ [Next]_vars => IInv'
<1> SUFFICES ASSUME IInv, [Next]_vars PROVE IInv'
  OBVIOUS
<1>1. CASE \E v \in Calls : Send(v) \/ Lose(v) \/ Retry(v) \/ Abort(v)
  BY <1>1, ExtensionSteps
<1>2. CASE \E v \in Calls, c \in Contents : Call(v, c)
  BY <1>2, SealedCall, NumberedCall
<1>3. CASE \E q \in queue \cup running : Engine(q)
  <2>1. PICK q \in queue \cup running : Engine(q)
    BY <1>3
  <2>2. CASE Reply(q) \/ Return(q) \/ Fault(q)
    BY <2>2, AnswerSteps
  <2>3. CASE Lead(q)
    BY <2>3, LeadStep DEF Lead, Free
  <2>4. CASE Refuse(q)
    BY <2>4, RefuseStep DEF Refuse, Free
  <2> QED BY <2>1, <2>2, <2>3, <2>4 DEF Engine
<1>4. CASE Relaunch
  BY <1>4, RelaunchStep
<1>5. CASE UNCHANGED vars
  <2>1. UNCHANGED <<called, completed, refused, queue, tracked, running, attempt, first,
                    next, replay, claimed, sealed, st, idx, con, heard, losses, most>>
    BY <1>5 DEF vars, engine, journal, extension, agent
  <2>2. TypeOK'
    BY <2>1 DEF IInv, TypeOK
  <2> QED BY <2>1, <2>2, SteadyStep
<1> QED BY <1>1, <1>2, <1>3, <1>4, <1>5 DEF Next

\* The inductive invariant holds in every state: the extension's numbers and the
\* engine's, and whose each of them is.
THEOREM IInvHolds == Spec => []IInv
<1> QED BY InitInvariant, InvariantStep, PTL DEF Spec

\* The types hold.
THEOREM TypesHold == Spec => []TypeOK
<1>1. IInv => TypeOK
  BY DEF IInv
<1> QED BY <1>1, IInvHolds, PTL

\* Nothing is paid for more often than one attempt asked for it, however requests are
\* lost and repeated and attempts relaunched, and no two calls of an attempt share an
\* index (shim.py 145-149 and 223-245, engine.py 846-913).
THEOREM PaidOnceHolds == Spec => []PaidOnce
<1>1. IInv => PaidOnce
  BY DEF IInv
<1> QED BY <1>1, IInvHolds, PTL

\* The two ends never disagree about the call an index stands for.
LEMMA NoConflict ==
  ASSUME IInv, NEW q \in queue \cup running
  PROVE  ~Conflicts(q)
<1>1. \A p \in queue \cup running : p.index \in Indexes /\ p.content \in Contents
  BY DEF IInv, TypeOK, Requests
<1>2. \A p \in queue \cup running :
        \E v \in Calls : idx[v] = p.index /\ con[v] = p.content /\ idx[v] # None
  BY <1>1, ConstantFacts DEF IInv, Owned
<1>3. PICK v \in Calls : idx[v] = q.index /\ con[v] = q.content /\ idx[v] # None
  BY <1>2
<1>4. called[q.index] \in {None, q.content} /\ refused[q.index] \in {None, q.content}
  BY <1>3 DEF IInv, Agreed
<1>5. ASSUME NEW r \in running, r.index = q.index PROVE r.content = q.content
  <2>1. PICK w \in Calls : idx[w] = r.index /\ con[w] = r.content /\ idx[w] # None
    BY <1>2
  <2>2. w = v
    BY <1>3, <1>5, <2>1 DEF IInv, PaidOnce
  <2> QED BY <1>3, <2>1, <2>2
<1> QED BY <1>4, <1>5 DEF Conflicts

\* A request that may not lead waits behind a pending call, or behind an index of this
\* attempt that the engine has not seen.
LEMMA LateIsExplained ==
  ASSUME IInv, NEW q \in queue, ~Known(q), ~MayLead(q)
  PROVE  \E i \in Indexes : /\ i < q.index
                            /\ \/ Pending(i)
                               \/ /\ called[i] = None /\ refused[i] = None
                                  /\ \E w \in Calls : idx[w] = i
<1> SUFFICES ASSUME \A i \in Indexes : i < q.index => ~Pending(i)
             PROVE  \E i \in Indexes : /\ i < q.index
                                       /\ called[i] = None /\ refused[i] = None
                                       /\ \E w \in Calls : idx[w] = i
  OBVIOUS
<1>1. q.index \in Indexes /\ q.index \in Nat /\ next \in Nat /\ NextIndex \in Nat
  BY ConstantFacts, NextIndexFacts DEF IInv, TypeOK, Requests
<1>2. ~Pending(q.index) /\ q.index # NextIndex
  BY DEF MayLead
<1>3. ~Durable(q.index)
  BY <1>2 DEF Known, Pending, Durable
<1>a. first <= q.index /\ first <= NextIndex
  <2>1. PICK v \in Calls : idx[v] = q.index
    BY DEF IInv, Owned
  <2>2. idx[v] # None /\ idx[v] \notin claimed
    BY <1>1, <1>3, <2>1, ConstantFacts DEF IInv, TypeOK, Replayed, Requests, Durable
  <2> QED BY <2>1, <2>2, DenseFacts DEF IInv, Unclaimed
<1>4. NextIndex < q.index
  BY <1>1, <1>2, <1>3, <1>a, DenseFacts DEF IInv
<1>5. q.index < next
  <2>1. PICK v \in Calls : idx[v] = q.index
    BY DEF IInv, Owned
  <2> QED BY <2>1, <1>1, ConstantFacts DEF IInv, Numbered
<1>6. NextIndex \in Indexes
  BY <1>1, <1>4, ConstantFacts
<1>7. ~Durable(NextIndex)
  BY <1>1, <1>6, <1>a, DenseFacts DEF IInv
<1>8. NextIndex < next
  BY <1>1, <1>4, <1>5
<1>9. \E w \in Calls : idx[w] = NextIndex
  BY <1>6, <1>7, <1>8, <1>a DEF IInv, Numbered
<1> QED BY <1>4, <1>6, <1>7, <1>9 DEF Durable

\* A call is rejected only because an earlier one is pending, or because the engine
\* has not seen an earlier one of the same attempt (engine.py 869-913).
THEOREM RejectionsAreExplained == Spec => RejectionIsExplained
<1> DEFINE Reason(v) ==
      \E i \in Indexes : /\ i < idx[v]
                         /\ \/ Pending(i)
                            \/ /\ called[i] = None /\ refused[i] = None
                               /\ \E w \in Calls : idx[w] = i
<1>1. ASSUME IInv, [Next]_vars, NEW v \in Calls, heard[v] = None, heard'[v] = "rejected"
      PROVE  Reason(v)
  <2>1. heard'[v] # heard[v] /\ heard'[v] # "aborted" /\ heard'[v] # None
    BY <1>1, ConstantsAssumption
  <2>2. PICK q \in queue : Reply(q)
    <3>1. ~(UNCHANGED vars)
      BY <2>1 DEF vars, agent
    <3>2. ~ \E w \in Calls : Send(w) \/ Lose(w) \/ Retry(w) \/ Abort(w)
      BY <2>1, <1>1 DEF Send, Lose, Retry, Abort, IInv, TypeOK
    <3>3. ~ \E w \in Calls, c \in Contents : Call(w, c)
      BY <2>1, <1>1 DEF Call, IInv, TypeOK
    <3>4. ~Relaunch
      BY <2>1 DEF Relaunch, Fresh
    <3>5. ASSUME NEW p \in queue \cup running, Lead(p) \/ Refuse(p) \/ Return(p) \/ Fault(p)
          PROVE  FALSE
      <4>1. heard' = heard \/ Answer(p, "result") \/ Answer(p, "fault")
        BY <3>5 DEF Lead, Refuse, Return, Fault, agent
      <4> QED BY <4>1, <2>1, <1>1 DEF Answer
    <3>6. PICK p \in queue \cup running : Engine(p)
      BY <1>1, <3>1, <3>2, <3>3, <3>4 DEF Next
    <3>7. Reply(p)
      BY <3>5, <3>6 DEF Engine
    <3> QED BY <3>7 DEF Reply
  <2>3. ~Conflicts(q)
    BY NoConflict, <1>1
  <2>4. Answer(q, "rejected") /\ ~Known(q) /\ ~MayLead(q)
    <3>1. ~Answer(q, "invalid") /\ ~Answer(q, "result")
      BY <1>1, <2>1 DEF Answer
    <3> QED BY <2>2, <2>3, <3>1 DEF Reply
  <2>5. idx[v] = q.index
    BY <1>1, <2>1, <2>4 DEF Answer
  <2> QED BY <1>1, <2>4, <2>5, LateIsExplained
<1>2. IInv /\ [Next]_vars =>
        [\A v \in Calls : heard[v] = None /\ heard'[v] = "rejected" => Reason(v)]_vars
  BY <1>1
<1>3. Spec => [][\A v \in Calls : heard[v] = None /\ heard'[v] = "rejected" =>
                   Reason(v)]_vars
  <2> HIDE DEF Reason
  <2> QED BY <1>2, IInvHolds, PTL DEF Spec
<1> QED BY <1>3 DEF RejectionIsExplained

\* Where the two encodings of a call agree, a call that is issued again reconnects:
\* what the reissue run refutes is a matter of the omitted member alone (shim.py
\* 145-149, 306-341).
THEOREM EncodedReissueReconnects ==
  ASSUME Omitting = {} PROVE Spec => []ReissueReconnects
<1>1. IInv => ReissueReconnects
  BY DEF IInv, Unclaimed, ReissueReconnects, Encodes
<1> QED BY <1>1, IInvHolds, PTL
=============================================================================
