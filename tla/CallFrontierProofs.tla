------------------------- MODULE CallFrontierProofs -------------------------
(***************************************************************************)
(* Type correctness, single flight and the single open call of a frame,    *)
(* proved for every number of threads, calls, attempts and restarts, and   *)
(* whether or not a worker may outlive its join; and, for joins that end   *)
(* in time, that effects are owed, replies durable, exits settled, the     *)
(* interrupt last, and that the calls of a frame implement CallLedger.     *)
(***************************************************************************)
EXTENDS CallFrontier, TLAPS

\* A thread that is not idle carries a call; a tracked thread is not idle.
CarriesCall ==
  /\ \A t \in Threads : pc[t] # "idle" => con[t] \in Contents
  /\ \A t \in Threads : tracked[t] => pc[t] # "idle"

\* A joiner that reconciles knows the error code it reconciles with.
HasVerdict ==
  \A j \in Joiners : stage[j] = "reconciling" => verdict[j] \in Failures

\* While a thread leads a call, no call at another index is pending.
LeadsAlone ==
  \A t \in Threads : pc[t] \in LeaderSteps =>
    \A i \in Indexes : i # idx[t] => ~Pending(i)

\* The index a thread leads, or the one before it, is used: a smaller index
\* cannot be the next logical one.
LeadFollows ==
  \A t \in Threads : pc[t] \in LeaderSteps =>
    idx[t] = 0 \/ ~Unused(idx[t]) \/ ~Unused(idx[t] - 1)

\* The inductive invariant.
IInv ==
  /\ TypeOK /\ CarriesCall /\ HasVerdict
  /\ SingleLeader /\ OnePending /\ LeadsAlone /\ LeadFollows

-----------------------------------------------------------------------------
(* What a step may do to the leaders and to the ledger.                    *)

\* Whoever leads a call after the step led the same call before it.
NoNewLeader ==
  \A t \in Threads : pc'[t] \in LeaderSteps =>
    pc[t] \in LeaderSteps /\ idx'[t] = idx[t]

\* Used indexes stay used.
UsedStays == \A i \in Indexes : ~Unused(i) => ~Unused(i)'

\* Nothing becomes pending.
NothingOpens == \A i \in Indexes : Pending(i)' => Pending(i)

\* There is a first index.
LEMMA FirstIndex == 0 \in Indexes
BY ConstantsAssumption DEF ConstantsAssumption, Indexes

\* The threads that are forgotten become idle, the others stay as they are.
LEMMA ForgetTypes ==
  ASSUME TypeOK, NEW S, Forget(S)
  PROVE  /\ pc' \in [Threads -> {"idle", "validated", "admitting", "left", "done"}
                                  \cup LeaderSteps]
         /\ idx' \in [Threads -> Indexes]
         /\ con' \in [Threads -> Contents \cup {None}]
         /\ reply' \in [Threads -> Replies]
BY FirstIndex DEF TypeOK, Forget, Replies

\* Initially everything is empty.
LEMMA InitIInv == Init => IInv
<1> SUFFICES ASSUME Init PROVE IInv
  OBVIOUS
<1> USE DEF Init, LeaderSteps, Pending, Exists, Completed
<1>1. TypeOK
  <2>1. attempt \in 0..MaxAttempts /\ restarts \in 0..MaxRestarts
    BY ConstantsAssumption DEF ConstantsAssumption
  <2>2. /\ content \in [Indexes -> Contents \cup {None}]
        /\ response \in [Indexes -> Responses \cup {None}]
        /\ refused \in [Indexes -> Contents \cup {None}]
        /\ answered \in [Indexes -> BOOLEAN]
    OBVIOUS
  <2>3. /\ pc \in [Threads -> {"idle", "validated", "admitting", "left", "done"}
                                 \cup LeaderSteps]
        /\ idx \in [Threads -> Indexes]
        /\ con \in [Threads -> Contents \cup {None}]
        /\ replaying \in [Threads -> BOOLEAN] /\ cancelled \in [Threads -> BOOLEAN]
        /\ tracked \in [Threads -> BOOLEAN] /\ reply \in [Threads -> Replies]
    BY FirstIndex DEF Replies
  <2> QED BY <2>1, <2>2, <2>3 DEF TypeOK
<1>2. CarriesCall /\ HasVerdict
  BY DEF CarriesCall, HasVerdict, Joiners
<1>3. SingleLeader /\ OnePending /\ LeadsAlone /\ LeadFollows
  BY DEF SingleLeader, OnePending, LeadsAlone, LeadFollows
<1> QED BY <1>1, <1>2, <1>3 DEF IInv

-----------------------------------------------------------------------------
(* Type correctness.  The steps are grouped by the actor that takes them.  *)

\* A step of a request keeps the types.
LEMMA RequestTypes ==
  ASSUME TypeOK, CarriesCall, NEW t \in Threads,
         ThreadStep(t) \/ \E i \in Indexes, c \in Contents : Submit(t, i, c)
  PROVE  TypeOK'
<1> USE DEF TypeOK, journal, ledger, process, server, joins, LeaderSteps, Goto,
      Replies, Responses, Errors
<1>1. CASE \E i \in Indexes, c \in Contents : Submit(t, i, c)
  BY <1>1 DEF Submit, Reply
<1>2. CASE Enter(t)
  BY <1>2 DEF Enter, Reply
<1>3. CASE Answer(t)
  <2>1. CASE Conflicts(t)
    BY <1>3, <2>1 DEF Answer, Reply
  <2>2. CASE ~Conflicts(t)
    <3>1. \E r \in Replies : Reply(t, "left", r)
      BY <1>3, <2>2 DEF Answer, Completed
    <3> QED BY <1>3, <3>1 DEF Answer, Reply
  <2> QED BY <2>1, <2>2
<1>4. CASE Lead(t)
  BY <1>4 DEF Lead, Exists, StartsCancelled
<1>5. CASE Begin(t)
  BY <1>5 DEF Begin
<1>6. CASE FailEarly(t)
  BY <1>6 DEF FailEarly, Reply
<1>7. CASE Refuse(t)
  BY <1>7 DEF Refuse, Reply
<1>8. CASE \E r \in Results : Return(t, r) \/ ReturnAnswer(t, r)
  BY <1>8 DEF Return, ReturnAnswer, AppendReturn, Reply
<1>9. CASE StopAsking(t)
  BY <1>9 DEF StopAsking, Reply, Failures
<1>10. CASE FailLate(t)
  BY <1>10 DEF FailLate, Reply
<1>11. CASE Leave(t)
  BY <1>11 DEF Leave
<1>12. CASE Finish(t)
  <2>1. CASE tracked[t]
    BY <1>12, <2>1 DEF Finish
  <2>2. CASE ~tracked[t]
    BY <1>12, <2>2, ForgetTypes DEF Finish
  <2> QED BY <2>1, <2>2
<1> QED
  BY <1>1, <1>2, <1>3, <1>4, <1>5, <1>6, <1>7, <1>8, <1>9, <1>10, <1>11,
     <1>12 DEF ThreadStep

\* The calls of tracked threads have an index and a content.
LEMMA SnapshotTypes ==
  ASSUME TypeOK, CarriesCall, NEW S \in SUBSET Threads,
         \A t \in S : tracked[t]
  PROVE  CallsOf(S) \in SUBSET (Indexes \X Contents)
BY DEF TypeOK, CarriesCall, CallsOf

\* A step of a join keeps the types.
LEMMA JoinTypes ==
  ASSUME TypeOK, CarriesCall, NEW j \in Joiners,
         JoinStep(j) \/ CloseFrontier(j)
  PROVE  TypeOK'
<1> USE DEF TypeOK, journal, ledger, process, server, threads, Responses,
      Failures
<1>1. CASE RequestCancel(j)
  BY <1>1 DEF RequestCancel, CancelFrame
<1>2. CASE Joined(j)
  <2>1. CallsOf({t \in Threads : tracked[t]}) \in SUBSET (Indexes \X Contents)
    BY SnapshotTypes
  <2> QED BY <1>2, <2>1 DEF Joined
<1>3. CASE JoinTimesOut(j)
  <2>1. CallsOf(Unfinished) \in SUBSET (Indexes \X Contents)
    BY SnapshotTypes DEF Unfinished
  <2> QED BY <1>3, <2>1 DEF JoinTimesOut
<1>4. CASE \E i \in Indexes, c \in Contents : Reconcile(j, i, c)
  <2> PICK i \in Indexes, c \in Contents : Reconcile(j, i, c)
    BY <1>4
  <2>1. todo' \in [Joiners -> SUBSET (Indexes \X Contents)]
    BY DEF Reconcile
  <2>2. content' \in [Indexes -> Contents \cup {None}]
    BY DEF Reconcile
  <2>3. response' \in [Indexes -> Responses \cup {None}]
    BY DEF Reconcile
  <2> QED BY <2>1, <2>2, <2>3 DEF Reconcile
<1>5. CASE \E i \in Indexes, c \in Contents : AbortReconcile(j, i, c)
  BY <1>5 DEF AbortReconcile
<1>6. CASE CloseFrontier(j)
  BY <1>6 DEF CloseFrontier
<1> QED BY <1>1, <1>2, <1>3, <1>4, <1>5, <1>6 DEF JoinStep

\* What the frame or the process may do.
ProcessStep ==
  \/ \E i \in Indexes : OwnerAnswers(i)
  \/ Launch
  \/ \E o \in {"ok", "failed"} : ExitFrame(o)
  \/ BeginShutdown \/ JoinsDone \/ Interrupt \/ Crash \/ Restart

\* A step of the frame or of the process keeps the types.
LEMMA ProcessTypes ==
  ASSUME TypeOK, ProcessStep
  PROVE  TypeOK'
<1> USE DEF TypeOK, journal, ledger, process, server, threads, joins
<1>1. CASE \E i \in Indexes : OwnerAnswers(i)
  BY <1>1 DEF OwnerAnswers
<1>2. CASE Launch
  <2>1. attempt' \in 0..MaxAttempts
    BY <1>2, ConstantsAssumption DEF Launch, ConstantsAssumption
  <2> QED BY <1>2, <2>1 DEF Launch
<1>3. CASE \E o \in {"ok", "failed"} : ExitFrame(o)
  BY <1>3, ForgetTypes DEF ExitFrame
<1>4. CASE BeginShutdown
  <2>1. stage' \in [Joiners -> {"idle", "running", "stopping", "natural",
           "cancelled", "reconciling", "unwound", "joined", "stopped"}]
    <3> DEFINE known == active \/ \E t \in Threads : pc[t] \in LeaderSteps
    <3>1. PICK unwinds \in BOOLEAN :
            stage' = [stage EXCEPT
              !["shutdown"] = IF known THEN "stopping" ELSE "joined",
              !["launch"] = IF unwinds /\ @ # "idle" THEN "unwound" ELSE @]
      BY <1>4 DEF BeginShutdown
    <3> HIDE DEF known
    <3> QED BY <3>1 DEF Joiners
  <2>2. terminating' \in BOOLEAN /\ cancelled' \in [Threads -> BOOLEAN]
    <3>1. CASE CancelFrame
      BY <3>1 DEF CancelFrame
    <3>2. CASE UNCHANGED <<terminating, cancelled>>
      BY <3>2
    <3> QED BY <1>4, <3>1, <3>2 DEF BeginShutdown
  <2> QED BY <1>4, <2>1, <2>2 DEF BeginShutdown
<1>5. CASE JoinsDone \/ Interrupt
  BY <1>5 DEF JoinsDone, Interrupt
<1>6. CASE Crash
  BY <1>6, ForgetTypes DEF Crash
<1>7. CASE Restart
  BY <1>7, ConstantsAssumption DEF Restart, ConstantsAssumption
<1> QED BY <1>1, <1>2, <1>3, <1>4, <1>5, <1>6, <1>7 DEF ProcessStep

\* Every step of the specification keeps the types.
LEMMA NextTypes ==
  ASSUME TypeOK, CarriesCall, [Next]_vars
  PROVE  TypeOK'
<1>1. CASE UNCHANGED vars
  BY <1>1 DEF vars, journal, ledger, process, server, threads, joins, TypeOK
<1>2. CASE Next
  BY <1>2, RequestTypes, JoinTypes, ProcessTypes DEF Next, ProcessStep
<1> QED BY <1>1, <1>2

-----------------------------------------------------------------------------
(* Calls and verdicts.                                                     *)

\* Every step keeps a call with each thread that is not idle.
LEMMA NextCarriesCall ==
  ASSUME TypeOK, CarriesCall, [Next]_vars
  PROVE  CarriesCall'
<1> USE DEF TypeOK, CarriesCall, journal, ledger, process, server, joins, threads,
      LeaderSteps
<1>1. CASE UNCHANGED vars
  BY <1>1 DEF vars
<1>2. CASE \E t \in Threads, i \in Indexes, c \in Contents : Submit(t, i, c)
  BY <1>2 DEF Submit, Goto, Reply
<1>3. CASE \E t \in Threads : ThreadStep(t)
  <2> PICK t \in Threads : ThreadStep(t)
    BY <1>3
  <2>1. CASE Finish(t)
    BY <2>1 DEF Finish, Goto, Forget
  <2>2. CASE ~Finish(t)
    <3>1. /\ pc[t] # "idle" /\ UNCHANGED <<con, tracked>>
          /\ \E s \in {"idle", "validated", "admitting", "left", "done"}
                         \cup LeaderSteps : s # "idle" /\ pc' = [pc EXCEPT ![t] = s]
      BY <2>2 DEF ThreadStep, Enter, Answer, Lead, Begin, FailEarly, Refuse, Return,
         ReturnAnswer, StopAsking, FailLate, Leave, Goto, Reply
    <3> QED BY <3>1
  <2> QED BY <2>1, <2>2
<1>4. CASE \E j \in Joiners : CloseFrontier(j) \/ JoinStep(j)
  <2>1. UNCHANGED <<pc, con, tracked>>
    BY <1>4 DEF CloseFrontier, JoinStep, RequestCancel, Joined, JoinTimesOut,
       Reconcile, AbortReconcile
  <2> QED BY <2>1
<1>5. CASE ProcessStep
  <2>1. ASSUME NEW S, Forget(S), tracked' = [t \in Threads |-> FALSE]
        PROVE  CarriesCall'
    BY <2>1 DEF Forget
  <2>2. CASE UNCHANGED <<pc, con, tracked>>
    BY <2>2
  <2> QED
    BY <1>5, <2>1, <2>2 DEF ProcessStep, OwnerAnswers, Launch, ExitFrame,
       BeginShutdown, JoinsDone, Interrupt, Crash, Restart
<1> QED BY <1>1, <1>2, <1>3, <1>4, <1>5 DEF Next, ProcessStep

\* Every step keeps an error code with each joiner that reconciles.
LEMMA NextHasVerdict ==
  ASSUME TypeOK, HasVerdict, [Next]_vars
  PROVE  HasVerdict'
<1> USE DEF TypeOK, HasVerdict, journal, ledger, process, server, joins, threads,
      Failures, Joiners
<1>1. CASE UNCHANGED <<stage, verdict>>
  BY <1>1
<1>2. CASE \E j \in Joiners : CloseFrontier(j) \/ JoinStep(j)
  <2> PICK j \in Joiners : CloseFrontier(j) \/ JoinStep(j)
    BY <1>2
  <2>1. CASE CloseFrontier(j) \/ RequestCancel(j)
    BY <2>1 DEF CloseFrontier, RequestCancel
  <2>2. CASE Joined(j) \/ JoinTimesOut(j)
    BY <2>2 DEF Joined, JoinTimesOut
  <2>3. CASE \E i \in Indexes, c \in Contents : Reconcile(j, i, c) \/ AbortReconcile(j, i, c)
    BY <2>3 DEF Reconcile, AbortReconcile
  <2> QED BY <2>1, <2>2, <2>3 DEF JoinStep
<1>3. CASE ProcessStep
  BY <1>3 DEF ProcessStep, OwnerAnswers, Launch, ExitFrame, BeginShutdown, JoinsDone,
     Interrupt, Crash, Restart
<1>4. ASSUME NEW t \in Threads, ThreadStep(t) \/ \E i \in Indexes, c \in Contents : Submit(t, i, c)
      PROVE  UNCHANGED <<stage, verdict>>
  BY <1>4 DEF ThreadStep, Submit, Enter, Answer, Lead, Begin, FailEarly, Refuse, Return,
     ReturnAnswer, StopAsking, FailLate, Leave, Finish
<1> QED BY <1>1, <1>2, <1>3, <1>4 DEF Next, ProcessStep, vars

-----------------------------------------------------------------------------
(* Single flight and the single open call.                                 *)

\* A step that is nobody's Lead makes no new leader.
LEMMA OnlyLeadLeads ==
  ASSUME TypeOK, [Next]_vars, \A t \in Threads : ~Lead(t)
  PROVE  NoNewLeader
<1> USE DEF TypeOK, NoNewLeader, journal, ledger, process, server, joins, threads,
      LeaderSteps
<1>1. CASE UNCHANGED <<pc, idx>>
  BY <1>1
<1>2. CASE \E t \in Threads, i \in Indexes, c \in Contents : Submit(t, i, c)
  BY <1>2 DEF Submit, Goto, Reply
<1>3. CASE \E t \in Threads : ThreadStep(t)
  <2> PICK t \in Threads : ThreadStep(t)
    BY <1>3
  <2>1. CASE Finish(t)
    BY <2>1 DEF Finish, Goto, Forget
  <2>2. CASE Enter(t) \/ Answer(t)
    BY <2>2 DEF Enter, Answer, Goto, Reply
  <2>3. CASE ~Finish(t) /\ ~Enter(t) /\ ~Answer(t)
    <3>1. /\ pc[t] \in LeaderSteps /\ UNCHANGED idx
          /\ \E s : pc' = [pc EXCEPT ![t] = s]
      BY <2>3 DEF ThreadStep, Begin, FailEarly, Refuse, Return,
         ReturnAnswer, StopAsking, FailLate, Leave, Goto, Reply
    <3> QED BY <3>1
  <2> QED BY <2>1, <2>2, <2>3
<1>4. CASE \E j \in Joiners : CloseFrontier(j) \/ JoinStep(j)
  BY <1>1, <1>4 DEF CloseFrontier, JoinStep, RequestCancel, Joined, JoinTimesOut,
     Reconcile, AbortReconcile
<1>5. CASE ProcessStep
  <2>1. ASSUME NEW S, Forget(S) PROVE NoNewLeader
    BY <2>1 DEF Forget
  <2> QED
    BY <1>1, <1>5, <2>1 DEF ProcessStep, OwnerAnswers, Launch, ExitFrame,
       BeginShutdown, JoinsDone, Interrupt, Crash, Restart
<1> QED BY <1>1, <1>2, <1>3, <1>4, <1>5 DEF Next, ProcessStep, vars

\* Indexes are used up for good, and only Begin opens a call.
LEMMA LedgerSteps ==
  ASSUME IInv, [Next]_vars
  PROVE  /\ UsedStays
         /\ \/ NothingOpens
            \/ \E t \in Threads :
                 /\ pc[t] = "leading" /\ UNCHANGED idx
                 /\ \A i \in Indexes : Pending(i)' => Pending(i) \/ i = idx[t]
<1> USE DEF IInv, TypeOK, UsedStays, NothingOpens, Unused, Pending, Exists, Completed
<1>1. CASE UNCHANGED ledger
  BY <1>1 DEF ledger
<1>2. ASSUME NEW t \in Threads, Begin(t)
      PROVE  /\ UsedStays
             /\ pc[t] = "leading" /\ UNCHANGED idx
             /\ \A i \in Indexes : Pending(i)' => Pending(i) \/ i = idx[t]
  <2>1. con[t] # None
    BY <1>2, ConstantsAssumption DEF ConstantsAssumption, Begin, CarriesCall
  <2> QED BY <1>2, <2>1 DEF Begin
<1>3. ASSUME NEW t \in Threads, Refuse(t)
      PROVE  UsedStays /\ NothingOpens
  <2>1. con[t] # None
    BY <1>3, ConstantsAssumption DEF ConstantsAssumption, Refuse, CarriesCall
  <2> QED BY <1>3, <2>1 DEF Refuse
<1>4. ASSUME NEW t \in Threads, NEW r \in Results, Return(t, r) \/ ReturnAnswer(t, r)
      PROVE  UsedStays /\ NothingOpens
  <2>1. r # None
    BY ConstantsAssumption DEF ConstantsAssumption, Responses
  <2> QED BY <1>4, <2>1 DEF Return, ReturnAnswer, AppendReturn
<1>5. ASSUME NEW t \in Threads, StopAsking(t)
      PROVE  UsedStays /\ NothingOpens
  <2>1. "frame_terminating" # None
    BY ConstantsAssumption DEF ConstantsAssumption, Responses, Failures
  <2> QED BY <1>5, <2>1 DEF StopAsking
<1>6. ASSUME NEW j \in Joiners, NEW i \in Indexes, NEW c \in Contents, Reconcile(j, i, c)
      PROVE  UsedStays /\ NothingOpens
  <2>1. c # None /\ verdict[j] # None
    BY <1>6, ConstantsAssumption DEF ConstantsAssumption, Reconcile, HasVerdict, Responses
  <2> QED BY <1>6, <2>1 DEF Reconcile
<1>7. CASE ProcessStep
  BY <1>1, <1>7 DEF ProcessStep, OwnerAnswers, Launch, ExitFrame, BeginShutdown,
     JoinsDone, Interrupt, Crash, Restart, journal
<1>8. CASE \E t \in Threads, i \in Indexes, c \in Contents : Submit(t, i, c)
  BY <1>1, <1>8 DEF Submit, journal
<1>9. CASE \E t \in Threads : Enter(t) \/ Answer(t) \/ Lead(t) \/ FailEarly(t)
                                \/ FailLate(t) \/ Leave(t) \/ Finish(t)
  BY <1>1, <1>9 DEF Enter, Answer, Lead, FailEarly, FailLate, Leave, Finish, journal
<1>10. CASE \E j \in Joiners : \/ CloseFrontier(j) \/ RequestCancel(j) \/ Joined(j)
                               \/ JoinTimesOut(j)
                               \/ \E i \in Indexes, c \in Contents : AbortReconcile(j, i, c)
  BY <1>1, <1>10 DEF CloseFrontier, RequestCancel, Joined, JoinTimesOut,
     AbortReconcile, journal
<1>11. CASE UNCHANGED vars
  BY <1>1, <1>11 DEF vars, journal
<1> HIDE DEF IInv, TypeOK, UsedStays, NothingOpens, Unused, Pending, Exists, Completed
<1> QED
  BY <1>2, <1>3, <1>4, <1>5, <1>6, <1>7, <1>8, <1>9, <1>10, <1>11
     DEF Next, ProcessStep, ThreadStep, JoinStep

\* A call that takes the lead finds no leader and no other open call.
LEMMA LeadIsAlone ==
  ASSUME IInv, NEW t \in Threads, Lead(t)
  PROVE  /\ \A u \in Threads : pc[u] \notin LeaderSteps
         /\ \A i \in Indexes : i # idx[t] => ~Pending(i)
         /\ idx[t] = 0 \/ ~Unused(idx[t]) \/ ~Unused(idx[t] - 1)
<1> DEFINE i == idx[t]
<1>1. i \in Indexes /\ i \in Nat /\ Indexes \subseteq Nat /\ \A u \in Threads : idx[u] \in Indexes
  BY ConstantsAssumption DEF ConstantsAssumption, Indexes, IInv, TypeOK
<1>2. /\ ~InFlight(i) /\ \A j \in Indexes : j < i => ~InFlight(j)
      /\ \A j \in Indexes : j < i => ~Pending(j)
      /\ Exists(i) \/ IsNext(i)
      /\ ~Completed(i)
  BY DEF Lead, MustWait, MayLead
<1>3. CASE Exists(i)
  <2>1. Pending(i)
    BY <1>2, <1>3 DEF Pending
  <2>2. \A j \in Indexes : j # i => ~Pending(j)
    BY <1>1, <2>1 DEF IInv, OnePending
  <2>3. \A u \in Threads : pc[u] \notin LeaderSteps
    BY <1>1, <1>2, <2>1 DEF IInv, LeadsAlone, InFlight, Leads
  <2> QED BY <1>3, <2>2, <2>3 DEF Unused
<1>4. CASE IsNext(i)
  <2>1. ASSUME NEW j \in Indexes, j # i PROVE ~Pending(j)
    <3>1. CASE j < i
      BY <1>2, <3>1
    <3>2. CASE j >= i
      BY <1>4, <3>2 DEF IsNext, Unused, Pending
    <3> QED BY <1>1, <3>1, <3>2
  <2>2. ASSUME NEW u \in Threads, pc[u] \in LeaderSteps
        PROVE  FALSE
    <3> DEFINE k == idx[u]
    <3>1. k \in Indexes /\ k \in Nat /\ i \in Nat
      BY <1>1
    <3>2. InFlight(k)
      BY <2>2 DEF InFlight, Leads
    <3>3. k # i /\ ~(k < i)
      BY <1>2, <3>1, <3>2
    <3>4. k > i /\ k # 0 /\ k - 1 >= i /\ k >= i
      <4> HIDE DEF i, k
      <4> QED BY <3>1, <3>3
    <3>5. k - 1 \in Indexes
      BY <3>1, <3>4, ConstantsAssumption DEF ConstantsAssumption, Indexes
    <3>6. Unused(k) /\ Unused(k - 1)
      BY <1>4, <3>1, <3>4, <3>5 DEF IsNext
    <3> QED BY <2>2, <3>4, <3>6 DEF IInv, LeadFollows
  <2>3. i = 0 \/ ~Unused(i - 1)
    <3>1. i > 0 => ~Unused(i - 1)
      BY <1>4 DEF IsNext
    <3> QED BY <1>1, <3>1
  <2> QED BY <2>1, <2>2, <2>3
<1> QED BY <1>2, <1>3, <1>4

\* What the other lemmas say of a step is enough for the ledger's part of
\* the invariant.
LEMMA NextLeaders ==
  ASSUME IInv, [Next]_vars
  PROVE  SingleLeader' /\ LeadsAlone' /\ LeadFollows'
<1>1. /\ \A t \in Threads : idx[t] \in Indexes
      /\ Indexes \subseteq Nat
      /\ \A i \in Indexes : i # 0 => i - 1 \in Indexes
  BY ConstantsAssumption DEF ConstantsAssumption, IInv, TypeOK, Indexes
<1>2. UsedStays
  BY LedgerSteps
<1>3. CASE \A t \in Threads : ~Lead(t)
  <2>1. NoNewLeader
    BY <1>3, OnlyLeadLeads DEF IInv
  <2>2. SingleLeader'
    BY <2>1 DEF NoNewLeader, IInv, SingleLeader
  <2>3. LeadFollows'
    BY <1>1, <1>2, <2>1 DEF NoNewLeader, IInv, LeadFollows, UsedStays
  <2>4. LeadsAlone'
    <3> SUFFICES ASSUME NEW t \in Threads, pc'[t] \in LeaderSteps,
                        NEW i \in Indexes, i # idx'[t]
                 PROVE  ~Pending(i)'
      BY DEF LeadsAlone
    <3>1. pc[t] \in LeaderSteps /\ idx'[t] = idx[t]
      BY <2>1 DEF NoNewLeader
    <3>2. ~Pending(i)
      BY <3>1 DEF IInv, LeadsAlone
    <3>3. CASE NothingOpens
      BY <3>2, <3>3 DEF NothingOpens
    <3>4. ASSUME NEW u \in Threads, pc[u] = "leading",
                 \A j \in Indexes : Pending(j)' => Pending(j) \/ j = idx[u]
          PROVE  ~Pending(i)'
      <4>1. u = t
        BY <3>1, <3>4 DEF IInv, SingleLeader, LeaderSteps
      <4> QED BY <3>1, <3>2, <3>4, <4>1
    <3> QED BY <3>3, <3>4, LedgerSteps
  <2> QED BY <2>2, <2>3, <2>4
<1>4. ASSUME NEW t \in Threads, Lead(t)
      PROVE  SingleLeader' /\ LeadsAlone' /\ LeadFollows'
  <2>1. /\ \A u \in Threads : u # t => pc'[u] \notin LeaderSteps
        /\ UNCHANGED <<idx, content, response, refused>>
    BY <1>4, LeadIsAlone DEF Lead, Goto, journal, ledger, IInv, TypeOK
  <2> QED BY <1>4, <2>1, LeadIsAlone DEF SingleLeader, LeadsAlone, LeadFollows,
             Pending, Exists, Completed, Unused
<1> QED BY <1>3, <1>4

\* Every step keeps the single open call.
LEMMA NextOnePending ==
  ASSUME IInv, [Next]_vars
  PROVE  OnePending'
<1> SUFFICES ASSUME NEW i \in Indexes, NEW j \in Indexes, Pending(i)', Pending(j)'
             PROVE  i = j
  BY DEF OnePending
<1>1. CASE NothingOpens
  BY <1>1 DEF NothingOpens, IInv, OnePending
<1>2. ASSUME NEW t \in Threads, pc[t] = "leading",
             \A k \in Indexes : Pending(k)' => Pending(k) \/ k = idx[t]
      PROVE  i = j
  BY <1>2 DEF IInv, LeadsAlone, OnePending, LeaderSteps
<1> QED BY <1>1, <1>2, LedgerSteps

-----------------------------------------------------------------------------
(* A tool-specific return is final.                                        *)

\* What a leader does before its call is completed.
EarlySteps == {"leading", "refusing", "working"}

\* A leader that has yet to return finds no result under its index.
Unreturned ==
  \A t \in Threads : pc[t] \in EarlySteps => response[idx[t]] \notin Results

\* Only a call that takes the lead comes to the steps before the return.
LEMMA EarlyStays ==
  ASSUME IInv, [Next]_vars, NEW t \in Threads, pc'[t] \in EarlySteps, ~Lead(t)
  PROVE  pc[t] \in EarlySteps /\ idx'[t] = idx[t]
<1> USE DEF IInv, TypeOK, EarlySteps, LeaderSteps, journal, ledger, process, server,
      joins, threads
<1>1. CASE UNCHANGED <<pc, idx>>
  BY <1>1
<1>2. CASE \E u \in Threads, i \in Indexes, c \in Contents : Submit(u, i, c)
  BY <1>2 DEF Submit, Goto, Reply
<1>3. CASE \E u \in Threads : ThreadStep(u)
  <2> PICK u \in Threads : ThreadStep(u)
    BY <1>3
  <2>1. CASE Finish(u)
    BY <2>1 DEF Finish, Goto, Forget
  <2>2. CASE Enter(u) \/ Answer(u) \/ Leave(u)
    BY <2>2 DEF Enter, Answer, Leave, Goto, Reply
  <2>3. CASE Lead(u)
    BY <2>3 DEF Lead, Goto
  <2>4. CASE ~Finish(u) /\ ~Enter(u) /\ ~Answer(u) /\ ~Leave(u) /\ ~Lead(u)
    <3>1. /\ pc[u] \in EarlySteps /\ UNCHANGED idx
          /\ \E s : pc' = [pc EXCEPT ![u] = s]
      BY <2>4 DEF ThreadStep, Begin, FailEarly, Refuse, Return,
         ReturnAnswer, StopAsking, FailLate, Goto, Reply
    <3> QED BY <3>1
  <2> QED BY <2>1, <2>2, <2>3, <2>4
<1>4. CASE \E j \in Joiners : CloseFrontier(j) \/ JoinStep(j)
  BY <1>1, <1>4 DEF CloseFrontier, JoinStep, RequestCancel, Joined, JoinTimesOut,
     Reconcile, AbortReconcile
<1>5. CASE ProcessStep
  <2>1. ASSUME NEW S, Forget(S) PROVE pc[t] \in EarlySteps /\ idx'[t] = idx[t]
    BY <2>1 DEF Forget
  <2> QED
    BY <1>1, <1>5, <2>1 DEF ProcessStep, OwnerAnswers, Launch, ExitFrame,
       BeginShutdown, JoinsDone, Interrupt, Crash, Restart
<1> QED BY <1>1, <1>2, <1>3, <1>4, <1>5 DEF Next, ProcessStep, vars

\* Steps that may write the ledger.
LedgerWrites ==
  \/ \E t \in Threads :
       \/ Begin(t) \/ StopAsking(t)
       \/ \E r \in Results : Return(t, r) \/ ReturnAnswer(t, r)
  \/ \E j \in Joiners, i \in Indexes, c \in Contents : Reconcile(j, i, c)

\* The other steps leave the calls as they are.
LEMMA OtherStepsDoNotWrite ==
  ASSUME [Next]_vars, ~LedgerWrites
  PROVE  UNCHANGED <<content, response>>
BY DEF Next, vars, journal, ledger, LedgerWrites, ThreadStep, JoinStep, Submit,
   Enter, Answer, Lead, FailEarly, Refuse, FailLate, Leave, Finish, OwnerAnswers,
   Launch, CloseFrontier, RequestCancel, Joined, JoinTimesOut, AbortReconcile,
   ExitFrame, BeginShutdown, JoinsDone, Interrupt, Crash, Restart

\* Failures are no results, and neither is the absence of a response.
LEMMA FailuresAreNotResults ==
  None \notin Results /\ Failures \cap Results = {}
BY ConstantsAssumption DEF ConstantsAssumption, Responses

\* A result appears under an index only by the return of its leader.
LEMMA ResultsAreReturned ==
  ASSUME IInv, [Next]_vars, NEW i \in Indexes, response'[i] \in Results
  PROVE  \/ response'[i] = response[i]
         \/ \E t \in Threads :
              pc[t] = "working" /\ idx[t] = i /\ pc'[t] = "leaving"
<1> USE DEF IInv, TypeOK
<1>1. ASSUME NEW t \in Threads, Begin(t)
      PROVE  response'[i] = response[i]
  BY <1>1, FailuresAreNotResults DEF Begin
<1>2. ASSUME NEW t \in Threads, StopAsking(t)
      PROVE  response'[i] = response[i]
  BY <1>2, FailuresAreNotResults DEF StopAsking, Failures
<1>3. ASSUME NEW t \in Threads, NEW r \in Results, Return(t, r) \/ ReturnAnswer(t, r)
      PROVE  \/ response'[i] = response[i]
             \/ pc[t] = "working" /\ idx[t] = i /\ pc'[t] = "leaving"
  BY <1>3 DEF Return, ReturnAnswer, AppendReturn, Reply, Goto
<1>4. ASSUME NEW j \in Joiners, NEW k \in Indexes, NEW c \in Contents, Reconcile(j, k, c)
      PROVE  response'[i] = response[i]
  BY <1>4, FailuresAreNotResults DEF Reconcile, HasVerdict
<1> QED BY <1>1, <1>2, <1>3, <1>4, OtherStepsDoNotWrite DEF LedgerWrites

\* Every step keeps Unreturned.
LEMMA NextUnreturned ==
  ASSUME IInv, Unreturned, [Next]_vars
  PROVE  Unreturned'
<1> SUFFICES ASSUME NEW t \in Threads, pc'[t] \in EarlySteps
             PROVE  response'[idx'[t]] \notin Results
  BY DEF Unreturned
<1>1. CASE Lead(t)
  <2>1. response'[idx'[t]] = None
    BY <1>1 DEF Lead, journal, ledger, Completed
  <2> QED BY <2>1, FailuresAreNotResults
<1>2. CASE ~Lead(t)
  <2>1. pc[t] \in EarlySteps /\ idx'[t] = idx[t] /\ idx[t] \in Indexes
    BY <1>2, EarlyStays DEF IInv, TypeOK
  <2>2. response[idx[t]] \notin Results
    BY <2>1 DEF Unreturned
  <2>3. ASSUME NEW u \in Threads, pc[u] = "working", pc'[u] = "leaving"
        PROVE  FALSE
    <3>1. u = t
      BY <2>1, <2>3 DEF IInv, SingleLeader, EarlySteps, LeaderSteps
    <3> QED BY <2>3, <3>1 DEF EarlySteps
  <2> QED BY <2>1, <2>2, <2>3, ResultsAreReturned
<1> QED BY <1>1, <1>2

\* No step touches a call that has a tool-specific return.
LEMMA NextKeepsResults ==
  ASSUME IInv, Unreturned, [Next]_vars, NEW i \in Indexes, response[i] \in Results
  PROVE  response'[i] = response[i] /\ content'[i] = content[i]
<1> USE DEF IInv, TypeOK
<1>1. Completed(i)
  BY FailuresAreNotResults DEF Completed
<1>2. ASSUME NEW t \in Threads, Begin(t) \/ StopAsking(t)
      PROVE  response'[i] = response[i] /\ content'[i] = content[i]
  <2>1. idx[t] # i
    BY <1>2 DEF Begin, StopAsking, Unreturned, EarlySteps
  <2> QED BY <1>2, <2>1 DEF Begin, StopAsking
<1>3. ASSUME NEW t \in Threads, NEW r \in Results, Return(t, r) \/ ReturnAnswer(t, r)
      PROVE  response'[i] = response[i] /\ content'[i] = content[i]
  BY <1>1, <1>3 DEF Return, ReturnAnswer, AppendReturn
<1>4. ASSUME NEW j \in Joiners, NEW k \in Indexes, NEW c \in Contents, Reconcile(j, k, c)
      PROVE  response'[i] = response[i] /\ content'[i] = content[i]
  BY <1>1, <1>4 DEF Reconcile, Settled
<1> QED BY <1>2, <1>3, <1>4, OtherStepsDoNotWrite DEF LedgerWrites

-----------------------------------------------------------------------------
(* The theorems.                                                           *)

\* IInv is an inductive invariant of the frame's calls.
THEOREM IInvHolds == Spec => []IInv
<1>1. IInv /\ [Next]_vars => IInv'
  BY NextTypes, NextCarriesCall, NextHasVerdict, NextLeaders, NextOnePending DEF IInv
<1> QED BY <1>1, InitIInv, PTL DEF Spec

\* The journal, the locks' sets and the threads' locals keep their types.
THEOREM TypesHold == Spec => []TypeOK
BY IInvHolds, PTL DEF IInv

\* handle_tool is single-flight for the whole frame: its condition variable,
\* its set of live calls and the journal admit one leader at a time, although
\* each of the three only knows a part of the story.
THEOREM SingleLeaderHolds == Spec => []SingleLeader
BY IInvHolds, PTL DEF IInv

\* The journal of a frame never shows two open calls, across reconciliation,
\* time-outs, crashes and restarts.
THEOREM OnePendingHolds == Spec => []OnePending
BY IInvHolds, PTL DEF IInv

\* A tool-specific return, once journalled, is never replaced or reopened by
\* reconciliation, by a late worker or by a later attempt, also when joins
\* time out.
THEOREM ToolReturnIsFinalHolds == Spec => ToolReturnIsFinal
<1>1. Init => Unreturned
  BY DEF Init, Unreturned, EarlySteps
<1>2. IInv /\ Unreturned /\ [Next]_vars => Unreturned'
  BY NextUnreturned
<1>3. IInv /\ Unreturned /\ [Next]_vars =>
        [\A i \in Indexes : response[i] \in Results =>
           response'[i] = response[i] /\ content'[i] = content[i]]_vars
  BY NextKeepsResults
<1> QED BY <1>1, <1>2, <1>3, IInvHolds, PTL DEF Spec, ToolReturnIsFinal
-----------------------------------------------------------------------------
(* A frame whose joins end in time.                                        *)

\* What a thread that leads may count on: its call is open and its own, or the
\* ledger may take it up.
Owed(t)     == Pending(idx[t]) /\ content[idx[t]] = con[t]
MayBegin(i) == Ledger!MayBegin(i)

\* Joiner j has closed the frame to new calls; its join is over.
Shut(j) == stage[j] \in {"natural", "cancelled", "reconciling", "joined", "stopped"}
Over(j) == stage[j] \in {"reconciling", "joined", "stopped"}

\* Every live call is in the join set of a registered frame.
Belongs == \A t \in Threads : pc[t] # "idle" => tracked[t] /\ active

\* A frame that is joined takes no new call.
ClosedFirst == \A j \in Joiners : Shut(j) => closing \/ ~active

\* Behind a join no call of the frame is alive.
Stilled == \A j \in Joiners : Over(j) => \A t \in Threads : pc[t] \in {"idle", "done"}

\* A leader is entitled to what it is about to do.
Entitled ==
  \A t \in Threads :
    /\ pc[t] = "leading" => IF replaying[t] THEN Owed(t) ELSE MayBegin(idx[t])
    /\ pc[t] = "refusing" => MayBegin(idx[t])
    /\ pc[t] = "working" => Owed(t)

\* Only calls have responses.
Responded == \A i \in Indexes : Completed(i) => Exists(i)

\* The join of a launch reconciles all calls that are not settled.
Snapshot ==
  stage["launch"] = "reconciling" =>
    \A t \in Threads : tracked[t] /\ reply[t] # "terminating" =>
      <<idx[t], con[t]>> \in todo["launch"] \/ Settled(idx[t])

\* The main thread waits for the launch before its last event.
Waited == stage["shutdown"] = "stopped" => LaunchIsOver

\* The inductive invariant without time-outs.
JInv ==
  /\ Belongs /\ ClosedFirst /\ Stilled /\ Entitled /\ Responded /\ ReplyIsDurable
  /\ Snapshot /\ Waited

\* A step of a request is about its own thread.
LEMMA ThreadIsAlone ==
  ASSUME TypeOK, NEW u \in Threads,
         ThreadStep(u) \/ \E i \in Indexes, c \in Contents : Submit(u, i, c)
  PROVE  /\ \A t \in Threads \ {u} :
              /\ pc'[t] = pc[t] /\ idx'[t] = idx[t] /\ con'[t] = con[t]
              /\ reply'[t] = reply[t] /\ replaying'[t] = replaying[t]
              /\ tracked'[t] = tracked[t]
         /\ UNCHANGED <<active, closing, stage, todo, verdict, outcome, attempt>>
<1> USE DEF TypeOK, journal, server, joins, Goto, Reply
<1>1. CASE \E i \in Indexes, c \in Contents : Submit(u, i, c)
  BY <1>1 DEF Submit
<1>2. CASE Enter(u) \/ Answer(u) \/ Lead(u)
  BY <1>2 DEF Enter, Answer, Lead
<1>3. CASE Begin(u) \/ FailEarly(u) \/ Refuse(u) \/ FailLate(u) \/ Leave(u)
  BY <1>3 DEF Begin, FailEarly, Refuse, FailLate, Leave
<1>4. CASE StopAsking(u) \/ \E r \in Results : Return(u, r) \/ ReturnAnswer(u, r)
  BY <1>4 DEF StopAsking, Return, ReturnAnswer
<1>5. CASE Finish(u)
  BY <1>5 DEF Finish, Forget
<1> QED BY <1>1, <1>2, <1>3, <1>4, <1>5 DEF ThreadStep

\* The other steps leave a thread where it is, or forget it.
EngineStep == ProcessStep \/ \E j \in Joiners : CloseFrontier(j) \/ JoinStep(j)

LEMMA EngineForgets ==
  ASSUME TypeOK, EngineStep, NEW t \in Threads
  PROVE  \/ pc'[t] = "idle"
         \/ /\ pc'[t] = pc[t] /\ idx'[t] = idx[t] /\ con'[t] = con[t]
            /\ reply'[t] = reply[t] /\ replaying'[t] = replaying[t]
<1> USE DEF threads
<1>1. CASE \E j \in Joiners : CloseFrontier(j) \/ JoinStep(j)
  <2>1. UNCHANGED <<pc, idx, con, reply, replaying>>
    BY <1>1 DEF JoinStep, CloseFrontier, RequestCancel, Joined, JoinTimesOut, Reconcile,
      AbortReconcile
  <2> QED BY <2>1
<1>2. CASE Crash \/ \E o \in {"ok", "failed"} : ExitFrame(o)
  BY <1>2 DEF Crash, ExitFrame, Forget
<1>3. CASE ProcessStep /\ ~Crash /\ \A o \in {"ok", "failed"} : ~ExitFrame(o)
  BY <1>3 DEF ProcessStep, OwnerAnswers, Launch, BeginShutdown, JoinsDone, Interrupt,
    Restart
<1> QED BY <1>1, <1>2, <1>3 DEF EngineStep

\* The parts of Next.
LEMMA StepsOfNext ==
  ASSUME Next
  PROVE  \/ EngineStep
         \/ \E t \in Threads :
              ThreadStep(t) \/ \E i \in Indexes, c \in Contents : Submit(t, i, c)
BY DEF Next, EngineStep, ProcessStep

\* Behind a join the threads have nothing left to do.
LEMMA StillThreads ==
  ASSUME TypeOK, Stilled, NEW j \in Joiners, Over(j), NEW t \in Threads
  PROVE  ~ThreadStep(t)
<1>1. pc[t] \in {"idle", "done"}
  BY DEF Stilled
<1> QED BY <1>1 DEF ThreadStep, Enter, Answer, Lead, Begin, FailEarly, Refuse, Return,
    ReturnAnswer, StopAsking, FailLate, Leave, Finish

\* The steps of requests: a closed frame takes no new call.
LEMMA RequestPlaces ==
  ASSUME TypeOK, TypeOK', JInv, NEW u \in Threads,
         ThreadStep(u) \/ \E i \in Indexes, c \in Contents : Submit(u, i, c)
  PROVE  Belongs' /\ ClosedFirst' /\ Stilled' /\ Waited'
<1>1. /\ Belongs /\ ClosedFirst /\ Stilled /\ Waited
  BY DEF JInv
<1>2. /\ \A t \in Threads \ {u} : pc'[t] = pc[t] /\ tracked'[t] = tracked[t]
      /\ UNCHANGED <<active, closing, stage>>
  BY ThreadIsAlone
<1>3. tracked'[u] /\ active'
  <2>1. CASE \E i \in Indexes, c \in Contents : Submit(u, i, c)
    BY <1>2, <2>1 DEF Submit, TypeOK
  <2>2. CASE ThreadStep(u)
    <3>1. pc[u] # "idle"
      BY <2>2 DEF ThreadStep, Enter, Answer, Lead, Begin, FailEarly, Refuse, Return,
        ReturnAnswer, StopAsking, FailLate, Leave, Finish, LeaderSteps
    <3>2. tracked' = tracked
      BY <2>2 DEF ThreadStep, Enter, Answer, Lead, Begin, FailEarly, Refuse, Return,
        ReturnAnswer, StopAsking, FailLate, Leave, Finish
    <3> QED BY <1>1, <1>2, <3>1, <3>2 DEF Belongs
  <2> QED BY <2>1, <2>2
<1>4. Belongs'
  BY <1>1, <1>2, <1>3 DEF Belongs
<1>5. ClosedFirst' /\ Waited'
  BY <1>1, <1>2 DEF ClosedFirst, Waited, Shut, LaunchIsOver
<1>6. Stilled'
  <2> SUFFICES ASSUME NEW j \in Joiners, Over(j)', NEW t \in Threads
               PROVE  pc'[t] \in {"idle", "done"}
    BY DEF Stilled
  <2>1. Over(j) /\ Shut(j)
    BY <1>2 DEF Over, Shut
  <2>2. pc[t] \in {"idle", "done"}
    BY <1>1, <2>1 DEF Stilled
  <2>3. \E i \in Indexes, c \in Contents : Submit(u, i, c)
    BY <1>1, <2>1, StillThreads
  <2>4. closing /\ active
    BY <1>1, <2>1, <2>3 DEF ClosedFirst, Submit
  <2>5. pc'[u] = "done"
    BY <2>3, <2>4 DEF Submit, Reply, Goto, TypeOK
  <2> QED BY <1>2, <2>2, <2>5
<1> QED BY <1>4, <1>5, <1>6

\* The steps of joins and of the process.
LEMMA EnginePlaces ==
  ASSUME ~JoinMayTimeOut, TypeOK, TypeOK', JInv, EngineStep
  PROVE  Belongs' /\ ClosedFirst' /\ Stilled' /\ Waited'
<1> USE DEF threads, server, joins
<1>1. /\ Belongs /\ ClosedFirst /\ Stilled /\ Waited
  BY DEF JInv
<1>2. ASSUME NEW j \in Joiners, CloseFrontier(j)
      PROVE  Belongs' /\ ClosedFirst' /\ Stilled' /\ Waited'
  <2>1. /\ UNCHANGED <<pc, tracked, active>> /\ closing'
        /\ stage' = [stage EXCEPT ![j] = "natural"]
        /\ stage[j] \in {"running", "stopping"}
    BY <1>2 DEF CloseFrontier
  <2>2. \A k \in Joiners : stage'[k] = IF k = j THEN "natural" ELSE stage[k]
    BY <2>1 DEF TypeOK
  <2>3. Belongs' /\ ClosedFirst' /\ Stilled'
    BY <1>1, <2>1, <2>2 DEF Belongs, ClosedFirst, Stilled, Over
  <2>4. Waited'
    BY <1>1, <2>1, <2>2 DEF Waited, LaunchIsOver, Joiners
  <2> QED BY <2>3, <2>4
<1>3. ASSUME NEW j \in Joiners, JoinStep(j)
      PROVE  Belongs' /\ ClosedFirst' /\ Stilled' /\ Waited'
  <2>1. UNCHANGED <<pc, tracked, active, closing>>
    BY <1>3 DEF JoinStep, RequestCancel, Joined, JoinTimesOut, Reconcile, AbortReconcile
  <2>2. Shut(j) /\ stage[j] \notin {"joined", "stopped"}
    BY <1>3 DEF JoinStep, RequestCancel, Joined, JoinTimesOut, Reconcile, AbortReconcile,
      Shut
  <2>3. \A k \in Joiners \ {j} : stage'[k] = stage[k]
    BY <1>3 DEF JoinStep, RequestCancel, Joined, JoinTimesOut, Reconcile,
      AbortReconcile, TypeOK
  <2>4. stage'[j] \in {"cancelled", "reconciling", "unwound", "joined"}
    BY <1>3 DEF JoinStep, RequestCancel, Joined, JoinTimesOut, Reconcile,
      AbortReconcile, TypeOK
  <2>5. Belongs' /\ ClosedFirst'
    BY <1>1, <2>1, <2>2, <2>3 DEF Belongs, ClosedFirst, Shut
  <2>6. Over(j)' => Over(j) \/ Unfinished = {}
    BY <1>3 DEF JoinStep, RequestCancel, Joined, JoinTimesOut, Reconcile,
      AbortReconcile, TypeOK, Over
  <2>7. Unfinished = {} => \A t \in Threads : pc[t] \in {"idle", "done"}
    BY <1>1 DEF Unfinished, Belongs
  <2>8. Stilled'
    BY <1>1, <2>1, <2>3, <2>6, <2>7 DEF Stilled, Over
  <2>9. Waited'
    BY <1>1, <2>2, <2>3, <2>4 DEF Waited, LaunchIsOver, Joiners, Shut
  <2> QED BY <2>5, <2>8, <2>9
<1>4. CASE \E i \in Indexes : OwnerAnswers(i)
  BY <1>1, <1>4 DEF OwnerAnswers, Belongs, ClosedFirst, Stilled, Waited, Over, Shut,
    LaunchIsOver
<1>5. CASE Restart
  BY <1>1, <1>5 DEF Restart, Belongs, ClosedFirst, Stilled, Waited, Over, Shut,
    LaunchIsOver
<1>6. CASE Launch
  <2>1. /\ UNCHANGED <<pc, tracked>> /\ active'
        /\ stage["launch"] = "idle" /\ stage["shutdown"] = "idle"
        /\ stage' = [stage EXCEPT !["launch"] = "running"]
    BY <1>6 DEF Launch
  <2>2. stage'["launch"] = "running" /\ stage'["shutdown"] = "idle"
    BY <2>1 DEF TypeOK, Joiners
  <2> QED BY <1>1, <2>1, <2>2 DEF Belongs, ClosedFirst, Stilled, Waited, Over, Shut, Joiners
<1>7. CASE Crash
  <2>1. \A t \in Threads : pc'[t] = "idle"
    BY <1>7 DEF Crash, Forget
  <2>2. \A j \in Joiners : stage'[j] = "idle"
    BY <1>7 DEF Crash
  <2> QED BY <2>1, <2>2 DEF Belongs, ClosedFirst, Stilled, Waited, Over, Shut, Joiners
<1>8. CASE \E o \in {"ok", "failed"} : ExitFrame(o)
  <2>1. /\ stage["launch"] = "reconciling" /\ ~active'
        /\ stage' = [stage EXCEPT !["launch"] = "idle"]
    BY <1>8 DEF ExitFrame
  <2>2. \A t \in Threads : pc[t] \in {"idle", "done"}
    BY <1>1, <2>1 DEF Stilled, Over, Joiners
  <2>3. \A t \in Threads : pc'[t] = "idle"
    BY <1>8, <2>2 DEF ExitFrame, Forget
  <2>4. stage'["launch"] = "idle" /\ stage'["shutdown"] = stage["shutdown"]
    BY <2>1 DEF TypeOK, Joiners
  <2> QED BY <2>1, <2>3, <2>4 DEF Belongs, ClosedFirst, Stilled, Waited, LaunchIsOver
<1>9. CASE BeginShutdown
  <2> DEFINE known == active \/ \E t \in Threads : pc[t] \in LeaderSteps
  <2>1. PICK unwinds \in BOOLEAN :
          stage' = [stage EXCEPT
            !["shutdown"] = IF known THEN "stopping" ELSE "joined",
            !["launch"] = IF unwinds /\ @ # "idle" THEN "unwound" ELSE @]
    BY <1>9 DEF BeginShutdown
  <2>2. UNCHANGED <<pc, tracked, active, closing>> /\ stage["shutdown"] = "idle"
    BY <1>9 DEF BeginShutdown
  <2>3. /\ stage'["shutdown"] \in {"stopping", "joined"}
        /\ stage'["launch"] \in {stage["launch"], "unwound"}
        /\ stage'["shutdown"] = "joined" => ~active
    <3> HIDE DEF known
    <3>1. /\ stage'["shutdown"] = IF known THEN "stopping" ELSE "joined"
          /\ stage'["launch"] \in {stage["launch"], "unwound"}
      BY <2>1 DEF TypeOK, Joiners
    <3> QED BY <3>1 DEF known
  <2>4. ~active => \A t \in Threads : pc[t] = "idle"
    BY <1>1 DEF Belongs
  <2> QED BY <1>1, <2>2, <2>3, <2>4
       DEF Belongs, ClosedFirst, Stilled, Waited, Over, Shut, Joiners
<1>10. CASE JoinsDone
  <2>1. /\ UNCHANGED <<pc, tracked, active, closing>> /\ stage["shutdown"] = "reconciling"
        /\ stage' = [stage EXCEPT !["shutdown"] = "joined"]
    BY <1>10 DEF JoinsDone
  <2>2. stage'["shutdown"] = "joined" /\ stage'["launch"] = stage["launch"]
    BY <2>1 DEF TypeOK, Joiners
  <2> QED BY <1>1, <2>1, <2>2
       DEF Belongs, ClosedFirst, Stilled, Waited, Over, Shut, Joiners
<1>11. CASE Interrupt
  <2>1. /\ UNCHANGED <<pc, tracked, active, closing>> /\ stage["shutdown"] = "joined"
        /\ stage' = [stage EXCEPT !["shutdown"] = "stopped"] /\ LaunchIsOver
    BY <1>11 DEF Interrupt
  <2>2. stage'["shutdown"] = "stopped" /\ stage'["launch"] = stage["launch"]
    BY <2>1 DEF TypeOK, Joiners
  <2> QED BY <1>1, <2>1, <2>2
       DEF Belongs, ClosedFirst, Stilled, Waited, Over, Shut, Joiners, LaunchIsOver
<1> QED
  BY <1>2, <1>3, <1>4, <1>5, <1>6, <1>7, <1>8, <1>9, <1>10, <1>11
     DEF EngineStep, ProcessStep

-----------------------------------------------------------------------------
(* What a step writes in the ledger.                                       *)

\* Contents and responses are not None; what is no response of the journal
\* is none of its results.
LEMMA Values ==
  /\ None \notin Contents /\ None \notin Responses
  /\ Failures \subseteq Responses /\ Results \subseteq Responses
  /\ {"error", "terminating", "call_refused"} \cap Responses = {}
BY ConstantsAssumption DEF ConstantsAssumption, Responses, Failures, Errors

\* A call that begins is replayed, or takes effect as the ledger's next one.
LEMMA BeginOpens ==
  ASSUME IInv, JInv, NEW t \in Threads, Begin(t)
  PROVE  /\ UNCHANGED <<response, refused>>
         /\ \/ replaying[t] /\ UNCHANGED content
            \/ /\ ~replaying[t] /\ Ledger!Open(idx[t])
               /\ content' = [content EXCEPT ![idx[t]] = con[t]]
<1>1. idx[t] \in Indexes /\ con[t] \in Contents
  BY DEF IInv, TypeOK, CarriesCall, Begin
<1>2. CASE replaying[t]
  BY <1>2 DEF Begin
<1>3. CASE ~replaying[t]
  <2>1. MayBegin(idx[t])
    BY <1>3 DEF JInv, Entitled, Begin
  <2>2. response[idx[t]] = None
    <3>1. idx[t] >= idx[t]
      BY <1>1, ConstantsAssumption DEF ConstantsAssumption, Indexes
    <3>2. ~Exists(idx[t])
      BY <1>1, <2>1, <3>1
         DEF MayBegin, Ledger!MayBegin, Ledger!Unused, Ledger!Indexes, Indexes, Exists
    <3> QED BY <1>1, <3>2 DEF JInv, Responded, Completed
  <2>3. response' = response
    BY <1>3, <2>2 DEF Begin, IInv, TypeOK
  <2>4. content' = [content EXCEPT ![idx[t]] = con[t]] /\ UNCHANGED refused
    BY <1>3 DEF Begin
  <2> QED BY <1>1, <1>3, <2>1, <2>3, <2>4 DEF Ledger!Open, MayBegin
<1> QED BY <1>2, <1>3

\* A refusal is the ledger's next entry, and the only one under its index.
LEMMA RefuseRefuses ==
  ASSUME IInv, JInv, NEW t \in Threads, Refuse(t)
  PROVE  /\ Ledger!Refuse(idx[t]) /\ UNCHANGED <<content, response>>
         /\ refused' = [refused EXCEPT ![idx[t]] = con[t]]
         /\ reply' = [reply EXCEPT ![t] = "call_refused"]
<1>1. idx[t] \in Indexes /\ con[t] \in Contents /\ MayBegin(idx[t])
  BY DEF IInv, TypeOK, CarriesCall, Refuse, JInv, Entitled
<1>2. refused[idx[t]] = None
  <2>1. idx[t] >= idx[t]
    BY <1>1, ConstantsAssumption DEF ConstantsAssumption, Indexes
  <2> QED
    BY <1>1, <2>1 DEF MayBegin, Ledger!MayBegin, Ledger!Unused, Ledger!Indexes, Indexes
<1> QED BY <1>1, <1>2 DEF Refuse, Reply, Ledger!Refuse, MayBegin

\* What a tool body may append.
Returns(t) ==
  StopAsking(t) \/ \E r \in Results : Return(t, r) \/ ReturnAnswer(t, r)

\* A return closes the open call of its leader.
LEMMA ReturnCloses ==
  ASSUME IInv, JInv, NEW t \in Threads, Returns(t)
  PROVE  /\ Ledger!Close(idx[t]) /\ UNCHANGED <<content, refused>>
         /\ \E r \in Responses : /\ response' = [response EXCEPT ![idx[t]] = r]
                                 /\ reply' = [reply EXCEPT ![t] = r]
<1>1. pc[t] = "working"
  BY DEF Returns, StopAsking, Return, ReturnAnswer
<1>2. idx[t] \in Indexes /\ Pending(idx[t])
  BY <1>1 DEF IInv, TypeOK, JInv, Entitled, Owed
<1>3. UNCHANGED <<content, refused>>
  BY DEF Returns, StopAsking, Return, ReturnAnswer
<1>4. PICK r \in Responses : /\ response' = [response EXCEPT ![idx[t]] = r]
                             /\ reply' = [reply EXCEPT ![t] = r]
  BY <1>2, Values DEF Returns, StopAsking, Return, ReturnAnswer, AppendReturn, Pending, Reply,
    Failures
<1>5. Ledger!Pending(idx[t])
  BY <1>2 DEF Ledger!Pending, Pending, Exists, Completed
<1> QED BY <1>3, <1>4, <1>5 DEF Ledger!Close

\* A reconciled call was settled, or is recorded as failed, or is closed.
LEMMA ReconcileCloses ==
  ASSUME IInv, JInv, NEW j \in Joiners, NEW i \in Indexes, NEW c \in Contents,
         Reconcile(j, i, c)
  PROVE  /\ UNCHANGED refused /\ Settled(i)'
         /\ \/ UNCHANGED <<content, response>>
            \/ Ledger!Fail(i) \/ Ledger!Close(i)
<1>1. verdict[j] \in Responses /\ verdict[j] # None
  BY Values DEF Reconcile, IInv, HasVerdict
<1>2. UNCHANGED refused
  BY DEF Reconcile
<1>3. CASE Settled(i)
  BY <1>2, <1>3 DEF Reconcile, Settled, Completed
<1>4. CASE ~Settled(i)
  <2>1. /\ content' = [content EXCEPT ![i] = c]
        /\ response' = [response EXCEPT ![i] = verdict[j]]
    BY <1>4 DEF Reconcile
  <2>2. refused[i] = None /\ response[i] = None
    BY <1>4 DEF Settled, Completed
  <2>3. Settled(i)'
    BY <1>1, <2>1 DEF Settled, Completed, IInv, TypeOK
  <2>4. CASE content[i] = None
    <3>1. Ledger!Unused(i)
      BY <2>2, <2>4 DEF Ledger!Unused
    <3> QED BY <1>1, <1>2, <2>1, <2>3, <3>1 DEF Ledger!Fail
  <2>5. CASE content[i] # None
    <3>1. content[i] = c
      BY <2>2, <2>5 DEF Reconcile, ReconcileConflict, Pending, Exists, Completed
    <3>2. content' = content
      BY <2>1, <3>1 DEF IInv, TypeOK
    <3>3. Ledger!Pending(i)
      BY <2>2, <2>5 DEF Ledger!Pending
    <3> QED BY <1>1, <1>2, <2>1, <2>3, <3>2, <3>3 DEF Ledger!Close
  <2> QED BY <2>4, <2>5
<1> QED BY <1>3, <1>4

\* The steps of a thread that write the ledger, and of a joiner.
Writes(t)   == Begin(t) \/ Refuse(t) \/ Returns(t)
Reconciles  == \E j \in Joiners, i \in Indexes, c \in Contents : Reconcile(j, i, c)

\* Nobody else does.
LEMMA OthersKeepLedger ==
  ASSUME \/ EngineStep /\ ~Reconciles
         \/ \E t \in Threads :
              /\ ThreadStep(t) \/ \E i \in Indexes, c \in Contents : Submit(t, i, c)
              /\ ~Writes(t)
  PROVE  UNCHANGED ledger
<1>1. ASSUME NEW t \in Threads, ~Writes(t),
             ThreadStep(t) \/ \E i \in Indexes, c \in Contents : Submit(t, i, c)
      PROVE  UNCHANGED ledger
  BY <1>1 DEF Writes, Returns, ThreadStep, Submit, Enter, Answer, Lead, FailEarly, FailLate,
    Leave, Finish, journal
<1>2. ASSUME EngineStep, ~Reconciles
      PROVE  UNCHANGED ledger
  BY <1>2 DEF Reconciles, EngineStep, ProcessStep, JoinStep, CloseFrontier, RequestCancel,
    Joined, JoinTimesOut, AbortReconcile, OwnerAnswers, Launch, ExitFrame, BeginShutdown,
    JoinsDone, Interrupt, Crash, Restart, journal
<1> QED BY <1>1, <1>2

\* Every step is a step of the ledger.
LEMMA NextIsLedgerStep ==
  ASSUME IInv, JInv, [Next]_vars
  PROVE  [Ledger!Next]_(Ledger!ledger)
<1> USE DEF Ledger!ledger, ledger
<1>1. \A i \in Indexes : i \in Ledger!Indexes
  BY DEF Indexes, Ledger!Indexes
<1>2. CASE UNCHANGED vars
  BY <1>2 DEF vars, journal
<1>3. ASSUME NEW t \in Threads,
             ThreadStep(t) \/ \E i \in Indexes, c \in Contents : Submit(t, i, c)
      PROVE  [Ledger!Next]_(Ledger!ledger)
  <2>1. idx[t] \in Ledger!Indexes
    BY <1>1 DEF IInv, TypeOK
  <2>2. CASE Begin(t)
    BY <2>1, <2>2, BeginOpens DEF Ledger!Next
  <2>3. CASE Refuse(t)
    BY <2>1, <2>3, RefuseRefuses DEF Ledger!Next
  <2>4. CASE Returns(t)
    BY <2>1, <2>4, ReturnCloses DEF Ledger!Next
  <2>5. CASE ~Writes(t)
    BY <1>3, <2>5, OthersKeepLedger
  <2> QED BY <2>2, <2>3, <2>4, <2>5 DEF Writes
<1>4. CASE EngineStep
  <2>1. CASE ~Reconciles
    BY <1>4, <2>1, OthersKeepLedger
  <2>2. CASE Reconciles
    <3> PICK j \in Joiners, i \in Indexes, c \in Contents : Reconcile(j, i, c)
      BY <2>2 DEF Reconciles
    <3>1. i \in Ledger!Indexes
      BY <1>1
    <3> QED BY <3>1, ReconcileCloses DEF Ledger!Next
  <2> QED BY <2>1, <2>2
<1> QED BY <1>2, <1>3, <1>4, StepsOfNext

\* An entry of the ledger that is closed or refused never changes.
LEMMA EntriesStay ==
  ASSUME IInv, Responded, [Ledger!Next]_(Ledger!ledger), NEW i \in Indexes
  PROVE  /\ Completed(i) => response'[i] = response[i]
         /\ refused[i] # None => refused'[i] = refused[i]
         /\ Settled(i) => Settled(i)'
         /\ (Completed(i) => Exists(i))'
<1> USE DEF Completed, Exists, Settled
<1>1. response[i] # None => content[i] # None
  BY DEF Responded
<1>2. CASE UNCHANGED Ledger!ledger
  BY <1>1, <1>2 DEF Ledger!ledger
<1>3. ASSUME NEW k \in Indexes, Ledger!Open(k)
      PROVE  /\ UNCHANGED <<response, refused>>
             /\ content[i] # None => content'[i] # None
  BY <1>3, Values DEF Ledger!Open, IInv, TypeOK
<1>4. ASSUME NEW k \in Indexes, Ledger!Close(k)
      PROVE  /\ UNCHANGED <<content, refused>> /\ content[k] # None /\ response[k] = None
             /\ i # k => response'[i] = response[i]
  BY <1>4 DEF Ledger!Close, Ledger!Pending, IInv, TypeOK
<1>5. ASSUME NEW k \in Indexes, Ledger!Fail(k)
      PROVE  /\ UNCHANGED refused /\ content[k] = None /\ refused[k] = None
             /\ content'[k] # None
             /\ i # k => response'[i] = response[i] /\ content'[i] = content[i]
  BY <1>5, Values DEF Ledger!Fail, Ledger!Unused, IInv, TypeOK
<1>6. ASSUME NEW k \in Indexes, Ledger!Refuse(k)
      PROVE  /\ UNCHANGED <<content, response>>
             /\ refused[i] # None => refused'[i] = refused[i]
  <2>1. k >= k /\ k \in Ledger!Indexes
    BY ConstantsAssumption DEF ConstantsAssumption, Indexes, Ledger!Indexes
  <2>2. refused[k] = None
    BY <1>6, <2>1 DEF Ledger!Refuse, Ledger!MayBegin, Ledger!Unused
  <2> QED BY <1>6, <2>2 DEF Ledger!Refuse, IInv, TypeOK
<1>7. CASE Ledger!Next
  <2> PICK k \in Indexes :
        Ledger!Open(k) \/ Ledger!Close(k) \/ Ledger!Fail(k) \/ Ledger!Refuse(k)
    BY <1>7 DEF Ledger!Next, Ledger!Indexes, Indexes
  <2>1. CASE Ledger!Open(k)
    BY <1>1, <1>3, <2>1
  <2>2. CASE Ledger!Close(k)
    BY <1>1, <1>4, <2>2
  <2>3. CASE Ledger!Fail(k)
    BY <1>1, <1>5, <2>3
  <2>4. CASE Ledger!Refuse(k)
    BY <1>1, <1>6, <2>4
  <2> QED BY <2>1, <2>2, <2>3, <2>4
<1> QED BY <1>2, <1>7

-----------------------------------------------------------------------------
(* Every step keeps what holds without time-outs.                          *)

\* A call that takes the lead is durable, open and its own, or the next one.
LEMMA LeadIsEntitled ==
  ASSUME TypeOK, NEW t \in Threads, Lead(t)
  PROVE  /\ replaying'[t] = Exists(idx[t])
         /\ IF Exists(idx[t]) THEN Owed(t) ELSE MayBegin(idx[t])
<1>1. /\ ~Conflicts(t) /\ ~Completed(idx[t])
      /\ \A j \in Indexes : j < idx[t] => ~Pending(j)
      /\ Exists(idx[t]) \/ IsNext(idx[t])
      /\ idx[t] \in Indexes /\ Indexes \subseteq Nat
  BY ConstantsAssumption DEF ConstantsAssumption, Indexes, Lead, MayLead, TypeOK
<1>2. replaying'[t] = Exists(idx[t])
  BY DEF Lead, TypeOK
<1>3. CASE Exists(idx[t])
  BY <1>1, <1>2, <1>3 DEF Owed, Pending, Conflicts
<1>4. CASE ~Exists(idx[t])
  <2>1. \A j \in Indexes : j >= idx[t] => Unused(j)
    BY <1>1, <1>4 DEF IsNext
  <2>2. ASSUME NEW j \in Indexes PROVE ~Pending(j)
    <3>1. j < idx[t] \/ j >= idx[t]
      <4>1. j \in Nat /\ idx[t] \in Nat
        BY <1>1
      <4> QED BY <4>1
    <3> QED BY <1>1, <2>1, <3>1 DEF Unused, Pending
  <2> QED BY <1>2, <1>4, <2>1, <2>2
       DEF MayBegin, Ledger!MayBegin, Ledger!Indexes, Ledger!Unused, Ledger!Pending,
           Indexes, Unused, Pending, Exists, Completed
<1> QED BY <1>3, <1>4

\* What a thread is entitled to.
EntitledTo(t) ==
  /\ pc[t] = "leading" => IF replaying[t] THEN Owed(t) ELSE MayBegin(idx[t])
  /\ pc[t] = "refusing" => MayBegin(idx[t])
  /\ pc[t] = "working" => Owed(t)

\* It is so as long as the ledger and the thread stay as they are.
LEMMA EntitledStays ==
  ASSUME NEW t \in Threads, EntitledTo(t), UNCHANGED ledger, pc'[t] = pc[t],
         idx'[t] = idx[t], con'[t] = con[t], replaying'[t] = replaying[t]
  PROVE  EntitledTo(t)'
BY DEF EntitledTo, Owed, MayBegin, Ledger!MayBegin, Ledger!Unused, Ledger!Pending, ledger,
   Pending, Exists, Completed

\* The thread that steps is entitled to what it will do next.
LEMMA OwnEntitlement ==
  ASSUME IInv, JInv, NEW u \in Threads,
         ThreadStep(u) \/ \E i \in Indexes, c \in Contents : Submit(u, i, c)
  PROVE  EntitledTo(u)'
<1>1. EntitledTo(u) /\ TypeOK
  BY DEF JInv, Entitled, EntitledTo, IInv
<1>2. CASE Lead(u)
  <2>1. pc'[u] = "leading" /\ UNCHANGED <<content, response, refused, idx, con>>
    BY <1>1, <1>2 DEF Lead, Goto, TypeOK, journal, ledger
  <2>2. replaying'[u] => Owed(u)
    BY <1>1, <1>2, LeadIsEntitled
  <2>3. ~replaying'[u] => MayBegin(idx[u])
    BY <1>1, <1>2, LeadIsEntitled
  <2> QED BY <2>1, <2>2, <2>3 DEF EntitledTo, Owed, MayBegin, Ledger!MayBegin,
       Ledger!Unused, Ledger!Pending, Pending, Exists, Completed
<1>3. CASE Begin(u)
  <2>1. /\ pc[u] = "leading" /\ pc'[u] = "working"
        /\ UNCHANGED <<idx, con, replaying>>
        /\ idx[u] \in Indexes /\ con[u] \in Contents
    BY <1>1, <1>3 DEF Begin, Goto, TypeOK, IInv, CarriesCall
  <2>2. CASE replaying[u]
    <3>1. Owed(u) /\ UNCHANGED <<content, response>>
      BY <1>1, <1>3, <2>1, <2>2 DEF EntitledTo, Begin
    <3> QED BY <2>1, <3>1 DEF EntitledTo, Owed, Pending, Exists, Completed
  <2>3. CASE ~replaying[u]
    <3>1. content'[idx[u]] = con[u] /\ response'[idx[u]] = None
      BY <1>1, <1>3, <2>1, <2>3 DEF Begin, TypeOK
    <3> QED BY <2>1, <3>1, Values DEF EntitledTo, Owed, Pending, Exists, Completed
  <2> QED BY <2>2, <2>3
<1>4. CASE FailEarly(u)
  <2>1. /\ pc[u] = "leading" /\ UNCHANGED <<content, response, refused, idx, con>>
        /\ pc'[u] = IF Exists(idx[u]) THEN "leaving" ELSE "refusing"
    BY <1>1, <1>4 DEF FailEarly, Goto, Reply, TypeOK, journal, ledger
  <2>2. ~Exists(idx[u]) => MayBegin(idx[u])
    BY <1>1, <2>1 DEF EntitledTo, Owed, Pending
  <2> QED BY <2>1, <2>2 DEF EntitledTo, MayBegin, Ledger!MayBegin, Ledger!Unused,
       Ledger!Pending
<1>5. CASE ~Lead(u) /\ ~Begin(u) /\ ~FailEarly(u)
  <2>1. pc'[u] \notin EarlySteps
    <3>1. CASE Finish(u)
      BY <1>1, <3>1 DEF Finish, Goto, Forget, TypeOK, EarlySteps
    <3>2. CASE ~Finish(u)
      <4>1. \E s \in {"validated", "admitting", "leaving", "left", "done"} :
              pc' = [pc EXCEPT ![u] = s]
        BY <1>5, <3>2 DEF ThreadStep, Submit, Enter, Answer, Refuse, Return,
          ReturnAnswer, StopAsking, FailLate, Leave, Goto, Reply
      <4> QED BY <1>1, <4>1 DEF TypeOK, EarlySteps
    <3> QED BY <3>1, <3>2
  <2> QED BY <2>1 DEF EntitledTo, EarlySteps
<1> QED BY <1>2, <1>3, <1>4, <1>5

\* The others lead nothing while a thread writes the ledger.
LEMMA NextEntitled ==
  ASSUME IInv, JInv, Next
  PROVE  Entitled'
<1> SUFFICES ASSUME NEW t \in Threads PROVE EntitledTo(t)'
  BY DEF Entitled, EntitledTo
<1>1. EntitledTo(t) /\ TypeOK
  BY DEF JInv, Entitled, EntitledTo, IInv
<1>2. ASSUME NEW u \in Threads,
             ThreadStep(u) \/ \E i \in Indexes, c \in Contents : Submit(u, i, c)
      PROVE  EntitledTo(t)'
  <2>1. CASE t = u
    BY <1>2, <2>1, OwnEntitlement
  <2>2. CASE t # u
    <3>1. /\ pc'[t] = pc[t] /\ idx'[t] = idx[t] /\ con'[t] = con[t]
          /\ replaying'[t] = replaying[t]
      BY <1>1, <1>2, <2>2, ThreadIsAlone
    <3>2. CASE Writes(u)
      <4>1. pc[u] \in LeaderSteps
        BY <3>2 DEF Writes, Returns, Begin, Refuse, StopAsking, Return, ReturnAnswer,
          LeaderSteps
      <4>2. pc[t] \notin LeaderSteps
        BY <2>2, <4>1 DEF IInv, SingleLeader
      <4> QED BY <3>1, <4>2 DEF EntitledTo, LeaderSteps
    <3>3. CASE ~Writes(u)
      <4>1. UNCHANGED ledger
        BY <1>2, <3>3, OthersKeepLedger
      <4> QED BY <1>1, <3>1, <4>1, EntitledStays
    <3> QED BY <3>2, <3>3
  <2> QED BY <2>1, <2>2
<1>3. CASE EngineStep
  <2>1. CASE pc'[t] = "idle"
    BY <2>1 DEF EntitledTo
  <2>2. CASE pc'[t] # "idle"
    <3>1. /\ pc'[t] = pc[t] /\ idx'[t] = idx[t] /\ con'[t] = con[t]
          /\ replaying'[t] = replaying[t]
      BY <1>1, <1>3, <2>2, EngineForgets
    <3>2. CASE Reconciles
      <4>1. pc[t] \in {"idle", "done"}
        BY <3>2 DEF Reconciles, Reconcile, JInv, Stilled, Over
      <4> QED BY <3>1, <4>1 DEF EntitledTo
    <3>3. CASE ~Reconciles
      <4>1. UNCHANGED ledger
        BY <1>3, <3>3, OthersKeepLedger
      <4> QED BY <1>1, <3>1, <4>1, EntitledStays
    <3> QED BY <3>2, <3>3
  <2> QED BY <2>1, <2>2
<1> QED BY <1>2, <1>3, StepsOfNext

\* Everything the journal says of the call of thread t.
DurableReply(t) ==
  pc[t] \in {"leaving", "left", "done"} =>
    /\ reply[t] \in Responses => response[idx[t]] = reply[t]
    /\ reply[t] = "call_refused" => refused[idx[t]] = con[t]

\* A reply that is given stays in the journal.
LEMMA DurableReplyStays ==
  ASSUME IInv, JInv, [Ledger!Next]_(Ledger!ledger), NEW t \in Threads, DurableReply(t),
         pc[t] \in {"leaving", "left", "done"},
         idx'[t] = idx[t], con'[t] = con[t], reply'[t] = reply[t]
  PROVE  DurableReply(t)'
<1>1. idx[t] \in Indexes /\ con[t] \in Contents
  BY DEF IInv, TypeOK, CarriesCall
<1>2. /\ response[idx[t]] # None => response'[idx[t]] = response[idx[t]]
      /\ refused[idx[t]] # None => refused'[idx[t]] = refused[idx[t]]
  BY <1>1, EntriesStay DEF JInv, Completed
<1> QED BY <1>1, <1>2, Values DEF DurableReply

\* The thread that steps replies what the journal has.
LEMMA OwnReply ==
  ASSUME IInv, JInv, NEW u \in Threads, [Ledger!Next]_(Ledger!ledger),
         ThreadStep(u) \/ \E i \in Indexes, c \in Contents : Submit(u, i, c)
  PROVE  DurableReply(u)'
<1>1. TypeOK /\ DurableReply(u) /\ (pc[u] # "idle" => con[u] \in Contents)
      /\ idx[u] \in Indexes
  BY DEF JInv, ReplyIsDurable, DurableReply, IInv, TypeOK, CarriesCall
<1>2. ASSUME reply'[u] \in {"error", "terminating"} PROVE DurableReply(u)'
  BY <1>2, Values DEF DurableReply
<1>3. CASE Enter(u) \/ FailEarly(u) \/ FailLate(u)
           \/ \E i \in Indexes, c \in Contents : Submit(u, i, c)
  <2>1. reply'[u] \in {"error", "terminating"} \/ pc'[u] \in {"validated", "admitting", "refusing"}
    BY <1>1, <1>3 DEF Enter, FailEarly, FailLate, Submit, Goto, Reply, TypeOK
  <2> QED BY <1>2, <2>1 DEF DurableReply
<1>4. CASE Answer(u)
  <2>1. UNCHANGED <<content, response, refused, idx, con>>
    BY <1>4 DEF Answer, journal, ledger
  <2>2. CASE Conflicts(u)
    BY <1>1, <1>2, <1>4, <2>2 DEF Answer, Reply, TypeOK
  <2>3. CASE ~Conflicts(u)
    <3>1. \/ Completed(idx[u]) /\ reply'[u] = response[idx[u]]
          \/ ~Completed(idx[u]) /\ refused[idx[u]] # None /\ reply'[u] = "call_refused"
          \/ reply'[u] = "error"
      BY <1>1, <1>4, <2>3 DEF Answer, Reply, TypeOK
    <3>2. CASE Completed(idx[u]) /\ reply'[u] = response[idx[u]]
      <4>1. response[idx[u]] \in Responses
        BY <1>1, <3>2 DEF Completed, TypeOK
      <4> QED BY <2>1, <3>2, <4>1, Values DEF DurableReply
    <3>3. CASE refused[idx[u]] # None /\ reply'[u] = "call_refused"
      <4>1. refused[idx[u]] = con[u]
        BY <2>3, <3>3 DEF Conflicts
      <4> QED BY <2>1, <3>3, <4>1, Values DEF DurableReply
    <3> QED BY <1>2, <3>1, <3>2, <3>3
  <2> QED BY <2>2, <2>3
<1>5. CASE Lead(u) \/ Begin(u)
  <2>1. pc'[u] \in {"leading", "working"}
    BY <1>1, <1>5 DEF Lead, Begin, Goto, TypeOK
  <2> QED BY <2>1 DEF DurableReply
<1>6. CASE Refuse(u)
  <2>1. reply'[u] = "call_refused" /\ refused'[idx[u]] = con[u]
    BY <1>1, <1>6, RefuseRefuses DEF TypeOK
  <2>2. UNCHANGED <<idx, con>>
    BY <1>6 DEF Refuse
  <2> QED BY <2>1, <2>2, Values DEF DurableReply
<1>7. CASE Returns(u)
  <2>1. PICK r \in Responses : /\ response' = [response EXCEPT ![idx[u]] = r]
                               /\ reply' = [reply EXCEPT ![u] = r]
    BY <1>7, ReturnCloses
  <2>2. response'[idx[u]] = r /\ reply'[u] = r
    BY <1>1, <2>1 DEF TypeOK
  <2>3. UNCHANGED idx
    BY <1>7 DEF Returns, StopAsking, Return, ReturnAnswer
  <2> QED BY <2>2, <2>3, Values DEF DurableReply
<1>8. CASE Leave(u)
  <2>1. pc[u] = "leaving" /\ UNCHANGED <<idx, con, reply>>
    BY <1>8 DEF Leave
  <2> QED BY <1>1, <2>1, DurableReplyStays
<1>9. CASE Finish(u)
  <2>1. pc[u] = "left" /\ UNCHANGED <<idx, con, reply>>
    BY <1>9 DEF Finish, JInv, Belongs
  <2> QED BY <1>1, <2>1, DurableReplyStays
<1> QED
  BY <1>3, <1>4, <1>5, <1>6, <1>7, <1>8, <1>9 DEF ThreadStep, Returns

\* Every step keeps the replies durable.
LEMMA NextReplies ==
  ASSUME IInv, JInv, Next
  PROVE  ReplyIsDurable'
<1> SUFFICES ASSUME NEW t \in Threads PROVE DurableReply(t)'
  BY DEF ReplyIsDurable, DurableReply
<1>1. DurableReply(t) /\ TypeOK /\ [Ledger!Next]_(Ledger!ledger)
  BY NextIsLedgerStep DEF JInv, ReplyIsDurable, DurableReply, IInv
<1>2. ASSUME NEW u \in Threads,
             ThreadStep(u) \/ \E i \in Indexes, c \in Contents : Submit(u, i, c)
      PROVE  DurableReply(t)'
  <2>1. CASE t = u
    BY <1>1, <1>2, <2>1, OwnReply
  <2>2. CASE t # u
    <3>1. /\ pc'[t] = pc[t] /\ idx'[t] = idx[t] /\ con'[t] = con[t]
          /\ reply'[t] = reply[t]
      BY <1>1, <1>2, <2>2, ThreadIsAlone
    <3>2. CASE pc[t] \in {"leaving", "left", "done"}
      BY <1>1, <3>1, <3>2, DurableReplyStays
    <3>3. CASE pc[t] \notin {"leaving", "left", "done"}
      BY <3>1, <3>3 DEF DurableReply
    <3> QED BY <3>2, <3>3
  <2> QED BY <2>1, <2>2
<1>3. CASE EngineStep
  <2>1. CASE pc'[t] = "idle"
    BY <2>1 DEF DurableReply
  <2>2. CASE pc'[t] # "idle"
    <3>1. /\ pc'[t] = pc[t] /\ idx'[t] = idx[t] /\ con'[t] = con[t]
          /\ reply'[t] = reply[t]
      BY <1>1, <1>3, <2>2, EngineForgets
    <3>2. CASE pc[t] \in {"leaving", "left", "done"}
      BY <1>1, <3>1, <3>2, DurableReplyStays
    <3>3. CASE pc[t] \notin {"leaving", "left", "done"}
      BY <3>1, <3>3 DEF DurableReply
    <3> QED BY <3>2, <3>3
  <2> QED BY <2>1, <2>2
<1> QED BY <1>2, <1>3, StepsOfNext

\* What the snapshot of the launch's join still owes to thread t.
Covered(t) ==
  tracked[t] /\ reply[t] # "terminating" =>
    <<idx[t], con[t]>> \in todo["launch"] \/ Settled(idx[t])

\* A request comes too late for the snapshot: it is turned away.
LEMMA RequestSnapshot ==
  ASSUME IInv, JInv, NEW u \in Threads, [Ledger!Next]_(Ledger!ledger),
         ThreadStep(u) \/ \E i \in Indexes, c \in Contents : Submit(u, i, c)
  PROVE  Snapshot'
<1> SUFFICES ASSUME stage'["launch"] = "reconciling", NEW t \in Threads
             PROVE  Covered(t)'
  BY DEF Snapshot, Covered
<1>1. TypeOK /\ Responded /\ UNCHANGED <<stage, todo>>
  BY ThreadIsAlone DEF IInv, JInv
<1>2. Over("launch") /\ Shut("launch") /\ "launch" \in Joiners
  BY <1>1 DEF Over, Shut, Joiners
<1>3. Covered(t)
  BY <1>1 DEF JInv, Snapshot, Covered
<1>4. \E i \in Indexes, c \in Contents : Submit(u, i, c)
  BY <1>1, <1>2, StillThreads DEF JInv
<1>5. closing
  BY <1>2, <1>4 DEF JInv, ClosedFirst, Submit
<1>6. reply'[u] = "terminating"
  BY <1>1, <1>4, <1>5 DEF Submit, Reply, TypeOK
<1>7. CASE t # u
  <2>1. /\ idx'[t] = idx[t] /\ con'[t] = con[t] /\ reply'[t] = reply[t]
        /\ tracked'[t] = tracked[t] /\ idx[t] \in Indexes
    BY <1>1, <1>7, ThreadIsAlone DEF TypeOK
  <2>2. Settled(idx[t]) => Settled(idx[t])'
    BY <1>1, <2>1, EntriesStay
  <2> QED BY <1>1, <1>3, <2>1, <2>2 DEF Covered, Settled, Completed
<1> QED BY <1>6, <1>7 DEF Covered

\* The join of the launch starts with all tracked calls, and strikes off what
\* it has settled.
LEMMA EngineSnapshot ==
  ASSUME ~JoinMayTimeOut, IInv, JInv, EngineStep, [Ledger!Next]_(Ledger!ledger)
  PROVE  Snapshot'
<1> SUFFICES ASSUME stage'["launch"] = "reconciling", NEW t \in Threads
             PROVE  Covered(t)'
  BY DEF Snapshot, Covered
<1>1. TypeOK /\ Responded /\ idx[t] \in Indexes /\ "launch" \in Joiners
  <2>1. TypeOK /\ Responded
    BY DEF IInv, JInv
  <2>2. idx[t] \in Indexes
    BY <2>1 DEF TypeOK
  <2>3. "launch" \in Joiners
    BY DEF Joiners
  <2> QED BY <2>1, <2>2, <2>3
<1>2. \A i \in Indexes : Settled(i) => Settled(i)'
  BY <1>1, EntriesStay
<1>3. ASSUME UNCHANGED <<idx, con, tracked, reply>>, stage["launch"] = "reconciling",
             \/ UNCHANGED todo
             \/ \E i \in Indexes, c \in Contents :
                  todo' = [todo EXCEPT !["launch"] = @ \ {<<i, c>>}] /\ Settled(i)'
             \/ \E S : todo' = [todo EXCEPT !["shutdown"] = S]
      PROVE  Covered(t)'
  <2>1. Covered(t)
    BY <1>3 DEF JInv, Snapshot, Covered
  <2>2. CASE todo'["launch"] = todo["launch"]
    BY <1>1, <1>2, <1>3, <2>1, <2>2 DEF Covered
  <2>3. ASSUME NEW i \in Indexes, NEW c \in Contents,
               todo'["launch"] = todo["launch"] \ {<<i, c>>}, Settled(i)'
        PROVE  Covered(t)'
    <3>1. <<idx[t], con[t]>> = <<i, c>> => idx[t] = i
      OBVIOUS
    <3> QED BY <1>1, <1>2, <1>3, <2>1, <2>3, <3>1 DEF Covered
  <2> QED BY <1>1, <1>3, <2>2, <2>3 DEF TypeOK, Joiners
<1>4. ASSUME NEW j \in Joiners, Joined(j) PROVE Covered(t)'
  <2>1. CASE j = "launch"
    <3>1. todo'["launch"] = CallsOf({v \in Threads : tracked[v]})
      BY <1>1, <1>4, <2>1 DEF Joined, TypeOK
    <3>2. UNCHANGED <<idx, con, tracked>>
      BY <1>4 DEF Joined, threads
    <3> QED BY <3>1, <3>2 DEF Covered, CallsOf
  <2>2. CASE j = "shutdown"
    <3>1. stage["launch"] = stage'["launch"]
      BY <1>1, <1>4, <2>2 DEF Joined, TypeOK
    <3> QED BY <1>3, <1>4, <2>2, <3>1 DEF Joined, threads
  <2> QED BY <2>1, <2>2 DEF Joiners
<1>5. ASSUME NEW j \in Joiners, NEW i \in Indexes, NEW c \in Contents, Reconcile(j, i, c)
      PROVE  Covered(t)'
  <2>1. /\ UNCHANGED <<idx, con, tracked, reply, stage>>
        /\ todo' = [todo EXCEPT ![j] = @ \ {<<i, c>>}]
    BY <1>5 DEF Reconcile, threads
  <2>2. Settled(i)'
    BY <1>5, ReconcileCloses
  <2>3. j = "launch" \/ j = "shutdown"
    BY DEF Joiners
  <2> QED BY <1>3, <2>1, <2>2, <2>3
<1>6. ASSUME NEW j \in Joiners, NEW i \in Indexes, NEW c \in Contents,
             AbortReconcile(j, i, c)
      PROVE  Covered(t)'
  <2>1. /\ UNCHANGED <<idx, con, tracked, reply>>
        /\ todo' = [todo EXCEPT ![j] = {}]
        /\ stage' = [stage EXCEPT ![j] = IF j = "launch" THEN "unwound" ELSE "joined"]
    BY <1>6 DEF AbortReconcile, threads
  <2>2. j = "shutdown" /\ stage["launch"] = "reconciling"
    BY <1>1, <2>1 DEF TypeOK, Joiners
  <2> QED BY <1>3, <2>1, <2>2
<1>7. CASE \E j \in Joiners : CloseFrontier(j) \/ RequestCancel(j)
  <2>1. UNCHANGED <<idx, con, tracked, reply, todo>> /\ stage["launch"] = "reconciling"
    BY <1>1, <1>7 DEF CloseFrontier, RequestCancel, threads, TypeOK
  <2> QED BY <1>3, <2>1
<1>8. CASE (\E i \in Indexes : OwnerAnswers(i)) \/ JoinsDone \/ Interrupt \/ Restart
  <2>1. UNCHANGED <<idx, con, tracked, reply, todo>> /\ stage["launch"] = "reconciling"
    BY <1>1, <1>8 DEF OwnerAnswers, JoinsDone, Interrupt, Restart, threads, joins, TypeOK
  <2> QED BY <1>3, <2>1
<1>9. CASE BeginShutdown
  <2>1. UNCHANGED <<idx, con, tracked, reply, todo>>
    BY <1>9 DEF BeginShutdown
  <2>2. stage["launch"] = "reconciling"
    <3> DEFINE known == active \/ \E v \in Threads : pc[v] \in LeaderSteps
    <3>1. PICK unwinds \in BOOLEAN :
            stage' = [stage EXCEPT
              !["shutdown"] = IF known THEN "stopping" ELSE "joined",
              !["launch"] = IF unwinds /\ @ # "idle" THEN "unwound" ELSE @]
      BY <1>9 DEF BeginShutdown
    <3> HIDE DEF known
    <3> QED BY <1>1, <3>1 DEF TypeOK
  <2> QED BY <1>3, <2>1, <2>2
<1>10. CASE Launch \/ Crash \/ \E o \in {"ok", "failed"} : ExitFrame(o)
  <2>1. stage'["launch"] # "reconciling"
    BY <1>1, <1>10 DEF Launch, Crash, ExitFrame, TypeOK
  <2> QED BY <2>1
<1>11. ~\E j \in Joiners : JoinTimesOut(j)
  BY DEF JoinTimesOut
<1> QED
  BY <1>4, <1>5, <1>6, <1>7, <1>8, <1>9, <1>10, <1>11
     DEF EngineStep, ProcessStep, JoinStep

\* Initially nobody waits for anything.
LEMMA InitJInv == Init => JInv
<1> SUFFICES ASSUME Init PROVE JInv
  OBVIOUS
<1>1. Belongs /\ ClosedFirst /\ Stilled /\ Snapshot /\ Waited
  BY DEF Init, Belongs, ClosedFirst, Stilled, Snapshot, Waited, Shut, Over, Joiners
<1>2. Entitled /\ Responded /\ ReplyIsDurable
  BY DEF Init, Entitled, Responded, Completed, ReplyIsDurable
<1> QED BY <1>1, <1>2 DEF JInv

\* JInv is inductive on top of IInv.
LEMMA NextJInv ==
  ASSUME ~JoinMayTimeOut, IInv, IInv', JInv, [Next]_vars
  PROVE  JInv'
<1>1. [Ledger!Next]_(Ledger!ledger) /\ TypeOK /\ TypeOK' /\ Responded
  BY NextIsLedgerStep DEF IInv, JInv
<1>2. CASE UNCHANGED vars
  BY <1>2 DEF vars, journal, ledger, server, threads, joins, JInv, Belongs, ClosedFirst,
    Stilled, Entitled, Responded, ReplyIsDurable, Snapshot, Waited, Shut, Over, Owed,
    MayBegin, Ledger!MayBegin, Ledger!Pending, Ledger!Unused, Pending, Exists, Completed,
    Settled, LaunchIsOver
<1>3. CASE Next
  <2>1. Entitled' /\ ReplyIsDurable'
    BY <1>3, NextEntitled, NextReplies
  <2>2. Responded'
    BY <1>1, EntriesStay DEF Responded
  <2>3. CASE EngineStep
    <3>1. Belongs' /\ ClosedFirst' /\ Stilled' /\ Waited' /\ Snapshot'
      BY <1>1, <2>3, EnginePlaces, EngineSnapshot
    <3> QED BY <2>1, <2>2, <3>1 DEF JInv
  <2>4. ASSUME NEW u \in Threads,
               ThreadStep(u) \/ \E i \in Indexes, c \in Contents : Submit(u, i, c)
        PROVE  JInv'
    <3>1. Belongs' /\ ClosedFirst' /\ Stilled' /\ Waited' /\ Snapshot'
      BY <1>1, <2>4, RequestPlaces, RequestSnapshot
    <3> QED BY <2>1, <2>2, <3>1 DEF JInv
  <2> QED BY <1>3, <2>3, <2>4, StepsOfNext
<1> QED BY <1>2, <1>3

\* Every call this attempt tracked is settled in the step that ends it.
LEMMA NextSettles ==
  ASSUME IInv, JInv, [Next]_vars, outcome = "none", outcome' # "none"
  PROVE  \A t \in Threads :
           tracked[t] /\ reply[t] # "terminating" =>
             Completed(idx[t]) \/ refused[idx[t]] # None
<1>1. \E o \in {"ok", "failed"} : ExitFrame(o)
  <2>1. CASE UNCHANGED outcome
    BY <2>1
  <2>2. ASSUME NEW t \in Threads,
               ThreadStep(t) \/ \E i \in Indexes, c \in Contents : Submit(t, i, c)
        PROVE  UNCHANGED outcome
    BY <2>2 DEF ThreadStep, Submit, Enter, Answer, Lead, Begin, FailEarly, Refuse, Return,
      ReturnAnswer, StopAsking, FailLate, Leave, Finish, journal
  <2>3. ASSUME NEW j \in Joiners, CloseFrontier(j) \/ JoinStep(j)
        PROVE  UNCHANGED outcome
    BY <2>3 DEF JoinStep, CloseFrontier, RequestCancel, Joined, JoinTimesOut, Reconcile,
      AbortReconcile, journal
  <2>4. (\E i \in Indexes : OwnerAnswers(i)) \/ BeginShutdown \/ JoinsDone \/ Interrupt
          \/ Crash \/ Restart => UNCHANGED outcome
    BY DEF OwnerAnswers, BeginShutdown, JoinsDone, Interrupt, Crash, Restart, journal
  <2>5. Launch => outcome' = "none"
    BY DEF Launch
  <2>6. UNCHANGED vars => UNCHANGED outcome
    BY DEF vars, journal
  <2> QED BY <2>1, <2>2, <2>3, <2>4, <2>5, <2>6 DEF Next
<1>2. stage["launch"] = "reconciling" /\ todo["launch"] = {}
  BY <1>1 DEF ExitFrame
<1> QED BY <1>2 DEF JInv, Snapshot, Settled

\* A process that has appended its last event appends nothing more.
LEMMA NextIsSilent ==
  ASSUME IInv, JInv, [Next]_vars, stage["shutdown"] = "stopped"
  PROVE  UNCHANGED journal
<1>1. /\ LaunchIsOver /\ Over("shutdown") /\ "shutdown" \in Joiners /\ TypeOK /\ Stilled
  BY DEF JInv, Waited, Over, Joiners, IInv
<1>2. ASSUME NEW t \in Threads,
             ThreadStep(t) \/ \E i \in Indexes, c \in Contents : Submit(t, i, c)
      PROVE  UNCHANGED journal
  <2>1. \E i \in Indexes, c \in Contents : Submit(t, i, c)
    BY <1>1, <1>2, StillThreads
  <2> QED BY <2>1 DEF Submit
<1>3. ASSUME NEW j \in Joiners, CloseFrontier(j) \/ JoinStep(j)
      PROVE  UNCHANGED journal
  <2>1. stage[j] # "reconciling"
    BY <1>1 DEF LaunchIsOver, Joiners
  <2> QED BY <1>3, <2>1 DEF JoinStep, CloseFrontier, RequestCancel, Joined, JoinTimesOut,
       Reconcile, AbortReconcile
<1>4. ~Launch /\ \A o \in {"ok", "failed"} : ~ExitFrame(o)
  BY <1>1 DEF Launch, ExitFrame, LaunchIsOver
<1>5. (\E i \in Indexes : OwnerAnswers(i)) \/ BeginShutdown \/ JoinsDone \/ Interrupt
        \/ Crash \/ Restart => UNCHANGED journal
  BY DEF OwnerAnswers, BeginShutdown, JoinsDone, Interrupt, Crash, Restart
<1>6. UNCHANGED vars => UNCHANGED journal
  BY DEF vars
<1> QED BY <1>2, <1>3, <1>4, <1>5, <1>6 DEF Next

-----------------------------------------------------------------------------
(* The theorems about joins that end in time.  With time-outs none of them *)
(* holds: TLC shows how a late worker breaks each of them.                 *)

\* JInv is an inductive invariant of a frame whose joins end in time.
THEOREM JInvHolds ==
  ASSUME ~JoinMayTimeOut
  PROVE  Spec => []JInv
<1>1. IInv /\ IInv' /\ JInv /\ [Next]_vars => JInv'
  BY NextJInv
<1> QED BY <1>1, InitJInv, IInvHolds, PTL DEF Spec

\* A tool body runs for an open call of its own content only: a call is paid
\* for at most once, through crashes and replays.
THEOREM EffectIsOwedHolds ==
  ASSUME ~JoinMayTimeOut
  PROVE  Spec => []EffectIsOwed
<1>1. JInv => EffectIsOwed
  BY DEF JInv, Entitled, Owed, EffectIsOwed
<1> QED BY <1>1, JInvHolds, PTL

\* What handle_tool returned to the client is what a replay returns.
THEOREM ReplyIsDurableHolds ==
  ASSUME ~JoinMayTimeOut
  PROVE  Spec => []ReplyIsDurable
<1>1. JInv => ReplyIsDurable
  BY DEF JInv
<1> QED BY <1>1, JInvHolds, PTL

\* frame_exited comes after the return, failure or refusal of every call the
\* attempt's client was allowed to begin.
THEOREM ExitSettlesCallsHolds ==
  ASSUME ~JoinMayTimeOut
  PROVE  Spec => ExitSettlesCalls
<1>1. IInv /\ JInv /\ [Next]_vars =>
        [outcome = "none" /\ outcome' # "none" =>
           \A t \in Threads :
             tracked[t] /\ reply[t] # "terminating" =>
               Completed(idx[t]) \/ refused[idx[t]] # None]_vars
  BY NextSettles
<1> QED BY <1>1, IInvHolds, JInvHolds, PTL DEF Spec, ExitSettlesCalls

\* run_interrupted is the last event an engine process appends: no worker
\* and no launch outlives the joins of shutdown.
THEOREM InterruptIsLastHolds ==
  ASSUME ~JoinMayTimeOut
  PROVE  Spec => InterruptIsLast
<1>1. IInv /\ JInv /\ [Next]_vars =>
        [stage["shutdown"] = "stopped" => UNCHANGED journal]_vars
  BY NextIsSilent
<1> QED BY <1>1, IInvHolds, JInvHolds, PTL DEF Spec, InterruptIsLast

\* The calls of a frame implement the ledger of CallLedger, step by step.
THEOREM ImplementsLedgerHolds ==
  ASSUME ~JoinMayTimeOut
  PROVE  Spec => ImplementsLedger
<1>1. Init => Ledger!Init
  BY DEF Init, Ledger!Init, Indexes, Ledger!Indexes
<1>2. IInv /\ JInv /\ [Next]_vars => [Ledger!Next]_(Ledger!ledger)
  BY NextIsLedgerStep
<1> QED BY <1>1, <1>2, IInvHolds, JInvHolds, PTL DEF Spec, ImplementsLedger, Ledger!Spec
=============================================================================
