-------------------------------- MODULE Shim --------------------------------
(***************************************************************************)
(* The Pi extension the engine generates for one attempt of a frame        *)
(* (shim.py): it numbers the tool calls of the agent, gives a call that    *)
(* was durable before the attempt its index back, and repeats one frozen   *)
(* request until the engine answers it.  The two ends number calls on      *)
(* their own: the shim from what it was launched with, the engine from its *)
(* journal (engine.py 846-920, projection.py 246-251), over a network that *)
(* loses requests and answers, delays them and delivers them out of order. *)
(*                                                                         *)
(* Abstractions.  The engine is CallFrontier's in few steps: a request     *)
(* waits, is answered, or takes the lead and runs.  Requests with one      *)
(* index and content are one request, which single flight allows.  A tool  *)
(* and its arguments are a content.  Omitting contents are dispatches that *)
(* leave "rig" out: JSON.stringify drops the undefined member and          *)
(* model_dump writes null, so the two encodings differ.                    *)
(*                                                                         *)
(* Bounds.  MaxAttempts attempts, Calls concurrent calls in each,          *)
(* MaxLosses transport failures.                                           *)
(***************************************************************************)
EXTENDS Naturals, FiniteSets, FiniteSetsExt

CONSTANTS Calls, Contents, Omitting, Invalid, MaxAttempts, MaxLosses, None

ASSUME ConstantsAssumption ==
  /\ Omitting \subseteq Contents /\ Invalid \subseteq Contents
  /\ None \notin Contents \cup Nat
  /\ None \notin {"result", "rejected", "invalid", "fault", "aborted"}
  /\ IsFiniteSet(Calls)
  /\ MaxAttempts \in Nat \ {0} /\ MaxLosses \in Nat

Indexes == 0..(MaxAttempts * Cardinality(Calls))

VARIABLES
  \* the engine: the journal's calls, and its memory
  called,     \* index -> content of the durable call
  completed,  \* indexes of calls that have a response
  refused,    \* index -> content of the durable refusal
  queue,      \* requests that wait for admission
  tracked,    \* valid requests of this attempt, its join set
  running,    \* requests that lead
  \* the extension
  attempt,
  first, next, \* nextCallIndex as launched with, and now
  replay,     \* replayCalls: requests
  claimed,    \* claimedReplayCalls
  sealed,     \* sealedFrontierError is set
  \* the calls of the agent
  st,         \* call -> idle, sending, waiting, backoff, over
  idx, con,   \* call -> its index and content
  heard,      \* call -> what the agent hears
  losses,     \* transport failures so far
  most        \* history: content -> the most calls of it in one attempt

journal == <<called, completed, refused>>
engine == <<journal, queue, tracked, running>>
extension == <<attempt, first, next, replay, claimed, sealed>>
agent == <<st, idx, con, heard>>
vars == <<engine, extension, agent, losses, most>>

Request(i, c) == [index |-> i, content |-> c]

\* Bug: refused calls do not count.
BugNextIndex == Max({-1} \cup {i \in Indexes : called[i] # None}) + 1

\* next_call_index of the projection.
NextIndex ==
  Max({-1} \cup {i \in Indexes : called[i] # None \/ refused[i] # None}) + 1

Pending(i) == called[i] # None /\ i \notin completed

Fresh ==
  /\ st' = [v \in Calls |-> "idle"] /\ idx' = [v \in Calls |-> None]
  /\ con' = [v \in Calls |-> None] /\ heard' = [v \in Calls |-> None]

Init ==
  /\ called = [i \in Indexes |-> None] /\ completed = {}
  /\ refused = [i \in Indexes |-> None] /\ queue = {} /\ tracked = {} /\ running = {}
  /\ attempt = 1 /\ first = 0 /\ next = 0 /\ replay = {} /\ claimed = {} /\ sealed = FALSE
  /\ st = [v \in Calls |-> "idle"] /\ idx = [v \in Calls |-> None]
  /\ con = [v \in Calls |-> None] /\ heard = [v \in Calls |-> None]
  /\ losses = 0 /\ most = [c \in Contents |-> 0]

-----------------------------------------------------------------------------
(* The extension. *)

\* What execute passes on encodes to the arguments that the engine dumped.
Encodes(c) == c \notin Omitting

\* Bug: a call that was claimed is claimed again.
BugReclaims(c) == {q.index : q \in {r \in replay : r.content = c /\ Encodes(c)}}

\* The durable calls that encode like c and are not claimed yet.
Claimable(c) ==
  {q.index : q \in {r \in replay : r.content = c /\ Encodes(c)}} \ claimed

\* callTool: the call is numbered at once, before anything is awaited.
Call(v, c) ==
  /\ st[v] = "idle"
  /\ con' = [con EXCEPT ![v] = c]
  /\ LET i == IF Claimable(c) = {} THEN next ELSE Min(Claimable(c))
     IN IF sealed
        THEN /\ st' = [st EXCEPT ![v] = "over"]
             /\ heard' = [heard EXCEPT ![v] = "aborted"]
             /\ UNCHANGED <<idx, next, claimed>>
        ELSE /\ st' = [st EXCEPT ![v] = "sending"]
             /\ idx' = [idx EXCEPT ![v] = i]
             /\ claimed' = claimed \cup (Claimable(c) \cap {i})
             /\ next' = IF Claimable(c) = {} THEN next + 1 ELSE next
             /\ UNCHANGED heard
  /\ most' = [most EXCEPT ![c] =
                Max({@, Cardinality({w \in Calls : con'[w] = c})})]
  /\ UNCHANGED <<engine, attempt, first, replay, sealed, losses>>

\* fetch: the request gets through.  A valid one is tracked until the join.
Send(v) ==
  /\ st[v] = "sending"
  /\ st' = [st EXCEPT ![v] = "waiting"]
  /\ queue' = queue \cup {Request(idx[v], con[v])}
  /\ tracked' = IF con[v] \in Invalid THEN tracked
                ELSE tracked \cup {Request(idx[v], con[v])}
  /\ UNCHANGED <<journal, running, extension, idx, con, heard, losses, most>>

\* No answer that can be read: the request is repeated after a pause.
Lose(v) ==
  /\ st[v] \in {"sending", "waiting"} /\ losses < MaxLosses
  /\ st' = [st EXCEPT ![v] = "backoff"] /\ losses' = losses + 1
  /\ UNCHANGED <<engine, extension, idx, con, heard, most>>

Retry(v) ==
  /\ st[v] = "backoff"
  /\ st' = [st EXCEPT ![v] = "sending"]
  /\ UNCHANGED <<engine, extension, idx, con, heard, losses, most>>

\* The agent aborts the call: no later call may be numbered.
Abort(v) ==
  /\ st[v] \in {"sending", "waiting", "backoff"}
  /\ st' = [st EXCEPT ![v] = "over"] /\ heard' = [heard EXCEPT ![v] = "aborted"]
  /\ sealed' = TRUE
  /\ UNCHANGED <<engine, attempt, first, next, replay, claimed, idx, con, losses, most>>

-----------------------------------------------------------------------------
(* The engine. *)

\* Whoever waits for the answer to q gets it.
Answer(q, what) ==
  LET W == {v \in Calls : st[v] = "waiting" /\ idx[v] = q.index /\ con[v] = q.content}
  IN /\ st' = [v \in Calls |-> IF v \in W THEN "over" ELSE st[v]]
     /\ heard' = [v \in Calls |-> IF v \in W THEN what ELSE heard[v]]
     /\ UNCHANGED <<idx, con>>

Conflicts(q) ==
  \/ called[q.index] \notin {None, q.content}
  \/ refused[q.index] \notin {None, q.content}
  \/ \E r \in running : r.index = q.index /\ r.content # q.content

Known(q) == q.index \in completed \/ refused[q.index] # None

\* Bug: a call waits for an earlier one that is pending, whether or not it runs.
BugWaits(q) ==
  \/ \E r \in running : r.index = q.index
  \/ ~Known(q) /\ \E i \in Indexes : i < q.index /\ Pending(i)

\* For its own leader, or for an earlier call that runs.
Waits(q) ==
  \/ \E r \in running : r.index = q.index
  \/ ~Known(q) /\ \E r \in running : r.index < q.index

\* No earlier call is pending, and it is pending itself or the next one.
MayLead(q) ==
  /\ \A i \in Indexes : i < q.index => ~Pending(i)
  /\ Pending(q.index) \/ q.index = NextIndex

\* An answer without a run: from the journal, or an error.
Reply(q) ==
  /\ q \in queue
  /\ \/ q.content \in Invalid /\ Answer(q, "invalid")
     \/ q.content \notin Invalid /\ Conflicts(q) /\ Answer(q, "rejected")
     \/ /\ q.content \notin Invalid /\ ~Conflicts(q) /\ ~Waits(q)
        /\ \/ Known(q) /\ Answer(q, "result")
           \/ ~Known(q) /\ ~MayLead(q) /\ Answer(q, "rejected")
  /\ queue' = queue \ {q}
  /\ UNCHANGED <<journal, tracked, running, extension, losses, most>>

Free(q) ==
  /\ q \in queue /\ q.content \notin Invalid
  /\ ~Conflicts(q) /\ ~Waits(q) /\ ~Known(q) /\ MayLead(q)
  /\ queue' = queue \ {q}

\* It takes the lead, and is durable.
Lead(q) ==
  /\ Free(q)
  /\ running' = running \cup {q}
  /\ called' = [called EXCEPT ![q.index] = q.content]
  /\ UNCHANGED <<completed, refused, tracked, extension, agent, losses, most>>

\* A check before that fails, and the call is durably refused.
Refuse(q) ==
  /\ Free(q) /\ ~Pending(q.index)
  /\ refused' = [refused EXCEPT ![q.index] = q.content]
  /\ Answer(q, "result")
  /\ UNCHANGED <<called, completed, tracked, running, extension, losses, most>>

Return(q) ==
  /\ q \in running
  /\ running' = running \ {q} /\ completed' = completed \cup {q.index}
  /\ Answer(q, "result")
  /\ UNCHANGED <<called, refused, queue, tracked, extension, losses, most>>

\* An exception after the call is durable, or on the way into a replayed one.
Fault(q) ==
  /\ q \in running
  /\ running' = running \ {q}
  /\ Answer(q, "fault")
  /\ UNCHANGED <<journal, queue, tracked, extension, losses, most>>

\* Tracked requests without a durable end, rejected ones included.
Unsettled == {q \in tracked : ~Known(q)}

\* The next attempt.  The join of the last one gave every tracked request that had
\* no durable end a call_failed, called or not; a crash may have come before or in
\* the middle of it, so it is some of them.
Relaunch ==
  /\ attempt < MaxAttempts
  /\ attempt' = attempt + 1
  /\ UNCHANGED <<refused, losses, most>>
  /\ \E S \in SUBSET Unsettled :
       LET failed == {q.index : q \in S} IN
       /\ completed' = completed \cup failed
       /\ called' = [i \in Indexes |->
            IF i \in failed THEN (CHOOSE q \in S : q.index = i).content ELSE called[i]]
  /\ first' = NextIndex' /\ next' = NextIndex'
  /\ replay' = {Request(i, called'[i]) : i \in {j \in Indexes : called'[j] # None}}
  /\ claimed' = {} /\ sealed' = FALSE
  /\ queue' = {} /\ tracked' = {} /\ running' = {}
  /\ Fresh

-----------------------------------------------------------------------------
Requests == [index : Indexes, content : Contents]

Engine(q) == Reply(q) \/ Lead(q) \/ Refuse(q) \/ Return(q) \/ Fault(q)

Next ==
  \/ \E v \in Calls : Send(v) \/ Lose(v) \/ Retry(v) \/ Abort(v)
  \/ \E v \in Calls, c \in Contents : Call(v, c)
  \/ \E q \in queue \cup running : Engine(q)
  \/ Relaunch

Spec == Init /\ [][Next]_vars

\* The timers of the extension fire, and the engine's threads are scheduled.  A
\* step of Engine(q) may be the tool's own return: tools end, owners answer asks.
FairSpec ==
  /\ Spec
  /\ \A v \in Calls : WF_vars(Send(v) \/ Retry(v))
  /\ \A q \in Requests : WF_vars(Engine(q))

-----------------------------------------------------------------------------
(* Properties. *)

TypeOK ==
  /\ called \in [Indexes -> Contents \cup {None}] /\ completed \subseteq Indexes
  /\ refused \in [Indexes -> Contents \cup {None}]
  /\ queue \subseteq Requests /\ tracked \subseteq Requests /\ running \subseteq Requests
  /\ attempt \in 1..MaxAttempts /\ first \in Indexes /\ next \in Indexes
  /\ replay \subseteq Requests
  /\ claimed \subseteq Indexes /\ sealed \in BOOLEAN
  /\ st \in [Calls -> {"idle", "sending", "waiting", "backoff", "over"}]
  /\ idx \in [Calls -> Indexes \cup {None}] /\ con \in [Calls -> Contents \cup {None}]
  /\ heard \in [Calls -> {None, "result", "rejected", "invalid", "fault", "aborted"}]
  /\ losses \in 0..MaxLosses /\ most \in [Contents -> Nat]

\* A content is paid for no more often than one attempt asked for it, however many
\* requests were repeated and attempts relaunched; and what an attempt asked for
\* twice it gets twice: no two of its calls share an index.
PaidOnce ==
  /\ \A c \in Contents \ Omitting :
       Cardinality({i \in Indexes : called[i] = c}) <= most[c]
  /\ \A v, w \in Calls : v # w /\ idx[v] # None => idx[v] # idx[w]

\* The two numberings drift apart only within an attempt: a call is rejected
\* because an earlier one is pending, or because an earlier one of the same attempt
\* has an index the engine has not seen (it is late, was aborted or invalid).
RejectionIsExplained ==
  [][\A v \in Calls : heard[v] = None /\ heard'[v] = "rejected" =>
       \E i \in Indexes : /\ i < idx[v]
                          /\ \/ Pending(i)
                             \/ /\ called[i] = None /\ refused[i] = None
                                /\ \E w \in Calls : idx[w] = i]_vars

\* Every call ends, whatever waits for what.
EveryCallEnds == \A v \in Calls : st[v] # "idle" ~> st[v] \in {"over", "idle"}

\* An exact pending call that is issued again reconnects: as long as one is left
\* that nobody claimed, a call of its content carries a claimed index.
ReissueReconnects ==
  \A v \in Calls : \A q \in replay :
    /\ idx[v] # None /\ con[v] = q.content
    /\ Pending(q.index) /\ q.index \notin claimed
    => idx[v] \in claimed
=============================================================================
