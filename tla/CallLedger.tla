----------------------------- MODULE CallLedger -----------------------------
(***************************************************************************)
(* What the journal promises about the tool calls of one frame, whatever   *)
(* threads, joins, crashes and restarts produced them.  The ledger is a    *)
(* numbered list of calls.  A call is opened by its *_called event, closed *)
(* by one response (a tool-specific return or a call_failed), or refused   *)
(* before it had any effect.  At most one call is open at a time, an       *)
(* opened or refused call takes the next index, and an entry that was      *)
(* closed or refused never changes again.  That is what "replay never pays *)
(* twice" needs of the journal.                                            *)
(*                                                                         *)
(* One clause is weaker than a reader would expect: Fail may create an     *)
(* entry at any unused index, because the exit reconciliation records      *)
(* call_failed for every validated call that never got a return, also for  *)
(* one that was turned away because it was not the next logical call.      *)
(***************************************************************************)
EXTENDS Naturals

CONSTANTS
  MaxIndex,   \* the largest call index
  Contents,   \* canonical contents of calls (their tool and request hash)
  Responses,  \* what may close a call
  None        \* no content, no response

VARIABLES
  content,    \* index -> content of the call journalled there
  response,   \* index -> the response that closed it
  refused     \* index -> content of the call refused there

ledger == <<content, response, refused>>

Indexes == 0..MaxIndex

Unused(i)  == content[i] = None /\ refused[i] = None
Pending(i) == content[i] # None /\ response[i] = None

Init ==
  /\ content  = [i \in Indexes |-> None]
  /\ response = [i \in Indexes |-> None]
  /\ refused  = [i \in Indexes |-> None]

\* A call may begin at index i: no other call is open, and no index from i
\* on has been used.
MayBegin(i) == \A j \in Indexes : ~Pending(j) /\ (j >= i => Unused(j))

\* A call takes effect.
Open(i) ==
  /\ MayBegin(i)
  /\ \E c \in Contents : content' = [content EXCEPT ![i] = c]
  /\ UNCHANGED <<response, refused>>

\* The open call gets its only response.
Close(i) ==
  /\ Pending(i)
  /\ \E r \in Responses : response' = [response EXCEPT ![i] = r]
  /\ UNCHANGED <<content, refused>>

\* A call that never took effect is recorded as failed.
Fail(i) ==
  /\ Unused(i)
  /\ \E c \in Contents : content' = [content EXCEPT ![i] = c]
  /\ \E r \in Responses : response' = [response EXCEPT ![i] = r]
  /\ UNCHANGED refused

\* A call is refused, with its reason, before it has any effect.
Refuse(i) ==
  /\ MayBegin(i)
  /\ \E c \in Contents : refused' = [refused EXCEPT ![i] = c]
  /\ UNCHANGED <<content, response>>

Next == \E i \in Indexes : Open(i) \/ Close(i) \/ Fail(i) \/ Refuse(i)

Spec == Init /\ [][Next]_ledger
=============================================================================
