----------------------------- MODULE DurableLog -----------------------------
(***************************************************************************)
(* What an append-only log promises: records are added at its end, one at  *)
(* a time; a caller may be told that a prefix of it is safe; what was      *)
(* promised stays at its place for ever.  What was not promised yet may be *)
(* lost with the machine.                                                  *)
(***************************************************************************)
EXTENDS Naturals, Sequences

VARIABLES
  log,       \* the records a fresh reader of the log would accept, in order
  promised   \* how many of them somebody has been told are durable

vars == <<log, promised>>

Init == log = <<>> /\ promised = 0

\* A writer adds a record.
Add == /\ Len(log') = Len(log) + 1
       /\ SubSeq(log', 1, Len(log)) = log
       /\ UNCHANGED promised

\* Somebody is told that a longer prefix is safe.
Promise == /\ promised' \in promised..Len(log)
           /\ UNCHANGED log

\* Records nobody was promised disappear.
Lose == /\ \E n \in promised..Len(log) : log' = SubSeq(log, 1, n)
        /\ UNCHANGED promised

Next == Add \/ Promise \/ Lose

Spec == Init /\ [][Next]_vars
=============================================================================
