---------------------------- MODULE MCLifecycle ----------------------------
EXTENDS Lifecycle

CONSTANTS r1, r2, a1, a2, c1, q1

MCRole == [p \in Procs |-> CASE p \in {r1, r2} -> "run"
                             [] p \in {a1, a2} -> "answer"
                             [] OTHER -> "console"]
=============================================================================
