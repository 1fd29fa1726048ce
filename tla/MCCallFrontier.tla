--------------------------- MODULE MCCallFrontier ---------------------------
(***************************************************************************)
(* Instances of CallFrontier for TLC.                                      *)
(***************************************************************************)
EXTENDS CallFrontier, TLC

CONSTANTS t1, t2, t3, work, ask, r1, r2

MCTools == [c \in Contents |-> IF c = ask THEN "ask" ELSE "gate"]
MCThreadSymmetry == Permutations(Threads)
=============================================================================
