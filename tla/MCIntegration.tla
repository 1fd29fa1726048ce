--------------------------- MODULE MCIntegration ---------------------------
(***************************************************************************)
(* Instances of Integration for TLC.                                       *)
(***************************************************************************)
EXTENDS Integration

CONSTANTS p, q

\* Both tasks touch p, and the second touches q as well.
MCShared == <<{p}, {p, q}>>
=============================================================================
