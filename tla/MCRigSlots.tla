----------------------------- MODULE MCRigSlots -----------------------------
(***************************************************************************)
(* Instances of RigSlots for TLC.                                          *)
(***************************************************************************)
EXTENDS RigSlots

CONSTANTS f0, f1, f2

\* The root dispatches every other frame.
MCFan == [f \in Frames |-> f0]

\* The hash gives every frame the same lane.
MCStable == [f \in Frames |-> 0]
=============================================================================
