---------------------------- MODULE MCAdmission ----------------------------
(***************************************************************************)
(* An instance of Admission for TLC.  The root (0) dispatches 1 and 2 at   *)
(* once; 1 dispatches 3, whose rig is twice as dear; 2 dispatches 4; the   *)
(* root dispatches 5 and 6 in a second call, with a rig that is not known. *)
(* Whoever comes first, somebody is over a cap.                            *)
(***************************************************************************)
EXTENDS Admission

MCFrames == 0..6
MCAbove  == [f \in MCFrames |->
               CASE f = 3 -> {0, 1, 3}
                 [] f = 4 -> {0, 2, 4}
                 [] OTHER -> {0, f}]
MCCost   == [f \in MCFrames |-> IF f = 3 THEN 2 ELSE 1]

MCCalls  == 0..3
MCCaller == [c \in MCCalls |-> CASE c = 1 -> 1 [] c = 2 -> 2 [] OTHER -> 0]
MCTasks  == [c \in MCCalls |->
               CASE c = 0 -> {1, 2}
                 [] c = 1 -> {3}
                 [] c = 2 -> {4}
                 [] c = 3 -> {5, 6}]
=============================================================================
