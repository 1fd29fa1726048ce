---------------------------- MODULE SlotIntervals ----------------------------
(***************************************************************************)
(* What the journal promises about the slots of one rig: the active        *)
(* intervals of frames, opened by frame_slot_acquired and closed by        *)
(* frame_slot_released, never overlap on a lane, and a frame has at most   *)
(* one open at a time.  A reader of the journal (the dashboard, the sweep  *)
(* of a resumed engine) relies on nothing else.                            *)
(***************************************************************************)
CONSTANTS Frames, Lanes, None

VARIABLE jlane   \* frame -> lane of its open interval

Init == jlane = [f \in Frames |-> None]

Acquire(f, l) ==
  /\ jlane[f] = None
  /\ \A g \in Frames : jlane[g] # l
  /\ jlane' = [jlane EXCEPT ![f] = l]

Release(f) ==
  /\ jlane[f] # None
  /\ jlane' = [jlane EXCEPT ![f] = None]

Next == \E f \in Frames : Release(f) \/ \E l \in Lanes : Acquire(f, l)

Spec == Init /\ [][Next]_jlane
=============================================================================
