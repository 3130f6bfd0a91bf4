------------------------------ MODULE MCFrames ------------------------------
(***************************************************************************)
(* Frames for TLC: frames 1 and 3 belong to the firmware, so that the heap *)
(* has to go past frame 2; the bitmap is in frame 0.                       *)
(***************************************************************************)
EXTENDS Frames, TLC
CONSTANTS t1, t2

MCTask == {t1, t2}
MCUsable == Frame \ {1, 3}

MCSymmetry == Permutations(MCTask)

\* After a torn install nothing more is claimed, and nothing more explored.
NotTorn == ~torn

=============================================================================
