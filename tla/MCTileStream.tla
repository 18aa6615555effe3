--------------------------- MODULE MCTileStream ----------------------------
(***************************************************************************)
(* Two visible cells on a ring of four, three slots for four patterns, one *)
(* of which a fade at frame 3 refers to.  A scroll on may begin at frame 2 *)
(* and one either way at frame 3, a cell a frame.                          *)
(***************************************************************************)
EXTENDS TileStream, TLC

CONSTANTS k1, k2, k3, k4

MCKeys    == {k1, k2, k3, k4}
MCFade    == {k1}
MCCells   == 0 .. 3
MCTargets == {{k1, x} : x \in MCKeys}
MCFrames  == {1}
MCMoves   == {<<2, 1, 1>>, <<3, 1, 1>>, <<3, -1, 1>>}
MCSymmetry == Permutations(MCFade) \cup Permutations(MCKeys \ MCFade)
=============================================================================
