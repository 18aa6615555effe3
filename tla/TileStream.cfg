SPECIFICATION Spec
CONSTANTS
  k1 = k1
  k2 = k2
  k3 = k3
  k4 = k4
  NoKey = NoKey
  Keys <- MCKeys
  Cells <- MCCells
  Pool = 3
  Columns = 2
  FadeKeys <- MCFade
  FadeFrames <- MCFrames
  Deadline = 3
  Targets <- MCTargets
  Lookahead = 1
  Moves <- MCMoves
  MaxFrame = 3
SYMMETRY MCSymmetry
INVARIANTS Lockstep Consistent DisplayIntact FlipExact ColdIsFresh
PROPERTIES FadeKept
CHECK_DEADLOCK FALSE
