SPECIFICATION FairSpec
CONSTANTS
  s1 = s1
  s2 = s2
  w = w
  q = q
  e1 = e1
  e2 = e2
  e3 = e3
  t1 = t1
  t2 = t2
  None = None
  Sims = {s1, s2}
  Tools = {w}
  Parents = {q}
  Entries = {e1, e2, e3}
  Forced = {}
  Child <- MCChild
  Output <- MCOutput
  Input <- MCInput
  Identity <- MCIdentity
  Required <- MCRequired
  Derived <- NoDerived
  Capacity = 4
  MinFree = 0
  MaxEvents = 5
INVARIANTS
  TypeOK
  ReusedIsWhole
  PinnedIsWhole
  OneMaker
  PromisedSpace
PROPERTIES
  LeasesKept
  RunsEnd
CHECK_DEADLOCK FALSE
