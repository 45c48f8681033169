SPECIFICATION Spec
CONSTANTS
  t1 = t1  t2 = t2
  l1 = l1  l2 = l2
  c1 = c1
  g1 = g1
  Task = {t1, t2}
  Main = t1
  Loop = {l1, l2}
  Call = {c1}
  Gen = {g1}
  MaxAllow = 2
  Trio = Trio
INVARIANTS RunsAtHome HooksFollowLoops GeneratorsGoHome ShimCoversCall
SYMMETRY Symmetry
CHECK_DEADLOCK FALSE
