CONSTANTS
  r = r  s = s  A = A  B = B  g1 = g1  g2 = g2  u1 = u1  u2 = u2  q1 = q1
  Switch = {A, B}
  Host = {r, s}
  Link <- MCLink
  NextHop <- MCNextHop
  Token = {g1, g2, u1}
  Kind <- MCKind
  From <- MCFrom
  To <- MCTo
  Amount <- MCAmount
  XoffBytes = 3
  XonBytes = 2
  EcnBytes = 2
  XoffCells = 2
  XonCells = 1
  EcnCells = 1
  DataBytes = 2
  SignalBytes = 1
  Drains = {0, 3}
  Word = 8
  MaxSync = 2
SPECIFICATION Spec
INVARIANTS TypeOK SyncChain SubtractsOnlyAccepted BounceUndoesEveryHop ScheduledDataWasCounted
