CONSTANTS
  s1 = s1  s2 = s2  rcv = rcv  m1 = m1  m2 = m2  m3 = m3
  Host = {s1, rcv}
  Msg = {m1}
  Workload = {{m1}}
  Src <- MCSrc
  Dst <- MCDst
  Size <- MCSize
  UnsolThresh = 0
  Size1 = 2  Size2 = 1
  MaxBudget = 2
  MaxSrpb = 2
  Windows = {2}
  Lossy = {}
  MaxLoss = 0
  MaxBounce = 0
  Overtaken = {"original"}
SPECIFICATION Spec
INVARIANTS BudgetWithinMax
CHECK_DEADLOCK FALSE
