CONSTANTS
  s1 = s1  s2 = s2  rcv = rcv  m1 = m1  m2 = m2  m3 = m3
  Host = {s1, s2, rcv}
  Msg = {m1, m2, m3}
  Workload = {{m1, m2}, {m1, m3}}
  Src <- MCSrc
  Dst <- MCDst
  Size <- MCSize
  UnsolThresh = 1
  Size1 = 2  Size2 = 2
  MaxBudget = 2
  MaxSrpb = 2
  Windows = {1, 2}
  Lossy = {"DATA", "AGAIN", "GRANT", "BOUNCED", "RESEND", "GRANT_REQ"}
  MaxLoss = 1
  MaxBounce = 2
  Overtaken = {}
SPECIFICATION Spec
INVARIANTS TypeOK CreditConserved BudgetWithinMax ReceivedWithinExpected DeliveredExactlyOnce NoCreditDebt
CHECK_DEADLOCK FALSE
