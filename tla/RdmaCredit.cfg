CONSTANTS
  s1 = s1  s2 = s2  m1 = m1  m2 = m2  m3 = m3
  Sender = {s1}
  Message = {m1, m2, m3}
  Src <- OneSender
  Size <- ThreeSizes
  Size1 = 7  Size2 = 9  Size3 = 5
  MTU = 4  Overhead = 1  MinFrame = 3
  UnsolThresh = 8
  MaxSrpb = 10
  GlobalBucket = 0
  Granularity = 8
  Caps = {5, 10}
  Lossy = {"REQUEST", "RESEND"}
  MaxLosses = 1
  MaxBounces = 1
  EarlyData = FALSE
  MaxInFlight = 2
SPECIFICATION SpecWorkload
INVARIANTS TypeOK BudgetFloor TickServesDemand CreditIsCounted GrantedIsOutstanding OutstandingInScheduled ReceiverEnabledMeansInitialised DemandInScheduled
CHECK_DEADLOCK FALSE
