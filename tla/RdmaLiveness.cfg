CONSTANTS
  s1 = s1  s2 = s2  m1 = m1  m2 = m2  m3 = m3
  Sender = {s1, s2}
  Message = {m1, m3}
  Src <- MCSrc
  Size <- MCSize
  Size1 = 4  Size2 = 4
  MTU = 3  Overhead = 1  MinFrame = 3
  UnsolThresh = 1
  MaxSrpb = 8
  GlobalBucket = 8
  Granularity = 6
  Caps = {7}
  Lossy = {"REQUEST", "RESEND"}
  MaxLosses = 1
  MaxBounces = 1
  EarlyData = FALSE
  MaxInFlight = 1
SPECIFICATION FairSpec
INVARIANTS GlobalIsOutstanding CreditFitsBucket
PROPERTIES Completes
CHECK_DEADLOCK FALSE
