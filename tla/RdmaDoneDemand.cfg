CONSTANTS
  s1 = s1  s2 = s2  m1 = m1  m2 = m2  m3 = m3
  Sender = {s1}
  Message = {m1, m2}
  Src <- MCSrc
  Size <- MCSize
  Size1 = 2  Size2 = 2
  MTU = 2  Overhead = 1  MinFrame = 3
  UnsolThresh = 1
  MaxSrpb = 6
  GlobalBucket = 0
  Granularity = 2
  Caps = {3, 6}
  Lossy = {"REQUEST", "RESEND"}
  MaxLosses = 0
  MaxBounces = 0
  EarlyData = FALSE
  MaxInFlight = 2
SPECIFICATION Spec
INVARIANTS DemandIsOfItsMessages
CHECK_DEADLOCK FALSE
