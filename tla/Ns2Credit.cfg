CONSTANTS
  r = r  s = s  ta = ta  tb = tb  a1 = a1  a2 = a2
  Tor = {ta, tb}
  Aggr = {a1, a2}
  Host = {r, s}
  TorOf <- MCTorOf
  Rcv = r
  Snd = s
  Up <- MCUp
  Hash <- MCHash
  Packets = 2
  Credit = 3
  DataBytes = 3
  ControlBytes = 1
  Xoff = 4
  Xon = 3
  Pthr = 2
  Drains = {0, 9}
  ControlLimit = 4
  DataLimit = 6
  MaxBounces = 1
SPECIFICATION Spec
INVARIANTS TypeOK PausedWhenOver BounceUndoesEveryHop DataFollowsItsGrant CoversOutstandingCredit
CHECK_DEADLOCK FALSE
