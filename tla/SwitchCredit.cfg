CONSTANTS
  r = r  s = s  a = a  b = b  c = c  d = d  e = e  f = f  g = g
  Switch = {a, b, c, d, e}
  Host = {r, s}
  Link <- Diamond
  RtTable <- DiamondTable
  Flow = {f, g}
  Rcv <- MCRcv
  Snd <- MCSnd
  Chunks <- MCChunks
  SeqSpace = 2
  SymmetricHash <- MCSymmetricHash
  EcmpHash <- MCEcmpHash
  Extras <- DiamondExtras
  Credit = 3
  DataBytes = 3
  ControlBytes = 1
  MaxBuffer <- MCMaxBuffer
  CreditLimit = 3
  FcNum = 3
  FcDen = 4
  AdmNum = 1
  AdmDen = 1
  XoffMargin = 1
  FcMargin = 1
  Drains = {2, 9}
  MaxGrants = 3
SPECIFICATION Spec
INVARIANTS TypeOK WithinBuffers BounceUndoesEveryHop ReservationsCovered
CHECK_DEADLOCK FALSE
