CONSTANTS
  r = r  s = s  a = a  b = b  c = c  d = d  e = e  f = f  g = g
  Switch = {a, b}
  Host = {r, s}
  Link <- Line
  RtTable <- LineTable
  Flow = {f}
  Rcv <- MCRcv
  Snd <- MCSnd
  Chunks <- MCChunks
  SeqSpace = 2
  SymmetricHash <- MCSymmetricHash
  EcmpHash <- MCEcmpHash
  Extras <- LineExtras
  Credit = 3
  DataBytes = 3
  ControlBytes = 1
  MaxBuffer <- LineBuffer
  CreditLimit = 3
  FcNum = 3
  FcDen = 4
  AdmNum = 1
  AdmDen = 1
  XoffMargin = 1
  FcMargin = 1
  Drains = {1, 2}
  MaxGrants = 0
SPECIFICATION FairSpec
PROPERTIES ImplementsNetwork GrantsAccepted
CHECK_DEADLOCK FALSE
