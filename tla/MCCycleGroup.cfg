SPECIFICATION FairSpec
CONSTANTS
  N = 2
  c12 = c12
  c21 = c21
  in1 = in1
  out2 = out2
  m1 = m1
  m2 = m2
  m3 = m3
  m4 = m4
  Cyc = {c12, c21}
  Std = {in1}
  Outs = {out2}
  Src <- MCSrc
  Dst <- MCDst
  p1 = p1
  p2 = p2
  Procs = {p1}
  Msgs = {m1, m2, m3, m4}
  None = None
  OutCap = 1
  MaxFresh = 1
  MaxStd = 1
  MaxPanics = 1
INVARIANTS InflightExact QuiescenceIsFinal NoSendOnClosed
PROPERTIES OrderedTeardown Terminates
