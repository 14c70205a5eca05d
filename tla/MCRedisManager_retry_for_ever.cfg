CONSTANTS
  p1 = p1
  p2 = p2
  p3 = p3
  c1 = c1
  c2 = c2
  t1 = t1
  t2 = t2
  nullptr = nullptr
  Packet = {p1, p2}
  Caller = {c1, c2}
  Thread = {t1, t2}
  Fault = {"lost"}
SPECIFICATION FairSpec
CHECK_DEADLOCK FALSE
PROPERTY
  RetriedIsStored
