CONSTANTS
  w1 = w1
  w2 = w2
  k1 = k1
  k2 = k2
  p1 = p1
  p2 = p2
  INVALID_SOCKET = INVALID_SOCKET
  NoPacket = NoPacket
  NoJob = NoJob
  Session = {0}
  Worker <- MCWorker
  Socket <- TwoSockets
  Packet <- TwoPackets
  MaxReceives = 2
  MaxAsked = 0
  IOMayFail = FALSE
  Slow = {"connection"}
SPECIFICATION Spec
PROPERTY
  ReuseWaits
