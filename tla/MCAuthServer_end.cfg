CONSTANTS
  alice = alice
  pw1 = pw1
  w1 = w1
  w2 = w2
  t1 = t1
  r1 = r1
  p1 = p1
  None = None
  nullptr = nullptr
  Session = {0}
  IOCPWorker = {w1, w2}
  MaxRequests = 2
  AUTHSERVER_NUM = 1
  DBThread = {t1}
  Code = {1}
  IDs = {alice}
  PWs = {pw1}
  ValidID = {alice}
  ValidPW = {pw1}
  Accounts <- MCAccounts
  Input <- SignIn
  DBMayFail = TRUE
  RedisThread = {r1}
  Packet = {p1}
  Fault = {}
SPECIFICATION FairSpec
CHECK_DEADLOCK FALSE
INVARIANTS
  TypeOK
  NothingRunsAfterEnd
  SessionsGoLast
PROPERTY
  EndReturns
