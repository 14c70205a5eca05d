CONSTANTS
  alice = alice
  bob = bob
  short = short
  pw1 = pw1
  pw2 = pw2
  t1 = t1
  t2 = t2
  None = None
  Server = {1}
  Thread = {t1, t2}
  Code = {1, 2}
  IDs <- MCIDs
  PWs <- MCPWs
  ValidID <- MCValidID
  ValidPW <- MCPWs
  Accounts <- NoAccounts
  Input <- SessionInput
  UShort = 65536
  MaxPending = 2
  DBMayFail = TRUE
SPECIFICATION FairSpec
INVARIANTS
  TypeOK
  EndedHoldsNothing
  SignInAnswerIsTrue
  SignUpAnswerIsTrue
PROPERTY
  ImplementsService
  RequestIsAnswered
  EndReturns
