CONSTANTS
  Alnum <- Letters
  SomeByte <- Bytes
  SomeChar <- Chars
  MaxFree = 4
  MaxLength = 18
  Long <- Longs
  SizeOfHeader = 8
  SizeOfRes = 48
  SizeOfReq = 80
SPECIFICATION Spec
CHECK_DEADLOCK FALSE
INVARIANTS
  TokenIsForUser
