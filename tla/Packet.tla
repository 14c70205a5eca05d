------------------------------- MODULE Packet -------------------------------
(***************************************************************************)
(* The messages the server sends: SendPacketData (Packet.hpp), its text,   *)
(* and how AuthServer.hpp makes one of a DBResult or of a usercode.  Of    *)
(* the texts and of the ciphertext only the lengths are kept.              *)
(***************************************************************************)
EXTENDS Base64, FiniteSets

CONSTANTS
  Long,           \* values of a long
  SizeOfHeader,   \* sizeof(PktHeader)
  SizeOfRes,      \* sizeof(PktRes): a long, padding, a std::string
  SizeOfReq       \* sizeof(PktReq): two std::strings

ASSUME PacketAssumption ==
  Long \subseteq Int /\ {SizeOfHeader, SizeOfRes, SizeOfReq} \subseteq Nat

\* Fault: the size of what is received.
RECV_DATASIZE == SizeOfHeader + SizeOfReq

SEND_DATASIZE == SizeOfHeader + SizeOfRes

PowersOfTen == {1, 10, 100, 1000, 10000, 100000, 1000000, 10000000, 100000000, 1000000000}

\* The characters of a number of at most ten digits.
NumberLength(n) ==
  LET size == IF n < 0 THEN -n ELSE n IN
  Cardinality({p \in PowersOfTen : p <= size}) + (IF n < 0 THEN 1 ELSE 0) + (IF n = 0 THEN 1 ELSE 0)

PktidLength(pktid) == IF pktid = "TOKEN_RES" THEN 9 ELSE 10

\* The length of {"totalsize":_,"pktid":"_","userid":_,"token":"_"}.
SendDataToJsonString(pkt) ==
  44 + NumberLength(pkt.TotalSize) + PktidLength(pkt.pktid) + NumberLength(pkt.userid) + pkt.token

\* The SendPacketData for a packet: the size of pPacketData, and the number of
\* bytes SetOverlapped has WSASend read from it.
SendPacketData(pkt) ==
  [size |-> SendDataToJsonString(pkt) + 1, len |-> SEND_DATASIZE]

-----------------------------------------------------------------------------
(* The token.                                                              *)

AESBlock == 16

\* Fault: the block that EVP_EncryptFinal_ex adds is not counted.
encryptAESUpdateOnly(n) == {0, AESBlock * (n \div AESBlock)}

\* The possible lengths of the ciphertext of n bytes: whole blocks from
\* EVP_EncryptUpdate, the padded one from EVP_EncryptFinal_ex; 0 on failure.
encryptAES(n) == {0, AESBlock * (n \div AESBlock) + AESBlock}

\* Those of the plaintext of n bytes of ciphertext, n > 0, whose padding is p.
\* A failure of EVP_DecryptFinal_ex leaves what came before.
decryptAES(n, p) == {0, n - AESBlock, n - p}

\* The possible lengths of the token for a PktInfo of n bytes; TOKEN_SIZE is
\* n + 1.  The size of the encoded text is taken for that of the bytes.
encrypt(n) ==
  LET numbytes == n + 1 + AESBlock IN
  {IF c > numbytes \/ EncodedSize(numbytes) # numbytes
   THEN 0 ELSE EncodedSize(numbytes) - 1 : c \in encryptAES(n)}

\* The size of the mToken that the token is copied to, for n bytes.
SizeOfToken(n) == n + 1 + AESBlock

PktSend(pktid, userid, token) ==
  [TotalSize |-> SEND_DATASIZE, pktid |-> pktid, userid |-> userid, token |-> token]

\* MakeSendPacket for a PktInfo of n bytes: the packets it may lead to. The
\* usercode it is called with goes into the PktInfo only; stPktRes.userid is
\* whatever the stack holds.
MakeSendPacket(n) == {PktSend("TOKEN_RES", userid, token) : userid \in Long, token \in encrypt(n)}

\* ProcessSendRes: the packet for a DBResult.
ResultPacket(res) ==
  PktSend(IF res.res \in {"SIGNIN_FAIL", "SIGNIN_SUCCESS"} THEN "SIGNIN_RES" ELSE "SIGNUP_RES",
          res.usercode, 0)
=============================================================================
