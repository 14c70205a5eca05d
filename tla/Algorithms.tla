----------------------------- MODULE Algorithms -----------------------------
(***************************************************************************)
(* What the functions of Base64.hpp, AES.hpp, Packet.hpp and of the input  *)
(* tests compute, compared with what they are to compute, on every input   *)
(* up to a length: bytes and text are inputs that grow one element a step. *)
(***************************************************************************)
EXTENDS Packet

CONSTANTS
  Alnum,
  SomeByte,   \* bytes that inputs are made of
  SomeChar,   \* characters that inputs are made of
  MaxFree,    \* bound: the length up to which an input grows freely
  MaxLength   \* bound: its length; beyond MaxFree its first element is repeated

ASSUME AlgorithmsAssumption == MaxFree \in Nat \ {0} /\ SomeByte \subseteq Byte

Check == INSTANCE InjectionCheck

VARIABLES bytes, text

Init == bytes = <<>> /\ text = <<>>

Grown(input, any) ==
  IF Len(input) < MaxFree THEN {Append(input, x) : x \in any} ELSE {<<Head(input)>> \o input}

Next ==
  \/ /\ text = <<>> /\ Len(bytes) < MaxLength
     /\ bytes' \in Grown(bytes, SomeByte)
     /\ UNCHANGED text
  \/ /\ bytes = <<>> /\ Len(text) < MaxLength
     /\ text' \in Grown(text, SomeChar)
     /\ UNCHANGED bytes

Spec == Init /\ [][Next]_<<bytes, text>>

-----------------------------------------------------------------------------
(* Properties.                                                             *)

PowerOfTwo == <<1, 2, 4, 8, 16, 32, 64, 128>>

\* The bits of a byte or of a digit, the highest first.
Bits(n, width) == [i \in 1 .. width |-> (n \div PowerOfTwo[width - i + 1]) % 2]

\* base64_encode writes one digit for every six bits of its input and fills up
\* the last quadruple with '=': carried over the quadruples is nothing.
EncodedAsSpecified ==
  LET code == base64_encode(bytes)
      bit(i) == IF i > 8 * Len(bytes) THEN 0
                ELSE Bits(bytes[((i - 1) \div 8) + 1], 8)[((i - 1) % 8) + 1]
      digits == (8 * Len(bytes) + 5) \div 6
  IN /\ Len(code) = EncodedSize(Len(bytes)) - 1
     /\ \A k \in 1 .. Len(code) :
          IF k > digits THEN code[k] = PadChar
          ELSE Bits(DecodeMimeBase64(code[k]), 6) = [i \in 1 .. 6 |-> bit(6 * (k - 1) + i)]

\* base64_decode undoes base64_encode, zero bytes included, and writes no more
\* than it is allowed to.
DecodedIsEncoded ==
  \A n \in 0 .. Len(bytes) + 1 :
    base64_decode(base64_encode(bytes), n)
      = SubSeq(bytes, 1, IF n < Len(bytes) THEN n ELSE Len(bytes))

\* What encryptAES may write over text fits into it (AuthServer.hpp:265), and
\* decryptAES gives the length back that was encrypted.
CipherFits ==
  LET n == Len(bytes) IN
  \A c \in encryptAES(n) :
    /\ c <= SizeOfToken(n)
    /\ c # 0 => n \in decryptAES(c, AESBlock - (n % AESBlock))

\* WSASend reads no byte behind the text, whose length SetOverlapped does not
\* look at (Packet.hpp:268): for any usercode, with any token, of any kind.
SendStaysInBuffer ==
  \A userid \in Long, pktid \in {"SIGNIN_RES", "SIGNUP_RES", "TOKEN_RES"} :
    LET data == SendPacketData(PktSend(pktid, userid, Len(base64_encode(bytes)))) IN
    data.len <= data.size

\* WSASend reads all of the text: the client turns it into a struct again
\* (Packet.hpp:44).
MessageIsWhole ==
  LET data == SendPacketData(PktSend("SIGNIN_RES", Len(bytes), 0)) IN data.len >= data.size - 1

\* A token's packet, and with it the value Redis stores under the token
\* (RedisManager.hpp:76), carries the usercode the token was asked for
\* (AuthServer.hpp:244).
TokenIsForUser ==
  \A usercode \in Long : \A pkt \in MakeSendPacket(Len(bytes)) : pkt.userid = usercode

\* The word search finds a word exactly where it is a part of the string.
ContainsIsSubstring ==
  \A word \in Check!reservedWord :
    Check!IsStringContains(text, word) <=>
      \E i \in 0 .. Len(text) - Len(word) : SubSeq(text, i + 1, i + Len(word)) = word

\* No part of a name that passes is a reserved word, wherever it begins and
\* ends: the search goes through all the words (Database.hpp:317).
ValidNameIsHarmless ==
  Check!CheckIDIsValid(text) =>
    \A i, j \in 1 .. Len(text) : SubSeq(text, i, j) \notin Check!reservedWord
=============================================================================
