-------------------------- MODULE AlgorithmsProofs --------------------------
(***************************************************************************)
(* What Algorithms checks of the token, of the tests of a name, of Base64  *)
(* and of the packets, proved for inputs of any length.                    *)
(***************************************************************************)
EXTENDS Algorithms, SequenceTheorems, FiniteSetTheorems, WellFoundedInduction, TLAPS

\* Quotients and remainders by the two divisors used below.
LEMMA Quotient ==
  ASSUME NEW n \in Nat
  PROVE  /\ n \div 3 \in Nat /\ n % 3 \in 0 .. 2 /\ n = 3 * (n \div 3) + (n % 3)
         /\ n \div 16 \in Nat /\ n % 16 \in 0 .. 15 /\ n = 16 * (n \div 16) + (n % 16)
OBVIOUS

\* The text of Base64 is longer than its input, whatever the length.
LEMMA EncodedIsLonger ==
  ASSUME NEW n \in Nat
  PROVE  EncodedSize(n) \in Nat /\ EncodedSize(n) > n
BY Quotient, SMT DEF EncodedSize

\* No token is ever made: encrypt compares the size of the text with that of
\* its input (AuthServer.hpp:278), so every answer to a token request, and the
\* key Redis stores it under, is the empty string.
THEOREM TokenIsEmpty ==
  ASSUME NEW n \in Nat
  PROVE  encrypt(n) = {0}
<1>1. n + 1 + AESBlock \in Nat
  BY DEF AESBlock
<1>2. EncodedSize(n + 1 + AESBlock) # n + 1 + AESBlock
  BY <1>1, EncodedIsLonger
<1>3. encryptAES(n) # {}
  BY DEF encryptAES
<1> QED
  BY <1>2, <1>3, Zenon DEF encrypt

\* The inputs stay sequences of bytes and of characters.
Typed == bytes \in Seq(SomeByte) /\ text \in Seq(SomeChar)

\* Growing keeps an input a sequence: only an empty one has no first element.
LEMMA GrownTyped ==
  ASSUME NEW S, NEW input \in Seq(S), NEW grown \in Grown(input, S)
  PROVE  grown \in Seq(S)
<1>1. CASE Len(input) < MaxFree
  BY <1>1 DEF Grown
<1>2. CASE ~(Len(input) < MaxFree)
  <2>1. input # <<>>
    BY <1>2, AlgorithmsAssumption
  <2>2. Head(input) \in S
    BY <2>1
  <2>3. grown = <<Head(input)>> \o input
    BY <1>2 DEF Grown
  <2> QED
    BY <2>2, <2>3
<1> QED
  BY <1>1, <1>2

\* So they do at every step.
LEMMA InputsTyped == Spec => []Typed
<1>1. Init => Typed
  BY DEF Init, Typed
<1>2. Typed /\ [Next]_<<bytes, text>> => Typed'
  BY GrownTyped DEF Typed, Next
<1> QED
  BY <1>1, <1>2, PTL DEF Spec

\* The ciphertext fits into the array it is written to, whatever the length of
\* the PktInfo, and decryptAES gives that length back.
THEOREM CiphersFit == Spec => []CipherFits
<1>1. Typed => CipherFits
  <2> SUFFICES ASSUME NEW n \in Nat, NEW c \in encryptAES(n)
               PROVE  /\ c <= SizeOfToken(n)
                      /\ c # 0 => n \in decryptAES(c, AESBlock - (n % AESBlock))
    BY DEF Typed, CipherFits
  <2> QED
    BY Quotient, SMT DEF encryptAES, decryptAES, SizeOfToken, AESBlock
<1> QED
  BY <1>1, InputsTyped, PTL

-----------------------------------------------------------------------------
(* The tests of a name.                                                    *)

\* The letters of the reserved words.
Letter == {"A", "C", "D", "E", "F", "H", "I", "L", "N", "O", "P", "R", "S", "T", "U", "X"}

\* Every reserved word is a string with a first character.
LEMMA WordTyped ==
  ASSUME NEW word \in Check!reservedWord
  PROVE  word \in Seq(Letter) /\ Len(word) \in Nat \ {0}
<1>1. CASE word = <<"O", "R">>
  BY <1>1 DEF Letter
<1>2. CASE word = <<"S", "E", "L", "E", "C", "T">>
  BY <1>2 DEF Letter
<1>3. CASE word = <<"I", "N", "S", "E", "R", "T">>
  BY <1>3 DEF Letter
<1>4. CASE word = <<"D", "E", "L", "E", "T", "E">>
  BY <1>4 DEF Letter
<1>5. CASE word = <<"U", "P", "D", "A", "T", "E">>
  BY <1>5 DEF Letter
<1>6. CASE word = <<"C", "R", "E", "A", "T", "E">>
  BY <1>6 DEF Letter
<1>7. CASE word = <<"D", "R", "O", "P">>
  BY <1>7 DEF Letter
<1>8. CASE word = <<"E", "X", "E", "C">>
  BY <1>8 DEF Letter
<1>9. CASE word = <<"U", "N", "I", "O", "N">>
  BY <1>9 DEF Letter
<1>10. CASE word = <<"F", "E", "T", "C", "H">>
  BY <1>10 DEF Letter
<1>11. CASE word = <<"D", "E", "C", "L", "A", "R", "E">>
  BY <1>11 DEF Letter
<1>12. CASE word = <<"T", "R", "U", "N", "C", "A", "T", "E">>
  BY <1>12 DEF Letter
<1> QED
  BY <1>1, <1>2, <1>3, <1>4, <1>5, <1>6, <1>7, <1>8, <1>9, <1>10, <1>11, <1>12 DEF Check!reservedWord

\* A part of a sequence, character by character.
LEMMA PartIs ==
  ASSUME NEW S, NEW s \in Seq(S), NEW word \in Seq(S), Len(word) > 0,
         NEW i \in 0 .. Len(s) - Len(word)
  PROVE  SubSeq(s, i + 1, i + Len(word)) = word
           <=> \A j \in 1 .. Len(word) : s[i + j] = word[j]
<1> DEFINE part == SubSeq(s, i + 1, i + Len(word))
<1>0. Len(s) \in Nat /\ Len(word) \in Nat
  BY LenProperties
<1>1. /\ part \in Seq(S) /\ Len(part) = Len(word)
      /\ \A j \in 1 .. Len(word) : part[j] = s[i + j]
  <2>1. /\ i + 1 \in 1 .. Len(s) + 1 /\ i + Len(word) \in i + 1 - 1 .. Len(s)
        /\ i + Len(word) - (i + 1) + 1 = Len(word)
    BY <1>0
  <2>2. \A j \in 1 .. Len(word) : i + 1 + j - 1 = i + j
    BY <1>0
  <2> QED
    BY <1>0, <2>1, <2>2, SubSeqProperties
<1> HIDE DEF part
<1>2. part = word <=> \A j \in 1 .. Len(word) : part[j] = word[j]
  BY <1>1, SeqEqual
<1> QED
  BY <1>1, <1>2 DEF part

\* The word search finds a word exactly where it is a part of the string,
\* whatever the string: neither of its loops stops early or runs too far.
THEOREM ContainsIsRight == Spec => []ContainsIsSubstring
<1>1. Typed => ContainsIsSubstring
  <2> SUFFICES ASSUME NEW word \in Check!reservedWord, Typed
               PROVE  Check!IsStringContains(text, word) <=>
                        \E i \in 0 .. Len(text) - Len(word) :
                          SubSeq(text, i + 1, i + Len(word)) = word
    BY DEF ContainsIsSubstring
  <2> DEFINE S == SomeChar \cup Letter
  <2>1. text \in Seq(S) /\ word \in Seq(S) /\ Len(text) \in Nat /\ Len(word) \in Nat \ {0}
    BY WordTyped, LenProperties DEF Typed
  <2> HIDE DEF S
  <2>2. \A i \in 0 .. Len(text) - Len(word) :
          SubSeq(text, i + 1, i + Len(word)) = word
            <=> \A j \in 1 .. Len(word) : text[i + j] = word[j]
    BY <2>1, PartIs
  <2>3. ASSUME NEW i \in 1 .. Len(text), i - 1 + Len(word) <= Len(text),
               text[i] = word[1],
               \A j \in 2 .. Len(word) : text[i + j - 1] = word[j]
        PROVE  \E k \in 0 .. Len(text) - Len(word) :
                 \A j \in 1 .. Len(word) : text[k + j] = word[j]
    <3>1. i - 1 \in 0 .. Len(text) - Len(word)
      BY <2>1, <2>3
    <3>2. ASSUME NEW j \in 1 .. Len(word) PROVE text[(i - 1) + j] = word[j]
      <4>1. CASE j = 1
        BY <2>3, <4>1
      <4>2. CASE j # 1
        <5>1. j \in 2 .. Len(word) /\ (i - 1) + j = i + j - 1
          BY <2>1, <4>2
        <5> QED
          BY <2>3, <5>1
      <4> QED
        BY <4>1, <4>2
    <3> QED
      BY <3>1, <3>2
  <2>4. ASSUME NEW k \in 0 .. Len(text) - Len(word),
               \A j \in 1 .. Len(word) : text[k + j] = word[j]
        PROVE  /\ k + 1 \in 1 .. Len(text) /\ k + 1 - 1 + Len(word) <= Len(text)
               /\ text[k + 1] = word[1]
               /\ \A j \in 2 .. Len(word) : text[k + 1 + j - 1] = word[j]
    <3>1. \A j \in 1 .. Len(word) : k + 1 + j - 1 = k + j
      BY <2>1
    <3> QED
      BY <2>1, <2>4, <3>1
  <2>5. Check!IsStringContains(text, word) <=>
          \E k \in 0 .. Len(text) - Len(word) :
            \A j \in 1 .. Len(word) : text[k + j] = word[j]
    <3>1. ASSUME Check!IsStringContains(text, word)
          PROVE  \E k \in 0 .. Len(text) - Len(word) :
                   \A j \in 1 .. Len(word) : text[k + j] = word[j]
      BY <2>3, <3>1 DEF Check!IsStringContains
    <3>2. ASSUME NEW k \in 0 .. Len(text) - Len(word),
                 \A j \in 1 .. Len(word) : text[k + j] = word[j]
          PROVE  Check!IsStringContains(text, word)
      <4>1. k + 1 \in 1 .. Len(text)
        BY <2>4, <3>2
      <4> SUFFICES \E i \in 1 .. Len(text) :
                     /\ i - 1 + Len(word) <= Len(text)
                     /\ text[i] = word[1]
                     /\ \A j \in 2 .. Len(word) : text[i + j - 1] = word[j]
        BY DEF Check!IsStringContains
      <4> WITNESS k + 1 \in 1 .. Len(text)
      <4> QED
        BY <2>4, <3>2
    <3> QED
      BY <3>1, <3>2
  <2> QED
    BY <2>2, <2>5
<1> QED
  BY <1>1, InputsTyped, PTL

\* No part of an identifier that passes is a reserved word, wherever it begins
\* and ends, for texts of any length.
THEOREM ValidNamesAreHarmless == Spec => []ValidNameIsHarmless
<1>1. Typed /\ ContainsIsSubstring => ValidNameIsHarmless
  <2> SUFFICES ASSUME Typed, ContainsIsSubstring, Check!CheckIDIsValid(text),
                      NEW i \in 1 .. Len(text), NEW j \in 1 .. Len(text),
                      SubSeq(text, i, j) \in Check!reservedWord
               PROVE  FALSE
    BY DEF ValidNameIsHarmless
  <2> DEFINE word == SubSeq(text, i, j)
  <2>1. Len(text) \in Nat /\ text \in Seq(SomeChar)
    BY LenProperties DEF Typed
  <2>2. Len(word) \in Nat \ {0}
    BY WordTyped
  <2>3. Len(word) = IF i <= j THEN j - i + 1 ELSE 0
    <3>1. \A k \in i .. j : text[k] \in SomeChar
      BY <2>1, ElementOfSeq
    <3> QED
      BY <2>1, <3>1, SubSeqProperties
  <2>4. i - 1 \in 0 .. Len(text) - Len(word) /\ (i - 1) + 1 = i /\ (i - 1) + Len(word) = j
    BY <2>1, <2>2, <2>3
  <2>5. \E k \in 0 .. Len(text) - Len(word) : SubSeq(text, k + 1, k + Len(word)) = word
    BY <2>4
  <2>6. ~Check!IsStringContains(text, word)
    BY DEF Check!CheckIDIsValid, Check!InjectionCheck
  <2> HIDE DEF word
  <2> QED
    BY <2>5, <2>6 DEF ContainsIsSubstring, word
<1> QED
  BY <1>1, ContainsIsRight, InputsTyped, PTL

-----------------------------------------------------------------------------
(* Base64: what its loops compute, in closed form.                         *)

\* Every non-empty set of natural numbers has a least element.
LEMMA LeastElement ==
  ASSUME NEW T, T \subseteq Nat, T # {}
  PROVE  \E x \in T : \A y \in T : x <= y
<1> DEFINE R == {ss \in Nat \X Nat : ss[1] < ss[2]}
<1>1. IsWellFoundedOn(R, Nat)
  BY NatLessThanWellFounded, Zenon DEF OpToRel
<1> HIDE DEF R
<1>2. PICK x \in T : \A y \in T : <<y, x>> \notin R
  BY <1>1, WFMin
<1>3. \A y \in T : ~(y < x)
  BY <1>2 DEF R
<1> QED
  BY <1>3

\* The bytes among them are bytes.
LEMMA BytesTyped == Typed => bytes \in Seq(Byte)
BY AlgorithmsAssumption DEF Typed

\* Every table entry is a character, and none of them is '='.
LEMMA TableTyped ==
  ASSUME NEW d \in 0 .. 63
  PROVE  MimeBase64(d) \in Byte \ {PadChar} /\ DecodeMimeBase64(MimeBase64(d)) = d
BY DEF MimeBase64, DecodeMimeBase64, PadChar, Byte

\* What base64_encode looks up in the table is in it.
LEMMA DigitsTyped ==
  ASSUME NEW x \in Byte, NEW y \in Byte, NEW z \in Byte
  PROVE  /\ x \div 4 \in 0 .. 63 /\ ((x % 4) * 16) + y \div 16 \in 0 .. 63
         /\ ((y % 16) * 4) + z \div 64 \in 0 .. 63 /\ z % 64 \in 0 .. 63
BY DEF Byte

\* Byte j, 0 behind the last one: what input[] holds.
At(b, j) == IF j \in 1 .. Len(b) THEN b[j] ELSE 0

\* The input of quadruple q, counted from 0, and how many bytes of it are given.
Three(b, q) == <<At(b, 3 * q + 1), At(b, 3 * q + 2), At(b, 3 * q + 3)>>
Given(b, q) == IF 3 * q + 3 <= Len(b) THEN 3 ELSE Len(b) - 3 * q
\* The text of the first m quadruples.
Text(b, m) ==
  [k \in 1 .. 4 * m |->
     Quadruple(Three(b, (k - 1) \div 4), Given(b, (k - 1) \div 4))[((k - 1) % 4) + 1]]

\* A quadruple is four characters.
LEMMA QuadrupleTyped ==
  ASSUME NEW b \in Seq(Byte), NEW q \in Nat, NEW n
  PROVE  Quadruple(Three(b, q), n) \in Seq(Byte) /\ Len(Quadruple(Three(b, q), n)) = 4
<1>1. \A j \in Nat : At(b, j) \in Byte
  <2>1. 0 \in Byte /\ \A j \in 1 .. Len(b) : b[j] \in Byte
    BY ElementOfSeq DEF Byte
  <2> QED
    BY <2>1 DEF At
<1> DEFINE x == At(b, 3 * q + 1)  y == At(b, 3 * q + 2)  z == At(b, 3 * q + 3)
<1>2. x \in Byte /\ y \in Byte /\ z \in Byte
  BY <1>1
<1>3. Three(b, q)[1] = x /\ Three(b, q)[2] = y /\ Three(b, q)[3] = z
  BY DEF Three
<1> HIDE DEF x, y, z
<1>4. PadChar \in Byte
  BY DEF PadChar, Byte
<1> DEFINE c1 == MimeBase64(x \div 4)
           c2 == MimeBase64(((x % 4) * 16) + y \div 16)
           c3 == IF n = 1 THEN PadChar ELSE MimeBase64(((y % 16) * 4) + z \div 64)
           c4 == IF n < 3 THEN PadChar ELSE MimeBase64(z % 64)
<1>5. c1 \in Byte /\ c2 \in Byte /\ c3 \in Byte /\ c4 \in Byte
  BY <1>2, <1>4, DigitsTyped, TableTyped
<1>6. Quadruple(Three(b, q), n) = <<c1, c2, c3, c4>>
  BY <1>3 DEF Quadruple
<1> HIDE DEF c1, c2, c3, c4
<1> QED
  BY <1>5, <1>6

\* The text grows by a quadruple at a time.
LEMMA TextGrows ==
  ASSUME NEW b \in Seq(Byte), NEW m \in Nat
  PROVE  Text(b, m) \in Seq(Byte) /\ Len(Text(b, m)) = 4 * m
         /\ Text(b, m + 1) = Text(b, m) \o Quadruple(Three(b, m), Given(b, m))
<1>1. ASSUME NEW k \in Nat \ {0} PROVE (k - 1) \div 4 \in Nat /\ ((k - 1) % 4) + 1 \in 1 .. 4
  OBVIOUS
<1>2. ASSUME NEW p \in Nat PROVE Text(b, p) \in Seq(Byte) /\ Len(Text(b, p)) = 4 * p
  <2>1. \A k \in 1 .. 4 * p :
          Quadruple(Three(b, (k - 1) \div 4), Given(b, (k - 1) \div 4))[((k - 1) % 4) + 1] \in Byte
    BY <1>1, QuadrupleTyped, ElementOfSeq
  <2> QED
    BY <2>1, IsASeq, LenProperties DEF Text
<1> DEFINE quad == Quadruple(Three(b, m), Given(b, m))
<1>3. quad \in Seq(Byte) /\ Len(quad) = 4
  BY QuadrupleTyped
<1>4. ASSUME NEW k \in 1 .. 4 * m PROVE Text(b, m + 1)[k] = Text(b, m)[k]
  BY DEF Text
<1>5. ASSUME NEW k \in 4 * m + 1 .. 4 * (m + 1) PROVE Text(b, m + 1)[k] = quad[k - 4 * m]
  <2>1. (k - 1) \div 4 = m /\ ((k - 1) % 4) + 1 = k - 4 * m /\ k \in 1 .. 4 * (m + 1)
    OBVIOUS
  <2> QED
    BY <2>1 DEF Text
<1> DEFINE t == Text(b, m)  u == Text(b, m + 1)
<1>6. 4 * m \in Nat /\ m + 1 \in Nat /\ 4 * (m + 1) = 4 * m + 4
  OBVIOUS
<1>7. t \in Seq(Byte) /\ Len(t) = 4 * m /\ u \in Seq(Byte) /\ Len(u) = 4 * m + 4
  BY <1>2, <1>6
<1>8. /\ \A k \in 1 .. 4 * m : u[k] = t[k]
      /\ \A k \in 4 * m + 1 .. 4 * m + 4 : u[k] = quad[k - 4 * m]
  BY <1>4, <1>5, <1>6
<1> HIDE DEF quad, t, u
<1>9. t \o quad \in Seq(Byte) /\ Len(t \o quad) = Len(t) + Len(quad)
  BY <1>3, <1>7, ConcatProperties
<1>10. \A k \in 1 .. Len(t) + Len(quad) :
         (t \o quad)[k] = IF k <= Len(t) THEN t[k] ELSE quad[k - Len(t)]
  BY <1>3, <1>7, ConcatProperties
<1>11. \A k \in 1 .. Len(u) : u[k] = (t \o quad)[k]
  <2> TAKE k \in 1 .. Len(u)
  <2>1. CASE k <= 4 * m
    BY <1>3, <1>6, <1>7, <1>8, <1>10, <2>1
  <2>2. CASE ~(k <= 4 * m)
    <3>1. k \in 4 * m + 1 .. 4 * m + 4 /\ k \in 1 .. Len(t) + Len(quad) /\ ~(k <= Len(t))
      BY <1>3, <1>6, <1>7, <2>2
    <3> QED
      BY <1>7, <1>8, <1>10, <3>1
  <2> QED
    BY <2>1, <2>2
<1>12. u = t \o quad
  BY <1>3, <1>7, <1>9, <1>11, SeqEqual
<1> QED
  BY <1>7, <1>12 DEF quad, t, u

\* The state of the loop of base64_encode after i bytes.
Pending(b, i) == IF i % 3 = 0 \/ i = Len(b) THEN <<0, 0, 0>>
                 ELSE IF i % 3 = 1 THEN <<b[i], 0, 0>> ELSE <<b[i - 1], b[i], 0>>
Done(b, i) == IF i = Len(b) THEN (i + 2) \div 3 ELSE i \div 3
Encoded(b, i) == [input |-> Pending(b, i), text |-> Text(b, Done(b, i))]

\* One more byte keeps to it, completing a quadruple or not.
LEMMA EncodeStep ==
  ASSUME NEW b \in Seq(Byte), NEW i \in 1 .. Len(b)
  PROVE  EncodeByte(b, Encoded(b, i - 1), i) = Encoded(b, i)
<1> DEFINE n == Len(b)
           q == (i - 1) \div 3
           input == [Pending(b, i - 1) EXCEPT ![((i - 1) % 3) + 1] = b[i]]
<1>0. n \in Nat /\ i \in Nat /\ i - 1 \in Nat /\ i - 1 # n /\ i <= n
  OBVIOUS
<1>1. q \in Nat /\ i - 1 = 3 * q + ((i - 1) % 3) /\ (i - 1) % 3 \in 0 .. 2
  BY <1>0
<1>2. EncodeByte(b, Encoded(b, i - 1), i)
        = IF i % 3 = 0 \/ i = n
          THEN [input |-> <<0, 0, 0>>,
                text |-> Text(b, Done(b, i - 1)) \o Quadruple(input, ((i - 1) % 3) + 1)]
          ELSE [input |-> input, text |-> Text(b, Done(b, i - 1))]
  BY DEF EncodeByte, Encoded
<1>3. Done(b, i - 1) = q
  BY <1>0 DEF Done
<1>4. Text(b, q + 1) = Text(b, q) \o Quadruple(Three(b, q), Given(b, q))
  BY <1>1, TextGrows
<1>5. Encoded(b, i) = [input |-> Pending(b, i), text |-> Text(b, Done(b, i))]
  BY DEF Encoded
<1> HIDE DEF q, n, input
<1>6. CASE (i - 1) % 3 = 0
  <2>1. i = 3 * q + 1 /\ i % 3 = 1 /\ Pending(b, i - 1) = <<0, 0, 0>>
    BY <1>0, <1>1, <1>6 DEF Pending, n
  <2>2. input = <<b[i], 0, 0>>
    BY <1>6, <2>1 DEF input
  <2>3. CASE i = n
    <3>1. Three(b, q) = input /\ Given(b, q) = 1 /\ Done(b, i) = q + 1
      BY <1>0, <1>1, <2>1, <2>2, <2>3 DEF Three, At, Given, Done, n
    <3>2. Pending(b, i) = <<0, 0, 0>>
      BY <2>3 DEF Pending, n
    <3>3. Quadruple(Three(b, q), Given(b, q)) = Quadruple(input, ((i - 1) % 3) + 1)
      BY <1>6, <3>1
    <3> QED
      BY <1>2, <1>3, <1>4, <1>5, <2>3, <3>1, <3>2, <3>3, Zenon
  <2>4. CASE i # n
    <3>1. Done(b, i) = q /\ Pending(b, i) = input
      BY <1>1, <2>1, <2>2, <2>4 DEF Done, Pending, n
    <3> QED
      BY <1>2, <1>3, <1>5, <2>1, <2>4, <3>1
  <2> QED
    BY <2>3, <2>4
<1>7. CASE (i - 1) % 3 = 1
  <2>1. i = 3 * q + 2 /\ i % 3 = 2 /\ i - 1 = 3 * q + 1 /\ Pending(b, i - 1) = <<b[i - 1], 0, 0>>
    BY <1>0, <1>1, <1>7 DEF Pending, n
  <2>2. input = <<b[i - 1], b[i], 0>>
    <3>1. ((i - 1) % 3) + 1 = 2
      BY <1>7
    <3>2. \A x, y : [<<x, 0, 0>> EXCEPT ![2] = y] = <<x, y, 0>>
      OBVIOUS
    <3> QED
      BY <2>1, <3>1, <3>2 DEF input
  <2>3. CASE i = n
    <3>1. Three(b, q) = input /\ Given(b, q) = 2 /\ Done(b, i) = q + 1
      BY <1>0, <1>1, <2>1, <2>2, <2>3 DEF Three, At, Given, Done, n
    <3>2. Pending(b, i) = <<0, 0, 0>>
      BY <2>3 DEF Pending, n
    <3>3. Quadruple(Three(b, q), Given(b, q)) = Quadruple(input, ((i - 1) % 3) + 1)
      BY <1>7, <3>1
    <3> QED
      BY <1>2, <1>3, <1>4, <1>5, <2>3, <3>1, <3>2, <3>3, Zenon
  <2>4. CASE i # n
    <3>1. Done(b, i) = q /\ Pending(b, i) = input
      BY <1>1, <2>1, <2>2, <2>4 DEF Done, Pending, n
    <3> QED
      BY <1>2, <1>3, <1>5, <2>1, <2>4, <3>1
  <2> QED
    BY <2>3, <2>4
<1>8. CASE (i - 1) % 3 = 2
  <2>1. /\ i = 3 * q + 3 /\ i % 3 = 0 /\ i - 1 = 3 * q + 2 /\ i - 1 - 1 = 3 * q + 1
        /\ Pending(b, i - 1) = <<b[i - 1 - 1], b[i - 1], 0>>
    BY <1>0, <1>1, <1>8 DEF Pending, n
  <2>2. input = <<b[i - 1 - 1], b[i - 1], b[i]>>
    BY <1>8, <2>1 DEF input
  <2>3. Three(b, q) = input /\ Given(b, q) = 3 /\ Done(b, i) = q + 1
    BY <1>0, <1>1, <2>1, <2>2 DEF Three, At, Given, Done, n
  <2>4. Pending(b, i) = <<0, 0, 0>>
    BY <2>1 DEF Pending
  <2>5. Quadruple(Three(b, q), Given(b, q)) = Quadruple(input, ((i - 1) % 3) + 1)
    BY <1>8, <2>3
  <2> QED
    BY <1>2, <1>3, <1>4, <1>5, <2>1, <2>3, <2>4, <2>5, Zenon
<1> QED
  BY <1>1, <1>6, <1>7, <1>8

\* So base64_encode returns the text of all quadruples: that of its loop's
\* states which is the first to differ from Encoded would have a predecessor.
LEMMA EncodeIs ==
  ASSUME NEW b \in Seq(Byte)
  PROVE  base64_encode(b) = Text(b, (Len(b) + 2) \div 3)
<1> DEFINE n == Len(b)
           Loop(g) == [i \in 0 .. n |-> IF i = 0 THEN [input |-> <<0, 0, 0>>, text |-> <<>>]
                                        ELSE EncodeByte(b, g[i - 1], i)]
           after == CHOOSE g : g = Loop(g)
           w == [i \in 0 .. n |-> Encoded(b, i)]
<1>0. n \in Nat
  OBVIOUS
<1>1. base64_encode(b) = after[n].text
  BY DEF base64_encode
<1>2. w = Loop(w)
  <2>1. Text(b, 0) = <<>>
    BY DEF Text
  <2>2. Encoded(b, 0) = [input |-> <<0, 0, 0>>, text |-> <<>>]
    BY <1>0, <2>1 DEF Encoded, Pending, Done
  <2>3. \A i \in 1 .. n : Encoded(b, i) = EncodeByte(b, w[i - 1], i)
    BY <1>0, EncodeStep
  <2> QED
    BY <1>0, <2>2, <2>3
<1>3. after = Loop(after)
  BY <1>2, Zenon
<1> HIDE DEF w, after, n
<1>4. w[0] = after[0]
  <2>1. w[0] = Loop(w)[0] /\ after[0] = Loop(after)[0]
    BY <1>2, <1>3
  <2> QED
    BY <1>0, <2>1
<1>5. \A i \in 1 .. n : w[i - 1] = after[i - 1] => w[i] = after[i]
  <2> TAKE i \in 1 .. n
  <2>1. w[i] = Loop(w)[i] /\ after[i] = Loop(after)[i]
    BY <1>2, <1>3
  <2> QED
    BY <1>0, <2>1
<1>6. w[n] = after[n]
  <2> SUFFICES ASSUME {i \in 0 .. n : w[i] # after[i]} # {} PROVE FALSE
    BY <1>0
  <2> DEFINE T == {i \in 0 .. n : w[i] # after[i]}
  <2>1. T \subseteq Nat
    OBVIOUS
  <2>2. PICK i \in T : \A j \in T : i <= j
    BY <2>1, LeastElement
  <2>3. i \in 1 .. n /\ i - 1 \in 0 .. n /\ i - 1 \notin T
    BY <1>0, <1>4, <2>2
  <2> QED
    BY <1>5, <2>2, <2>3
<1>7. w[n].text = Text(b, (n + 2) \div 3)
  BY <1>0 DEF w, Encoded, Done, n
<1> QED
  BY <1>1, <1>6, <1>7 DEF n

\* The six bits of digit r of a quadruple.
Sextet(x, y, z, r) == CASE r = 0 -> x \div 4
                        [] r = 1 -> ((x % 4) * 16) + y \div 16
                        [] r = 2 -> ((y % 16) * 4) + z \div 64
                        [] r = 3 -> z % 64

\* The bits of the four sextets are those of the three bytes, in order.
LEMMA SextetBits ==
  ASSUME NEW x \in Byte, NEW y \in Byte, NEW z \in Byte, NEW r \in 0 .. 3, NEW i \in 1 .. 6
  PROVE  Bits(Sextet(x, y, z, r), 6)[i]
           = Bits(<<x, y, z>>[((6 * r + i - 1) \div 8) + 1], 8)[((6 * r + i - 1) % 8) + 1]
<1>1. CASE r = 0
  <2>0. Sextet(x, y, z, r) = x \div 4
    BY <1>1 DEF Sextet
  <2>1. CASE i = 1
    <3>1. ((x \div 4) \div 32) % 2 = (x \div 128) % 2
      BY DEF Byte
    <3>2. Bits(x \div 4, 6)[1] = Bits(x, 8)[1]
      BY <3>1 DEF Bits, PowerOfTwo
    <3> QED
      BY <1>1, <2>0, <2>1, <3>2
  <2>2. CASE i = 2
    <3>1. ((x \div 4) \div 16) % 2 = (x \div 64) % 2
      BY DEF Byte
    <3>2. Bits(x \div 4, 6)[2] = Bits(x, 8)[2]
      BY <3>1 DEF Bits, PowerOfTwo
    <3> QED
      BY <1>1, <2>0, <2>2, <3>2
  <2>3. CASE i = 3
    <3>1. ((x \div 4) \div 8) % 2 = (x \div 32) % 2
      BY DEF Byte
    <3>2. Bits(x \div 4, 6)[3] = Bits(x, 8)[3]
      BY <3>1 DEF Bits, PowerOfTwo
    <3> QED
      BY <1>1, <2>0, <2>3, <3>2
  <2>4. CASE i = 4
    <3>1. ((x \div 4) \div 4) % 2 = (x \div 16) % 2
      BY DEF Byte
    <3>2. Bits(x \div 4, 6)[4] = Bits(x, 8)[4]
      BY <3>1 DEF Bits, PowerOfTwo
    <3> QED
      BY <1>1, <2>0, <2>4, <3>2
  <2>5. CASE i = 5
    <3>1. ((x \div 4) \div 2) % 2 = (x \div 8) % 2
      BY DEF Byte
    <3>2. Bits(x \div 4, 6)[5] = Bits(x, 8)[5]
      BY <3>1 DEF Bits, PowerOfTwo
    <3> QED
      BY <1>1, <2>0, <2>5, <3>2
  <2>6. CASE i = 6
    <3>1. ((x \div 4) \div 1) % 2 = (x \div 4) % 2
      BY DEF Byte
    <3>2. Bits(x \div 4, 6)[6] = Bits(x, 8)[6]
      BY <3>1 DEF Bits, PowerOfTwo
    <3> QED
      BY <1>1, <2>0, <2>6, <3>2
  <2> QED
    BY <2>1, <2>2, <2>3, <2>4, <2>5, <2>6
<1>2. CASE r = 1
  <2>0. Sextet(x, y, z, r) = ((x % 4) * 16) + y \div 16
    BY <1>2 DEF Sextet
  <2>1. CASE i = 1
    <3>1. ((((x % 4) * 16) + y \div 16) \div 32) % 2 = (x \div 2) % 2
      BY DEF Byte
    <3>2. Bits(((x % 4) * 16) + y \div 16, 6)[1] = Bits(x, 8)[7]
      BY <3>1 DEF Bits, PowerOfTwo
    <3> QED
      BY <1>2, <2>0, <2>1, <3>2
  <2>2. CASE i = 2
    <3>1. ((((x % 4) * 16) + y \div 16) \div 16) % 2 = (x \div 1) % 2
      BY DEF Byte
    <3>2. Bits(((x % 4) * 16) + y \div 16, 6)[2] = Bits(x, 8)[8]
      BY <3>1 DEF Bits, PowerOfTwo
    <3> QED
      BY <1>2, <2>0, <2>2, <3>2
  <2>3. CASE i = 3
    <3>1. ((((x % 4) * 16) + y \div 16) \div 8) % 2 = (y \div 128) % 2
      BY DEF Byte
    <3>2. Bits(((x % 4) * 16) + y \div 16, 6)[3] = Bits(y, 8)[1]
      BY <3>1 DEF Bits, PowerOfTwo
    <3> QED
      BY <1>2, <2>0, <2>3, <3>2
  <2>4. CASE i = 4
    <3>1. ((((x % 4) * 16) + y \div 16) \div 4) % 2 = (y \div 64) % 2
      BY DEF Byte
    <3>2. Bits(((x % 4) * 16) + y \div 16, 6)[4] = Bits(y, 8)[2]
      BY <3>1 DEF Bits, PowerOfTwo
    <3> QED
      BY <1>2, <2>0, <2>4, <3>2
  <2>5. CASE i = 5
    <3>1. ((((x % 4) * 16) + y \div 16) \div 2) % 2 = (y \div 32) % 2
      BY DEF Byte
    <3>2. Bits(((x % 4) * 16) + y \div 16, 6)[5] = Bits(y, 8)[3]
      BY <3>1 DEF Bits, PowerOfTwo
    <3> QED
      BY <1>2, <2>0, <2>5, <3>2
  <2>6. CASE i = 6
    <3>1. ((((x % 4) * 16) + y \div 16) \div 1) % 2 = (y \div 16) % 2
      BY DEF Byte
    <3>2. Bits(((x % 4) * 16) + y \div 16, 6)[6] = Bits(y, 8)[4]
      BY <3>1 DEF Bits, PowerOfTwo
    <3> QED
      BY <1>2, <2>0, <2>6, <3>2
  <2> QED
    BY <2>1, <2>2, <2>3, <2>4, <2>5, <2>6
<1>3. CASE r = 2
  <2>0. Sextet(x, y, z, r) = ((y % 16) * 4) + z \div 64
    BY <1>3 DEF Sextet
  <2>1. CASE i = 1
    <3>1. ((((y % 16) * 4) + z \div 64) \div 32) % 2 = (y \div 8) % 2
      BY DEF Byte
    <3>2. Bits(((y % 16) * 4) + z \div 64, 6)[1] = Bits(y, 8)[5]
      BY <3>1 DEF Bits, PowerOfTwo
    <3> QED
      BY <1>3, <2>0, <2>1, <3>2
  <2>2. CASE i = 2
    <3>1. ((((y % 16) * 4) + z \div 64) \div 16) % 2 = (y \div 4) % 2
      BY DEF Byte
    <3>2. Bits(((y % 16) * 4) + z \div 64, 6)[2] = Bits(y, 8)[6]
      BY <3>1 DEF Bits, PowerOfTwo
    <3> QED
      BY <1>3, <2>0, <2>2, <3>2
  <2>3. CASE i = 3
    <3>1. ((((y % 16) * 4) + z \div 64) \div 8) % 2 = (y \div 2) % 2
      BY DEF Byte
    <3>2. Bits(((y % 16) * 4) + z \div 64, 6)[3] = Bits(y, 8)[7]
      BY <3>1 DEF Bits, PowerOfTwo
    <3> QED
      BY <1>3, <2>0, <2>3, <3>2
  <2>4. CASE i = 4
    <3>1. ((((y % 16) * 4) + z \div 64) \div 4) % 2 = (y \div 1) % 2
      BY DEF Byte
    <3>2. Bits(((y % 16) * 4) + z \div 64, 6)[4] = Bits(y, 8)[8]
      BY <3>1 DEF Bits, PowerOfTwo
    <3> QED
      BY <1>3, <2>0, <2>4, <3>2
  <2>5. CASE i = 5
    <3>1. ((((y % 16) * 4) + z \div 64) \div 2) % 2 = (z \div 128) % 2
      BY DEF Byte
    <3>2. Bits(((y % 16) * 4) + z \div 64, 6)[5] = Bits(z, 8)[1]
      BY <3>1 DEF Bits, PowerOfTwo
    <3> QED
      BY <1>3, <2>0, <2>5, <3>2
  <2>6. CASE i = 6
    <3>1. ((((y % 16) * 4) + z \div 64) \div 1) % 2 = (z \div 64) % 2
      BY DEF Byte
    <3>2. Bits(((y % 16) * 4) + z \div 64, 6)[6] = Bits(z, 8)[2]
      BY <3>1 DEF Bits, PowerOfTwo
    <3> QED
      BY <1>3, <2>0, <2>6, <3>2
  <2> QED
    BY <2>1, <2>2, <2>3, <2>4, <2>5, <2>6
<1>4. CASE r = 3
  <2>0. Sextet(x, y, z, r) = z % 64
    BY <1>4 DEF Sextet
  <2>1. CASE i = 1
    <3>1. ((z % 64) \div 32) % 2 = (z \div 32) % 2
      BY DEF Byte
    <3>2. Bits(z % 64, 6)[1] = Bits(z, 8)[3]
      BY <3>1 DEF Bits, PowerOfTwo
    <3> QED
      BY <1>4, <2>0, <2>1, <3>2
  <2>2. CASE i = 2
    <3>1. ((z % 64) \div 16) % 2 = (z \div 16) % 2
      BY DEF Byte
    <3>2. Bits(z % 64, 6)[2] = Bits(z, 8)[4]
      BY <3>1 DEF Bits, PowerOfTwo
    <3> QED
      BY <1>4, <2>0, <2>2, <3>2
  <2>3. CASE i = 3
    <3>1. ((z % 64) \div 8) % 2 = (z \div 8) % 2
      BY DEF Byte
    <3>2. Bits(z % 64, 6)[3] = Bits(z, 8)[5]
      BY <3>1 DEF Bits, PowerOfTwo
    <3> QED
      BY <1>4, <2>0, <2>3, <3>2
  <2>4. CASE i = 4
    <3>1. ((z % 64) \div 4) % 2 = (z \div 4) % 2
      BY DEF Byte
    <3>2. Bits(z % 64, 6)[4] = Bits(z, 8)[6]
      BY <3>1 DEF Bits, PowerOfTwo
    <3> QED
      BY <1>4, <2>0, <2>4, <3>2
  <2>5. CASE i = 5
    <3>1. ((z % 64) \div 2) % 2 = (z \div 2) % 2
      BY DEF Byte
    <3>2. Bits(z % 64, 6)[5] = Bits(z, 8)[7]
      BY <3>1 DEF Bits, PowerOfTwo
    <3> QED
      BY <1>4, <2>0, <2>5, <3>2
  <2>6. CASE i = 6
    <3>1. ((z % 64) \div 1) % 2 = (z \div 1) % 2
      BY DEF Byte
    <3>2. Bits(z % 64, 6)[6] = Bits(z, 8)[8]
      BY <3>1 DEF Bits, PowerOfTwo
    <3> QED
      BY <1>4, <2>0, <2>6, <3>2
  <2> QED
    BY <2>1, <2>2, <2>3, <2>4, <2>5, <2>6
<1> QED
  BY <1>1, <1>2, <1>3, <1>4

\* How many digits and how many quadruples n bytes make.
LEMMA DigitsOf ==
  ASSUME NEW n \in Nat
  PROVE  \E p \in Nat, s \in 0 .. 2 :
           /\ n = 3 * p + s /\ n \div 3 = p /\ n % 3 = s
           /\ (8 * n + 5) \div 6 = 4 * p + (IF s = 0 THEN 0 ELSE s + 1)
           /\ (n + 2) \div 3 = p + (IF s = 0 THEN 0 ELSE 1)
           /\ EncodedSize(n) - 1 = 4 * ((n + 2) \div 3)
<1> DEFINE p == n \div 3  s == n % 3
<1>1. p \in Nat /\ s \in 0 .. 2 /\ n = 3 * p + s /\ n \div 3 = p /\ n % 3 = s
  OBVIOUS
<1> HIDE DEF p, s
<1>2. CASE s = 0
  <2>1. (8 * n + 5) \div 6 = 4 * p /\ (n + 2) \div 3 = p
    BY <1>1, <1>2
  <2> QED
    BY <1>1, <1>2, <2>1 DEF EncodedSize
<1>3. CASE s = 1
  <2>1. (8 * n + 5) \div 6 = 4 * p + 2 /\ (n + 2) \div 3 = p + 1
    BY <1>1, <1>3
  <2> QED
    BY <1>1, <1>3, <2>1 DEF EncodedSize
<1>4. CASE s = 2
  <2>1. (8 * n + 5) \div 6 = 4 * p + 3 /\ (n + 2) \div 3 = p + 1
    BY <1>1, <1>4
  <2> QED
    BY <1>1, <1>4, <2>1 DEF EncodedSize
<1> QED
  BY <1>1, <1>2, <1>3, <1>4

\* Digit r of quadruple q.
SextetOf(b, q, r) == Sextet(At(b, 3 * q + 1), At(b, 3 * q + 2), At(b, 3 * q + 3), r)

\* A byte or 0 is a byte.
LEMMA AtTyped == ASSUME NEW b \in Seq(Byte), NEW j PROVE At(b, j) \in Byte
<1>1. 0 \in Byte /\ \A k \in 1 .. Len(b) : b[k] \in Byte
  BY ElementOfSeq DEF Byte
<1> QED
  BY <1>1 DEF At

\* A digit is of six bits.
LEMMA SextetTyped ==
  ASSUME NEW b \in Seq(Byte), NEW q \in Nat, NEW r \in 0 .. 3
  PROVE  SextetOf(b, q, r) \in 0 .. 63
<1>1. At(b, 3 * q + 1) \in Byte /\ At(b, 3 * q + 2) \in Byte /\ At(b, 3 * q + 3) \in Byte
  BY AtTyped
<1>2. ASSUME NEW x \in Byte, NEW y \in Byte, NEW z \in Byte PROVE Sextet(x, y, z, r) \in 0 .. 63
  <2>1. CASE r = 0
    BY <2>1, DigitsTyped DEF Sextet
  <2>2. CASE r = 1
    BY <2>2, DigitsTyped DEF Sextet
  <2>3. CASE r = 2
    BY <2>3, DigitsTyped DEF Sextet
  <2>4. CASE r = 3
    BY <2>4, DigitsTyped DEF Sextet
  <2> QED
    BY <2>1, <2>2, <2>3, <2>4
<1> QED
  BY <1>1, <1>2 DEF SextetOf

\* Which character of the text is a digit, and which one fills up.
LEMMA CharacterIs ==
  ASSUME NEW b \in Seq(Byte), NEW q \in Nat, NEW r \in 0 .. 3,
         q < (Len(b) + 2) \div 3
  PROVE  Text(b, (Len(b) + 2) \div 3)[4 * q + r + 1]
           = IF 4 * q + r + 1 > (8 * Len(b) + 5) \div 6 THEN PadChar
             ELSE MimeBase64(SextetOf(b, q, r))
<1> DEFINE n == Len(b)  m == (n + 2) \div 3
           quad == Quadruple(Three(b, q), Given(b, q))
<1>0. n \in Nat
  OBVIOUS
<1>1. PICK p \in Nat, s \in 0 .. 2 :
        /\ n = 3 * p + s /\ n \div 3 = p /\ n % 3 = s
        /\ (8 * n + 5) \div 6 = 4 * p + (IF s = 0 THEN 0 ELSE s + 1)
        /\ m = p + (IF s = 0 THEN 0 ELSE 1)
  BY <1>0, DigitsOf
<1>2. Text(b, m)[4 * q + r + 1] = quad[r + 1]
  <2>1. m \in Nat /\ 4 * q + r + 1 \in 1 .. 4 * m
    BY <1>0
  <2>2. (4 * q + r + 1 - 1) \div 4 = q /\ ((4 * q + r + 1 - 1) % 4) + 1 = r + 1
    OBVIOUS
  <2> QED
    BY <2>1, <2>2 DEF Text
<1>3. /\ Three(b, q)[1] = At(b, 3 * q + 1) /\ Three(b, q)[2] = At(b, 3 * q + 2)
      /\ Three(b, q)[3] = At(b, 3 * q + 3)
  BY DEF Three
<1>4. quad[r + 1] = IF (r = 2 /\ Given(b, q) = 1) \/ (r = 3 /\ Given(b, q) < 3) THEN PadChar
                    ELSE MimeBase64(SextetOf(b, q, r))
  <2>1. CASE r = 0
    BY <1>3, <2>1 DEF Quadruple, SextetOf, Sextet
  <2>2. CASE r = 1
    BY <1>3, <2>2 DEF Quadruple, SextetOf, Sextet
  <2>3. CASE r = 2
    BY <1>3, <2>3 DEF Quadruple, SextetOf, Sextet
  <2>4. CASE r = 3
    BY <1>3, <2>4 DEF Quadruple, SextetOf, Sextet
  <2> QED
    BY <2>1, <2>2, <2>3, <2>4
<1>5. Given(b, q) = IF 3 * q + 3 <= n THEN 3 ELSE n - 3 * q
  BY DEF Given
<1>6. q < m
  OBVIOUS
<1> HIDE DEF n, m
<1>7. (4 * q + r + 1 > (8 * n + 5) \div 6)
        <=> (r = 2 /\ Given(b, q) = 1) \/ (r = 3 /\ Given(b, q) < 3)
  <2>1. CASE q < p
    <3>1. Given(b, q) = 3 /\ 4 * q + r + 1 <= 4 * p
      BY <1>1, <1>5, <2>1
    <3> QED
      BY <1>1, <3>1
  <2>2. CASE q >= p
    <3>1. q = p /\ s # 0 /\ Given(b, q) = s
      BY <1>1, <1>5, <1>6, <2>2
    <3> QED
      BY <1>1, <3>1
  <2> QED
    BY <2>1, <2>2
<1> QED
  BY <1>2, <1>4, <1>7 DEF n, m

\* The bits of a digit are those of the bytes that stand there.
BitOf(b, i) == IF i > 8 * Len(b) THEN 0 ELSE Bits(b[((i - 1) \div 8) + 1], 8)[((i - 1) % 8) + 1]

LEMMA DigitBits ==
  ASSUME NEW b \in Seq(Byte), NEW q \in Nat, NEW r \in 0 .. 3, NEW i \in 1 .. 6
  PROVE  Bits(SextetOf(b, q, r), 6)[i] = BitOf(b, 6 * (4 * q + r) + i)
<1> DEFINE j == 6 * r + i - 1
           t == j \div 8
           x == At(b, 3 * q + 1)  y == At(b, 3 * q + 2)  z == At(b, 3 * q + 3)
           n == Len(b)
<1>1. j \in 0 .. 23 /\ t \in 0 .. 2 /\ j % 8 \in 0 .. 7 /\ j = 8 * t + (j % 8) /\ n \in Nat
  OBVIOUS
<1>0. j = 6 * r + i - 1
  OBVIOUS
<1>2. Bits(SextetOf(b, q, r), 6)[i] = Bits(<<x, y, z>>[t + 1], 8)[(j % 8) + 1]
  <2>1. x \in Byte /\ y \in Byte /\ z \in Byte
    BY AtTyped
  <2> HIDE DEF j, x, y, z
  <2>2. Bits(Sextet(x, y, z, r), 6)[i] = Bits(<<x, y, z>>[t + 1], 8)[(j % 8) + 1]
    BY <1>0, <2>1, SextetBits
  <2> QED
    BY <2>2 DEF SextetOf, x, y, z
<1>3. <<x, y, z>>[t + 1] = At(b, 3 * q + t + 1)
  <2>1. t = 0 \/ t = 1 \/ t = 2
    BY <1>1
  <2> QED
    BY <2>1
<1>4. 6 * (4 * q + r) + i = 24 * q + j + 1
  OBVIOUS
<1> HIDE DEF j
<1>5. (24 * q + j + 1 - 1) \div 8 = 3 * q + t /\ (24 * q + j + 1 - 1) % 8 = j % 8
  BY <1>1
<1>8. BitOf(b, 24 * q + j + 1)
        = IF 24 * q + j + 1 > 8 * n THEN 0 ELSE Bits(b[3 * q + t + 1], 8)[(j % 8) + 1]
  BY <1>1, <1>5 DEF BitOf
<1> HIDE DEF t, n
<1>6. CASE 24 * q + j + 1 > 8 * n
  <2>1. 3 * q + t + 1 > n
    BY <1>1, <1>6
  <2>2. At(b, 3 * q + t + 1) = 0
    BY <2>1 DEF At, n
  <2>3. \A l \in 1 .. 8 : Bits(0, 8)[l] = 0
    BY DEF Bits, PowerOfTwo
  <2>4. (j % 8) + 1 \in 1 .. 8
    BY <1>1
  <2> QED
    BY <1>2, <1>3, <1>4, <1>6, <1>8, <2>2, <2>3, <2>4
<1>7. CASE ~(24 * q + j + 1 > 8 * n)
  <2>1. 3 * q + t + 1 \in 1 .. n
    BY <1>1, <1>7
  <2>2. At(b, 3 * q + t + 1) = b[3 * q + t + 1]
    BY <2>1 DEF At, n
  <2> QED
    BY <1>2, <1>3, <1>4, <1>7, <1>8, <2>2
<1> QED
  BY <1>6, <1>7

\* The text as EncodedAsSpecified wants it.
LEMMA EncodesAll ==
  ASSUME NEW b \in Seq(Byte)
  PROVE  LET code == base64_encode(b)
             digits == (8 * Len(b) + 5) \div 6
         IN /\ Len(code) = EncodedSize(Len(b)) - 1
            /\ \A k \in 1 .. Len(code) :
                 IF k > digits THEN code[k] = PadChar
                 ELSE Bits(DecodeMimeBase64(code[k]), 6) = [i \in 1 .. 6 |-> BitOf(b, 6 * (k - 1) + i)]
<1> DEFINE n == Len(b)  m == (n + 2) \div 3
           code == base64_encode(b)
<1>0. n \in Nat /\ m \in Nat
  OBVIOUS
<1>1. code = Text(b, m)
  BY EncodeIs
<1>2. Len(code) = 4 * m
  BY <1>0, <1>1, TextGrows
<1>3. EncodedSize(n) - 1 = 4 * m
  BY <1>0, DigitsOf
<1> HIDE DEF code
<1>4. ASSUME NEW k \in 1 .. Len(code)
      PROVE  IF k > (8 * n + 5) \div 6 THEN code[k] = PadChar
             ELSE Bits(DecodeMimeBase64(code[k]), 6) = [i \in 1 .. 6 |-> BitOf(b, 6 * (k - 1) + i)]
  <2> DEFINE q == (k - 1) \div 4  r == (k - 1) % 4
  <2>1. q \in Nat /\ r \in 0 .. 3 /\ k - 1 = 4 * q + r /\ k = 4 * q + r + 1 /\ q < m
    BY <1>0, <1>2
  <2> HIDE DEF q, r
  <2>2. code[k] = IF k > (8 * n + 5) \div 6 THEN PadChar ELSE MimeBase64(SextetOf(b, q, r))
    BY <1>1, <2>1, CharacterIs
  <2>3. CASE k > (8 * n + 5) \div 6
    BY <2>2, <2>3
  <2>4. CASE ~(k > (8 * n + 5) \div 6)
    <3>1. DecodeMimeBase64(code[k]) = SextetOf(b, q, r)
      BY <2>1, <2>2, <2>4, SextetTyped, TableTyped
    <3>2. \A i \in 1 .. 6 : Bits(SextetOf(b, q, r), 6)[i] = BitOf(b, 6 * (k - 1) + i)
      BY <2>1, DigitBits
    <3>3. Bits(SextetOf(b, q, r), 6) = [i \in 1 .. 6 |-> Bits(SextetOf(b, q, r), 6)[i]]
      BY DEF Bits
    <3> QED
      BY <2>4, <3>1, <3>2, <3>3
  <2> QED
    BY <2>3, <2>4
<1> QED
  BY <1>2, <1>3, <1>4 DEF code

\* Two digits give back the byte that they share.
LEMMA CombinedIs ==
  ASSUME NEW b \in Seq(Byte), NEW q \in Nat, NEW r \in 1 .. 3
  PROVE  Combined(r, SextetOf(b, q, r - 1), SextetOf(b, q, r)) = At(b, 3 * q + r)
<1> DEFINE x == At(b, 3 * q + 1)  y == At(b, 3 * q + 2)  z == At(b, 3 * q + 3)
<1>1. x \in Byte /\ y \in Byte /\ z \in Byte
  BY AtTyped
<1>2. \A s : SextetOf(b, q, s) = Sextet(x, y, z, s)
  BY DEF SextetOf
<1>0. At(b, 3 * q + r) = IF r = 1 THEN x ELSE IF r = 2 THEN y ELSE z
  OBVIOUS
<1> HIDE DEF x, y, z
<1>3. CASE r = 1
  <2>1. SextetOf(b, q, r - 1) = x \div 4 /\ SextetOf(b, q, r) = ((x % 4) * 16) + y \div 16
    BY <1>2, <1>3 DEF Sextet
  <2>2. (((x \div 4) * 4) % 256) + ((((x % 4) * 16) + y \div 16) \div 16) = x
    BY <1>1 DEF Byte
  <2> QED
    BY <1>0, <1>3, <2>1, <2>2 DEF Combined
<1>4. CASE r = 2
  <2>1. /\ SextetOf(b, q, r - 1) = ((x % 4) * 16) + y \div 16
        /\ SextetOf(b, q, r) = ((y % 16) * 4) + z \div 64
    BY <1>2, <1>4 DEF Sextet
  <2>2. (((((x % 4) * 16) + y \div 16) % 16) * 16) + ((((y % 16) * 4) + z \div 64) \div 4) = y
    BY <1>1 DEF Byte
  <2> QED
    BY <1>0, <1>4, <2>1, <2>2 DEF Combined
<1>5. CASE r = 3
  <2>1. SextetOf(b, q, r - 1) = ((y % 16) * 4) + z \div 64 /\ SextetOf(b, q, r) = z % 64
    BY <1>2, <1>5 DEF Sextet
  <2>2. ((((y % 16) * 4) + z \div 64) % 4) * 64 + (z % 64) = z
    BY <1>1 DEF Byte
  <2> QED
    BY <1>0, <1>5, <2>1, <2>2 DEF Combined
<1> QED
  BY <1>3, <1>4, <1>5

\* The smaller of two numbers.
Least(i, j) == IF i <= j THEN i ELSE j

\* The state of the loop of base64_decode after e digits, at most N bytes
\* being written.
Decoded(b, N, e) ==
  [phase  |-> e % 4,
   prev_d |-> IF e = 0 THEN 0 ELSE SextetOf(b, (e - 1) \div 4, (e - 1) % 4),
   dst    |-> SubSeq(b, 1, Least(N, (3 * e) \div 4))]

\* One more byte of a prefix.
LEMMA PrefixGrows ==
  ASSUME NEW b \in Seq(Byte), NEW j \in 1 .. Len(b)
  PROVE  Append(SubSeq(b, 1, j - 1), b[j]) = SubSeq(b, 1, j)
<1>1. SubSeq(b, 1, j) = SubSeq(b, 1, j - 1) \o <<b[j]>>
  <2>1. 1 \in 1 .. Len(b) /\ j \in 1 .. Len(b)
    OBVIOUS
  <2> QED
    BY <2>1, SubSeqRecursiveSecond
<1>2. \A i \in 1 .. Len(b) : b[i] \in Byte
  BY ElementOfSeq
<1>3. SubSeq(b, 1, j - 1) \in Seq(Byte)
  BY <1>2, SubSeqProperties
<1> QED
  BY <1>1, <1>2, <1>3, AppendIsConcat

\* The length of a prefix.
LEMMA PrefixLength ==
  ASSUME NEW b \in Seq(Byte), NEW j \in 0 .. Len(b)
  PROVE  Len(SubSeq(b, 1, j)) = j
<1>1. \A i \in 1 .. j : b[i] \in Byte
  BY ElementOfSeq
<1> QED
  BY <1>1, SubSeqProperties

\* One more digit keeps to it: a byte more, unless the digit is the first of a
\* quadruple or N bytes are written.
LEMMA DecodeStep ==
  ASSUME NEW b \in Seq(Byte), NEW N \in Nat, NEW q \in Nat, NEW r \in 0 .. 3,
         3 * q + r <= Len(b)
  PROVE  DecodeChar(N, Decoded(b, N, 4 * q + r), MimeBase64(SextetOf(b, q, r)))
           = Decoded(b, N, 4 * q + r + 1)
<1> DEFINE d == SextetOf(b, q, r)
           e == 4 * q + r
           before == Decoded(b, N, e)
           n == Len(b)
<1>0. n \in Nat /\ e \in Nat /\ 3 * q + r <= n
  OBVIOUS
<1>1. d \in 0 .. 63 /\ DecodeMimeBase64(MimeBase64(d)) = d /\ d # -1
  <2>1. d \in 0 .. 63
    BY SextetTyped
  <2> HIDE DEF d
  <2>2. DecodeMimeBase64(MimeBase64(d)) = d
    BY <2>1, TableTyped
  <2> QED
    BY <2>1, <2>2
<1>2. e % 4 = r /\ (e + 1 - 1) \div 4 = q /\ (e + 1 - 1) % 4 = r /\ e + 1 # 0
      /\ (e + 1) % 4 = (r + 1) % 4 /\ (3 * (e + 1)) \div 4 = 3 * q + r
  BY <1>0
<1>3. Decoded(b, N, e + 1)
        = [phase |-> (r + 1) % 4, prev_d |-> d, dst |-> SubSeq(b, 1, Least(N, 3 * q + r))]
  <2>1. ASSUME NEW c, c % 4 = (r + 1) % 4, c # 0, (c - 1) \div 4 = q, (c - 1) % 4 = r,
               (3 * c) \div 4 = 3 * q + r
        PROVE  Decoded(b, N, c)
                 = [phase |-> (r + 1) % 4, prev_d |-> d, dst |-> SubSeq(b, 1, Least(N, 3 * q + r))]
    BY <2>1 DEF Decoded
  <2> DEFINE c == e + 1
  <2>2. c % 4 = (r + 1) % 4 /\ c # 0 /\ (c - 1) \div 4 = q /\ (c - 1) % 4 = r
        /\ (3 * c) \div 4 = 3 * q + r
    BY <1>2
  <2> HIDE DEF c
  <2>3. Decoded(b, N, c)
          = [phase |-> (r + 1) % 4, prev_d |-> d, dst |-> SubSeq(b, 1, Least(N, 3 * q + r))]
    BY <2>1, <2>2
  <2> QED
    BY <2>3, Zenon DEF c
<1>4. before.phase = r /\ before.dst = SubSeq(b, 1, Least(N, (3 * e) \div 4))
  BY <1>2 DEF Decoded
<1>5. DecodeChar(N, before, MimeBase64(d))
        = [phase |-> (r + 1) % 4, prev_d |-> d,
           dst |-> IF r = 0 \/ Len(before.dst) >= N THEN before.dst
                   ELSE Append(before.dst, Combined(r, before.prev_d, d))]
  BY <1>1, <1>4 DEF DecodeChar
<1>6. CASE r = 0
  <2>1. (3 * e) \div 4 = 3 * q + r
    BY <1>0, <1>6
  <2> QED
    BY <1>3, <1>4, <1>5, <1>6, <2>1
<1>7. CASE r # 0
  <2>1. (3 * e) \div 4 = 3 * q + r - 1
    BY <1>0, <1>7
  <2>2. before.prev_d = SextetOf(b, q, r - 1)
    <3>1. (e - 1) \div 4 = q /\ (e - 1) % 4 = r - 1 /\ e # 0
      BY <1>0, <1>7
    <3> QED
      BY <3>1 DEF Decoded
  <2>3. Combined(r, before.prev_d, d) = b[3 * q + r]
    <3>1. r \in 1 .. 3 /\ 3 * q + r \in 1 .. n
      BY <1>0, <1>7
    <3>2. Combined(r, SextetOf(b, q, r - 1), d) = At(b, 3 * q + r)
      BY <3>1, CombinedIs
    <3> QED
      BY <2>2, <3>1, <3>2 DEF At
  <2>4. Least(N, 3 * q + r - 1) \in 0 .. n
    BY <1>0, <1>7 DEF Least
  <2>5. Len(before.dst) = Least(N, 3 * q + r - 1)
    BY <1>4, <2>1, <2>4, PrefixLength
  <2>6. CASE Len(before.dst) >= N
    <3>1. Least(N, 3 * q + r - 1) = N /\ Least(N, 3 * q + r) = N
      BY <2>5, <2>6 DEF Least
    <3> QED
      BY <1>3, <1>4, <1>5, <2>1, <2>6, <3>1
  <2>7. CASE ~(Len(before.dst) >= N)
    <3>1. Least(N, 3 * q + r - 1) = 3 * q + r - 1 /\ Least(N, 3 * q + r) = 3 * q + r
      BY <2>5, <2>7 DEF Least
    <3>2. 3 * q + r \in 1 .. n
      BY <1>0, <1>7
    <3>3. Append(SubSeq(b, 1, 3 * q + r - 1), b[3 * q + r]) = SubSeq(b, 1, 3 * q + r)
      BY <3>2, PrefixGrows
    <3> QED
      BY <1>3, <1>4, <1>5, <1>7, <2>1, <2>3, <2>7, <3>1, <3>3
  <2> QED
    BY <2>6, <2>7
<1> QED
  BY <1>6, <1>7

\* So base64_decode gives the bytes back, or as many as it may write: the
\* padding at the end of the text leaves its state alone.
LEMMA DecodeIs ==
  ASSUME NEW b \in Seq(Byte), NEW N \in Nat
  PROVE  base64_decode(base64_encode(b), N) = SubSeq(b, 1, Least(N, Len(b)))
<1> DEFINE n == Len(b)
           m == (n + 2) \div 3
           digits == (8 * n + 5) \div 6
           code == base64_encode(b)
           size == Len(code)
           Loop(g) == [k \in 0 .. size |->
                         IF k = 0 THEN [phase |-> 0, prev_d |-> 0, dst |-> <<>>]
                         ELSE DecodeChar(N, g[k - 1], code[k])]
           after == CHOOSE g : g = Loop(g)
           Seen(k) == Decoded(b, N, Least(k, digits))
           w == [k \in 0 .. size |-> Seen(k)]
<1>0. n \in Nat
  OBVIOUS
<1>1. PICK p \in Nat, s \in 0 .. 2 :
        /\ n = 3 * p + s
        /\ digits = 4 * p + (IF s = 0 THEN 0 ELSE s + 1)
        /\ m = p + (IF s = 0 THEN 0 ELSE 1)
  BY <1>0, DigitsOf
<1>2. code = Text(b, m) /\ size \in Nat /\ size = 4 * m /\ m \in Nat
  <2>1. m \in Nat
    BY <1>0
  <2> QED
    BY <2>1, EncodeIs, TextGrows, 4 * m \in Nat
<1>3. base64_decode(code, N) = after[size].dst
  BY DEF base64_decode
<1> HIDE DEF code, after, size
<1>4. ASSUME NEW k \in 1 .. size PROVE DecodeChar(N, Seen(k - 1), code[k]) = Seen(k)
  <2> DEFINE q == (k - 1) \div 4  r == (k - 1) % 4
  <2>1. q \in Nat /\ r \in 0 .. 3 /\ k - 1 = 4 * q + r /\ k = 4 * q + r + 1 /\ q < m
    BY <1>2
  <2> HIDE DEF q, r
  <2>2. code[k] = IF k > digits THEN PadChar ELSE MimeBase64(SextetOf(b, q, r))
    BY <1>2, <2>1, CharacterIs
  <2> HIDE DEF m, digits, n
  <2>3. CASE k > digits
    <3>1. Least(k - 1, digits) = digits /\ Least(k, digits) = digits
      BY <1>1, <2>3 DEF Least
    <3>2. DecodeMimeBase64(code[k]) = -1
      BY <2>2, <2>3 DEF DecodeMimeBase64, PadChar
    <3> QED
      BY <3>1, <3>2 DEF DecodeChar
  <2>4. CASE ~(k > digits)
    <3>1. Least(k - 1, digits) = 4 * q + r /\ Least(k, digits) = 4 * q + r + 1
      BY <1>1, <2>1, <2>4 DEF Least
    <3>2. 3 * q + r <= n
      BY <1>1, <2>1, <2>4
    <3>3. 3 * q + r <= Len(b)
      BY <3>2 DEF n
    <3>4. code[k] = MimeBase64(SextetOf(b, q, r))
      BY <2>2, <2>4
    <3>5. DecodeChar(N, Decoded(b, N, 4 * q + r), MimeBase64(SextetOf(b, q, r)))
            = Decoded(b, N, 4 * q + r + 1)
      BY <2>1, <3>3, DecodeStep
    <3> QED
      BY <3>1, <3>4, <3>5
  <2> QED
    BY <2>3, <2>4
<1>5. Seen(0) = [phase |-> 0, prev_d |-> 0, dst |-> <<>>]
  <2> HIDE DEF digits
  <2>1. Least(0, digits) = 0 /\ Least(N, (3 * 0) \div 4) = 0
    BY <1>1 DEF Least
  <2>2. SubSeq(b, 1, 0) = <<>>
    BY SubSeqEmpty
  <2> QED
    BY <2>1, <2>2 DEF Decoded
<1> HIDE DEF Seen
<1>6. w = Loop(w)
  BY <1>2, <1>4, <1>5
<1>7. after = Loop(after)
  BY <1>6, Zenon DEF after
<1> HIDE DEF w
<1>8. w[0] = after[0]
  <2>1. w[0] = Loop(w)[0] /\ after[0] = Loop(after)[0]
    BY <1>6, <1>7
  <2> QED
    BY <1>2, <2>1
<1>9. \A i \in 1 .. size : w[i - 1] = after[i - 1] => w[i] = after[i]
  <2> TAKE i \in 1 .. size
  <2>1. w[i] = Loop(w)[i] /\ after[i] = Loop(after)[i]
    BY <1>6, <1>7
  <2> QED
    BY <1>2, <2>1
<1>10. w[size] = after[size]
  <2> SUFFICES ASSUME {i \in 0 .. size : w[i] # after[i]} # {} PROVE FALSE
    BY <1>2
  <2> DEFINE T == {i \in 0 .. size : w[i] # after[i]}
  <2>1. T \subseteq Nat
    BY <1>2
  <2>2. PICK i \in T : \A j \in T : i <= j
    BY <2>1, LeastElement
  <2>3. i \in 1 .. size /\ i - 1 \in 0 .. size /\ i - 1 \notin T
    BY <1>2, <1>8, <2>2
  <2> QED
    BY <1>9, <2>2, <2>3
<1>11. w[size].dst = SubSeq(b, 1, Least(N, n))
  <2>1. w[size] = Decoded(b, N, Least(4 * m, digits))
    BY <1>2 DEF w, Seen
  <2> HIDE DEF digits, m, n
  <2>2. Least(4 * m, digits) = digits /\ (3 * digits) \div 4 = n
    <3>1. s = 0 \/ s = 1 \/ s = 2
      OBVIOUS
    <3> QED
      BY <1>1, <3>1 DEF Least
  <2>3. Decoded(b, N, digits).dst = SubSeq(b, 1, Least(N, (3 * digits) \div 4))
    BY DEF Decoded
  <2> QED
    BY <2>1, <2>2, <2>3
<1> QED
  BY <1>3, <1>10, <1>11 DEF code, n

\* base64_encode loses nothing and invents nothing: a digit for every six bits of
\* its input, with nothing carried from one quadruple into the next, and '=' up
\* to the end of the last one.
THEOREM EncodesAsSpecified == Spec => []EncodedAsSpecified
<1>1. Typed => EncodedAsSpecified
  <2> SUFFICES ASSUME bytes \in Seq(Byte) PROVE EncodedAsSpecified
    BY BytesTyped
  <2>1. \A i : BitOf(bytes, i) = IF i > 8 * Len(bytes) THEN 0
                                 ELSE Bits(bytes[((i - 1) \div 8) + 1], 8)[((i - 1) % 8) + 1]
    BY DEF BitOf
  <2> QED
    BY <2>1, EncodesAll DEF EncodedAsSpecified
<1> QED
  BY <1>1, InputsTyped, PTL

\* base64_decode undoes base64_encode for bytes of any value and number, and
\* writes no more than numBytes of them.
THEOREM DecodesEncoded == Spec => []DecodedIsEncoded
<1>1. Typed => DecodedIsEncoded
  <2> SUFFICES ASSUME bytes \in Seq(Byte), NEW n \in 0 .. Len(bytes) + 1
               PROVE  base64_decode(base64_encode(bytes), n)
                        = SubSeq(bytes, 1, IF n < Len(bytes) THEN n ELSE Len(bytes))
    BY BytesTyped DEF DecodedIsEncoded
  <2>1. Least(n, Len(bytes)) = IF n < Len(bytes) THEN n ELSE Len(bytes)
    BY DEF Least
  <2>2. n \in Nat
    OBVIOUS
  <2> QED
    BY <2>1, <2>2, DecodeIs
<1> QED
  BY <1>1, InputsTyped, PTL

-----------------------------------------------------------------------------
(* The packets.                                                            *)

\* A number is printed with a digit at least.
LEMMA NumberShows == ASSUME NEW n \in Int PROVE NumberLength(n) \in Nat /\ NumberLength(n) >= 1
<1> DEFINE size == IF n < 0 THEN -n ELSE n
           digits == {p \in PowersOfTen : p <= size}
<1>1. IsFiniteSet(PowersOfTen)
  <2>1. \A p \in PowersOfTen : p \in Nat /\ p <= 1000000000
    BY SMT DEF PowersOfTen
  <2>2. PowersOfTen \in SUBSET Nat /\ 1000000000 \in Nat
    BY <2>1, SMT
  <2> QED
    BY <2>1, <2>2, FS_BoundedSetOfNaturals, SMT
<1>2. IsFiniteSet(digits)
  BY <1>1, FS_Subset
<1>3. Cardinality(digits) \in Nat
  BY <1>2, FS_CardinalityType
<1>4. n # 0 => Cardinality(digits) # 0
  <2> SUFFICES ASSUME n # 0 PROVE digits # {}
    BY <1>2, FS_EmptySet
  <2>1. 1 \in PowersOfTen /\ 1 <= size
    BY DEF PowersOfTen
  <2> QED
    BY <2>1
<1>5. NumberLength(n)
        = Cardinality(digits) + (IF n < 0 THEN 1 ELSE 0) + (IF n = 0 THEN 1 ELSE 0)
  BY DEF NumberLength
<1> HIDE DEF digits
<1> QED
  BY <1>3, <1>4, <1>5

\* WSASend reads no byte behind the text of a packet, whatever the usercode,
\* the token and the kind of the packet: the text of the shortest packet is as
\* long as a PktHeader and a PktRes of at most 56 bytes, which both layouts of a
\* std::string (32 and 40 bytes with a long and its padding) are.
THEOREM SendsStayInBuffer ==
  ASSUME SEND_DATASIZE <= 56
  PROVE  Spec => []SendStaysInBuffer
<1>1. Typed => SendStaysInBuffer
  <2> SUFFICES ASSUME Typed, NEW userid \in Long,
                      NEW pktid \in {"SIGNIN_RES", "SIGNUP_RES", "TOKEN_RES"}
               PROVE  LET data == SendPacketData(PktSend(pktid, userid, Len(base64_encode(bytes))))
                      IN  data.len <= data.size
    BY DEF SendStaysInBuffer
  <2>1. bytes \in Seq(Byte)
    BY BytesTyped
  <2>2. Len(base64_encode(bytes)) \in Nat
    <3>1. (Len(bytes) + 2) \div 3 \in Nat
      BY <2>1
    <3> QED
      BY <2>1, <3>1, EncodeIs, TextGrows
  <2>3. NumberLength(userid) \in Nat /\ NumberLength(userid) >= 1
    BY PacketAssumption, NumberShows
  <2>4. /\ SEND_DATASIZE \in Nat
        /\ NumberLength(SEND_DATASIZE) \in Nat /\ NumberLength(SEND_DATASIZE) >= 1
    <3>1. SEND_DATASIZE \in Nat
      BY PacketAssumption DEF SEND_DATASIZE
    <3> QED
      BY <3>1, NumberShows
  <2>5. PktidLength(pktid) >= 9 /\ PktidLength(pktid) \in Nat
    BY DEF PktidLength
  <2> DEFINE token == Len(base64_encode(bytes))
             pkt == PktSend(pktid, userid, token)
  <2>6. SendDataToJsonString(pkt)
          = 44 + NumberLength(SEND_DATASIZE) + PktidLength(pktid) + NumberLength(userid) + token
    BY DEF SendDataToJsonString, PktSend
  <2>7. /\ SendPacketData(pkt).size = SendDataToJsonString(pkt) + 1
        /\ SendPacketData(pkt).len = SEND_DATASIZE
    BY DEF SendPacketData
  <2> HIDE DEF token
  <2> QED
    BY <2>2, <2>3, <2>4, <2>5, <2>6, <2>7 DEF token
<1> QED
  BY <1>1, InputsTyped, PTL
=============================================================================
