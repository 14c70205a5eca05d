------------------------------- MODULE Base64 -------------------------------
(***************************************************************************)
(* Base64.hpp.  A text is the sequence of its byte values, up to its zero. *)
(***************************************************************************)
EXTENDS Integers, Sequences

Byte == 0 .. 255

MimeBase64(d) ==
  CASE d \in 0 .. 25  -> d + 65
    [] d \in 26 .. 51 -> d + 71
    [] d \in 52 .. 61 -> d - 4
    [] d = 62 -> 43
    [] d = 63 -> 47

DecodeMimeBase64(c) ==
  CASE c \in 65 .. 90  -> c - 65
    [] c \in 97 .. 122 -> c - 71
    [] c \in 48 .. 57  -> c + 4
    [] c = 43 -> 62
    [] c = 47 -> 63
    [] OTHER -> -1

PadChar == 61   \* '='

\* The size of the text for n bytes, its terminating zero included: what
\* base64_encode allocates and returns.
EncodedSize(n) == 4 * (n \div 3) + (IF n % 3 # 0 THEN 4 ELSE 0) + 1

\* The four characters for input[0..2], of which the first n are given.
Quadruple(input, n) ==
  << MimeBase64(input[1] \div 4),
     MimeBase64(((input[1] % 4) * 16) + input[2] \div 16),
     IF n = 1 THEN PadChar ELSE MimeBase64(((input[2] % 16) * 4) + input[3] \div 64),
     IF n < 3 THEN PadChar ELSE MimeBase64(input[3] % 64) >>

\* Fault: input keeps the bytes of the quadruple before.
EncodeByteStale(bytes, state, i) ==
  LET input == [state.input EXCEPT ![((i - 1) % 3) + 1] = bytes[i]] IN
  [input |-> input,
   text |-> IF i % 3 = 0 \/ i = Len(bytes)
            THEN state.text \o Quadruple(input, ((i - 1) % 3) + 1)
            ELSE state.text]

\* The loop body for byte i: every third byte, and the last one, completes a
\* quadruple and clears input.
EncodeByte(bytes, state, i) ==
  LET input == [state.input EXCEPT ![((i - 1) % 3) + 1] = bytes[i]] IN
  IF i % 3 = 0 \/ i = Len(bytes)
  THEN [input |-> <<0, 0, 0>>, text |-> state.text \o Quadruple(input, ((i - 1) % 3) + 1)]
  ELSE [input |-> input, text |-> state.text]

base64_encode(bytes) ==
  LET after[i \in 0 .. Len(bytes)] ==
        IF i = 0 THEN [input |-> <<0, 0, 0>>, text |-> <<>>]
        ELSE EncodeByte(bytes, after[i - 1], i)
  IN after[Len(bytes)].text

\* The byte that digit d completes in a phase after 0, the digit before it
\* being prev_d.
Combined(phase, prev_d, d) ==
  CASE phase = 1 -> ((prev_d * 4) % 256) + d \div 16
    [] phase = 2 -> ((prev_d % 16) * 16) + d \div 4
    [] phase = 3 -> (prev_d % 4) * 64 + d

\* Fault: it writes without looking at numBytes.
DecodeCharUnbounded(numBytes, state, c) ==
  LET d == DecodeMimeBase64(c) IN
  IF d = -1 THEN state
  ELSE [phase |-> (state.phase + 1) % 4,
        prev_d |-> d,
        dst |-> IF state.phase = 0 THEN state.dst
                ELSE Append(state.dst, Combined(state.phase, state.prev_d, d))]

\* The loop body for character c.  One outside the alphabet is skipped, '='
\* among them; at most numBytes bytes are written.
DecodeChar(numBytes, state, c) ==
  LET d == DecodeMimeBase64(c) IN
  IF d = -1 THEN state
  ELSE [phase |-> (state.phase + 1) % 4,
        prev_d |-> d,
        dst |-> IF state.phase = 0 \/ Len(state.dst) >= numBytes THEN state.dst
                ELSE Append(state.dst, Combined(state.phase, state.prev_d, d))]

base64_decode(text, numBytes) ==
  LET after[k \in 0 .. Len(text)] ==
        IF k = 0 THEN [phase |-> 0, prev_d |-> 0, dst |-> <<>>]
        ELSE DecodeChar(numBytes, after[k - 1], text[k])
  IN after[Len(text)].dst
=============================================================================
