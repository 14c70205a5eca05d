---------------------------- MODULE MCAlgorithms ----------------------------
(***************************************************************************)
(* Inputs for Algorithms: bytes with their high, low and middle bits, and  *)
(* the letters of two of the reserved words, one of which contains another *)
(* one's first letter.                                                     *)
(***************************************************************************)
EXTENDS Algorithms

Bytes == {0, 1, 60, 128, 255}
Letters == {"D", "R", "O", "P"}
Longs == {-2147483647, -1, 0, 1, 65535, 2147483647}
Chars == Letters \cup {"'"}
=============================================================================
