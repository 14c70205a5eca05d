--------------------------- MODULE InjectionCheck ---------------------------
(***************************************************************************)
(* The tests an ID and a password pass before they get into a statement    *)
(* (Database.hpp:260-385).  A string is the sequence of its characters,    *)
(* each one a TLA+ string of length one.                                   *)
(***************************************************************************)
EXTENDS Naturals, Sequences

CONSTANT Alnum   \* '0'..'9', 'A'..'Z' and 'a'..'z'

reservedWord ==
  { <<"O", "R">>, <<"S", "E", "L", "E", "C", "T">>, <<"I", "N", "S", "E", "R", "T">>,
    <<"D", "E", "L", "E", "T", "E">>, <<"U", "P", "D", "A", "T", "E">>,
    <<"C", "R", "E", "A", "T", "E">>, <<"D", "R", "O", "P">>, <<"E", "X", "E", "C">>,
    <<"U", "N", "I", "O", "N">>, <<"F", "E", "T", "C", "H">>,
    <<"D", "E", "C", "L", "A", "R", "E">>, <<"T", "R", "U", "N", "C", "A", "T", "E">> }

\* Fault: the search gives up one place early.
IsStringContainsEarly(orgstr, somestr) ==
  \E i \in 1 .. Len(orgstr) :
    /\ i - 1 + Len(somestr) < Len(orgstr)
    /\ \A j \in 1 .. Len(somestr) : orgstr[i + j - 1] = somestr[j]

\* The outer loop stops at the first i from which somestr no longer fits.
IsStringContains(orgstr, somestr) ==
  \E i \in 1 .. Len(orgstr) :
    /\ i - 1 + Len(somestr) <= Len(orgstr)
    /\ orgstr[i] = somestr[1]
    /\ \A j \in 2 .. Len(somestr) : orgstr[i + j - 1] = somestr[j]

\* Fault: the first word that is not found ends the search.
InjectionCheckFirst(str) ==
  /\ \A i \in DOMAIN str : str[i] \in Alnum
  /\ \E word \in reservedWord : ~IsStringContains(str, word)

InjectionCheck(str) ==
  /\ \A i \in DOMAIN str : str[i] \in Alnum
  /\ \A word \in reservedWord : ~IsStringContains(str, word)

CheckIDIsValid(id) == InjectionCheck(id) /\ Len(id) \in 6 .. 10
=============================================================================
