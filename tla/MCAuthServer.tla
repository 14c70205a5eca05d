---------------------------- MODULE MCAuthServer ----------------------------
(***************************************************************************)
(* One server process with two workers, one account and clients that sign  *)
(* in to it; the index of the first session is not the account's USERCODE. *)
(***************************************************************************)
EXTENDS AuthServer, TLC

CONSTANTS alice, pw1, w1, w2, t1, r1, p1

MCAccounts == (1 :> [ID |-> alice, PW |-> pw1])
SignIn == {[req |-> "SIGNIN", clientIndex |-> 0, ID |-> alice, PW |-> pw1]}
=============================================================================
