---------------------------- MODULE MCDatabase ----------------------------
(***************************************************************************)
(* Values for the constants of Database: two account names with one        *)
(* password each and a second password for the first, one initial account  *)
(* or none, client indices that include a USERCODE.                        *)
(***************************************************************************)
EXTENDS Database, TLC

CONSTANTS alice, bob, short, pw1, pw2, t1, t2

MCIDs == {alice, bob, short}
MCValidID == {alice, bob}
MCPWs == {pw1, pw2}

MCAccounts == (1 :> [ID |-> alice, PW |-> pw1])

Request(op, client, id, pw) ==
  [req |-> op, clientIndex |-> client, ID |-> id, PW |-> pw]

\* An empty table, and two sign-ups under one name with a password each, so
\* that the name may be in the table twice, a sign-in with the first of them, a
\* name that is refused, and what OnClose pushes: a LOGOUT of usercode 0, the
\* only value mClientUserID ever has.
NoAccounts == <<>>
SessionInput ==
  { Request("SIGNUP", 0, bob, pw1), Request("SIGNUP", 1, bob, pw2),
    Request("SIGNIN", 0, bob, pw1), Request("SIGNIN", 1, short, pw1),
    Request("LOGOUT", 0, None, None) }

\* A sign-in with the right password and one with a wrong one.
RightAndWrong == { Request("SIGNIN", 0, alice, pw1), Request("SIGNIN", 2, alice, pw2) }

\* Two clients sign in to the one account; neither index is its USERCODE.
TwoSignIns == { Request("SIGNIN", 2, alice, pw1), Request("SIGNIN", 3, alice, pw1) }

\* The client whose index is the account's USERCODE, and another one.
SignInOfClientOne == { Request("SIGNIN", 0, alice, pw1), Request("SIGNIN", 1, short, pw1) }

\* Two clients sign up under the same name.
TwoSignUps == { Request("SIGNUP", 2, bob, pw1), Request("SIGNUP", 3, bob, pw2) }
=============================================================================
