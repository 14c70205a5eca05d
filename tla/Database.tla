------------------------------ MODULE Database ------------------------------
(***************************************************************************)
(* The DataBase class (Database.hpp) of every authentication server of a   *)
(* cluster, and the table LOGINDATA they share.                            *)
(*                                                                         *)
(* A server's IOCP workers append requests to ReqQueue, its DB threads     *)
(* take them one at a time, run SQL batches over ODBC and append results   *)
(* to ResQueue.  A row's LASTAUTHSERVER says which server the account is   *)
(* signed in at; 0 means it is free.                                       *)
(*                                                                         *)
(* A batch of several SQL statements is several steps here: nothing in the *)
(* code opens a transaction, so every statement commits by itself and the  *)
(* statements of other threads and servers run between them.  A batch that *)
(* succeeds does what its statements spell (the FROM its last SELECT lacks *)
(* read in); whether the DBMS accepts, refuses or half-runs it is a choice *)
(* that DBMayFail opens.                                                   *)
(***************************************************************************)
EXTENDS Integers, Sequences, FiniteSets

CONSTANTS
  Server,      \* the AUTHSERVER_NUMs in use; 0 is reserved for "signed in nowhere"
  Thread,      \* the DB threads of one server (DB_THREAD_NUM of them)
  Code,        \* the USERCODEs the IDENTITY column may hand out
  IDs, PWs,    \* the account names and passwords clients send
  ValidID, ValidPW,  \* those that pass CheckIDIsValid and CheckPWIsValid
  None,        \* the ID of a USERCODE no row has, and the "" of a LOGOUT
  Accounts,    \* the rows of LOGINDATA at the start, keyed by USERCODE
  Input,       \* the requests callers make
  UShort,      \* number of values of an unsigned short (65536 in the code)
  MaxPending,  \* bound: requests and results of one server not yet consumed
  DBMayFail    \* whether the DBMS or the connection may fail a statement

eDBReqCode == {"SIGNUP", "SIGNIN", "LOGOUT"}

eReturnCode == {"SIGNUP_FAIL", "SIGNUP_ALREADY_IN_USE", "SIGNUP_SUCCESS",
                "SIGNIN_FAIL", "SIGNIN_SUCCESS"}

DBRequest == [req : eDBReqCode, clientIndex : Nat,
              ID : IDs \cup {None}, PW : PWs \cup {None}]

DBResult == [clientIndex : Nat, res : eReturnCode, usercode : Code \cup {0}]

\* What a thread holds between two requests; never read.
NoRequest == [req |-> "LOGOUT", clientIndex |-> 0, ID |-> None, PW |-> None]
NoResult  == [clientIndex |-> 0, res |-> "SIGNIN_FAIL", usercode |-> 0]

ASSUME DatabaseAssumption ==
  /\ Server \subseteq Nat \ {0}
  /\ IsFiniteSet(Thread)
  /\ Code \subseteq Nat \ {0}
  /\ None \notin IDs \cup PWs
  /\ ValidID \subseteq IDs
  /\ ValidPW \subseteq PWs
  /\ DOMAIN Accounts \subseteq Code
  /\ \A c \in DOMAIN Accounts : Accounts[c] \in [ID : ValidID, PW : ValidPW]
  /\ Input \subseteq DBRequest
  /\ UShort \in Nat \ {0}
  /\ MaxPending \in Nat
  /\ DBMayFail \in BOOLEAN

VARIABLES
  ID, Password, LASTAUTHSERVER,  \* the columns of LOGINDATA, by USERCODE
  phase,     \* where each server's process is between Initialize and exit
  ReqQueue,  \* per server: requests waiting for a DB thread
  ResQueue,  \* per server: results waiting for PopRes
  pc,        \* per DB thread: the statement it runs next
  req,       \* per DB thread: the request it holds
  ret,       \* per DB thread: the result it is about to push
  cursor     \* per DB thread: whether its statement handle has an open cursor

table  == <<ID, Password, LASTAUTHSERVER>>
queues == <<ReqQueue, ResQueue>>
local  == <<pc, req, ret, cursor>>
vars   == <<table, phase, queues, local>>

Worker == Server \X Thread

Phase == {"off", "running", "stopping", "ended", "aborted"}

PC == {"dead", "connect", "while", "pop",
       "signin", "update", "select", "signup", "insert", "push", "logout"}

Init ==
  /\ ID = [c \in Code |-> IF c \in DOMAIN Accounts THEN Accounts[c].ID ELSE None]
  /\ Password = [c \in Code |-> IF c \in DOMAIN Accounts THEN Accounts[c].PW ELSE None]
  /\ LASTAUTHSERVER = [c \in Code |-> 0]
  /\ phase = [s \in Server |-> "off"]
  /\ ReqQueue = [s \in Server |-> <<>>]
  /\ ResQueue = [s \in Server |-> <<>>]
  /\ pc = [w \in Worker |-> "dead"]
  /\ req = [w \in Worker |-> NoRequest]
  /\ ret = [w \in Worker |-> NoResult]
  /\ cursor = [w \in Worker |-> FALSE]

-----------------------------------------------------------------------------
(* Life of a server's DataBase object.                                     *)

mIsRun(s) == phase[s] = "running"

\* The one UPDATE of InitAuth: every account recorded for s becomes free.
ReleaseAll(s) ==
  LASTAUTHSERVER' = [c \in Code |-> IF LASTAUTHSERVER[c] = s
                                    THEN 0 ELSE LASTAUTHSERVER[c]]

\* InitAuth gives up without touching the table when a handle, the
\* connection or the UPDATE fails; its callers go on either way.
InitAuth(s) ==
  /\ \/ ReleaseAll(s)
     \/ DBMayFail /\ UNCHANGED LASTAUTHSERVER
  /\ UNCHANGED <<ID, Password>>

CreateThreads(s) ==
  /\ phase' = [phase EXCEPT ![s] = "running"]
  /\ pc' = [w \in Worker |-> IF w[1] = s THEN "connect" ELSE pc[w]]

\* Initialize: InitAuth, then CreateThreads.
Initialize(s) ==
  /\ phase[s] = "off"
  /\ InitAuth(s)
  /\ CreateThreads(s)
  /\ UNCHANGED <<queues, req, ret, cursor>>

\* End, first half: DestroyThreads clears mIsRun and starts to join.
DestroyThreads(s) ==
  /\ phase[s] = "running"
  /\ phase' = [phase EXCEPT ![s] = "stopping"]
  /\ UNCHANGED <<table, queues, local>>

\* Fault: End resets the accounts without joining the DB threads.
EndInitAuthUnjoined(s) ==
  /\ phase[s] = "stopping"
  /\ ReleaseAll(s)
  /\ phase' = [phase EXCEPT ![s] = "ended"]
  /\ UNCHANGED <<ID, Password, queues, local>>

\* End, second half: every DB thread is joined, then InitAuth runs again.
\* "aborted" is the end of a server whose InitAuth did not reach the table.
EndInitAuth(s) ==
  /\ phase[s] = "stopping"
  /\ \A t \in Thread : pc[<<s, t>>] = "dead"
  /\ \/ ReleaseAll(s) /\ phase' = [phase EXCEPT ![s] = "ended"]
     \/ /\ DBMayFail
        /\ phase' = [phase EXCEPT ![s] = "aborted"]
        /\ UNCHANGED LASTAUTHSERVER
  /\ UNCHANGED <<ID, Password, queues, local>>

\* The process ends, by a crash or by returning from main: its queues,
\* threads and statement handles are gone, the table stays as it is.
Exit(s) ==
  /\ phase[s] # "off"
  /\ phase' = [phase EXCEPT ![s] = "off"]
  /\ ReqQueue' = [ReqQueue EXCEPT ![s] = <<>>]
  /\ ResQueue' = [ResQueue EXCEPT ![s] = <<>>]
  /\ pc' = [w \in Worker |-> IF w[1] = s THEN "dead" ELSE pc[w]]
  /\ req' = [w \in Worker |-> IF w[1] = s THEN NoRequest ELSE req[w]]
  /\ ret' = [w \in Worker |-> IF w[1] = s THEN NoResult ELSE ret[w]]
  /\ cursor' = [w \in Worker |-> IF w[1] = s THEN FALSE ELSE cursor[w]]
  /\ UNCHANGED table

-----------------------------------------------------------------------------
(* The interface the rest of the server uses.                              *)

Pending(s) ==
  Len(ReqQueue[s]) + Len(ResQueue[s])
    + Cardinality({t \in Thread : req[<<s, t>>] # NoRequest})

\* PushReq takes its first argument as an unsigned short, also when
\* OnClose passes a usercode, and does not look at mIsRun: the IOCP
\* workers outlive DataBase::End.
PushReq(s, r) ==
  /\ phase[s] # "off"
  /\ Pending(s) < MaxPending
  /\ ReqQueue' = [ReqQueue EXCEPT ![s] =
                    Append(@, [r EXCEPT !.clientIndex = @ % UShort])]
  /\ UNCHANGED <<table, phase, ResQueue, local>>

PopRes(s) ==
  /\ phase[s] # "off"
  /\ ResQueue[s] # <<>>
  /\ ResQueue' = [ResQueue EXCEPT ![s] = Tail(@)]
  /\ UNCHANGED <<table, phase, ReqQueue, local>>

-----------------------------------------------------------------------------
(* DBThreadWork.                                                           *)

Goto(w, label) == pc' = [pc EXCEPT ![w] = label]

\* A thread whose handles or connection cannot be had returns at once.
Connect(w) ==
  /\ pc[w] = "connect"
  /\ \/ Goto(w, "while")
     \/ DBMayFail /\ Goto(w, "dead")
  /\ UNCHANGED <<table, phase, queues, req, ret, cursor>>

\* Fault: a stopping thread serves what is queued before it leaves the loop.
WhileRunningOrQueued(w) ==
  /\ pc[w] = "while"
  /\ Goto(w, IF mIsRun(w[1]) \/ ReqQueue[w[1]] # <<>> THEN "pop" ELSE "dead")
  /\ UNCHANGED <<table, phase, queues, req, ret, cursor>>

\* The condition of the while loop; leaving it frees the statement handle.
WhileRunning(w) ==
  /\ pc[w] = "while"
  /\ \/ mIsRun(w[1]) /\ Goto(w, "pop") /\ UNCHANGED cursor
     \/ /\ ~mIsRun(w[1])
        /\ Goto(w, "dead")
        /\ cursor' = [cursor EXCEPT ![w] = FALSE]
  /\ UNCHANGED <<table, phase, queues, req, ret>>

Dispatch(r) == CASE r.req = "SIGNIN" -> "signin"
                 [] r.req = "SIGNUP" -> "signup"
                 [] r.req = "LOGOUT" -> "logout"

\* Fault: the newest request is served first.
PopNewestReq(w) ==
  LET q == ReqQueue[w[1]] IN
  /\ pc[w] = "pop"
  /\ IF q = <<>> THEN Goto(w, "while") /\ UNCHANGED <<ReqQueue, req>>
     ELSE /\ req' = [req EXCEPT ![w] = q[Len(q)]]
          /\ ReqQueue' = [ReqQueue EXCEPT ![w[1]] = SubSeq(q, 1, Len(q) - 1)]
          /\ Goto(w, Dispatch(q[Len(q)]))
  /\ UNCHANGED <<table, phase, ResQueue, ret, cursor>>

\* An empty queue sends the thread back to the loop after a short sleep.
PopReq(w) ==
  LET s == w[1] IN
  /\ pc[w] = "pop"
  /\ \/ /\ ReqQueue[s] = <<>>
        /\ Goto(w, "while")
        /\ UNCHANGED <<ReqQueue, req>>
     \/ /\ ReqQueue[s] # <<>>
        /\ req' = [req EXCEPT ![w] = Head(ReqQueue[s])]
        /\ ReqQueue' = [ReqQueue EXCEPT ![s] = Tail(@)]
        /\ Goto(w, Dispatch(Head(ReqQueue[s])))
  /\ UNCHANGED <<table, phase, ResQueue, ret, cursor>>

\* SignIn or SignUp returns to DBThreadWork, which builds the result.
Answer(w, res, usercode) ==
  /\ ret' = [ret EXCEPT ![w] = [clientIndex |-> req[w].clientIndex % UShort,
                                res |-> res, usercode |-> usercode]]
  /\ Goto(w, "push")

CheckIDIsValid(id) == id \in ValidID
CheckPWIsValid(pw) == pw \in ValidPW
Valid(r) == CheckIDIsValid(r.ID) /\ CheckPWIsValid(r.PW)

CloseCursor(w) == cursor' = [cursor EXCEPT ![w] = FALSE]

\* Fault: the password is left out of the WHERE.
FreeRowExistsForID(id, pw) == \E c \in Code : ID[c] = id /\ LASTAUTHSERVER[c] = 0

\* The IF EXISTS of the sign-in batch.
FreeRowExists(id, pw) ==
  \E c \in Code : ID[c] = id /\ Password[c] = pw /\ LASTAUTHSERVER[c] = 0

\* SignIn up to the IF EXISTS of its batch.  A handle that still has an open
\* cursor refuses SQLPrepare and SQLExecute; SQLCloseCursor follows on every
\* path that got as far as SQLExecute.
SignIn(w) ==
  /\ pc[w] = "signin"
  /\ \/ /\ ~Valid(req[w])
        /\ Answer(w, "SIGNIN_FAIL", 0)
        /\ UNCHANGED cursor
     \/ /\ Valid(req[w])
        /\ cursor[w] \/ DBMayFail
        /\ Answer(w, "SIGNIN_FAIL", 0)
        /\ CloseCursor(w)
     \/ /\ Valid(req[w])
        /\ ~cursor[w]
        /\ FreeRowExists(req[w].ID, req[w].PW)
        /\ Goto(w, "update")
        /\ UNCHANGED <<ret, cursor>>
     \/ /\ Valid(req[w])
        /\ ~cursor[w]
        /\ ~FreeRowExists(req[w].ID, req[w].PW)
        /\ Answer(w, "SIGNIN_FAIL", 0)
        /\ UNCHANGED cursor
  /\ UNCHANGED <<table, phase, queues, req>>

\* The UPDATE of the batch: its WHERE names the ID only.
SignInUpdate(w) ==
  /\ pc[w] = "update"
  /\ \/ /\ LASTAUTHSERVER' = [c \in Code |-> IF ID[c] = req[w].ID THEN w[1]
                                             ELSE LASTAUTHSERVER[c]]
        /\ Goto(w, "select")
        /\ UNCHANGED ret
     \/ /\ DBMayFail
        /\ Answer(w, "SIGNIN_FAIL", 0)
        /\ UNCHANGED LASTAUTHSERVER
  /\ UNCHANGED <<ID, Password, phase, queues, req, cursor>>

\* Fault: SignIn hands on the SQLRETURN of a fetch that failed.
SignInSelectReturn(w) ==
  /\ pc[w] = "select"
  /\ \/ \E c \in Code : ID[c] = req[w].ID /\ Answer(w, "SIGNIN_SUCCESS", c)
     \/ DBMayFail /\ Answer(w, "SIGNIN_SUCCESS", -1)
  /\ UNCHANGED <<table, phase, queues, req, cursor>>

\* The SELECT of the batch and the SQLFetch of its first row.
SignInSelect(w) ==
  /\ pc[w] = "select"
  /\ \/ \E c \in Code : ID[c] = req[w].ID /\ Answer(w, "SIGNIN_SUCCESS", c)
     \/ DBMayFail /\ Answer(w, "SIGNIN_FAIL", 0)
  /\ UNCHANGED <<table, phase, queues, req, cursor>>

MayLeaveOpen(w) == \E open \in BOOLEAN : cursor' = [cursor EXCEPT ![w] = open]

\* SignUp up to the IF NOT EXISTS of its batch.  No path closes the cursor:
\* it stays open when a row was fetched, and may be when the fetch failed.
SignUp(w) ==
  /\ pc[w] = "signup"
  /\ \/ /\ ~Valid(req[w]) \/ cursor[w] \/ DBMayFail
        /\ Answer(w, "SIGNUP_FAIL", 0)
        /\ UNCHANGED cursor
     \/ /\ Valid(req[w])
        /\ ~cursor[w]
        /\ \A c \in Code : ID[c] # req[w].ID
        /\ Goto(w, "insert")
        /\ UNCHANGED <<ret, cursor>>
     \/ /\ Valid(req[w])
        /\ ~cursor[w]
        /\ \E c \in Code : ID[c] = req[w].ID
        /\ \/ /\ Answer(w, "SIGNUP_ALREADY_IN_USE", 0)
              /\ cursor' = [cursor EXCEPT ![w] = TRUE]
           \/ /\ DBMayFail
              /\ Answer(w, "SIGNUP_FAIL", 0)
              /\ MayLeaveOpen(w)
  /\ UNCHANGED <<table, phase, queues, req>>

\* The USERCODE the IDENTITY column gives the next row.
NextIdentity(c) ==
  /\ ID[c] = None
  /\ \A d \in Code : d < c => ID[d] # None

\* Fault: the batch answers 'S' whether or not its INSERT was refused.
SignUpInsertUnchecked(w) ==
  /\ pc[w] = "insert"
  /\ \/ \E c \in Code :
          /\ NextIdentity(c)
          /\ ID' = [ID EXCEPT ![c] = req[w].ID]
          /\ Password' = [Password EXCEPT ![c] = req[w].PW]
     \/ /\ DBMayFail \/ \A c \in Code : ~NextIdentity(c)
        /\ UNCHANGED <<ID, Password>>
  /\ Answer(w, "SIGNUP_SUCCESS", 0)
  /\ UNCHANGED <<LASTAUTHSERVER, phase, queues, req, cursor>>

\* The INSERT of the batch, the SELECT 'S' and its SQLFetch.  The schema names
\* no key on ID, so the INSERT of a name that is in the table by now goes
\* through; there may be no identity left.
SignUpInsert(w) ==
  /\ pc[w] = "insert"
  /\ \/ \E c \in Code :
          /\ NextIdentity(c)
          /\ ID' = [ID EXCEPT ![c] = req[w].ID]
          /\ Password' = [Password EXCEPT ![c] = req[w].PW]
          /\ \/ /\ Answer(w, "SIGNUP_SUCCESS", 0)
                /\ cursor' = [cursor EXCEPT ![w] = TRUE]
             \/ /\ DBMayFail
                /\ Answer(w, "SIGNUP_FAIL", 0)
                /\ MayLeaveOpen(w)
     \/ /\ DBMayFail \/ \A c \in Code : ~NextIdentity(c)
        /\ Answer(w, "SIGNUP_FAIL", 0)
        /\ MayLeaveOpen(w)
        /\ UNCHANGED <<ID, Password>>
  /\ UNCHANGED <<LASTAUTHSERVER, phase, queues, req>>

Delete(w) ==
  /\ req' = [req EXCEPT ![w] = NoRequest]
  /\ ret' = [ret EXCEPT ![w] = NoResult]
  /\ Goto(w, "while")

\* Fault: failures are not reported to the client.
PushResIfSuccess(w) ==
  /\ pc[w] = "push"
  /\ IF ret[w].res \in {"SIGNUP_SUCCESS", "SIGNIN_SUCCESS"}
     THEN ResQueue' = [ResQueue EXCEPT ![w[1]] = Append(@, ret[w])]
     ELSE UNCHANGED ResQueue
  /\ Delete(w)
  /\ UNCHANGED <<table, phase, ReqQueue, cursor>>

\* PushRes.  The test for SIGNUP that follows is not an else-if, so a SIGNIN
\* request goes on into its else branch, the LogOut call.
PushRes(w) ==
  /\ pc[w] = "push"
  /\ ResQueue' = [ResQueue EXCEPT ![w[1]] = Append(@, ret[w])]
  /\ \/ req[w].req = "SIGNUP" /\ Delete(w)
     \/ /\ req[w].req # "SIGNUP"
        /\ Goto(w, "logout")
        /\ ret' = [ret EXCEPT ![w] = NoResult]
        /\ UNCHANGED req
  /\ UNCHANGED <<table, phase, ReqQueue, cursor>>

\* LogOut(req->clientIndex): the row with that USERCODE becomes free, whoever
\* holds it.  An open cursor makes SQLExecDirect fail.
LogOut(w) ==
  /\ pc[w] = "logout"
  /\ \/ /\ ~cursor[w]
        /\ LASTAUTHSERVER' = [c \in Code |-> IF c = req[w].clientIndex THEN 0
                                             ELSE LASTAUTHSERVER[c]]
     \/ /\ cursor[w] \/ DBMayFail
        /\ UNCHANGED LASTAUTHSERVER
  /\ Delete(w)
  /\ UNCHANGED <<ID, Password, phase, queues, cursor>>

ThreadStep(w) ==
  \/ Connect(w) \/ WhileRunning(w) \/ PopReq(w)
  \/ SignIn(w) \/ SignInUpdate(w) \/ SignInSelect(w)
  \/ SignUp(w) \/ SignUpInsert(w)
  \/ PushRes(w) \/ LogOut(w)

Next ==
  \/ \E s \in Server :
       \/ Initialize(s) \/ DestroyThreads(s) \/ EndInitAuth(s) \/ Exit(s)
       \/ PopRes(s)
       \/ \E r \in Input : PushReq(s, r)
  \/ \E w \in Worker : ThreadStep(w)

Spec == Init /\ [][Next]_vars

\* The OS runs every DB thread, ODBC calls return (the DBMS answers or the
\* connection breaks), and End goes on once its joins have returned.
\* Nothing makes callers push or pop, or a server start or stop.
Fairness ==
  /\ \A w \in Worker : WF_vars(ThreadStep(w))
  /\ \A s \in Server : WF_vars(EndInitAuth(s))

FairSpec == Spec /\ Fairness

-----------------------------------------------------------------------------
(* Properties.                                                             *)

\* Every variable has its type: what a DB thread or a queue holds is a
\* request or a result, and a row is recorded for 0 or for a server.
TypeOK ==
  /\ ID \in [Code -> IDs \cup {None}]
  /\ Password \in [Code -> PWs \cup {None}]
  /\ LASTAUTHSERVER \in [Code -> Server \cup {0}]
  /\ phase \in [Server -> Phase]
  /\ ReqQueue \in [Server -> Seq(DBRequest)]
  /\ ResQueue \in [Server -> Seq(DBResult)]
  /\ pc \in [Worker -> PC]
  /\ req \in [Worker -> DBRequest]
  /\ ret \in [Worker -> DBResult]
  /\ cursor \in [Worker -> BOOLEAN]

\* DataBase::End leaves no account recorded for the server that ended
\* (Database.hpp:57): the second InitAuth comes after every thread that could
\* still run a sign-in batch has been joined.  Requests pushed later and the
\* other servers' batches must not bring such a record back.
EndedHoldsNothing ==
  \A s \in Server, c \in Code : phase[s] = "ended" => LASTAUTHSERVER[c] # s

\* A client that is told SIGNIN_SUCCESS gets the usercode of a row of the name
\* it sent, and it has sent that name with the password of such a row
\* (Database.hpp:144-148): the code is read by a statement that no longer names
\* the password, with the sign-ups and sign-ins of other threads in between.
SignInAnswerIsTrue ==
  \A w \in Worker :
    pc[w] = "push" /\ ret[w].res = "SIGNIN_SUCCESS" =>
      /\ ret[w].usercode \in Code
      /\ ID[ret[w].usercode] = req[w].ID
      /\ \E c \in Code : ID[c] = req[w].ID /\ Password[c] = req[w].PW

\* What a client is told of its sign-up is true of the table when the result
\* is pushed: SIGNUP_SUCCESS means that a row has its ID and its password, and
\* SIGNUP_ALREADY_IN_USE (Database.hpp:109) that a row has its ID.
SignUpAnswerIsTrue ==
  \A w \in Worker :
    pc[w] = "push" =>
      /\ ret[w].res = "SIGNUP_SUCCESS" =>
           \E c \in Code : ID[c] = req[w].ID /\ Password[c] = req[w].PW
      /\ ret[w].res = "SIGNUP_ALREADY_IN_USE" =>
           \E c \in Code : ID[c] = req[w].ID

\* No two rows of LOGINDATA have the same ID: SignUp's IF NOT EXISTS is there
\* to answer SIGNUP_ALREADY_IN_USE instead.
IDsAreUnique ==
  \A c, d \in Code : ID[c] # None /\ ID[c] = ID[d] => c = d

\* A sign-in takes an account only while it is free: the row its UPDATE
\* records for this server had LASTAUTHSERVER 0, as its IF EXISTS requires.
SignInTakesFreeRow ==
  [][\A w \in Worker, c \in Code :
       pc[w] = "update" /\ pc'[w] = "select" /\ ID[c] = req[w].ID
         => LASTAUTHSERVER[c] = 0]_vars

\* Only a LOGOUT request makes DBThreadWork call LogOut, as the comment on its
\* else branch says (Database.hpp:583): no other request frees an account.
OnlyLogOutReleases ==
  [][\A w \in Worker, c \in Code :
       pc[w] = "logout" /\ pc'[w] # "logout" /\ phase'[w[1]] # "off"
         /\ LASTAUTHSERVER[c] # 0 /\ LASTAUTHSERVER'[c] = 0
         => req[w].req = "LOGOUT"]_vars

\* A sign-in that is answered SIGNIN_FAIL did not run its UPDATE: 0 means
\* "Failed to UPDATE" (Database.hpp:173), so no account stays recorded for a
\* session that was refused.
FailedSignInTakesNothing ==
  [][\A w \in Worker :
       pc[w] = "select" /\ pc'[w] = "push" => ret'[w].res = "SIGNIN_SUCCESS"]_vars

Unanswered == {"signin", "update", "select", "signup", "insert", "push"}

Clients == {r.clientIndex % UShort : r \in Input}

\* The sign-ins and sign-ups of client i at server s that are not answered.
Waiting(s, i) ==
    Cardinality({k \in DOMAIN ReqQueue[s] : /\ ReqQueue[s][k].req # "LOGOUT"
                                            /\ ReqQueue[s][k].clientIndex = i})
  + Cardinality({t \in Thread : /\ pc[<<s, t>>] \in Unanswered
                                /\ req[<<s, t>>].clientIndex = i})

Ready(s, i) == Cardinality({k \in DOMAIN ResQueue[s] : ResQueue[s][k].clientIndex = i})

\* DataBase keeps the promise of RequestService: between Initialize and End no
\* DB thread loses, repeats or invents an answer, whatever its statements do.
Service(s) == INSTANCE RequestService WITH
                Client <- Clients,
                running <- mIsRun(s),
                waiting <- [i \in Clients |-> Waiting(s, i)],
                ready <- [i \in Clients |-> Ready(s, i)]
ImplementsService ==
  /\ \A s \in Server : Service(s)!Init
  /\ [][\A s \in Server : [Service(s)!Next]_(Service(s)!vars)]_vars

Serving(s) == phase[s] = "running" /\ \E t \in Thread : pc[<<s, t>>] # "dead"

\* A sign-in or sign-up of client i waits in the queue of server s.
Queued(s, i) ==
  \E k \in DOMAIN ReqQueue[s] : /\ ReqQueue[s][k].req # "LOGOUT"
                                 /\ ReqQueue[s][k].clientIndex = i

\* A DB thread of server s pushes a result for client i.
Answered(s, i) ==
  \E t \in Thread : /\ pc[<<s, t>>] = "push"
                     /\ ret[<<s, t>>].clientIndex = i
                     /\ PushRes(<<s, t>>)

\* No client is starved: while a DB thread of a running server is alive, a
\* client that always has a request waiting is answered again and again,
\* whatever the other clients push.
RequestIsAnswered ==
  \A s \in Server, i \in Clients :
    <>[](Queued(s, i) /\ Serving(s)) => []<><<Answered(s, i)>>_vars

\* End returns: joining the DB threads ends although each first finishes the
\* request it holds, and it does so with requests left in the queue.
EndReturns ==
  \A s \in Server : phase[s] = "stopping" ~> phase[s] # "stopping"
=============================================================================
