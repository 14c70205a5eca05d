----------------------------- MODULE AuthServer -----------------------------
(***************************************************************************)
(* One authentication server process: main, which starts and ends it, its  *)
(* IOCP workers, its accepter and its two sender threads, on the DataBase  *)
(* and the RedisManager it owns.  What a handler does to a session in      *)
(* detail is module IOCPServer; here a handler is one step, taken between  *)
(* the dequeue of a completion and the next one.                           *)
(***************************************************************************)
EXTENDS Integers, Sequences, FiniteSets

CONSTANTS
  Session,      \* the indices of mClientInfos
  IOCPWorker,   \* the IOCP workers (MAX_WORKERTHREAD of them)
  MaxRequests,  \* bound: requests and results under way, before a dequeue
  AUTHSERVER_NUM,
  DBThread, Code, IDs, PWs, ValidID, ValidPW, None, Accounts, Input, DBMayFail,
  RedisThread, Packet, nullptr, Fault

Sender == {"mProcessThread", "mDBThread"}
CLIENT_NOT_CERTIFIED == 0
UShort == 65536   \* the values of an unsigned short

VARIABLES
  main,            \* the last thing the main thread has begun
  mIOCPHandle,     \* "none", "open" or "closed"
  mIsWorkerRun, mIsAccepterRun,
  mClientInfos,    \* "none", "made" or "deleted"
  mUserCode,       \* per session
  client,          \* per session: the connection it waits for or has
  worker, serves,  \* per worker: where it is, and whose completion it has
  accepter, sender,
  ID, Password, LASTAUTHSERVER, phase, ReqQueue, ResQueue, pc, req, ret, cursor,
  redisPhase, InQueue, OutQueue, redisPC, pkt, broken, heap, popped, stored, denied

sessionVars == <<mClientInfos, mUserCode, client>>
threadVars  == <<worker, serves, accepter, sender>>
flagVars    == <<mIOCPHandle, mIsWorkerRun, mIsAccepterRun>>
dbVars      == <<ID, Password, LASTAUTHSERVER, phase, ReqQueue, ResQueue, pc, req, ret, cursor>>
redisVars   == <<redisPhase, InQueue, OutQueue, redisPC, pkt, broken, heap, popped, stored, denied>>
serverVars  == <<main, flagVars, sessionVars, threadVars>>
vars        == <<serverVars, dbVars, redisVars>>

\* The requests that its workers push: those of OnReceive, for their session,
\* and the LOGOUT of OnClose.
Requests ==
  {[r EXCEPT !.clientIndex = s] : r \in Input, s \in Session}
    \cup {[req |-> "LOGOUT", clientIndex |-> CLIENT_NOT_CERTIFIED, ID |-> None, PW |-> None]}

mDB == INSTANCE Database WITH
         Server <- {AUTHSERVER_NUM}, Thread <- DBThread, Input <- Requests,
         MaxPending <- 2 * MaxRequests

mRedis == INSTANCE RedisManager WITH
            Caller <- IOCPWorker, Thread <- RedisThread,
            phase <- redisPhase, pc <- redisPC

ASSUME AuthAssumption ==
  /\ Session \subseteq 0 .. UShort - 1 /\ 0 \in Session
  /\ MaxRequests \in Nat
  /\ AUTHSERVER_NUM \in Nat \ {0}

ASSUME PartsAssumption == mDB!DatabaseAssumption /\ mRedis!RedisAssumption

\* AuthServer::mIsRun, which no line but its initialiser and End assigns to.
mIsRun == FALSE

Init ==
  /\ main = "start"
  /\ mIOCPHandle = "none"
  /\ mIsWorkerRun = FALSE
  /\ mIsAccepterRun = FALSE
  /\ mClientInfos = "none"
  /\ mUserCode = [s \in Session |-> CLIENT_NOT_CERTIFIED]
  /\ client = [s \in Session |-> "none"]
  /\ worker = [w \in IOCPWorker |-> "off"]
  /\ serves = [w \in IOCPWorker |-> 0]
  /\ accepter = "off"
  /\ sender = [x \in Sender |-> "off"]
  /\ mDB!Init
  /\ mRedis!Init

-----------------------------------------------------------------------------
(* Init and Run.                                                           *)

\* InitSocket fails without a port to wait on; Init does not look at that.
InitSocket ==
  /\ main = "start"
  /\ main' = "InitSocket"
  /\ mIOCPHandle' \in {"open", "none"}
  /\ UNCHANGED <<mIsWorkerRun, mIsAccepterRun, sessionVars, threadVars, dbVars, redisVars>>

RedisInit ==
  /\ main = "InitSocket"
  /\ main' = "mRedis.Init"
  /\ mRedis!CreateThread
  /\ UNCHANGED <<flagVars, sessionVars, threadVars, dbVars>>

DBInitialize ==
  /\ main = "mRedis.Init"
  /\ main' = "mDB.Initialize"
  /\ mDB!Initialize(AUTHSERVER_NUM)
  /\ UNCHANGED <<flagVars, sessionVars, threadVars, redisVars>>

\* Run creates the sender threads; StartServer the sessions, then the workers
\* and the accepter with their flags set.
Run ==
  /\ main = "mDB.Initialize"
  /\ main' = "_getch"
  /\ sender' = [x \in Sender |-> "while"]
  /\ mClientInfos' = "made"
  /\ mIsWorkerRun' = TRUE
  /\ mIsAccepterRun' = TRUE
  /\ worker' = [w \in IOCPWorker |-> "while"]
  /\ accepter' = "while"
  /\ UNCHANGED <<mIOCPHandle, mUserCode, client, serves, dbVars, redisVars>>

-----------------------------------------------------------------------------
(* End.                                                                    *)

\* A key has been pressed.
RedisEnd ==
  /\ main = "_getch"
  /\ main' = "mRedis.End"
  /\ mRedis!DestroyThread
  /\ UNCHANGED <<flagVars, sessionVars, threadVars, dbVars>>

DBEnd ==
  /\ main = "mRedis.End" /\ redisPhase = "ended"
  /\ main' = "mDB.End"
  /\ mDB!DestroyThreads(AUTHSERVER_NUM)
  /\ UNCHANGED <<flagVars, sessionVars, threadVars, redisVars>>

\* Fault: the completion port stays open.
DestroyThreadPortOpen ==
  /\ main = "mDB.End" /\ phase[AUTHSERVER_NUM] \in {"ended", "aborted"}
  /\ main' = "DestroyThread"
  /\ mIsWorkerRun' = FALSE
  /\ UNCHANGED <<mIOCPHandle, mIsAccepterRun, sessionVars, threadVars, dbVars, redisVars>>

\* IOCPServer::DestroyThread: the workers are told to stop, and woken.
DestroyThread ==
  /\ main = "mDB.End" /\ phase[AUTHSERVER_NUM] \in {"ended", "aborted"}
  /\ main' = "DestroyThread"
  /\ mIsWorkerRun' = FALSE
  /\ mIOCPHandle' = "closed"
  /\ UNCHANGED <<mIsAccepterRun, sessionVars, threadVars, dbVars, redisVars>>

\* Fault: the sessions are deleted first.
DeleteSessionsUnjoined ==
  /\ main = "DestroyThread"
  /\ main' = "delete clientInfo"
  /\ mClientInfos' = "deleted"
  /\ client' = [s \in Session |-> "none"]
  /\ UNCHANGED <<flagVars, mUserCode, threadVars, dbVars, redisVars>>

\* The workers are joined, then the sessions deleted.
DeleteSessions ==
  /\ main = "DestroyThread" /\ \A w \in IOCPWorker : worker[w] = "done"
  /\ main' = "delete clientInfo"
  /\ mClientInfos' = "deleted"
  /\ client' = [s \in Session |-> "none"]
  /\ UNCHANGED <<flagVars, mUserCode, threadVars, dbVars, redisVars>>

StopAccepter ==
  /\ main = "delete clientInfo"
  /\ main' = "join accepter"
  /\ mIsAccepterRun' = FALSE
  /\ UNCHANGED <<mIOCPHandle, mIsWorkerRun, sessionVars, threadVars, dbVars, redisVars>>

\* Fault: the accepter is not joined.
ReturnUnjoined ==
  /\ main = "join accepter"
  /\ main' = "return"
  /\ \A x \in Sender : sender[x] = "done"
  /\ UNCHANGED <<flagVars, sessionVars, threadVars, dbVars, redisVars>>

\* The joins of the accepter and of the sender threads.
Return ==
  /\ main = "join accepter" /\ accepter = "done"
  /\ \A x \in Sender : sender[x] = "done"
  /\ main' = "return"
  /\ UNCHANGED <<flagVars, sessionVars, threadVars, dbVars, redisVars>>

\* The steps of the main thread from the first one of End on, those inside
\* RedisManager::End and DataBase::End included.
EndStep ==
  \/ DBEnd \/ DestroyThread \/ DeleteSessions \/ StopAccepter \/ Return
  \/ (mRedis!Joined \/ mRedis!FlushQueue) /\ UNCHANGED <<serverVars, dbVars>>
  \/ mDB!EndInitAuth(AUTHSERVER_NUM) /\ UNCHANGED <<serverVars, redisVars>>

MainStep == InitSocket \/ RedisInit \/ DBInitialize \/ Run \/ RedisEnd \/ EndStep

-----------------------------------------------------------------------------
(* The accepter and the sender threads.                                    *)

AccepterWhile ==
  /\ accepter = "while"
  /\ accepter' = IF mIsAccepterRun THEN "walk" ELSE "done"
  /\ UNCHANGED <<main, flagVars, sessionVars, worker, serves, sender, dbVars, redisVars>>

\* One walk over mClientInfos, which posts accepts on free sessions.  A walk
\* over deleted ones ends the process, or goes unnoticed.
AccepterWalk ==
  /\ accepter = "walk"
  /\ \/ /\ mClientInfos = "made"
        /\ \E S \in SUBSET {s \in Session : client[s] = "none"} :
             client' = [s \in Session |-> IF s \in S THEN "awaited" ELSE client[s]]
        /\ accepter' = "while"
     \/ /\ mClientInfos = "deleted"
        /\ accepter' \in {"while", "crashed"}
        /\ UNCHANGED client
  /\ UNCHANGED <<main, flagVars, mClientInfos, mUserCode, worker, serves, sender, dbVars, redisVars>>

\* ProcessSendPacket and ProcessSendRes: what they would do per packet, and
\* do not, is Send in IOCPServer and ResultPacket in Packet.
SenderStep(x) ==
  /\ sender[x] = "while"
  /\ IF mIsRun
     THEN /\ x = "mDBThread" /\ mDB!PopRes(AUTHSERVER_NUM)
          /\ UNCHANGED sender
     ELSE /\ sender' = [sender EXCEPT ![x] = "done"]
          /\ UNCHANGED dbVars
  /\ UNCHANGED <<main, flagVars, sessionVars, worker, serves, accepter, redisVars>>

-----------------------------------------------------------------------------
(* WorkerThread, and the clients.                                          *)

Handler == {"accepted", "received", "closing"}

UnderWay ==
  Len(ReqQueue[AUTHSERVER_NUM]) + Len(ResQueue[AUTHSERVER_NUM])
  + Cardinality({t \in DBThread : pc[<<AUTHSERVER_NUM, t>>] \notin {"dead", "connect", "while", "pop"}})
  + Cardinality({w \in IOCPWorker : worker[w] \in Handler})

WorkerWhile(w) ==
  /\ worker[w] = "while"
  /\ worker' = [worker EXCEPT ![w] = IF mIsWorkerRun THEN "dequeue" ELSE "done"]
  /\ UNCHANGED <<main, flagVars, sessionVars, serves, accepter, sender, dbVars, redisVars>>

\* The completion of session s that is there to be dequeued.
Completion(s) ==
  CASE client[s] = "arrived" -> "accepted"
    [] client[s] = "sent" -> "received"
    [] client[s] = "left" -> "closing"

\* Without an open port the call fails at once.
GetQueuedCompletionStatus(w) ==
  /\ worker[w] = "dequeue"
  /\ \/ /\ mIOCPHandle # "open"
        /\ worker' = [worker EXCEPT ![w] = "while"]
        /\ UNCHANGED <<serves, client>>
     \/ /\ mIOCPHandle = "open"
        /\ UnderWay < MaxRequests
        /\ \E s \in Session :
             /\ client[s] \in {"arrived", "sent", "left"}
             /\ worker' = [worker EXCEPT ![w] = Completion(s)]
             /\ serves' = [serves EXCEPT ![w] = s]
             /\ client' = [client EXCEPT ![s] = "handled"]
  /\ UNCHANGED <<main, flagVars, mClientInfos, mUserCode, accepter, sender, dbVars, redisVars>>

\* The session a worker calls: an accept carries the index PostAccept wrote,
\* a receive the 0 of the constructor, whichever session it was posted for
\* (ClientSession.hpp:70, 107).
pClientInfo(w) == IF worker[w] = "accepted" THEN serves[w] ELSE 0

Handled(w) ==
  /\ worker' = [worker EXCEPT ![w] = "while"]
  /\ UNCHANGED <<main, flagVars, mClientInfos, serves, accepter, sender>>

\* Fault: -1 marks a session without an account.
SetUserCodeMinusOne(s) == mUserCode' = [mUserCode EXCEPT ![s] = -1]

SetUserCode(s) == mUserCode' = [mUserCode EXCEPT ![s] = CLIENT_NOT_CERTIFIED]

\* What closing a session completes: the operation posted for it, if any.
Aborted(state) ==
  CASE state = "awaited" -> "arrived"
    [] state = "connected" -> "left"
    [] state = "deaf" -> "none"
    [] state \notin {"awaited", "connected", "deaf"} -> state

\* CloseSocket, of the session found.  If that is not the one the completion
\* is of, the latter stays connected without a receive.  OnClose pushes a
\* LOGOUT for the usercode of the session, which it then forgets.
CloseSocket(w) ==
  LET s == pClientInfo(w) IN
  /\ client' = [client EXCEPT ![serves[w]] = "deaf",
                              ![s] = IF s = serves[w] THEN "none" ELSE Aborted(@)]
  /\ mDB!PushReq(AUTHSERVER_NUM,
       [req |-> "LOGOUT", clientIndex |-> mUserCode[s], ID |-> None, PW |-> None])
  /\ SetUserCode(s)
  /\ UNCHANGED redisVars

\* AcceptCompletion succeeds, or the session is closed.
Accepted(w) ==
  /\ worker[w] = "accepted"
  /\ Handled(w)
  /\ \/ /\ client' = [client EXCEPT ![serves[w]] = "connected"]
        /\ UNCHANGED <<mUserCode, dbVars, redisVars>>
     \/ CloseSocket(w)

\* OnReceive, of a sign-in or a sign-up.
SignReq(w) ==
  /\ \E r \in Input :
       mDB!PushReq(AUTHSERVER_NUM, [r EXCEPT !.clientIndex = pClientInfo(w)])
  /\ UNCHANGED redisVars

\* MakeSendPacket and RedisManager::PushReq, which deletes the packet when
\* Redis has been ended.
PushPacket(p) ==
  /\ IF mRedis!mIsRun
     THEN /\ InQueue' = Append(InQueue, p)
          /\ heap' = heap \cup {p}
          /\ stored' = stored \ {p}
          /\ denied' = denied \ {p}
     ELSE UNCHANGED <<InQueue, heap, stored, denied>>
  /\ UNCHANGED <<redisPhase, OutQueue, redisPC, pkt, broken, popped>>

\* OnReceive, of a token request: only a certified session gets a packet.
TokenReq(w) ==
  /\ IF mUserCode[pClientInfo(w)] # CLIENT_NOT_CERTIFIED
     THEN \E p \in Packet \ heap : PushPacket(p)
     ELSE UNCHANGED redisVars
  /\ UNCHANGED dbVars

\* BindRecv, of the session found, whose failure nobody looks at.  A receive
\* that session has already is not told apart from the new one.
BindRecv(w) ==
  \E state \in IF serves[w] = 0 \/ client[0] = "deaf" THEN {"connected", "deaf"}
                                                    ELSE {client[0]} :
    client' = [client EXCEPT ![serves[w]] = "deaf", ![0] = state]

Received(w) ==
  /\ worker[w] = "received"
  /\ SignReq(w) \/ TokenReq(w)
  /\ BindRecv(w)
  /\ Handled(w)
  /\ UNCHANGED mUserCode

Closing(w) == worker[w] = "closing" /\ CloseSocket(w) /\ Handled(w)

WorkerStep(w) ==
  WorkerWhile(w) \/ GetQueuedCompletionStatus(w) \/ Accepted(w) \/ Received(w) \/ Closing(w)

\* A client connects, sends or leaves; each completes what was posted for it.
ClientStep ==
  /\ mIOCPHandle = "open"
  /\ \E s \in Session :
       \/ client[s] = "awaited" /\ client' = [client EXCEPT ![s] = "arrived"]
       \/ client[s] = "connected" /\ \E c \in {"sent", "left"} : client' = [client EXCEPT ![s] = c]
  /\ UNCHANGED <<main, flagVars, mClientInfos, mUserCode, threadVars, dbVars, redisVars>>

-----------------------------------------------------------------------------

DBThreadStep(t) == mDB!ThreadStep(<<AUTHSERVER_NUM, t>>) /\ UNCHANGED <<serverVars, redisVars>>
RedisThreadStep(t) == mRedis!ThreadStep(t) /\ UNCHANGED <<serverVars, dbVars>>

Next ==
  \/ MainStep
  \/ AccepterWhile \/ AccepterWalk
  \/ \E x \in Sender : SenderStep(x)
  \/ \E w \in IOCPWorker : WorkerStep(w)
  \/ ClientStep
  \/ \E t \in DBThread : DBThreadStep(t)
  \/ \E t \in RedisThread : RedisThreadStep(t)

Spec == Init /\ [][Next]_vars

\* The OS runs every thread.  Nothing makes a client do anything, or main's
\* user press the key.
Fairness ==
  /\ WF_vars(EndStep)
  /\ WF_vars(AccepterWhile \/ AccepterWalk)
  /\ \A x \in Sender : WF_vars(SenderStep(x))
  /\ \A w \in IOCPWorker : WF_vars(WorkerStep(w))
  /\ \A t \in DBThread : WF_vars(DBThreadStep(t))
  /\ \A t \in RedisThread : WF_vars(RedisThreadStep(t))

FairSpec == Spec /\ Fairness

-----------------------------------------------------------------------------
(* Properties.                                                             *)

AllAt(f, over, at) == \A t \in over : f[t] = at

\* Every variable of this module has its type, and its parts have theirs.
TypeOK ==
  /\ mIOCPHandle \in {"none", "open", "closed"}
  /\ mClientInfos \in {"none", "made", "deleted"}
  /\ mUserCode \in [Session -> Code \cup {0}]
  /\ client \in [Session -> {"none", "awaited", "arrived", "connected", "sent", "left", "handled", "deaf"}]
  /\ worker \in [IOCPWorker -> {"off", "while", "dequeue", "done"} \cup Handler]
  /\ serves \in [IOCPWorker -> Session]
  /\ accepter \in {"off", "while", "walk", "done", "crashed"}
  /\ sender \in [Sender -> {"off", "while", "done"}]
  /\ mDB!TypeOK
  /\ mRedis!TypeOK

\* No thread of the process is left when End has returned: each of the six
\* kinds is told to stop, or stops by itself, and is joined.
NothingRunsAfterEnd ==
  main = "return" =>
    /\ AllAt(worker, IOCPWorker, "done")
    /\ accepter = "done"
    /\ AllAt(sender, Sender, "done")
    /\ AllAt(pc, {AUTHSERVER_NUM} \X DBThread, "dead")
    /\ AllAt(redisPC, RedisThread, "done")

\* The sessions are deleted after all that works with them has ended: no worker
\* is in a handler, no request is served any more, and unless the DBMS failed
\* no account is recorded for this server, whatever the workers pushed after
\* DataBase::End.  Only the accepter may still walk them (IOCP.hpp:117), so a
\* crash there loses nothing.
SessionsGoLast ==
  mClientInfos = "deleted" =>
    /\ AllAt(worker, IOCPWorker, "done")
    /\ AllAt(pc, {AUTHSERVER_NUM} \X DBThread, "dead")
    /\ phase[AUTHSERVER_NUM] = "ended" =>
         \A c \in Code : LASTAUTHSERVER[c] # AUTHSERVER_NUM

\* End returns: every join of it comes to its end, whatever the clients do and
\* whichever worker waits for a completion at that time, unless the accepter
\* has walked over the deleted sessions and ended the process.
EndReturns == main = "mRedis.End" ~> (main = "return" \/ accepter = "crashed")

\* The results are taken from the queue and sent (main.cpp:31): while the
\* server runs, ResQueue does not stay filled for ever.
AnswersAreSent ==
  ResQueue[AUTHSERVER_NUM] # <<>> ~> (ResQueue[AUTHSERVER_NUM] = <<>> \/ main # "_getch")

\* When the connection of a session ends its account's LASTAUTHSERVER is to be
\* reset (main.cpp:38): a server without clients and without requests to serve
\* keeps no account.
QuietServerHoldsNothing ==
  /\ main = "_getch"
  /\ \A s \in Session : client[s] \in {"none", "awaited"}
  /\ ReqQueue[AUTHSERVER_NUM] = <<>>
  /\ \A t \in DBThread : pc[<<AUTHSERVER_NUM, t>>] \in {"while", "pop"}
  => \A c \in Code : LASTAUTHSERVER[c] # AUTHSERVER_NUM
=============================================================================
