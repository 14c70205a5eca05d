-------------------------- MODULE AuthServerProofs --------------------------
(***************************************************************************)
(* For any number of sessions, workers and threads, whatever clients do    *)
(* and whatever fails: End leaves no thread behind, the sessions go after  *)
(* all that works with them, and the answers of DataBase are true.         *)
(***************************************************************************)
EXTENDS AuthServer, TLAPS

A == AUTHSERVER_NUM
DBWorker == {A} \X DBThread

\* The phases of main from the step on that relies on a join.
FromDBEnd    == {"mDB.End", "DestroyThread", "delete clientInfo", "join accepter", "return"}
FromDestroy  == FromDBEnd \ {"mDB.End"}
FromSessions == FromDestroy \ {"DestroyThread"}

\* The variables that joins read are functions of the threads.
Counters ==
  /\ worker \in [IOCPWorker -> {"off", "while", "dequeue", "done"} \cup Handler]
  /\ sender \in [Sender -> {"off", "while", "done"}]
  /\ phase \in [{A} -> mDB!Phase]

\* What RedisManager's and DataBase's joins leave behind them.
RedisJoined == redisPhase \in {"flushing", "ended"} => AllAt(redisPC, RedisThread, "done")
DBJoined    == phase[A] \in {"ended", "aborted"} => AllAt(pc, DBWorker, "dead")
Released    == phase[A] = "ended" => \A c \in Code : LASTAUTHSERVER[c] # A

\* What main has waited for at each point of End.
Waited ==
  /\ main \in FromDBEnd => redisPhase = "ended"
  /\ main \in FromDestroy => phase[A] \in {"ended", "aborted"}
  /\ main \in FromSessions => AllAt(worker, IOCPWorker, "done")
  /\ main = "return" => accepter = "done" /\ AllAt(sender, Sender, "done")
  /\ mClientInfos = "deleted" => main \in FromSessions

EndInv == Counters /\ RedisJoined /\ DBJoined /\ Released /\ Waited

-----------------------------------------------------------------------------

\* The process starts with nothing begun, so nothing has been waited for.
LEMMA InitEnd == Init => EndInv
BY DEF Init, EndInv, Counters, RedisJoined, DBJoined, Released, Waited, A, DBWorker,
       AllAt, FromDBEnd, FromDestroy, FromSessions,
       mDB!Init, mDB!Worker, mDB!Phase, mDB!PC, mRedis!Init, mRedis!Actor, mRedis!PC

\* No server has the number that stands for "signed in nowhere".
LEMMA ServerNumber == A # 0
BY AuthAssumption, SMT DEF A

\* A DB thread of this server is a pair of the server and a thread.
LEMMA DBWorkers == \A d \in DBWorker : \E t \in DBThread : d = <<A, t>>
<1>1. \A d \in DBWorker : d[1] = A /\ d[2] \in DBThread /\ d = <<d[1], d[2]>>
  BY DEF DBWorker
<1> QED
  BY <1>1

\* A step of DataBase by one of its threads: it needs a living one, so nothing
\* changes any more once End has joined them.
LEMMA DBThreadSteps ==
  ASSUME EndInv, NEW t \in DBThread, DBThreadStep(t)
  PROVE  EndInv'
<1> DEFINE w == <<A, t>>
<1>1. w \in DBWorker /\ w[1] = A
  BY DEF DBWorker
<1>2. pc[w] # "dead" /\ phase' = phase /\ UNCHANGED <<serverVars, redisVars>>
  BY DEF DBThreadStep, mDB!ThreadStep, mDB!Connect, mDB!WhileRunning, mDB!PopReq,
         mDB!SignIn, mDB!SignInUpdate, mDB!SignInSelect, mDB!SignUp, mDB!SignUpInsert,
         mDB!PushRes, mDB!LogOut, A
<1>3. phase[A] \notin {"ended", "aborted"}
  BY <1>1, <1>2 DEF EndInv, DBJoined, AllAt
<1> QED
  BY <1>2, <1>3
  DEF EndInv, Counters, RedisJoined, DBJoined, Released, Waited, serverVars, redisVars,
      flagVars, sessionVars, threadVars, AllAt

\* Likewise for RedisManager.
LEMMA RedisThreadSteps ==
  ASSUME EndInv, NEW t \in RedisThread, RedisThreadStep(t)
  PROVE  EndInv'
<1>1. redisPC[t] # "done" /\ redisPhase' = redisPhase /\ UNCHANGED <<serverVars, dbVars>>
  BY DEF RedisThreadStep, mRedis!ThreadStep, mRedis!Connect, mRedis!WhileRunning,
         mRedis!DequeReq, mRedis!SetEx, mRedis!PushResult, mRedis!PushReqTest, mRedis!PushReq
<1>2. redisPhase \notin {"flushing", "ended"}
  BY <1>1 DEF EndInv, RedisJoined, AllAt
<1> QED
  BY <1>1, <1>2
  DEF EndInv, Counters, RedisJoined, DBJoined, Released, Waited, serverVars, dbVars,
      flagVars, sessionVars, threadVars, AllAt

-----------------------------------------------------------------------------

\* The steps of the main thread: each join stands before the point that needs it.
LEMMA MainSteps ==
  ASSUME EndInv, MainStep
  PROVE  EndInv'
<1> USE DEF EndInv, Waited, FromDBEnd, FromDestroy, FromSessions, AllAt
<1>1. CASE InitSocket
  BY <1>1 DEF InitSocket, Counters, RedisJoined, DBJoined, Released, sessionVars,
              threadVars, dbVars, redisVars
<1>2. CASE RedisInit
  <2>1. redisPhase' = "running"
    BY <1>2 DEF RedisInit, mRedis!CreateThread
  <2> QED
    BY <1>2, <2>1 DEF RedisInit, Counters, RedisJoined, DBJoined, Released,
                      flagVars, sessionVars, threadVars, dbVars
<1>3. CASE DBInitialize
  <2>1. phase' = [phase EXCEPT ![A] = "running"]
    BY <1>3 DEF DBInitialize, mDB!Initialize, mDB!CreateThreads, A
  <2>2. phase'[A] = "running" /\ phase' \in [{A} -> mDB!Phase]
    BY <2>1 DEF Counters, mDB!Phase
  <2> QED
    BY <1>3, <2>1, <2>2 DEF DBInitialize, Counters, RedisJoined, DBJoined, Released,
                            flagVars, sessionVars, threadVars, redisVars
<1>4. CASE Run
  BY <1>4 DEF Run, Counters, RedisJoined, DBJoined, Released, dbVars, redisVars
<1>5. CASE RedisEnd
  <2>1. redisPC' = redisPC /\ redisPhase' = "joining"
    BY <1>5 DEF RedisEnd, mRedis!DestroyThread
  <2> QED
    BY <1>5, <2>1 DEF RedisEnd, Counters, RedisJoined, DBJoined, Released,
                      flagVars, sessionVars, threadVars, dbVars
<1>6. CASE DBEnd
  <2>1. phase[A] = "running" /\ phase' = [phase EXCEPT ![A] = "stopping"]
        /\ UNCHANGED <<pc, LASTAUTHSERVER>>
    BY <1>6 DEF DBEnd, mDB!DestroyThreads, mDB!table, mDB!local, A
  <2>2. phase'[A] = "stopping" /\ phase' \in [{A} -> mDB!Phase]
    BY <2>1 DEF Counters, mDB!Phase
  <2> QED
    BY <1>6, <2>1, <2>2 DEF DBEnd, Counters, RedisJoined, DBJoined, Released,
                            flagVars, sessionVars, threadVars, redisVars
<1>7. CASE DestroyThread
  BY <1>7 DEF DestroyThread, Counters, RedisJoined, DBJoined, Released, sessionVars,
              threadVars, dbVars, redisVars, A
<1>8. CASE DeleteSessions
  BY <1>8 DEF DeleteSessions, Counters, RedisJoined, DBJoined, Released, threadVars,
              dbVars, redisVars
<1>9. CASE StopAccepter
  BY <1>9 DEF StopAccepter, Counters, RedisJoined, DBJoined, Released, sessionVars,
              threadVars, dbVars, redisVars
<1>10. CASE Return
  BY <1>10 DEF Return, Counters, RedisJoined, DBJoined, Released, flagVars, sessionVars,
               threadVars, dbVars, redisVars
<1>11. CASE (mRedis!Joined \/ mRedis!FlushQueue) /\ UNCHANGED <<serverVars, dbVars>>
  <2>1. /\ redisPC' = redisPC
        /\ redisPhase # "ended" /\ redisPhase' \in {"flushing", "ended"}
        /\ redisPhase = "joining" => AllAt(redisPC, RedisThread, "done")
        /\ redisPhase \in {"joining", "flushing"}
    BY <1>11 DEF mRedis!Joined, mRedis!FlushQueue
  <2> QED
    BY <1>11, <2>1 DEF Counters, RedisJoined, DBJoined, Released, serverVars, flagVars,
                       sessionVars, threadVars, dbVars
<1>12. CASE mDB!EndInitAuth(A) /\ UNCHANGED <<serverVars, redisVars>>
  <2>1. /\ phase[A] = "stopping" /\ pc' = pc
        /\ \A t \in DBThread : pc[<<A, t>>] = "dead"
        /\ \/ /\ phase' = [phase EXCEPT ![A] = "ended"]
              /\ mDB!ReleaseAll(A)
           \/ phase' = [phase EXCEPT ![A] = "aborted"]
    BY <1>12 DEF mDB!EndInitAuth, mDB!local
  <2>2. phase'[A] \in {"ended", "aborted"} /\ phase' \in [{A} -> mDB!Phase]
    BY <2>1 DEF Counters, mDB!Phase
  <2>3. Released'
    <3>1. CASE mDB!ReleaseAll(A)
      <4>1. A # 0
        BY ServerNumber
      <4>2. ASSUME NEW c \in Code
            PROVE  LASTAUTHSERVER'[c] = 0 \/ LASTAUTHSERVER'[c] # A
        BY <3>1 DEF mDB!ReleaseAll
      <4> QED
        BY <4>1, <4>2 DEF Released
    <3>2. CASE phase' = [phase EXCEPT ![A] = "aborted"]
      BY <3>2 DEF Counters, Released
    <3> QED
      BY <2>1, <3>1, <3>2
  <2>4. \A d \in DBWorker : pc[d] = "dead"
    BY <2>1, DBWorkers
  <2> QED
    BY <1>12, <2>1, <2>2, <2>3, <2>4
    DEF Counters, RedisJoined, DBJoined, serverVars, flagVars, sessionVars, threadVars,
        redisVars
<1> QED
  BY <1>1, <1>2, <1>3, <1>4, <1>5, <1>6, <1>7, <1>8, <1>9, <1>10, <1>11, <1>12
  DEF MainStep, EndStep, A

\* The accepter and the sender threads leave their loops once.
LEMMA LoopSteps ==
  ASSUME EndInv, AccepterWhile \/ AccepterWalk \/ \E x \in Sender : SenderStep(x)
  PROVE  EndInv'
<1> USE DEF EndInv, Waited, FromDBEnd, FromDestroy, FromSessions, AllAt
<1>1. CASE AccepterWhile
  BY <1>1 DEF AccepterWhile, Counters, RedisJoined, DBJoined, Released, flagVars,
              sessionVars, dbVars, redisVars
<1>2. CASE AccepterWalk
  BY <1>2 DEF AccepterWalk, Counters, RedisJoined, DBJoined, Released, flagVars, dbVars,
              redisVars
<1>3. ASSUME NEW x \in Sender, SenderStep(x)
      PROVE  EndInv'
  <2>1. UNCHANGED dbVars /\ sender' = [sender EXCEPT ![x] = "done"]
    BY <1>3 DEF SenderStep, mIsRun
  <2> QED
    BY <1>3, <2>1 DEF SenderStep, Counters, RedisJoined, DBJoined, Released, flagVars,
                      sessionVars, dbVars, redisVars
<1> QED
  BY <1>1, <1>2, <1>3

-----------------------------------------------------------------------------

\* What a worker's handler pushes reaches no thread: a request that comes after
\* DataBase::End stays in its queue, and RedisManager's threads do not move.
LEMMA WorkerPushes ==
  ASSUME NEW w, CloseSocket(w) \/ Received(w)
  PROVE  UNCHANGED <<LASTAUTHSERVER, phase, pc, redisPhase, redisPC>>
<1>1. ASSUME NEW r, mDB!PushReq(AUTHSERVER_NUM, r)
      PROVE  UNCHANGED <<LASTAUTHSERVER, phase, pc>>
  BY <1>1 DEF mDB!PushReq, mDB!table, mDB!local
<1>2. CASE CloseSocket(w)
  BY <1>1, <1>2 DEF CloseSocket, redisVars
<1>3. CASE Received(w)
  <2>1. CASE SignReq(w)
    BY <1>1, <2>1 DEF SignReq, redisVars
  <2>2. CASE TokenReq(w)
    BY <2>2 DEF TokenReq, PushPacket, dbVars, redisVars
  <2> QED
    BY <1>3, <2>1, <2>2 DEF Received
<1> QED
  BY <1>2, <1>3

\* A worker that takes a step is not joined, so main has not come to the sessions.
LEMMA WorkerSteps ==
  ASSUME EndInv, NEW w \in IOCPWorker, WorkerStep(w)
  PROVE  EndInv'
<1>1. worker[w] # "done"
  BY DEF WorkerStep, WorkerWhile, GetQueuedCompletionStatus, Accepted, Received, Closing
<1>2. main \notin FromSessions
  BY <1>1 DEF EndInv, Waited, AllAt
<1>3. UNCHANGED <<LASTAUTHSERVER, phase, pc, redisPhase, redisPC>>
  <2>1. CASE WorkerWhile(w) \/ GetQueuedCompletionStatus(w)
    BY <2>1 DEF WorkerWhile, GetQueuedCompletionStatus, dbVars, redisVars
  <2>2. CASE Accepted(w) \/ Received(w) \/ Closing(w)
    BY <2>2, WorkerPushes DEF Accepted, Closing, dbVars, redisVars
  <2> QED
    BY <2>1, <2>2 DEF WorkerStep
<1>4. UNCHANGED <<main, mClientInfos, accepter, sender>>
  BY DEF WorkerStep, WorkerWhile, GetQueuedCompletionStatus, Accepted, Received, Closing,
         Handled, flagVars, sessionVars
<1>5. \E label \in {"off", "while", "dequeue", "done"} \cup Handler :
        worker' = [worker EXCEPT ![w] = label]
  <2>1. CASE WorkerWhile(w)
    BY <2>1 DEF WorkerWhile
  <2>2. CASE GetQueuedCompletionStatus(w)
    BY <2>2 DEF GetQueuedCompletionStatus, Completion, Handler
  <2>3. CASE Accepted(w) \/ Received(w) \/ Closing(w)
    BY <2>3 DEF Accepted, Received, Closing, Handled
  <2> QED
    BY <2>1, <2>2, <2>3 DEF WorkerStep
<1>6. worker' \in [IOCPWorker -> {"off", "while", "dequeue", "done"} \cup Handler]
  BY <1>5 DEF EndInv, Counters
<1> QED
  BY <1>2, <1>3, <1>4, <1>6
  DEF EndInv, Counters, RedisJoined, DBJoined, Released, Waited, FromDBEnd, FromDestroy,
      FromSessions, AllAt

\* Together: every step of the process keeps what the joins establish.
LEMMA StepEnd == EndInv /\ [Next]_vars => EndInv'
<1> SUFFICES ASSUME EndInv, [Next]_vars
             PROVE  EndInv'
  OBVIOUS
<1>1. CASE ClientStep
  BY <1>1 DEF ClientStep, EndInv, Counters, RedisJoined, DBJoined, Released, Waited,
              AllAt, flagVars, threadVars, dbVars, redisVars
<1>2. CASE UNCHANGED vars
  BY <1>2 DEF vars, serverVars, EndInv, Counters, RedisJoined, DBJoined, Released, Waited,
              AllAt, flagVars, sessionVars, threadVars, dbVars, redisVars
<1> QED
  BY <1>1, <1>2, MainSteps, LoopSteps, WorkerSteps, DBThreadSteps, RedisThreadSteps DEF Next

\* The invariant of start and end.
LEMMA EndInvariant == Spec => []EndInv
BY InitEnd, StepEnd, PTL DEF Spec

\* End leaves no thread behind (AuthServer.hpp, End; IOCP.hpp, DestroyThread):
\* every join stands before the return, for any number of threads of each kind.
THEOREM NoThreadLeft == Spec => []NothingRunsAfterEnd
<1>1. EndInv => NothingRunsAfterEnd
  BY DEF EndInv, Waited, RedisJoined, DBJoined, NothingRunsAfterEnd, FromDBEnd,
         FromDestroy, FromSessions, A, DBWorker
<1> QED
  BY <1>1, EndInvariant, PTL

\* The sessions are deleted (IOCP.hpp, DestroyThread) after every worker and DB
\* thread has ended and the accounts of this server have been released.
THEOREM SessionsLast == Spec => []SessionsGoLast
<1>1. EndInv => SessionsGoLast
  BY DEF EndInv, Waited, DBJoined, Released, SessionsGoLast, FromDBEnd, FromDestroy,
         FromSessions, A, DBWorker
<1> QED
  BY <1>1, EndInvariant, PTL
-----------------------------------------------------------------------------
(* The parts.  What is proved of Database and of RedisManager is had here  *)
(* by instantiating the modules that hold the proofs.                      *)

DB == INSTANCE DatabaseProofs WITH
        Server <- {AUTHSERVER_NUM}, Thread <- DBThread, Input <- Requests,
        MaxPending <- 2 * MaxRequests

Redis == INSTANCE RedisManagerProofs WITH
           Caller <- IOCPWorker, Thread <- RedisThread,
           phase <- redisPhase, pc <- redisPC

\* The two instances of each part say the same: first what they assume.
LEMMA SameDatabaseAssumption == mDB!DatabaseAssumption <=> DB!DatabaseAssumption
BY Zenon DEF
    mDB!DatabaseAssumption, DB!DatabaseAssumption, mDB!DBRequest, DB!DBRequest,
    mDB!eDBReqCode, DB!eDBReqCode, mDB!IsFiniteSet, DB!IsFiniteSet

\* Their initial states.
LEMMA SameDatabaseInit == mDB!Init <=> DB!Init
BY Zenon DEF
    mDB!Init, DB!Init, mDB!Worker, DB!Worker, mDB!NoRequest, DB!NoRequest,
    mDB!NoResult, DB!NoResult

\* Their steps.
LEMMA SameDatabaseNext == [mDB!Next]_(mDB!vars) <=> [DB!Next]_(DB!vars)
<1>1. mDB!vars = DB!vars /\ mDB!vars' = DB!vars'
  BY Zenon DEF
    mDB!vars, DB!vars, mDB!table, DB!table, mDB!queues, DB!queues, mDB!local,
    DB!local
<1>2. mDB!Next <=> DB!Next
  BY Zenon DEF
    mDB!Next, DB!Next, mDB!Initialize, DB!Initialize, mDB!InitAuth, DB!InitAuth,
    mDB!ReleaseAll, DB!ReleaseAll, mDB!CreateThreads, DB!CreateThreads, mDB!Worker,
    DB!Worker, mDB!queues, DB!queues, mDB!DestroyThreads, DB!DestroyThreads,
    mDB!table, DB!table, mDB!local, DB!local, mDB!EndInitAuth, DB!EndInitAuth,
    mDB!Exit, DB!Exit, mDB!NoRequest, DB!NoRequest, mDB!NoResult, DB!NoResult,
    mDB!PopRes, DB!PopRes, mDB!PushReq, DB!PushReq, mDB!Pending, DB!Pending,
    mDB!ThreadStep, DB!ThreadStep, mDB!Connect, DB!Connect, mDB!Goto, DB!Goto,
    mDB!WhileRunning, DB!WhileRunning, mDB!mIsRun, DB!mIsRun, mDB!PopReq, DB!PopReq,
    mDB!Dispatch, DB!Dispatch, mDB!SignIn, DB!SignIn, mDB!Valid, DB!Valid,
    mDB!CheckIDIsValid, DB!CheckIDIsValid, mDB!CheckPWIsValid, DB!CheckPWIsValid,
    mDB!Answer, DB!Answer, mDB!CloseCursor, DB!CloseCursor, mDB!FreeRowExists,
    DB!FreeRowExists, mDB!SignInUpdate, DB!SignInUpdate, mDB!SignInSelect,
    DB!SignInSelect, mDB!SignUp, DB!SignUp, mDB!MayLeaveOpen, DB!MayLeaveOpen,
    mDB!SignUpInsert, DB!SignUpInsert, mDB!NextIdentity, DB!NextIdentity,
    mDB!PushRes, DB!PushRes, mDB!Delete, DB!Delete, mDB!LogOut, DB!LogOut,
    mDB!Cardinality, DB!Cardinality
<1> QED
  BY <1>1, <1>2, Zenon

\* Their types.
LEMMA SameDatabaseTypes == mDB!TypeOK <=> DB!TypeOK
BY Zenon DEF
    mDB!TypeOK, DB!TypeOK, mDB!Phase, DB!Phase, mDB!DBRequest, DB!DBRequest,
    mDB!eDBReqCode, DB!eDBReqCode, mDB!DBResult, DB!DBResult, mDB!eReturnCode,
    DB!eReturnCode, mDB!Worker, DB!Worker, mDB!PC, DB!PC

\* The same four facts of RedisManager.
LEMMA SameRedisAssumption == mRedis!RedisAssumption <=> Redis!RedisAssumption
BY Zenon DEF
    mRedis!RedisAssumption, Redis!RedisAssumption

\* Initial states.
LEMMA SameRedisInit == mRedis!Init <=> Redis!Init
BY Zenon DEF
    mRedis!Init, Redis!Init, mRedis!Actor, Redis!Actor

\* Steps.
LEMMA SameRedisNext == [mRedis!Next]_(mRedis!vars) <=> [Redis!Next]_(Redis!vars)
<1>1. mRedis!vars = Redis!vars /\ mRedis!vars' = Redis!vars'
  BY Zenon DEF
    mRedis!vars, Redis!vars, mRedis!memory, Redis!memory, mRedis!replies,
    Redis!replies
<1>2. mRedis!Next <=> Redis!Next
  BY Zenon DEF
    mRedis!Next, Redis!Next, mRedis!CreateThread, Redis!CreateThread, mRedis!Actor,
    Redis!Actor, mRedis!memory, Redis!memory, mRedis!replies, Redis!replies,
    mRedis!Deny, Redis!Deny, mRedis!DestroyThread,
    Redis!DestroyThread, mRedis!Joined, Redis!Joined, mRedis!FlushQueue,
    Redis!FlushQueue, mRedis!CallerStep, Redis!CallerStep, mRedis!PushReqTest,
    Redis!PushReqTest, mRedis!mIsRun, Redis!mIsRun, mRedis!Return, Redis!Return,
    mRedis!PushReq, Redis!PushReq, mRedis!NewPacket, Redis!NewPacket,
    mRedis!ThreadStep, Redis!ThreadStep, mRedis!Connect, Redis!Connect, mRedis!Goto,
    Redis!Goto, mRedis!WhileRunning, Redis!WhileRunning, mRedis!DequeReq,
    Redis!DequeReq, mRedis!SetEx, Redis!SetEx, mRedis!Execute, Redis!Execute,
    mRedis!PushResult, Redis!PushResult, mRedis!GetRes, Redis!GetRes, mRedis!Sent,
    Redis!Sent, mRedis!ToSet, Redis!ToSet
<1> QED
  BY <1>1, <1>2, Zenon

\* Types.
LEMMA SameRedisTypes == mRedis!TypeOK <=> Redis!TypeOK
BY Zenon DEF
    mRedis!TypeOK, Redis!TypeOK, mRedis!Phase, Redis!Phase, mRedis!Actor,
    Redis!Actor, mRedis!PC, Redis!PC

-----------------------------------------------------------------------------

\* A worker serves a session there is, and no session has a usercode: what is
\* pushed is a request of OnReceive for a session, or a LOGOUT of nobody.
SessionInv ==
  /\ mUserCode = [s \in Session |-> CLIENT_NOT_CERTIFIED]
  /\ serves \in [IOCPWorker -> Session]

\* A worker pushes a request, if it touches DataBase at all.
LEMMA WorkerUsesParts ==
  ASSUME SessionInv, NEW w \in IOCPWorker, WorkerStep(w)
  PROVE  /\ \/ \E r \in Requests : mDB!PushReq(AUTHSERVER_NUM, r)
            \/ UNCHANGED dbVars
         /\ UNCHANGED redisVars
<1> DEFINE s == pClientInfo(w)
<1>1. s \in Session /\ mUserCode[s] = CLIENT_NOT_CERTIFIED
  <2>1. s \in Session
    BY AuthAssumption DEF SessionInv, pClientInfo
  <2> QED
    BY <2>1 DEF SessionInv
<1> HIDE DEF s
<1>2. CASE CloseSocket(w)
  <2>1. [req |-> "LOGOUT", clientIndex |-> mUserCode[s], ID |-> None, PW |-> None]
        \in Requests
    BY <1>1 DEF Requests
  <2> QED
    BY <1>2, <2>1 DEF CloseSocket, s
<1>3. CASE Received(w)
  <2>1. CASE SignReq(w)
    <3>1. PICK r \in Input : mDB!PushReq(AUTHSERVER_NUM, [r EXCEPT !.clientIndex = s])
      BY <2>1 DEF SignReq, s
    <3>2. [r EXCEPT !.clientIndex = s] \in Requests
      BY <1>1 DEF Requests
    <3> QED
      BY <2>1, <3>1, <3>2 DEF SignReq
  <2>2. CASE TokenReq(w)
    BY <2>2, <1>1 DEF TokenReq, s
  <2> QED
    BY <1>3, <2>1, <2>2 DEF Received
<1>4. CASE WorkerWhile(w) \/ GetQueuedCompletionStatus(w)
  BY <1>4 DEF WorkerWhile, GetQueuedCompletionStatus
<1>5. CASE Accepted(w) /\ ~CloseSocket(w)
  BY <1>5 DEF Accepted
<1> QED
  BY <1>2, <1>3, <1>4, <1>5 DEF WorkerStep, Closing

\* Only a worker touches a usercode, and only to reset it.
LEMMA StepKeepsSessions == SessionInv /\ [Next]_vars => SessionInv'
<1> SUFFICES ASSUME SessionInv, [Next]_vars
             PROVE  SessionInv'
  OBVIOUS
<1>1. CASE \E w \in IOCPWorker : WorkerStep(w)
  <2>1. PICK w \in IOCPWorker : WorkerStep(w)
    BY <1>1
  <2>2. \/ mUserCode' = mUserCode
        \/ mUserCode' = [mUserCode EXCEPT ![pClientInfo(w)] = CLIENT_NOT_CERTIFIED]
    BY <2>1 DEF WorkerStep, WorkerWhile, GetQueuedCompletionStatus, Accepted, Received,
                Closing, CloseSocket, SetUserCode, sessionVars
  <2>3. serves' = serves \/ \E s \in Session : serves' = [serves EXCEPT ![w] = s]
    BY <2>1 DEF WorkerStep, WorkerWhile, GetQueuedCompletionStatus, Accepted, Received,
                Closing, Handled
  <2> QED
    BY <2>2, <2>3 DEF SessionInv
<1>2. CASE ~\E w \in IOCPWorker : WorkerStep(w)
  <2>1. UNCHANGED <<mUserCode, serves>>
    BY <1>2 DEF Next, MainStep, InitSocket, RedisInit, DBInitialize, Run, RedisEnd, EndStep,
                DBEnd, DestroyThread, DeleteSessions, StopAccepter, Return, AccepterWhile,
                AccepterWalk, SenderStep, ClientStep, DBThreadStep, RedisThreadStep,
                sessionVars, threadVars, serverVars, vars
  <2> QED
    BY <2>1 DEF SessionInv
<1> QED
  BY <1>1, <1>2

\* The invariant of what workers push.
LEMMA SessionInvariant == Spec => []SessionInv
<1>1. Init => SessionInv
  BY AuthAssumption DEF Init, SessionInv
<1> QED
  BY <1>1, StepKeepsSessions, PTL DEF Spec

\* Every step of the process is a step of DataBase, or none of it.
LEMMA StepUsesDatabase == SessionInv /\ [Next]_vars => [mDB!Next]_(mDB!vars)
<1> SUFFICES ASSUME SessionInv, [Next]_vars
             PROVE  mDB!Next \/ UNCHANGED dbVars
  BY DEF dbVars, mDB!vars, mDB!table, mDB!queues, mDB!local
<1> DEFINE S == {AUTHSERVER_NUM}
<1>1. CASE MainStep
  <2>1. \/ mDB!Initialize(AUTHSERVER_NUM) \/ mDB!DestroyThreads(AUTHSERVER_NUM)
        \/ mDB!EndInitAuth(AUTHSERVER_NUM) \/ UNCHANGED dbVars
    BY <1>1 DEF MainStep, InitSocket, RedisInit, DBInitialize, Run, RedisEnd, EndStep,
                DBEnd, DestroyThread, DeleteSessions, StopAccepter, Return
  <2> QED
    BY <2>1 DEF mDB!Next
<1>2. CASE \E x \in Sender : SenderStep(x)
  BY <1>2 DEF SenderStep, mIsRun
<1>3. CASE \E w \in IOCPWorker : WorkerStep(w)
  BY <1>3, WorkerUsesParts DEF mDB!Next
<1>4. CASE \E t \in DBThread : DBThreadStep(t)
  BY <1>4 DEF DBThreadStep, mDB!Next, mDB!Worker
<1>5. CASE AccepterWhile \/ AccepterWalk \/ ClientStep \/ \E t \in RedisThread : RedisThreadStep(t)
  BY <1>5 DEF AccepterWhile, AccepterWalk, ClientStep, RedisThreadStep
<1>6. CASE UNCHANGED vars
  BY <1>6 DEF vars
<1> QED
  BY <1>1, <1>2, <1>3, <1>4, <1>5, <1>6 DEF Next

\* Every step of the process is a step of RedisManager, or none of it.
LEMMA StepUsesRedis == SessionInv /\ [Next]_vars => [mRedis!Next]_(mRedis!vars)
<1> SUFFICES ASSUME SessionInv, [Next]_vars
             PROVE  mRedis!Next \/ UNCHANGED redisVars
  BY DEF redisVars, mRedis!vars, mRedis!memory, mRedis!replies
<1>1. CASE MainStep
  <2>1. \/ mRedis!CreateThread \/ mRedis!DestroyThread \/ mRedis!Joined
        \/ mRedis!FlushQueue \/ UNCHANGED redisVars
    BY <1>1 DEF MainStep, InitSocket, RedisInit, DBInitialize, Run, RedisEnd, EndStep,
                DBEnd, DestroyThread, DeleteSessions, StopAccepter, Return
  <2> QED
    BY <2>1 DEF mRedis!Next
<1>2. CASE \E w \in IOCPWorker : WorkerStep(w)
  BY <1>2, WorkerUsesParts
<1>3. CASE \E t \in RedisThread : RedisThreadStep(t)
  BY <1>3 DEF RedisThreadStep, mRedis!Next
<1>4. CASE \/ \E x \in Sender : SenderStep(x)
           \/ AccepterWhile \/ AccepterWalk \/ ClientStep
           \/ \E t \in DBThread : DBThreadStep(t)
  BY <1>4 DEF SenderStep, AccepterWhile, AccepterWalk, ClientStep, DBThreadStep
<1>5. CASE UNCHANGED vars
  BY <1>5 DEF vars
<1> QED
  BY <1>1, <1>2, <1>3, <1>4, <1>5 DEF Next

\* The process starts, ends and calls DataBase and RedisManager only as their
\* modules allow, so that what is proved of either can be used here.
LEMMA PartsAreUsed == Spec => mDB!Spec /\ mRedis!Spec
<1>1. Init => mDB!Init /\ mRedis!Init
  BY DEF Init
<1> QED
  BY <1>1, SessionInvariant, StepUsesDatabase, StepUsesRedis, PTL
  DEF Spec, mDB!Spec, mRedis!Spec

\* So does what the instances that hold the proofs specify.
LEMMA ProvedPartsAreUsed == Spec => DB!Spec /\ Redis!Spec
BY PartsAreUsed, SameDatabaseInit, SameDatabaseNext, SameRedisInit, SameRedisNext, PTL
DEF mDB!Spec, mRedis!Spec, DB!Spec, Redis!Spec

\* The parts' assumptions hold of what the process gives them.
LEMMA PartsAssumed == DB!DatabaseAssumption /\ Redis!RedisAssumption
BY PartsAssumption, SameDatabaseAssumption, SameRedisAssumption, Zenon

-----------------------------------------------------------------------------

States == {"none", "awaited", "arrived", "connected", "sent", "left", "handled", "deaf"}

\* A worker leaves every session in a state there is.
LEMMA WorkerKeepsClients ==
  ASSUME client \in [Session -> States], NEW w \in IOCPWorker, serves[w] \in Session,
         WorkerStep(w)
  PROVE  client' \in [Session -> States]
<1>1. CASE WorkerWhile(w) \/ GetQueuedCompletionStatus(w)
  BY <1>1 DEF WorkerWhile, GetQueuedCompletionStatus, sessionVars, States
<1>2. CASE CloseSocket(w)
  <2>1. ASSUME NEW state \in States PROVE Aborted(state) \in States
    BY <2>1 DEF Aborted, States
  <2>2. ASSUME NEW s \in Session,
               client' = [client EXCEPT ![serves[w]] = "deaf",
                                        ![s] = IF s = serves[w] THEN "none" ELSE Aborted(@)]
        PROVE  client' \in [Session -> States]
    <3>1. Aborted(client[s]) \in States /\ Aborted("deaf") \in States
      BY <2>1 DEF States
    <3> QED
      BY <2>2, <3>1 DEF States
  <2>3. pClientInfo(w) \in Session
    BY AuthAssumption DEF pClientInfo
  <2> QED
    BY <1>2, <2>2, <2>3 DEF CloseSocket
<1>3. CASE Received(w)
  <2>1. PICK state \in States : client' = [client EXCEPT ![serves[w]] = "deaf", ![0] = state]
    BY <1>3, AuthAssumption DEF Received, BindRecv, States
  <2> QED
    BY <2>1 DEF States
<1>4. CASE client' = [client EXCEPT ![serves[w]] = "connected"]
  BY <1>4 DEF States
<1> QED
  BY <1>1, <1>2, <1>3, <1>4 DEF WorkerStep, Accepted, Closing

\* The variables that are of no part.
OwnTypes ==
  /\ mIOCPHandle \in {"none", "open", "closed"}
  /\ mClientInfos \in {"none", "made", "deleted"}
  /\ client \in [Session -> {"none", "awaited", "arrived", "connected", "sent", "left", "handled", "deaf"}]
  /\ accepter \in {"off", "while", "walk", "done", "crashed"}

\* Every step keeps the types of the process's own variables.
LEMMA StepKeepsOwnTypes == SessionInv /\ OwnTypes /\ [Next]_vars => OwnTypes'
<1> SUFFICES ASSUME SessionInv, OwnTypes, [Next]_vars
             PROVE  OwnTypes'
  OBVIOUS
<1> USE DEF OwnTypes
<1>1. CASE MainStep
  BY <1>1 DEF MainStep, InitSocket, RedisInit, DBInitialize, Run, RedisEnd, EndStep, DBEnd,
              DestroyThread, DeleteSessions, StopAccepter, Return, flagVars, sessionVars,
              threadVars, serverVars
<1>2. CASE AccepterWhile
  BY <1>2 DEF AccepterWhile, flagVars, sessionVars
<1>3. CASE AccepterWalk
  BY <1>3 DEF AccepterWalk, flagVars
<1>4. CASE \E x \in Sender : SenderStep(x)
  BY <1>4 DEF SenderStep, flagVars, sessionVars
<1>5. ASSUME NEW w \in IOCPWorker, WorkerStep(w)
      PROVE  OwnTypes'
  <2>1. UNCHANGED <<mIOCPHandle, mClientInfos, accepter>>
    BY <1>5 DEF WorkerStep, WorkerWhile, GetQueuedCompletionStatus, Accepted, Received,
                Closing, Handled, flagVars, sessionVars
  <2>2. client \in [Session -> States] /\ serves[w] \in Session
    BY <1>5 DEF States, SessionInv
  <2>3. client' \in [Session -> States]
    BY <1>5, <2>2, WorkerKeepsClients
  <2> QED
    BY <2>1, <2>3 DEF States
<1>6. CASE ClientStep
  BY <1>6 DEF ClientStep, flagVars, threadVars
<1>7. CASE \/ \E t \in DBThread : DBThreadStep(t)
           \/ \E t \in RedisThread : RedisThreadStep(t)
           \/ UNCHANGED vars
  BY <1>7 DEF DBThreadStep, RedisThreadStep, vars, serverVars, flagVars, sessionVars, threadVars
<1> QED
  BY <1>1, <1>2, <1>3, <1>4, <1>5, <1>6, <1>7 DEF Next

\* Every variable of the process has its type, those of its parts included, for
\* any number of sessions, workers and threads.
THEOREM TypeCorrect == Spec => []TypeOK
<1>1. Init => OwnTypes
  BY DEF Init, OwnTypes
<1>2. Spec => [](DB!TypeOK /\ Redis!TypeOK)
  BY ProvedPartsAreUsed, PartsAssumed, DB!TypeCorrect, Redis!TypeCorrect, PTL
<1>3. SessionInv => mUserCode \in [Session -> Code \cup {0}]
  BY DEF SessionInv, CLIENT_NOT_CERTIFIED
<1>4. SessionInv /\ OwnTypes /\ EndInv /\ DB!TypeOK /\ Redis!TypeOK => TypeOK
  BY <1>3, SameDatabaseTypes, SameRedisTypes, Zenon
  DEF OwnTypes, SessionInv, EndInv, Counters, TypeOK
<1> QED
  BY <1>1, <1>2, <1>4, SessionInvariant, StepKeepsOwnTypes, EndInvariant, PTL DEF Spec

\* What the process answers is what Database promises: a sign-up's answer is
\* true of the table and a sign-in's usercode that of a row of the name sent,
\* at every point of the start and of the end of the process.
THEOREM AnswersAreTrue == Spec => [](DB!SignUpAnswerIsTrue /\ DB!SignInAnswerIsTrue)
BY ProvedPartsAreUsed, PartsAssumed, DB!SignUpAnswersAreTrue, DB!SignInAnswersAreTrue, PTL
=============================================================================
