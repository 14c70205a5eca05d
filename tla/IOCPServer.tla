----------------------------- MODULE IOCPServer -----------------------------
(***************************************************************************)
(* The threads of IOCP.hpp on the sessions of ClientInfo: the accepter,    *)
(* which posts an accept for every session that is free, and the workers,  *)
(* which dequeue completions and call the session they find in them.  No   *)
(* lock but mSendLock protects a session, so a handler is several steps.   *)
(***************************************************************************)
EXTENDS ClientInfo

CONSTANTS
  Worker,   \* worker threads (MAX_WORKERTHREAD of them)
  NoJob,
  MaxAsked, \* bound: requests of one session not yet answered
  Slow      \* what may take longer than the wait for reuse

\* "accept": from the post of an accept until a client connects;
\* "connection": from there to its end; "handler": from a completion to the end
\* of what a worker does about it, or one PostAccept.
ASSUME IOCPServerAssumption ==
  /\ Slow \subseteq {"accept", "connection", "handler"}
  /\ NoJob \notin Operation
  /\ MaxAsked \in Nat

VARIABLES
  accepter,   \* where the accepter thread is, and for which session
  pc, job,    \* per worker: where it is, and the completion it handles
  socket_,    \* per worker: argument of the OnConnect it has called
  asked       \* per session: requests received on it and not yet answered

vars == <<clientVars, accepter, pc, job, socket_, asked>>

AccepterPC == {"loop", "socket", "acceptex"}
WorkerPC == {"dequeue", "accepted", "onconnect", "bindiocp", "bindrecv",
             "received", "sent", "close", "time", "closesocket", "forget"}

Init ==
  /\ ClientInit
  /\ accepter = [at |-> "loop", session |-> 0]
  /\ pc = [w \in Worker |-> "dequeue"]
  /\ job = [w \in Worker |-> NoJob]
  /\ socket_ = [w \in Worker |-> INVALID_SOCKET]
  /\ asked = [s \in Session |-> 0]

-----------------------------------------------------------------------------
(* AccepterThread.                                                         *)

\* The body of the loop finds session s free.
FindFreeSession(s) ==
  /\ accepter.at = "loop"
  /\ ~mIsConnected[s]
  /\ rested[s]
  /\ accepter' = [at |-> "socket", session |-> s]
  /\ UNCHANGED <<clientVars, pc, job, socket_, asked>>

PostAccept ==
  /\ \/ accepter.at = "socket" /\ CreateSocket(accepter.session)
     \/ accepter.at = "acceptex" /\ AcceptEx(accepter.session)
  /\ accepter' = [accepter EXCEPT !.at =
                    IF @ = "socket" /\ mSocket'[accepter.session] # INVALID_SOCKET
                    THEN "acceptex" ELSE "loop"]
  /\ UNCHANGED <<pc, job, socket_, asked>>

-----------------------------------------------------------------------------
(* WorkerThread.                                                           *)

Goto(w, label) == /\ pc' = [pc EXCEPT ![w] = label]
                  /\ UNCHANGED <<job, socket_>>
Done(w) == /\ pc' = [pc EXCEPT ![w] = "dequeue"]
           /\ job' = [job EXCEPT ![w] = NoJob]
           /\ UNCHANGED socket_

\* The session a worker calls: found by m_userIndex, not by completion key.
pClientInfo(w) == m_userIndex(job[w])

\* The tests after GetQueuedCompletionStatus.  An accept is not asked whether
\* it succeeded.
Dispatch(o) ==
  CASE o.op = "ACCEPT" -> "accepted"
    [] o.op # "ACCEPT" /\ o.status = "failed" -> "close"
    [] o.op = "RECV" /\ o.status = "ok" -> "received"
    [] o.op = "SEND" /\ o.status = "ok" -> "sent"

GetQueuedCompletionStatus(w) ==
  /\ pc[w] = "dequeue"
  /\ \E o \in ops :
       /\ o.status # "pending"
       /\ ops' = ops \ {o}
       /\ job' = [job EXCEPT ![w] = o]
       /\ pc' = [pc EXCEPT ![w] = Dispatch(o)]
  /\ UNCHANGED <<mIsConnected, mSocket, mSendQueue, rested, sock, bound,
                 accepter, socket_, asked>>

\* AcceptCompletion passes OnConnect the mSocket of the session; the accepter
\* may overwrite mSocket before it is written back.
AcceptCompletion(w) ==
  /\ pc[w] = "accepted"
  /\ socket_' = [socket_ EXCEPT ![w] = mSocket[pClientInfo(w)]]
  /\ pc' = [pc EXCEPT ![w] = "onconnect"]
  /\ UNCHANGED <<clientVars, accepter, job, asked>>

WorkerOnConnect(w) ==
  /\ pc[w] = "onconnect"
  /\ OnConnect(pClientInfo(w), socket_[w])
  /\ socket_' = [socket_ EXCEPT ![w] = INVALID_SOCKET]
  /\ pc' = [pc EXCEPT ![w] = "bindiocp"]
  /\ UNCHANGED <<accepter, job, asked>>

WorkerBindIOCP(w) ==
  /\ pc[w] = "bindiocp"
  /\ BindIOCP(pClientInfo(w))
  /\ Goto(w, "bindrecv")
  /\ UNCHANGED <<accepter, asked>>

\* OnReceive: a request goes to DataBase or RedisManager, with the index of
\* the session; what is no request, or one that is not answered, goes nowhere.
OnReceive(w) ==
  /\ pc[w] = "received"
  /\ \/ /\ asked[pClientInfo(w)] < MaxAsked
        /\ asked' = [asked EXCEPT ![pClientInfo(w)] = @ + 1]
     \/ UNCHANGED asked
  /\ Goto(w, "bindrecv")
  /\ UNCHANGED <<clientVars, accepter>>

\* BindRecv at the end of AcceptCompletion or after OnReceive: the first
\* caller closes the session when it fails, the second ignores the result.
WorkerBindRecv(w) ==
  /\ pc[w] = "bindrecv"
  /\ \/ BindRecv(pClientInfo(w)) /\ Done(w)
     \/ /\ Refused(pClientInfo(w))
        /\ \/ job[w].op = "ACCEPT" /\ Goto(w, "close")
           \/ job[w].op = "RECV" /\ Done(w)
        /\ UNCHANGED clientVars
  /\ UNCHANGED <<accepter, asked>>

WorkerSendCompleted(w) ==
  /\ pc[w] = "sent"
  /\ SendCompleted(pClientInfo(w))
  /\ Done(w)
  /\ UNCHANGED <<accepter, asked>>

\* CloseSocket: ClientInfo::Close, then OnClose, which only pushes a log-out.
Close(w) ==
  LET s == pClientInfo(w) IN
  /\ \/ pc[w] = "close"       /\ Disconnect(s)   /\ Goto(w, "time")
     \/ pc[w] = "time"        /\ TakeTime(s)     /\ Goto(w, "closesocket")
     \/ pc[w] = "closesocket" /\ CloseSocket(s)  /\ Goto(w, "forget")
     \/ pc[w] = "forget"      /\ ForgetSocket(s) /\ Done(w)
  /\ UNCHANGED <<accepter, asked>>

WorkerStep(w) ==
  \/ GetQueuedCompletionStatus(w)
  \/ AcceptCompletion(w) \/ WorkerOnConnect(w) \/ WorkerBindIOCP(w)
  \/ OnReceive(w) \/ WorkerBindRecv(w) \/ WorkerSendCompleted(w)
  \/ Close(w)

-----------------------------------------------------------------------------
(* The environment: clients, answers, time.                                *)

\* A sender thread sends the answer to a request on the session it came from,
\* whoever has that session by now.
Send ==
  /\ \E s \in Session, p \in Packet :
       /\ asked[s] > 0
       /\ asked' = [asked EXCEPT ![s] = @ - 1]
       /\ \A t \in Session : \A i \in DOMAIN mSendQueue[t] : mSendQueue[t][i] # p
       /\ SendMsg(s, p)
  /\ UNCHANGED <<accepter, pc, job, socket_>>

Winsock ==
  /\ \/ \E o \in ops : ClientConnects(o) \/ Transfer(o) \/ Abort(o)
     \/ \E k \in Socket : ClientLeaves(k)
  /\ UNCHANGED <<accepter, pc, job, socket_, asked>>

\* Whether something of session s that is to be over within the wait is not.
Unfinished(s) ==
  \/ "accept" \notin Slow /\ \E o \in ops : o.op = "ACCEPT" /\ o.session = s
  \/ "connection" \notin Slow /\ mIsConnected[s]
  \/ /\ "handler" \notin Slow
     /\ \/ \E w \in Worker : pc[w] # "dequeue" /\ s \in {pClientInfo(w), job[w].session}
        \/ accepter.at # "loop" /\ accepter.session = s
        \/ \E o \in ops : o.session = s /\ (o.status # "pending" \/ sock[o.socket] = "closed")

\* The wait for reuse passes.
Elapse(s) ==
  /\ ~rested[s]
  /\ ~Unfinished(s)
  /\ rested' = [rested EXCEPT ![s] = TRUE]
  /\ UNCHANGED <<mIsConnected, mSocket, mSendQueue, sock, bound, ops,
                 accepter, pc, job, socket_, asked>>

Next ==
  \/ PostAccept \/ \E s \in Session : FindFreeSession(s)
  \/ \E w \in Worker : WorkerStep(w)
  \/ Send \/ Winsock
  \/ \E s \in Session : Elapse(s)

Spec == Init /\ [][Next]_vars

-----------------------------------------------------------------------------
(* Properties.                                                             *)

\* Every variable has its type: in particular a session has a socket or
\* INVALID_SOCKET, and a worker that is not waiting holds a completion.
TypeOK ==
  /\ mIsConnected \in [Session -> BOOLEAN]
  /\ mSocket \in [Session -> Socket \cup {INVALID_SOCKET}]
  /\ mSendQueue \in [Session -> Seq(Packet)]
  /\ rested \in [Session -> BOOLEAN]
  /\ sock \in [Socket -> SocketState]
  /\ bound \subseteq Socket
  /\ ops \subseteq Operation
  /\ accepter \in [at : AccepterPC, session : Session]
  /\ pc \in [Worker -> WorkerPC]
  /\ job \in [Worker -> Operation \cup {NoJob}]
  /\ \A w \in Worker : pc[w] # "dequeue" => job[w] # NoJob
  /\ socket_ \in [Worker -> Socket \cup {INVALID_SOCKET}]
  /\ asked \in [Session -> 0 .. MaxAsked]

\* Sends that are posted or whose completion nobody has dequeued, and workers
\* about to call SendCompleted.
PostedSends == {o \in ops : o.op = "SEND"}
Reporting == {w \in Worker : pc[w] = "sent"}

\* At most one send of a session is in flight ("1-send", ClientSession.hpp:191)
\* and it is the packet at the head of the queue: the one SendCompleted
\* deletes is the one Winsock is done with, through closes, failures and
\* reuse of the session.
OneSendAtATime ==
  /\ \A o, p \in PostedSends : o.session = p.session => o = p
  /\ \A v, w \in Reporting : job[v].session = job[w].session => v = w
  /\ \A o \in PostedSends, w \in Reporting : o.session # job[w].session
  /\ \A o \in PostedSends :
       /\ mSendQueue[o.session] # <<>>
       /\ o.packet = Head(mSendQueue[o.session])
  /\ \A w \in Reporting :
       /\ mSendQueue[job[w].session] # <<>>
       /\ job[w].packet = Head(mSendQueue[job[w].session])

\* A socket a client is connected on belongs to a session, so that the client
\* is served or closed.  An accept that outlasts the wait for reuse breaks it:
\* its socket is overwritten by the next PostAccept (IOCP.hpp:281).
EveryConnectionHasASession ==
  \A k \in Socket :
    sock[k] \in {"connected", "broken"} => \E s \in Session : mSocket[s] = k

\* A session that is connected hears of its client: a receive is posted for
\* it, unless a worker is just handling one of its completions.  A BindRecv
\* that fails after OnReceive breaks it (IOCP.hpp:243).
ConnectedSessionListens ==
  \A s \in Session :
    mIsConnected[s] =>
      \/ \E o \in ops : o.op = "RECV" /\ o.session = s
      \/ \E w \in Worker : pc[w] # "dequeue" /\ job[w].session = s

\* While no call fails, the server closes a connection because that client has
\* left (IOCP.hpp:217).  With more than one session it does not:
\* the end of any client is taken for the end of that of session 0.
LiveClientIsNotClosed ==
  [][\A k \in Socket : sock[k] = "connected" => sock'[k] # "closed"]_vars

\* A session is used again only after its last Close has come to its end, from
\* which the wait is said to count (Define.hpp:16).  Close clears mIsConnected
\* before it takes the time, and a connection longer than the wait breaks it.
ReuseWaits ==
  [][accepter.at = "loop" /\ accepter'.at = "socket" =>
       \A w \in Worker :
         pc[w] \in {"time", "closesocket", "forget"} =>
           pClientInfo(w) # accepter'.session]_vars

\* While a session's client is there, what is queued for it is on its way: the
\* thread that reports one packet sent goes on with the next
\* (ClientSession.hpp:231).
QueuedPacketIsOnItsWay ==
  \A s \in Session :
    /\ mIsConnected[s] /\ Usable(s) /\ sock[mSocket[s]] = "connected"
    /\ mSendQueue[s] # <<>>
    => \/ \E o \in ops : o.op = "SEND" /\ o.session = s
       \/ \E w \in Worker : /\ pc[w] # "dequeue"
                             /\ job[w].op = "SEND"
                             /\ job[w].session = s

=============================================================================
