----------------------------- MODULE ClientInfo -----------------------------
(***************************************************************************)
(* The sessions of ClientSession.hpp and the sockets and overlapped        *)
(* operations they use.  A session (a ClientInfo object) serves one client *)
(* after another; every client has a socket of its own, which the session  *)
(* creates before the client is there.                                     *)
(*                                                                         *)
(* The operators below are the member functions, or their parts between    *)
(* two accesses to state that another thread may change; IOCPServer calls  *)
(* them from its threads.  Time is one bit per session, rested: more than  *)
(* RE_USE_SESSION_WAIT_TIMESEC has passed since mLatestClosedTimeSec.      *)
(***************************************************************************)
EXTENDS Naturals, Sequences, FiniteSets

CONSTANTS
  Session,        \* the client indices
  Socket,         \* sockets that exist at a time: a bound
  Packet,         \* SendPacketData objects that exist at a time: a bound
  INVALID_SOCKET,
  NoPacket,       \* of an operation that is not a send
  MaxReceives,    \* bound: receives posted with one overlapped structure
  IOMayFail       \* whether a Winsock call on a connected socket may fail

ASSUME ClientInfoAssumption ==
  /\ Session \subseteq Nat
  /\ 0 \in Session
  /\ INVALID_SOCKET \notin Socket
  /\ NoPacket \notin Packet
  /\ MaxReceives \in Nat \ {0}
  /\ IOMayFail \in BOOLEAN

VARIABLES
  mIsConnected, mSocket, mSendQueue,   \* per session
  rested,   \* per session: the wait since mLatestClosedTimeSec is over
  sock,     \* per socket: what Winsock knows of it
  bound,    \* the sockets whose completions go to the port
  ops       \* the overlapped operations posted and not yet dequeued

clientVars == <<mIsConnected, mSocket, mSendQueue, rested, sock, bound, ops>>

eIOOperation == {"RECV", "SEND", "ACCEPT"}

\* session is the object whose overlapped structure was passed, n tells
\* apart receives that were posted with the same structure.
Operation == [op : eIOOperation, session : Session, socket : Socket,
              packet : Packet \cup {NoPacket}, n : 1 .. MaxReceives,
              status : {"pending", "ok", "failed"}]

\* "broken": the client has left or the connection was reset.
SocketState == {"closed", "open", "connected", "broken"}

ClientInit ==
  /\ mIsConnected = [s \in Session |-> FALSE]
  /\ mSocket = [s \in Session |-> INVALID_SOCKET]
  /\ mSendQueue = [s \in Session |-> <<>>]
  /\ rested = [s \in Session |-> TRUE]
  /\ sock = [k \in Socket |-> "closed"]
  /\ bound = {}
  /\ ops = {}

\* m_userIndex of the structure an operation was posted with.  PostAccept and
\* SetOverlapped write it; BindRecv does not, and the constructor left 0.
m_userIndex(o) == IF o.op = "RECV" THEN 0 ELSE o.session

Post(op, s, packet, n) ==
  ops' = ops \cup {[op |-> op, session |-> s, socket |-> mSocket[s],
                    packet |-> packet, n |-> n, status |-> "pending"]}

\* A call on the session's socket can be accepted ...
Usable(s) == /\ mSocket[s] # INVALID_SOCKET
             /\ sock[mSocket[s]] \in {"connected", "broken"}
\* ... or be refused at once.
Refused(s) == ~Usable(s) \/ IOMayFail

-----------------------------------------------------------------------------
(* Accepting.                                                              *)

\* A socket here is an identity: it is free again when nothing refers to it.
Free(k) ==
  /\ sock[k] = "closed"
  /\ \A s \in Session : mSocket[s] # k
  /\ \A o \in ops : o.socket # k

\* PostAccept down to socket(): the time is taken, mSocket is overwritten.
CreateSocket(s) ==
  /\ rested' = [rested EXCEPT ![s] = FALSE]
  /\ \/ \E k \in Socket :
          /\ Free(k)
          /\ sock' = [sock EXCEPT ![k] = "open"]
          /\ bound' = bound \ {k}
          /\ mSocket' = [mSocket EXCEPT ![s] = k]
     \/ /\ IOMayFail
        /\ mSocket' = [mSocket EXCEPT ![s] = INVALID_SOCKET]
        /\ UNCHANGED <<sock, bound>>
  /\ UNCHANGED <<mIsConnected, mSendQueue, ops>>

\* The rest of PostAccept: AcceptEx on what mSocket is now.
AcceptEx(s) ==
  /\ \/ /\ mSocket[s] # INVALID_SOCKET
        /\ sock[mSocket[s]] = "open"
        /\ Post("ACCEPT", s, NoPacket, 1)
     \/ /\ \/ mSocket[s] = INVALID_SOCKET
           \/ mSocket[s] # INVALID_SOCKET /\ sock[mSocket[s]] # "open"
           \/ IOMayFail
        /\ UNCHANGED ops
  /\ UNCHANGED <<mIsConnected, mSocket, mSendQueue, rested, sock, bound>>

\* OnConnect down to BindIOCP: socket_ is what mSocket was at the call.
OnConnect(s, socket_) ==
  /\ mSocket' = [mSocket EXCEPT ![s] = socket_]
  /\ mIsConnected' = [mIsConnected EXCEPT ![s] = TRUE]
  /\ UNCHANGED <<mSendQueue, rested, sock, ops, bound>>

\* CreateIoCompletionPort reports a failure with NULL, and BindIOCP looks for
\* INVALID_HANDLE_VALUE: it returns true either way.
BindIOCP(s) ==
  /\ \/ /\ mSocket[s] # INVALID_SOCKET
        /\ sock[mSocket[s]] # "closed"
        /\ bound' = bound \cup {mSocket[s]}
     \/ /\ \/ mSocket[s] = INVALID_SOCKET
           \/ mSocket[s] # INVALID_SOCKET /\ sock[mSocket[s]] = "closed"
           \/ IOMayFail
        /\ UNCHANGED bound
  /\ UNCHANGED <<mIsConnected, mSocket, mSendQueue, rested, sock, ops>>

-----------------------------------------------------------------------------
(* Receiving and sending.                                                  *)

BindRecv(s) ==
  /\ Usable(s)
  /\ \E n \in 1 .. MaxReceives :
       /\ \A o \in ops : o.op = "RECV" /\ o.session = s => o.n # n
       /\ Post("RECV", s, NoPacket, n)
  /\ UNCHANGED <<mIsConnected, mSocket, mSendQueue, rested, sock, bound>>

\* WSASend of the packet at the head of the queue q; a failure is only logged.
SendIO(s, q) ==
  \/ Usable(s) /\ Post("SEND", s, Head(q), 1)
  \/ Refused(s) /\ UNCHANGED ops

\* Fault: every packet is sent at once, whatever is in flight.
SendMsgAtOnce(s, p) ==
  /\ mSendQueue' = [mSendQueue EXCEPT ![s] = Append(@, p)]
  /\ SendIO(s, <<p>>)
  /\ UNCHANGED <<mIsConnected, mSocket, rested, sock, bound>>

SendMsg(s, p) ==
  /\ mSendQueue' = [mSendQueue EXCEPT ![s] = Append(@, p)]
  /\ \/ mSendQueue[s] = <<>> /\ SendIO(s, <<p>>)
     \/ mSendQueue[s] # <<>> /\ UNCHANGED ops
  /\ UNCHANGED <<mIsConnected, mSocket, rested, sock, bound>>

SendCompleted(s) ==
  LET rest == Tail(mSendQueue[s]) IN
  /\ mSendQueue' = [mSendQueue EXCEPT ![s] = rest]
  /\ \/ rest # <<>> /\ SendIO(s, rest)
     \/ rest = <<>> /\ UNCHANGED ops
  /\ UNCHANGED <<mIsConnected, mSocket, rested, sock, bound>>

-----------------------------------------------------------------------------
(* Close, in its order.                                                    *)

Disconnect(s) ==
  /\ mIsConnected' = [mIsConnected EXCEPT ![s] = FALSE]
  /\ UNCHANGED <<mSocket, mSendQueue, rested, sock, ops, bound>>

TakeTime(s) ==
  /\ rested' = [rested EXCEPT ![s] = FALSE]
  /\ UNCHANGED <<mIsConnected, mSocket, mSendQueue, sock, ops, bound>>

\* shutdown and closesocket on what mSocket is now.
CloseSocket(s) ==
  /\ sock' = [k \in Socket |-> IF k = mSocket[s] THEN "closed" ELSE sock[k]]
  /\ UNCHANGED <<mIsConnected, mSocket, mSendQueue, rested, ops, bound>>

\* Fault: INVALID_SOCKET taken for 0.
ForgetSocketAsZero(s) ==
  /\ mSocket' = [mSocket EXCEPT ![s] = 0]
  /\ UNCHANGED <<mIsConnected, mSendQueue, rested, sock, ops, bound>>

ForgetSocket(s) ==
  /\ mSocket' = [mSocket EXCEPT ![s] = INVALID_SOCKET]
  /\ UNCHANGED <<mIsConnected, mSendQueue, rested, sock, ops, bound>>

-----------------------------------------------------------------------------
(* Winsock and the clients.                                                *)

\* The listening socket is bound to the port.  Of an operation on a socket that
\* is not, nobody hears.
Complete(o, status) ==
  ops' = (ops \ {o}) \cup
           {p \in {[o EXCEPT !.status = status]} : o.op = "ACCEPT" \/ o.socket \in bound}

\* A client connects; the listening socket gives it one of the accepts posted.
ClientConnects(o) ==
  /\ o.op = "ACCEPT" /\ o.status = "pending" /\ sock[o.socket] = "open"
  /\ sock' = [sock EXCEPT ![o.socket] = "connected"]
  /\ Complete(o, "ok")
  /\ UNCHANGED <<mIsConnected, mSocket, mSendQueue, rested, bound>>

\* Data arrives or has been sent.
Transfer(o) ==
  /\ o.op # "ACCEPT" /\ o.status = "pending" /\ sock[o.socket] = "connected"
  /\ Complete(o, "ok")
  /\ UNCHANGED <<mIsConnected, mSocket, mSendQueue, rested, sock, bound>>

\* An operation on a socket that is broken or closed ends without success.
Abort(o) ==
  /\ o.status = "pending"
  /\ \/ sock[o.socket] = "closed"
     \/ sock[o.socket] = "broken" /\ o.op # "ACCEPT"
  /\ Complete(o, "failed")
  /\ UNCHANGED <<mIsConnected, mSocket, mSendQueue, rested, sock, bound>>

ClientLeaves(k) ==
  /\ sock[k] = "connected"
  /\ sock' = [sock EXCEPT ![k] = "broken"]
  /\ UNCHANGED <<mIsConnected, mSocket, mSendQueue, rested, ops, bound>>
=============================================================================
