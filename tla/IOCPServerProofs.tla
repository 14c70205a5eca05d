-------------------------- MODULE IOCPServerProofs --------------------------
(***************************************************************************)
(* Theorems about IOCPServer for every value of its constants: any number  *)
(* of sessions, sockets, packets and workers, whatever Winsock refuses and *)
(* however long the accepts, connections and handlers take.                *)
(***************************************************************************)
EXTENDS IOCPServer, SequenceTheorems, TLAPS

-----------------------------------------------------------------------------
(* Types.                                                                  *)

\* A worker that reports a packet sent holds the completion of that send.
PcMatchesJob == \A w \in Reporting : job[w].op = "SEND"

\* The inductive invariant: a SendCompleted of an empty queue would break the
\* types, so they hold only together with OneSendAtATime.
SendInv == TypeOK /\ PcMatchesJob /\ OneSendAtATime

\* The session that a completion names is one of the sessions.
LEMMA IndexTyped == \A o \in Operation : m_userIndex(o) \in Session
BY ClientInfoAssumption DEF m_userIndex, Operation

\* A worker with a completion in hand calls one of the sessions.
LEMMA CalledTyped ==
  ASSUME TypeOK, NEW w \in Worker, pc[w] # "dequeue"
  PROVE  job[w] \in Operation /\ pClientInfo(w) \in Session
BY IndexTyped DEF TypeOK, pClientInfo

\* What is posted is an operation.
LEMMA PostTyped ==
  ASSUME TypeOK, NEW s \in Session, NEW op \in eIOOperation,
         NEW packet \in Packet \cup {NoPacket}, NEW n \in 1 .. MaxReceives,
         mSocket[s] \in Socket, Post(op, s, packet, n)
  PROVE  ops' \subseteq Operation
BY DEF Post, TypeOK, Operation

\* SendIO of a queue that is not empty leaves typed operations.
LEMMA SendIOTyped ==
  ASSUME TypeOK, NEW s \in Session, NEW q \in Seq(Packet), q # <<>>, SendIO(s, q)
  PROVE  ops' \subseteq Operation
<1>1. Head(q) \in Packet
  BY HeadTailProperties
<1>2. 1 \in 1 .. MaxReceives
  BY ClientInfoAssumption
<1>3. CASE Usable(s) /\ Post("SEND", s, Head(q), 1)
  <2>1. mSocket[s] \in Socket
    BY <1>3 DEF Usable, TypeOK
  <2> QED
    BY <1>1, <1>2, <1>3, <2>1, PostTyped DEF eIOOperation
<1>4. CASE UNCHANGED ops
  BY <1>4 DEF TypeOK
<1> QED
  BY <1>3, <1>4 DEF SendIO

\* The initial state is typed.
LEMMA InitTyped == Init => TypeOK
<1> SUFFICES ASSUME Init PROVE TypeOK
  OBVIOUS
<1>1. mSendQueue \in [Session -> Seq(Packet)]
  BY DEF Init, ClientInit
<1>2. asked \in [Session -> 0 .. MaxAsked]
  BY IOCPServerAssumption DEF Init
<1>3. accepter \in [at : AccepterPC, session : Session]
  BY ClientInfoAssumption DEF Init, AccepterPC
<1>4. /\ pc \in [Worker -> WorkerPC]
      /\ job \in [Worker -> Operation \cup {NoJob}]
      /\ socket_ \in [Worker -> Socket \cup {INVALID_SOCKET}]
  BY DEF Init, WorkerPC
<1> QED
  BY <1>1, <1>2, <1>3, <1>4 DEF Init, ClientInit, TypeOK, SocketState

\* The accepter keeps the types.
LEMMA AccepterTyped ==
  ASSUME TypeOK, PostAccept \/ \E s \in Session : FindFreeSession(s)
  PROVE  TypeOK'
<1>1. ASSUME NEW s \in Session, FindFreeSession(s) PROVE TypeOK'
  BY <1>1 DEF FindFreeSession, TypeOK, clientVars, AccepterPC
<1>2. CASE PostAccept
  <2> DEFINE s == accepter.session
  <2>1. s \in Session
    BY DEF TypeOK
  <2>2. accepter' \in [at : AccepterPC, session : Session]
    BY <1>2 DEF PostAccept, TypeOK, AccepterPC
  <2>3. CASE CreateSocket(s)
    <3>1. mSocket' \in [Session -> Socket \cup {INVALID_SOCKET}]
      BY <2>1, <2>3 DEF CreateSocket, TypeOK
    <3>2. sock' \in [Socket -> SocketState]
      BY <2>3 DEF CreateSocket, TypeOK, SocketState
    <3>3. rested' \in [Session -> BOOLEAN]
      BY <2>1, <2>3 DEF CreateSocket, TypeOK
    <3>4. bound' \subseteq Socket
      BY <2>3 DEF CreateSocket, TypeOK
    <3> QED
      BY <1>2, <2>2, <2>3, <3>1, <3>2, <3>3, <3>4 DEF PostAccept, CreateSocket, TypeOK
  <2>4. CASE AcceptEx(s)
    <3>1. 1 \in 1 .. MaxReceives
      BY ClientInfoAssumption
    <3>2. ops' \subseteq Operation
      BY <2>1, <2>4, <3>1, PostTyped DEF AcceptEx, TypeOK, eIOOperation
    <3> QED
      BY <1>2, <2>2, <2>4, <3>2 DEF PostAccept, AcceptEx, TypeOK
  <2> QED
    BY <1>2, <2>3, <2>4 DEF PostAccept
<1> QED
  BY <1>1, <1>2

\* What a worker that waits and one that holds a completion keep typed.
WorkersTyped ==
  /\ pc \in [Worker -> WorkerPC]
  /\ job \in [Worker -> Operation \cup {NoJob}]
  /\ socket_ \in [Worker -> Socket \cup {INVALID_SOCKET}]
  /\ \A w \in Worker : pc[w] # "dequeue" => job[w] # NoJob

\* A worker that goes on to another label keeps its completion.
LEMMA GotoTyped ==
  ASSUME TypeOK, NEW w \in Worker, NEW label \in WorkerPC, pc[w] # "dequeue", Goto(w, label)
  PROVE  WorkersTyped'
BY DEF Goto, TypeOK, WorkersTyped

\* A worker that is done waits again.
LEMMA DoneTyped ==
  ASSUME TypeOK, NEW w \in Worker, Done(w)
  PROVE  WorkersTyped'
BY DEF Done, TypeOK, WorkersTyped, WorkerPC

\* Taking a completion from the port keeps the types.
LEMMA DequeueTyped ==
  ASSUME TypeOK, NEW w \in Worker, GetQueuedCompletionStatus(w)
  PROVE  TypeOK'
<1>1. PICK o \in ops : /\ o.status # "pending"
                       /\ ops' = ops \ {o}
                       /\ job' = [job EXCEPT ![w] = o]
                       /\ pc' = [pc EXCEPT ![w] = Dispatch(o)]
  BY DEF GetQueuedCompletionStatus
<1>2. o \in Operation /\ o # NoJob
  BY IOCPServerAssumption DEF TypeOK
<1>3. Dispatch(o) \in WorkerPC
  BY <1>1, <1>2 DEF Dispatch, WorkerPC, Operation, eIOOperation
<1>4. WorkersTyped'
  BY <1>1, <1>2, <1>3 DEF GetQueuedCompletionStatus, TypeOK, WorkersTyped
<1> QED
  BY <1>1, <1>4 DEF GetQueuedCompletionStatus, TypeOK, WorkersTyped

\* Every step of a worker keeps the types.
LEMMA WorkerTyped ==
  ASSUME TypeOK, PcMatchesJob, OneSendAtATime, NEW w \in Worker, WorkerStep(w)
  PROVE  TypeOK'
<1> DEFINE s == pClientInfo(w)
<1>0. pc[w] # "dequeue" => s \in Session /\ job[w] \in Operation
  BY CalledTyped
<1> HIDE DEF s
<1>1. CASE GetQueuedCompletionStatus(w)
  BY <1>1, DequeueTyped
<1>2. CASE AcceptCompletion(w)
  <2>1. s \in Session
    BY <1>0, <1>2 DEF AcceptCompletion
  <2>2. WorkersTyped'
    BY <1>2, <2>1 DEF AcceptCompletion, TypeOK, WorkersTyped, WorkerPC, s
  <2> QED
    BY <1>2, <2>2 DEF AcceptCompletion, TypeOK, WorkersTyped, clientVars
<1>7. CASE WorkerOnConnect(w)
  <2>1. s \in Session
    BY <1>0, <1>7 DEF WorkerOnConnect
  <2>2. WorkersTyped'
    BY <1>7 DEF WorkerOnConnect, TypeOK, WorkersTyped, WorkerPC
  <2>3. mSocket' \in [Session -> Socket \cup {INVALID_SOCKET}]
    BY <1>7, <2>1 DEF WorkerOnConnect, OnConnect, TypeOK, s
  <2> QED
    BY <1>7, <2>1, <2>2, <2>3 DEF WorkerOnConnect, OnConnect, TypeOK, WorkersTyped, s
<1>8. CASE WorkerBindIOCP(w)
  <2>1. s \in Session
    BY <1>0, <1>8 DEF WorkerBindIOCP
  <2>2. WorkersTyped'
    BY <1>8, GotoTyped DEF WorkerBindIOCP, WorkerPC
  <2>3. bound' \subseteq Socket
    BY <1>8, <2>1 DEF WorkerBindIOCP, BindIOCP, TypeOK, s
  <2> QED
    BY <1>8, <2>2, <2>3 DEF WorkerBindIOCP, BindIOCP, TypeOK, WorkersTyped
<1>3. CASE OnReceive(w)
  <2>1. WorkersTyped'
    BY <1>3, GotoTyped DEF OnReceive, WorkerPC
  <2>2. asked' \in [Session -> 0 .. MaxAsked]
    <3>1. s \in Session /\ asked[s] \in 0 .. MaxAsked
      BY <1>0, <1>3 DEF OnReceive, TypeOK
    <3>2. asked[s] < MaxAsked => asked[s] + 1 \in 0 .. MaxAsked
      BY <3>1, IOCPServerAssumption
    <3> QED
      BY <1>3, <3>1, <3>2 DEF OnReceive, TypeOK, s
  <2> QED
    BY <1>3, <2>1, <2>2 DEF OnReceive, TypeOK, WorkersTyped, clientVars
<1>4. CASE WorkerBindRecv(w)
  <2>1. CASE BindRecv(s) /\ Done(w)
    <3>1. ops' \subseteq Operation
      <4>1. s \in Session
        BY <1>0, <1>4 DEF WorkerBindRecv
      <4>2. mSocket[s] \in Socket
        BY <2>1, <4>1 DEF BindRecv, Usable, TypeOK
      <4> QED
        BY <2>1, <4>1, <4>2, PostTyped DEF BindRecv, eIOOperation
    <3>2. WorkersTyped'
      BY <2>1, DoneTyped
    <3> QED
      BY <1>4, <2>1, <3>1, <3>2 DEF WorkerBindRecv, BindRecv, TypeOK, WorkersTyped
  <2>2. CASE UNCHANGED clientVars /\ (Goto(w, "close") \/ Done(w))
    <3>1. WorkersTyped'
      BY <1>4, <2>2, DoneTyped, GotoTyped DEF WorkerBindRecv, WorkerPC
    <3> QED
      BY <1>4, <2>2, <3>1 DEF WorkerBindRecv, TypeOK, WorkersTyped, clientVars
  <2> QED
    BY <1>4, <2>1, <2>2 DEF WorkerBindRecv, s
<1>5. CASE WorkerSendCompleted(w)
  <2> DEFINE rest == Tail(mSendQueue[s])
  <2>1. s \in Session /\ mSendQueue[s] \in Seq(Packet) /\ mSendQueue[s] # <<>>
    BY <1>0, <1>5 DEF WorkerSendCompleted, OneSendAtATime, Reporting, PcMatchesJob,
                      TypeOK, pClientInfo, m_userIndex, s
  <2>2. rest \in Seq(Packet)
    BY <2>1, HeadTailProperties
  <2>3. SendCompleted(s)
    BY <1>5 DEF WorkerSendCompleted, s
  <2>4. ops' \subseteq Operation
    BY <2>1, <2>2, <2>3, SendIOTyped DEF SendCompleted, TypeOK
  <2>5. mSendQueue' \in [Session -> Seq(Packet)]
    BY <2>1, <2>2, <2>3 DEF SendCompleted, TypeOK
  <2>6. WorkersTyped'
    BY <1>5, DoneTyped DEF WorkerSendCompleted
  <2> QED
    BY <1>5, <2>3, <2>4, <2>5, <2>6 DEF WorkerSendCompleted, SendCompleted, TypeOK, WorkersTyped
<1>6. CASE Close(w)
  <2>0. s \in Session /\ pc[w] # "dequeue"
    BY <1>0, <1>6 DEF Close
  <2>1. WorkersTyped'
    BY <1>6, <2>0, GotoTyped, DoneTyped DEF Close, WorkerPC
  <2>2. CASE Disconnect(s)
    BY <1>6, <2>0, <2>1, <2>2 DEF Close, Disconnect, TypeOK, WorkersTyped
  <2>3. CASE TakeTime(s)
    BY <1>6, <2>0, <2>1, <2>3 DEF Close, TakeTime, TypeOK, WorkersTyped
  <2>4. CASE CloseSocket(s)
    BY <1>6, <2>0, <2>1, <2>4 DEF Close, CloseSocket, TypeOK, WorkersTyped, SocketState
  <2>5. CASE ForgetSocket(s)
    BY <1>6, <2>0, <2>1, <2>5 DEF Close, ForgetSocket, TypeOK, WorkersTyped
  <2> QED
    BY <1>6, <2>2, <2>3, <2>4, <2>5 DEF Close, s
<1> QED
  BY <1>1, <1>2, <1>3, <1>4, <1>5, <1>6, <1>7, <1>8 DEF WorkerStep

\* An operation that ends is still an operation.
LEMMA CompleteTyped ==
  ASSUME TypeOK, NEW o \in ops, NEW status \in {"ok", "failed"}, Complete(o, status)
  PROVE  ops' \subseteq Operation
BY DEF Complete, TypeOK, Operation

\* The steps of clients, of Winsock, of the sender threads and of time keep
\* the types.
LEMMA EnvironmentTyped ==
  ASSUME TypeOK, Send \/ Winsock \/ \E s \in Session : Elapse(s)
  PROVE  TypeOK'
<1>1. ASSUME NEW s \in Session, NEW p \in Packet, asked[s] > 0, SendMsg(s, p),
             asked' = [asked EXCEPT ![s] = @ - 1], UNCHANGED <<accepter, pc, job, socket_>>
      PROVE  TypeOK'
  <2>1. asked' \in [Session -> 0 .. MaxAsked]
    <3>1. asked[s] \in 0 .. MaxAsked
      BY DEF TypeOK
    <3>2. asked[s] - 1 \in 0 .. MaxAsked
      BY <1>1, <3>1, IOCPServerAssumption
    <3> QED
      BY <1>1, <3>2 DEF TypeOK
  <2>2. mSendQueue' \in [Session -> Seq(Packet)]
    BY <1>1, AppendProperties DEF SendMsg, TypeOK
  <2>3. ops' \subseteq Operation
    <3>1. <<p>> \in Seq(Packet) /\ <<p>> # <<>>
      OBVIOUS
    <3> QED
      BY <1>1, <3>1, SendIOTyped DEF SendMsg, TypeOK
  <2> QED
    BY <1>1, <2>1, <2>2, <2>3 DEF SendMsg, TypeOK
<1>2. ASSUME NEW o \in ops, ClientConnects(o) \/ Transfer(o) \/ Abort(o),
             UNCHANGED <<accepter, pc, job, socket_, asked>>
      PROVE  TypeOK'
  <2>1. ops' \subseteq Operation
    BY <1>2, CompleteTyped DEF ClientConnects, Transfer, Abort
  <2>2. sock' \in [Socket -> SocketState]
    BY <1>2 DEF ClientConnects, Transfer, Abort, TypeOK, SocketState
  <2> QED
    BY <1>2, <2>1, <2>2 DEF ClientConnects, Transfer, Abort, TypeOK
<1>3. ASSUME NEW k \in Socket, ClientLeaves(k), UNCHANGED <<accepter, pc, job, socket_, asked>>
      PROVE  TypeOK'
  BY <1>3 DEF ClientLeaves, TypeOK, SocketState
<1>4. ASSUME NEW s \in Session, Elapse(s) PROVE TypeOK'
  BY <1>4 DEF Elapse, TypeOK
<1> QED
  BY <1>1, <1>2, <1>3, <1>4 DEF Send, Winsock

-----------------------------------------------------------------------------
(* One send at a time.                                                     *)

\* Nothing that matters to the sends of a session has changed.
LEMMA SendsUntouched ==
  ASSUME OneSendAtATime, PcMatchesJob,
         PostedSends' = PostedSends, UNCHANGED mSendQueue, Reporting' = Reporting,
         \A w \in Reporting : job'[w] = job[w]
  PROVE  OneSendAtATime' /\ PcMatchesJob'
BY DEF OneSendAtATime, PcMatchesJob

\* Posting an accept or a receive posts no send.
LEMMA PostOther ==
  ASSUME NEW s \in Session, NEW op \in {"ACCEPT", "RECV"}, NEW packet, NEW n,
         Post(op, s, packet, n)
  PROVE  PostedSends' = PostedSends
BY DEF Post, PostedSends

\* A worker that does not report, and does not come to, leaves Reporting alone.
LEMMA OtherWorker ==
  ASSUME TypeOK, NEW w \in Worker, pc[w] # "sent",
         \/ \E label \in WorkerPC \ {"sent"} :
              pc' = [pc EXCEPT ![w] = label] /\ UNCHANGED job
         \/ Done(w)
  PROVE  Reporting' = Reporting /\ \A v \in Reporting : job'[v] = job[v]
BY DEF Done, TypeOK, Reporting

\* Accepting touches no send.
LEMMA AccepterKeepsSends ==
  ASSUME SendInv, PostAccept \/ \E s \in Session : FindFreeSession(s)
  PROVE  OneSendAtATime' /\ PcMatchesJob'
<1>1. PostedSends' = PostedSends /\ UNCHANGED <<mSendQueue, pc, job>>
  <2>1. ASSUME NEW s \in Session, FindFreeSession(s)
        PROVE  PostedSends' = PostedSends /\ UNCHANGED <<mSendQueue, pc, job>>
    BY <2>1 DEF FindFreeSession, clientVars, PostedSends
  <2>2. ASSUME PostAccept
        PROVE  PostedSends' = PostedSends /\ UNCHANGED <<mSendQueue, pc, job>>
    <3>1. accepter.session \in Session
      BY DEF SendInv, TypeOK
    <3>2. CASE CreateSocket(accepter.session)
      BY <2>2, <3>2 DEF PostAccept, CreateSocket, PostedSends
    <3>3. CASE AcceptEx(accepter.session)
      <4>1. PostedSends' = PostedSends
        BY <3>1, <3>3, PostOther DEF AcceptEx, PostedSends
      <4> QED
        BY <2>2, <3>3, <4>1 DEF PostAccept, AcceptEx
    <3> QED
      BY <2>2, <3>2, <3>3 DEF PostAccept
  <2> QED
    BY <2>1, <2>2
<1>2. Reporting' = Reporting /\ \A w \in Reporting : job'[w] = job[w]
  BY <1>1 DEF Reporting
<1> QED
  BY <1>1, <1>2, SendsUntouched DEF SendInv

\* Dequeueing the completion of a send makes its posted send a report.
LEMMA DequeueKeepsSends ==
  ASSUME SendInv, NEW w \in Worker, GetQueuedCompletionStatus(w)
  PROVE  OneSendAtATime' /\ PcMatchesJob'
<1>1. PICK o \in ops : /\ o.status # "pending"
                       /\ ops' = ops \ {o}
                       /\ job' = [job EXCEPT ![w] = o]
                       /\ pc' = [pc EXCEPT ![w] = Dispatch(o)]
  BY DEF GetQueuedCompletionStatus
<1>2. UNCHANGED mSendQueue /\ w \notin Reporting
  BY DEF GetQueuedCompletionStatus, Reporting
<1>3. PostedSends' = PostedSends \ {o}
  BY <1>1 DEF PostedSends
<1>4. Dispatch(o) = "sent" => o.op = "SEND"
  <2>1. o \in Operation
    BY DEF SendInv, TypeOK
  <2> QED
    BY <1>1, <2>1 DEF Dispatch, Operation, eIOOperation
<1>5. \A v \in Reporting : v # w /\ job'[v] = job[v]
  BY <1>1, <1>2 DEF SendInv, TypeOK, Reporting
<1>6. Reporting' = IF Dispatch(o) = "sent" THEN Reporting \cup {w} ELSE Reporting
  BY <1>1, <1>2 DEF SendInv, TypeOK, Reporting
<1>7. job'[w] = o
  BY <1>1 DEF SendInv, TypeOK
<1>8. CASE Dispatch(o) = "sent"
  <2>1. o \in PostedSends
    BY <1>4, <1>8 DEF PostedSends
  <2> QED
    BY <1>2, <1>3, <1>4, <1>5, <1>6, <1>7, <1>8, <2>1
    DEF SendInv, OneSendAtATime, PcMatchesJob
<1>9. CASE Dispatch(o) # "sent"
  BY <1>2, <1>3, <1>5, <1>6, <1>9 DEF SendInv, OneSendAtATime, PcMatchesJob
<1> QED
  BY <1>8, <1>9

\* SendIO posts the head of the queue, or nothing.
LEMMA SendIOPosts ==
  ASSUME NEW s, NEW q, SendIO(s, q)
  PROVE  \/ PostedSends' = PostedSends
         \/ \E o : /\ o.session = s /\ o.packet = Head(q)
                  /\ PostedSends' = PostedSends \cup {o}
<1>1. CASE UNCHANGED ops
  BY <1>1 DEF PostedSends
<1>2. CASE Post("SEND", s, Head(q), 1)
  <2> DEFINE o == [op |-> "SEND", session |-> s, socket |-> mSocket[s],
                   packet |-> Head(q), n |-> 1, status |-> "pending"]
  <2>1. ops' = ops \cup {o}
    BY <1>2 DEF Post
  <2>2. o.op = "SEND" /\ o.session = s /\ o.packet = Head(q)
    OBVIOUS
  <2> HIDE DEF o
  <2>3. PostedSends' = PostedSends \cup {o}
    BY <2>1, <2>2 DEF PostedSends
  <2> QED
    BY <2>2, <2>3
<1> QED
  BY <1>1, <1>2 DEF SendIO

\* A session without a send in flight posts the head of its queue, or nothing.
LEMMA NextSend ==
  ASSUME SendInv, NEW s \in Session, NEW q \in Seq(Packet),
         mSendQueue' = [mSendQueue EXCEPT ![s] = q],
         Reporting' \subseteq Reporting,
         \A v \in Reporting' : job'[v] = job[v] /\ job[v].session # s,
         \A o \in PostedSends : o.session # s,
         \/ PostedSends' = PostedSends
         \/ q # <<>> /\ SendIO(s, q)
  PROVE  OneSendAtATime'
<1>1. mSendQueue'[s] = q /\ \A t \in Session : t # s => mSendQueue'[t] = mSendQueue[t]
  BY DEF SendInv, TypeOK
<1>2. \A v \in Reporting' : job[v].session \in Session
  BY CalledTyped DEF SendInv, Reporting, Operation
<1>3. \A o \in PostedSends : o.session \in Session
  BY DEF SendInv, TypeOK, PostedSends, Operation
<1>4. CASE PostedSends' = PostedSends
  BY <1>1, <1>2, <1>3, <1>4 DEF SendInv, OneSendAtATime
<1>5. ASSUME NEW o, q # <<>>, o.session = s, o.packet = Head(q),
             PostedSends' = PostedSends \cup {o}
      PROVE  OneSendAtATime'
  <2>1. \A a, b \in PostedSends' : a.session = b.session => a = b
    BY <1>5 DEF SendInv, OneSendAtATime
  <2>2. \A v, w \in Reporting' : job'[v].session = job'[w].session => v = w
    BY DEF SendInv, OneSendAtATime
  <2>3. \A a \in PostedSends', w \in Reporting' : a.session # job'[w].session
    BY <1>5 DEF SendInv, OneSendAtATime
  <2>4. \A a \in PostedSends' : /\ mSendQueue'[a.session] # <<>>
                               /\ a.packet = Head(mSendQueue'[a.session])
    BY <1>1, <1>3, <1>5 DEF SendInv, OneSendAtATime
  <2>5. \A w \in Reporting' : /\ mSendQueue'[job'[w].session] # <<>>
                             /\ job'[w].packet = Head(mSendQueue'[job'[w].session])
    BY <1>1, <1>2 DEF SendInv, OneSendAtATime
  <2> QED
    BY <2>1, <2>2, <2>3, <2>4, <2>5 DEF OneSendAtATime
<1>6. q # <<>> /\ SendIO(s, q) =>
        \/ PostedSends' = PostedSends
        \/ \E o : /\ o.session = s /\ o.packet = Head(q)
                 /\ PostedSends' = PostedSends \cup {o}
  BY SendIOPosts
<1> QED
  BY <1>4, <1>5, <1>6

\* SendCompleted drops the packet it reports and posts the next one.
LEMMA SendCompletedKeepsSends ==
  ASSUME SendInv, NEW w \in Worker, WorkerSendCompleted(w)
  PROVE  OneSendAtATime' /\ PcMatchesJob'
<1> DEFINE s == job[w].session
           rest == Tail(mSendQueue[s])
<1>1. w \in Reporting /\ job[w].op = "SEND" /\ job[w] \in Operation /\ s \in Session
  <2>1. w \in Reporting
    BY DEF WorkerSendCompleted, Reporting
  <2> QED
    BY <2>1, CalledTyped DEF SendInv, PcMatchesJob, Reporting, Operation
<1>2. SendCompleted(s)
  BY <1>1 DEF WorkerSendCompleted, pClientInfo, m_userIndex
<1>3. Reporting' = Reporting \ {w} /\ \A v \in Reporting \ {w} : job'[v] = job[v]
  BY DEF WorkerSendCompleted, Done, SendInv, TypeOK, Reporting
<1>4. mSendQueue' = [mSendQueue EXCEPT ![s] = rest]
  BY <1>2 DEF SendCompleted
<1>5. rest \in Seq(Packet)
  <2>1. mSendQueue[s] \in Seq(Packet) /\ mSendQueue[s] # <<>>
    BY <1>1 DEF SendInv, TypeOK, OneSendAtATime
  <2> QED
    BY <2>1, HeadTailProperties
<1>6. \A v \in Reporting \ {w} : job[v].session # s
  BY <1>1 DEF SendInv, OneSendAtATime
<1>7. \A o \in PostedSends : o.session # s
  BY <1>1 DEF SendInv, OneSendAtATime
<1>8. \/ PostedSends' = PostedSends
      \/ rest # <<>> /\ SendIO(s, rest)
  BY <1>2 DEF SendCompleted, PostedSends
<1>9. PcMatchesJob'
  BY <1>3 DEF SendInv, PcMatchesJob
<1> HIDE DEF s, rest
<1>10. OneSendAtATime'
  BY <1>1, <1>3, <1>4, <1>5, <1>6, <1>7, <1>8, NextSend
<1> QED
  BY <1>9, <1>10

\* SendMsg appends behind a send in flight, or posts its packet at once.
LEMMA SendKeepsSends ==
  ASSUME SendInv, Send
  PROVE  OneSendAtATime' /\ PcMatchesJob'
<1>1. PICK s \in Session, p \in Packet : SendMsg(s, p)
  BY DEF Send
<1>2. Reporting' = Reporting /\ \A v \in Reporting : job'[v] = job[v]
  BY DEF Send, Reporting
<1>3. PcMatchesJob'
  BY <1>2 DEF SendInv, PcMatchesJob
<1>4. mSendQueue[s] \in Seq(Packet)
  BY DEF SendInv, TypeOK
<1>5. CASE mSendQueue[s] = <<>>
  <2>1. \A v \in Reporting : job[v].session # s
    BY <1>5 DEF SendInv, OneSendAtATime
  <2>2. \A o \in PostedSends : o.session # s
    BY <1>5 DEF SendInv, OneSendAtATime
  <2>3. mSendQueue' = [mSendQueue EXCEPT ![s] = <<p>>] /\ SendIO(s, <<p>>)
    BY <1>1, <1>5 DEF SendMsg
  <2>4. <<p>> \in Seq(Packet) /\ <<p>> # <<>>
    OBVIOUS
  <2>5. OneSendAtATime'
    BY <1>2, <2>1, <2>2, <2>3, <2>4, NextSend
  <2> QED
    BY <1>3, <2>5
<1>6. CASE mSendQueue[s] # <<>>
  <2>1. PostedSends' = PostedSends
    BY <1>1, <1>6 DEF SendMsg, PostedSends
  <2>2. Append(mSendQueue[s], p) # <<>> /\ Head(Append(mSendQueue[s], p)) = Head(mSendQueue[s])
    BY <1>4, <1>6
  <2>3. \A t \in Session :
          mSendQueue[t] # <<>> => mSendQueue'[t] # <<>> /\ Head(mSendQueue'[t]) = Head(mSendQueue[t])
    BY <1>1, <2>2 DEF SendMsg, SendInv, TypeOK
  <2>4. \A v \in Reporting : job[v].session \in Session
    BY CalledTyped DEF SendInv, Reporting, Operation
  <2>5. \A o \in PostedSends : o.session \in Session
    BY DEF SendInv, TypeOK, PostedSends, Operation
  <2>6. OneSendAtATime'
    BY <1>2, <2>1, <2>3, <2>4, <2>5 DEF SendInv, OneSendAtATime
  <2> QED
    BY <1>3, <2>6
<1> QED
  BY <1>5, <1>6

\* The other steps of a worker touch no send.
LEMMA WorkerKeepsSends ==
  ASSUME SendInv, NEW w \in Worker, WorkerStep(w)
  PROVE  OneSendAtATime' /\ PcMatchesJob'
<1> DEFINE s == pClientInfo(w)
<1>1. CASE GetQueuedCompletionStatus(w)
  BY <1>1, DequeueKeepsSends
<1>2. CASE WorkerSendCompleted(w)
  BY <1>2, SendCompletedKeepsSends
<1>3. ASSUME /\ pc[w] # "sent"
             /\ \/ Done(w)
                \/ \E label \in WorkerPC \ {"sent"} :
                     pc' = [pc EXCEPT ![w] = label] /\ UNCHANGED job,
             PostedSends' = PostedSends, UNCHANGED mSendQueue
      PROVE  OneSendAtATime' /\ PcMatchesJob'
  <2>1. Reporting' = Reporting /\ \A v \in Reporting : job'[v] = job[v]
    BY <1>3, OtherWorker DEF SendInv
  <2> QED
    BY <1>3, <2>1, SendsUntouched DEF SendInv
<1>4. CASE AcceptCompletion(w) \/ WorkerOnConnect(w) \/ WorkerBindIOCP(w)
  <2>1. UNCHANGED <<mSendQueue, ops>>
    BY <1>4 DEF AcceptCompletion, WorkerOnConnect, WorkerBindIOCP, OnConnect, BindIOCP,
                clientVars
  <2>2. /\ pc[w] # "sent"
        /\ \E label \in WorkerPC \ {"sent"} :
             pc' = [pc EXCEPT ![w] = label] /\ UNCHANGED job
    BY <1>4 DEF AcceptCompletion, WorkerOnConnect, WorkerBindIOCP, Goto, WorkerPC
  <2> QED
    BY <1>3, <2>1, <2>2 DEF PostedSends
<1>5. CASE OnReceive(w) \/ WorkerBindRecv(w) \/ Close(w)
  <2>1. pc[w] # "sent" /\ pc[w] # "dequeue"
    BY <1>5 DEF OnReceive, WorkerBindRecv, Close
  <2>2. \/ Done(w)
        \/ \E label \in WorkerPC \ {"sent"} :
             pc' = [pc EXCEPT ![w] = label] /\ UNCHANGED job
    BY <1>5 DEF OnReceive, WorkerBindRecv, Close, Goto, WorkerPC
  <2>3. s \in Session
    BY <2>1, CalledTyped DEF SendInv
  <2>4. PostedSends' = PostedSends /\ UNCHANGED mSendQueue
    <3>1. CASE UNCHANGED <<mSendQueue, ops>>
      BY <3>1 DEF PostedSends
    <3>2. CASE BindRecv(s)
      BY <2>3, <3>2, PostOther DEF BindRecv
    <3> QED
      BY <1>5, <3>1, <3>2 DEF OnReceive, WorkerBindRecv, Close,
         Disconnect, TakeTime, CloseSocket, ForgetSocket, clientVars
  <2> QED
    BY <1>3, <2>1, <2>2, <2>4
<1> QED
  BY <1>1, <1>2, <1>4, <1>5 DEF WorkerStep

\* An operation that ends keeps its session and its packet.
LEMMA WinsockKeepsSends ==
  ASSUME SendInv, Winsock
  PROVE  OneSendAtATime' /\ PcMatchesJob'
<1>1. UNCHANGED <<mSendQueue, pc, job>>
  BY DEF Winsock, ClientConnects, Transfer, Abort, ClientLeaves
<1>2. Reporting' = Reporting /\ \A v \in Reporting : job'[v] = job[v]
  BY <1>1 DEF Reporting
<1>3. CASE UNCHANGED ops
  BY <1>1, <1>2, <1>3, SendsUntouched DEF SendInv, PostedSends
<1>4. ASSUME NEW o \in ops, NEW status \in {"ok", "failed"}, Complete(o, status)
      PROVE  OneSendAtATime' /\ PcMatchesJob'
  <2> DEFINE d == [o EXCEPT !.status = status]
  <2>1. d.op = o.op /\ d.session = o.session /\ d.packet = o.packet
    BY DEF SendInv, TypeOK, Operation
  <2>2. ops' = (ops \ {o}) \cup {d} \/ ops' = ops \ {o}
    BY <1>4 DEF Complete
  <2> HIDE DEF d
  <2>3. CASE o.op = "SEND"
    <3>1. /\ o \in PostedSends
          /\ \/ PostedSends' = (PostedSends \ {o}) \cup {d}
             \/ PostedSends' = PostedSends \ {o}
      BY <2>1, <2>2, <2>3 DEF PostedSends
    <3>2. CASE PostedSends' = (PostedSends \ {o}) \cup {d}
      BY <1>1, <1>2, <2>1, <3>1, <3>2 DEF SendInv, OneSendAtATime, PcMatchesJob
    <3>3. CASE PostedSends' = PostedSends \ {o}
      BY <1>1, <1>2, <3>3 DEF SendInv, OneSendAtATime, PcMatchesJob
    <3> QED
      BY <3>1, <3>2, <3>3
  <2>4. CASE o.op # "SEND"
    <3>1. PostedSends' = PostedSends
      BY <2>1, <2>2, <2>4 DEF PostedSends
    <3> QED
      BY <1>1, <1>2, <3>1, SendsUntouched DEF SendInv
  <2> QED
    BY <2>3, <2>4
<1> QED
  BY <1>3, <1>4 DEF Winsock, ClientConnects, Transfer, Abort, ClientLeaves

-----------------------------------------------------------------------------
(* The theorems.                                                           *)

\* The invariant is inductive.
LEMMA SendInvInductive == Spec => []SendInv
<1>1. Init => SendInv
  <2> SUFFICES ASSUME Init PROVE SendInv
    OBVIOUS
  <2>1. PostedSends = {} /\ Reporting = {}
    BY DEF Init, ClientInit, PostedSends, Reporting
  <2> QED
    BY <2>1, InitTyped DEF SendInv, PcMatchesJob, OneSendAtATime
<1>2. SendInv /\ [Next]_vars => SendInv'
  <2> SUFFICES ASSUME SendInv, [Next]_vars PROVE SendInv'
    OBVIOUS
  <2>1. CASE PostAccept \/ \E s \in Session : FindFreeSession(s)
    BY <2>1, AccepterTyped, AccepterKeepsSends DEF SendInv
  <2>2. ASSUME NEW w \in Worker, WorkerStep(w) PROVE SendInv'
    BY <2>2, WorkerTyped, WorkerKeepsSends DEF SendInv
  <2>3. CASE Send
    BY <2>3, EnvironmentTyped, SendKeepsSends DEF SendInv
  <2>4. CASE Winsock
    BY <2>4, EnvironmentTyped, WinsockKeepsSends DEF SendInv
  <2>5. ASSUME NEW s \in Session, Elapse(s) PROVE SendInv'
    <3>1. PostedSends' = PostedSends /\ Reporting' = Reporting
      BY <2>5 DEF Elapse, PostedSends, Reporting
    <3> QED
      BY <2>5, <3>1, EnvironmentTyped, SendsUntouched DEF SendInv, Elapse
  <2>6. CASE UNCHANGED vars
    <3>1. PostedSends' = PostedSends /\ Reporting' = Reporting
      BY <2>6 DEF vars, clientVars, PostedSends, Reporting
    <3>2. TypeOK'
      BY <2>6 DEF SendInv, TypeOK, vars, clientVars
    <3> QED
      BY <2>6, <3>1, <3>2, SendsUntouched DEF SendInv, vars, clientVars
  <2> QED
    BY <2>1, <2>2, <2>3, <2>4, <2>5, <2>6 DEF Next
<1> QED
  BY <1>1, <1>2, PTL DEF Spec

\* Every variable keeps its type, with any number of sessions and workers.
THEOREM TypeCorrect == Spec => []TypeOK
<1>1. SendInv => TypeOK
  BY DEF SendInv
<1> QED
  BY <1>1, SendInvInductive, PTL

\* At most one send of a session is in flight and it is the packet at the head
\* of its queue, whatever fails, is closed or is used again meanwhile: what
\* SendCompleted deletes is what Winsock is done with.
THEOREM SendsOneAtATime == Spec => []OneSendAtATime
<1>1. SendInv => OneSendAtATime
  BY DEF SendInv
<1> QED
  BY <1>1, SendInvInductive, PTL
=============================================================================
