---------------------------- MODULE RedisManager ----------------------------
(***************************************************************************)
(* RedisManager: callers push packets (SendPacketData) onto InQueue, the   *)
(* task threads store each packet's token in Redis and move the packet to  *)
(* OutQueue, from which a sender thread takes it.  A packet is passed by   *)
(* pointer from one owner to the next.  The two queues have a mutex each;  *)
(* mIsRun has none.                                                        *)
(***************************************************************************)
EXTENDS Naturals, Sequences, SequencesExt

CONSTANTS
  Packet,    \* the addresses operator new may return for a SendPacketData
  Caller,    \* the threads that call PushReq
  Thread,    \* the task threads (REDIS_THREADS of them)
  nullptr,
  Fault      \* what may go wrong with Redis

\* "refused": no connection; "lost": a command without a reply, after which
\* hiredis answers every command on that context with NULL; "error": an error
\* reply.
ASSUME RedisAssumption ==
  /\ nullptr \notin Packet
  /\ Caller \cap Thread = {}
  /\ Fault \subseteq {"refused", "lost", "error"}

Actor == Caller \cup Thread

VARIABLES
  phase,      \* of the object: Init and End, up to their returns
  InQueue, OutQueue,
  pc, pkt,    \* per thread: where it is, and the packet it holds
  broken,     \* per task thread: whether its redisContext has an error
  heap,       \* the packets allocated and not deleted
  popped,     \* those that GetRes gave away
  stored,     \* those whose SETEX Redis has executed
  denied      \* those whose SETEX Redis has answered with an error

memory  == <<heap, popped>>
replies == <<stored, denied>>
vars    == <<phase, InQueue, OutQueue, pc, pkt, broken, memory, replies>>

Phase == {"off", "running", "joining", "flushing", "ended"}
PC == {"off", "connect", "while", "deque", "setex", "result", "done",
       "idle", "test", "push"}

Init ==
  /\ phase = "off"
  /\ InQueue = <<>>
  /\ OutQueue = <<>>
  /\ pc = [a \in Actor |-> IF a \in Thread THEN "off" ELSE "idle"]
  /\ pkt = [a \in Actor |-> nullptr]
  /\ broken = [t \in Thread |-> FALSE]
  /\ heap = {}
  /\ popped = {}
  /\ stored = {}
  /\ denied = {}

mIsRun == phase = "running"

-----------------------------------------------------------------------------
(* Init and End, called by the main thread.                                *)

CreateThread ==
  /\ phase = "off"
  /\ phase' = "running"
  /\ pc' = [a \in Actor |-> IF a \in Thread THEN "connect" ELSE pc[a]]
  /\ UNCHANGED <<InQueue, OutQueue, pkt, broken, memory, replies>>

\* End, up to the joins of DestroyThread.
DestroyThread ==
  /\ phase = "running"
  /\ phase' = "joining"
  /\ UNCHANGED <<InQueue, OutQueue, pc, pkt, broken, memory, replies>>

\* Fault: the task threads are not joined first.
JoinedNobody ==
  /\ phase = "joining"
  /\ phase' = "flushing"
  /\ UNCHANGED <<InQueue, OutQueue, pc, pkt, broken, memory, replies>>

Joined ==
  /\ phase = "joining"
  /\ \A t \in Thread : pc[t] = "done"
  /\ phase' = "flushing"
  /\ UNCHANGED <<InQueue, OutQueue, pc, pkt, broken, memory, replies>>

\* FlushQueue deletes what is in OutQueue; nobody empties InQueue.
FlushQueue ==
  /\ phase = "flushing"
  /\ phase' = "ended"
  /\ heap' = heap \ ToSet(OutQueue)
  /\ OutQueue' = <<>>
  /\ UNCHANGED <<InQueue, pc, pkt, broken, popped, replies>>

-----------------------------------------------------------------------------
(* PushReq, of a caller with a new packet or of a task thread that retries. *)

\* Fault: the pointer is kept.
ReturnHolding(a) ==
  /\ pc' = [pc EXCEPT ![a] = IF a \in Thread THEN "while" ELSE "idle"]
  /\ UNCHANGED pkt

Return(a) ==
  /\ pc' = [pc EXCEPT ![a] = IF a \in Thread THEN "while" ELSE "idle"]
  /\ pkt' = [pkt EXCEPT ![a] = nullptr]

\* A caller has made a packet.
NewPacket(c, p) ==
  /\ pc[c] = "idle"
  /\ p \notin heap
  /\ heap' = heap \cup {p}
  /\ stored' = stored \ {p}
  /\ denied' = denied \ {p}
  /\ pkt' = [pkt EXCEPT ![c] = p]
  /\ pc' = [pc EXCEPT ![c] = "test"]
  /\ UNCHANGED <<phase, InQueue, OutQueue, broken, popped>>

\* Fault: the return after the delete is missing.
PushReqTestNoReturn(a) ==
  /\ pc[a] = "test"
  /\ heap' = IF mIsRun THEN heap ELSE heap \ {pkt[a]}
  /\ pc' = [pc EXCEPT ![a] = "push"]
  /\ UNCHANGED <<phase, InQueue, OutQueue, pkt, broken, popped, replies>>

\* The test of mIsRun, without the lock.
PushReqTest(a) ==
  /\ pc[a] = "test"
  /\ \/ /\ mIsRun
        /\ pc' = [pc EXCEPT ![a] = "push"]
        /\ UNCHANGED <<pkt, heap>>
     \/ /\ ~mIsRun
        /\ heap' = heap \ {pkt[a]}
        /\ Return(a)
  /\ UNCHANGED <<phase, InQueue, OutQueue, broken, popped, replies>>

PushReq(a) ==
  /\ pc[a] = "push"
  /\ InQueue' = Append(InQueue, pkt[a])
  /\ Return(a)
  /\ UNCHANGED <<phase, OutQueue, broken, memory, replies>>

GetRes ==
  /\ OutQueue # <<>>
  /\ popped' = popped \cup {Head(OutQueue)}
  /\ OutQueue' = Tail(OutQueue)
  /\ UNCHANGED <<phase, InQueue, pc, pkt, broken, heap, replies>>

\* The session that sent a packet deletes it.
Sent(p) ==
  /\ p \in popped
  /\ popped' = popped \ {p}
  /\ heap' = heap \ {p}
  /\ UNCHANGED <<phase, InQueue, OutQueue, pc, pkt, broken, replies>>

-----------------------------------------------------------------------------
(* RedisTaskThread.                                                        *)

Goto(t, label) == pc' = [pc EXCEPT ![t] = label]

\* A thread that gets no connection returns for good.
Connect(t) ==
  /\ pc[t] = "connect"
  /\ Goto(t, "while") \/ ("refused" \in Fault /\ Goto(t, "done"))
  /\ UNCHANGED <<phase, InQueue, OutQueue, pkt, broken, memory, replies>>

WhileRunning(t) ==
  /\ pc[t] = "while"
  /\ Goto(t, IF mIsRun THEN "deque" ELSE "done")
  /\ UNCHANGED <<phase, InQueue, OutQueue, pkt, broken, memory, replies>>

\* Fault: the newest packet is served first.
DequeNewest(t) ==
  /\ pc[t] = "deque"
  /\ \/ InQueue = <<>> /\ Goto(t, "while") /\ UNCHANGED <<InQueue, pkt>>
     \/ /\ InQueue # <<>>
        /\ pkt' = [pkt EXCEPT ![t] = Last(InQueue)]
        /\ InQueue' = Front(InQueue)
        /\ Goto(t, "setex")
  /\ UNCHANGED <<phase, OutQueue, broken, memory, replies>>

DequeReq(t) ==
  /\ pc[t] = "deque"
  /\ \/ InQueue = <<>> /\ Goto(t, "while") /\ UNCHANGED <<InQueue, pkt>>
     \/ /\ InQueue # <<>>
        /\ pkt' = [pkt EXCEPT ![t] = Head(InQueue)]
        /\ InQueue' = Tail(InQueue)
        /\ Goto(t, "setex")
  /\ UNCHANGED <<phase, OutQueue, broken, memory, replies>>

Execute(p) == stored' = stored \cup {p} /\ UNCHANGED denied
Deny(p)    == denied' = denied \cup {p} /\ UNCHANGED stored

\* Fault: a thread repeats its command until there is a reply.
SetExUntilReply(t) ==
  /\ pc[t] = "setex"
  /\ \/ ~broken[t] /\ Execute(pkt[t]) /\ Goto(t, "result") /\ UNCHANGED broken
     \/ broken' = [broken EXCEPT ![t] = TRUE] /\ UNCHANGED <<replies, pc>>
  /\ UNCHANGED <<phase, InQueue, OutQueue, pkt, memory>>

\* Fault: a command without a reply counts as done.
SetExAssumed(t) ==
  /\ pc[t] = "setex"
  /\ \/ ~broken[t] /\ Execute(pkt[t]) /\ UNCHANGED broken
     \/ broken' = [broken EXCEPT ![t] = TRUE] /\ UNCHANGED replies
  /\ Goto(t, "result")
  /\ UNCHANGED <<phase, InQueue, OutQueue, pkt, memory>>

\* redisCommand: any reply, an error reply too, leads to PushResult, and no
\* reply to PushReq again.  A lost reply may be that of an executed command.
SetEx(t) ==
  /\ pc[t] = "setex"
  /\ \/ /\ ~broken[t]
        /\ Execute(pkt[t]) \/ ("error" \in Fault /\ Deny(pkt[t]))
        /\ Goto(t, "result")
        /\ UNCHANGED broken
     \/ /\ ~broken[t]
        /\ "lost" \in Fault
        /\ Execute(pkt[t]) \/ UNCHANGED replies
        /\ broken' = [broken EXCEPT ![t] = TRUE]
        /\ Goto(t, "test")
     \/ /\ broken[t]
        /\ Goto(t, "test")
        /\ UNCHANGED <<broken, replies>>
  /\ UNCHANGED <<phase, InQueue, OutQueue, pkt, memory>>

\* Fault: the packet is deleted once its token is stored.
PushResultDropped(t) ==
  /\ pc[t] = "result"
  /\ heap' = heap \ {pkt[t]}
  /\ Return(t)
  /\ UNCHANGED <<phase, InQueue, OutQueue, broken, popped, replies>>

PushResult(t) ==
  /\ pc[t] = "result"
  /\ OutQueue' = Append(OutQueue, pkt[t])
  /\ Return(t)
  /\ UNCHANGED <<phase, InQueue, broken, memory, replies>>

ThreadStep(t) ==
  \/ Connect(t) \/ WhileRunning(t) \/ DequeReq(t) \/ SetEx(t) \/ PushResult(t)
  \/ PushReqTest(t) \/ PushReq(t)

CallerStep(c) == PushReqTest(c) \/ PushReq(c)

Next ==
  \/ CreateThread \/ DestroyThread \/ Joined \/ FlushQueue
  \/ \E c \in Caller : CallerStep(c) \/ (\E p \in Packet : NewPacket(c, p))
  \/ \E t \in Thread : ThreadStep(t)
  \/ GetRes \/ \E p \in Packet : Sent(p)

Spec == Init /\ [][Next]_vars

\* The OS runs every thread, and redisCommand returns: with a reply, or with
\* NULL when the connection is gone.  Nothing makes a caller push, a sender
\* pop, or main call End.
Fairness ==
  /\ \A t \in Thread : WF_vars(ThreadStep(t))
  /\ \A c \in Caller : WF_vars(CallerStep(c))
  /\ WF_vars(Joined) /\ WF_vars(FlushQueue)

FairSpec == Spec /\ Fairness

-----------------------------------------------------------------------------
(* Properties.                                                             *)

\* Every variable has its type: what a queue holds is a packet, and a thread
\* that has one to push or to store holds one.
TypeOK ==
  /\ phase \in Phase
  /\ InQueue \in Seq(Packet)
  /\ OutQueue \in Seq(Packet)
  /\ pc \in [Actor -> PC]
  /\ pkt \in [Actor -> Packet \cup {nullptr}]
  /\ \A a \in Actor : pc[a] \in {"test", "push", "setex", "result"} <=> pkt[a] # nullptr
  /\ broken \in [Thread -> BOOLEAN]
  /\ heap \subseteq Packet
  /\ popped \subseteq Packet
  /\ stored \subseteq Packet
  /\ denied \subseteq Packet

Holding == {a \in Actor : pkt[a] # nullptr}

Distinct(q) == \A i, j \in DOMAIN q : q[i] = q[j] => i = j

\* Every allocated packet has one owner, and no deleted packet has any: the
\* pointer is in one of the queues, once, or with one thread, or with the
\* session that sends it, through retries, through the delete in PushReq and
\* through the flush of a stopped server.
OneOwner ==
  LET held == {pkt[a] : a \in Holding} IN
  /\ Distinct(InQueue) /\ Distinct(OutQueue)
  /\ \A a, b \in Holding : pkt[a] = pkt[b] => a = b
  /\ ToSet(InQueue) \cap ToSet(OutQueue) = {}
  /\ held \cap (ToSet(InQueue) \cup ToSet(OutQueue)) = {}
  /\ popped \cap (held \cup ToSet(InQueue) \cup ToSet(OutQueue)) = {}
  /\ heap = held \cup ToSet(InQueue) \cup ToSet(OutQueue) \cup popped

\* A packet comes to OutQueue only after Redis itself has answered a SETEX for
\* it, by storing the token or by an error, which RedisTaskThread does not tell
\* apart (RedisManager.hpp:74-96): a command without a reply, a connection that
\* is gone or a packet of the same address before it never counts as the answer.
AnsweredIsDone == ToSet(OutQueue) \cup popped \subseteq stored \cup denied

\* What GetRes returns is a packet whose work in Redis is done
\* (RedisManager.hpp:123): its token has been stored before the client can
\* get it, whatever connections were lost and commands retried before.
AnsweredIsStored == ToSet(OutQueue) \cup popped \subseteq stored

\* A server that has ended has no task thread left and nothing in OutQueue,
\* and never gets anything there again: the flush comes after the joins.
EndedIsFlushed ==
  phase = "ended" => OutQueue = <<>> /\ \A t \in Thread : pc[t] = "done"

\* A stopped server takes no packet on: PushReq deletes it instead
\* (RedisManager.hpp:109, "do not put it in the queue").
StoppedTakesNothing ==
  [][~mIsRun => Len(InQueue') <= Len(InQueue)]_vars

\* The promise of RequestService, with a packet for a client: while Redis runs
\* no packet is lost between PushReq and GetRes or comes out twice.
InService(p) ==
  \/ p \in ToSet(InQueue)
  \/ \E a \in Holding : pkt[a] = p /\ (a \in Thread \/ pc[a] = "push")
Waiting == [p \in Packet |-> IF InService(p) THEN 1 ELSE 0]
Ready   == [p \in Packet |-> IF p \in ToSet(OutQueue) THEN 1 ELSE 0]
Service == INSTANCE RequestService WITH
             Client <- Packet, running <- mIsRun, waiting <- Waiting, ready <- Ready
ImplementsService == Service!Spec

\* End returns, although a thread may be in the middle of a retry over a
\* connection that is gone for good.
EndReturns == phase = "joining" ~> phase = "ended"

\* While Redis runs, one task thread is connected and no connection is lost,
\* every packet pushed comes to OutQueue: no packet is starved by others.
Alive(t) == pc[t] \notin {"off", "connect", "done"}
Healthy == mIsRun /\ (\E t \in Thread : Alive(t)) /\ \A t \in Thread : ~broken[t]
PacketIsStored ==
  \A p \in Packet : <>[](Healthy /\ p \in heap) => <>[](p \in ToSet(OutQueue) \cup popped)

\* A packet whose command got no reply is put in the queue again because its
\* work is not done (RedisManager.hpp:80): it is done in the end, as long as
\* the server runs.
RetriedIsStored ==
  \A p \in Packet :
    (\E t \in Thread : pc[t] = "test" /\ pkt[t] = p)
      ~> (p \notin heap \/ p \in ToSet(OutQueue) \cup popped \/ ~mIsRun)
=============================================================================
