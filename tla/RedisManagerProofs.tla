------------------------- MODULE RedisManagerProofs -------------------------
(***************************************************************************)
(* For any number of packets, callers and task threads and whatever fails: *)
(* every packet has one owner, a server that has ended is flushed, and     *)
(* RedisManager implements the request service.                            *)
(***************************************************************************)
EXTENDS RedisManager, SequenceTheorems, TLAPS

\* A packet that is pushed joins the set of those queued.
LEMMA Appended ==
  ASSUME NEW q \in Seq(Packet), NEW p \in Packet
  PROVE  /\ Append(q, p) \in Seq(Packet)
         /\ ToSet(Append(q, p)) = ToSet(q) \cup {p}
         /\ Distinct(q) /\ p \notin ToSet(q) => Distinct(Append(q, p))
<1>1. /\ Append(q, p) \in Seq(Packet)
      /\ DOMAIN q = 1 .. Len(q) /\ Len(q) \in Nat
      /\ DOMAIN Append(q, p) = 1 .. Len(q) + 1
      /\ \A i \in 1 .. Len(q) : Append(q, p)[i] = q[i]
      /\ Append(q, p)[Len(q) + 1] = p
  BY AppendProperties, LenProperties
<1>2. ToSet(Append(q, p)) = ToSet(q) \cup {p}
  <2>1. ASSUME NEW i \in DOMAIN Append(q, p)
        PROVE  Append(q, p)[i] \in ToSet(q) \cup {p}
    BY <1>1 DEF ToSet
  <2>2. ASSUME NEW i \in DOMAIN q PROVE q[i] \in ToSet(Append(q, p))
    <3>1. i \in DOMAIN Append(q, p) /\ Append(q, p)[i] = q[i]
      BY <1>1
    <3> QED
      BY <3>1 DEF ToSet
  <2>3. p \in ToSet(Append(q, p))
    <3>1. Len(q) + 1 \in DOMAIN Append(q, p)
      BY <1>1
    <3> QED
      BY <1>1, <3>1 DEF ToSet
  <2> QED
    BY <2>1, <2>2, <2>3 DEF ToSet
<1>3. Distinct(q) /\ p \notin ToSet(q) => Distinct(Append(q, p))
  BY <1>1 DEF Distinct, ToSet
<1> QED
  BY <1>1, <1>2, <1>3

\* A packet that is popped leaves that set when it is there only once.
LEMMA Popped ==
  ASSUME NEW q \in Seq(Packet), q # <<>>, Distinct(q)
  PROVE  /\ Head(q) \in Packet /\ Head(q) \in ToSet(q)
         /\ Tail(q) \in Seq(Packet)
         /\ ToSet(Tail(q)) = ToSet(q) \ {Head(q)}
         /\ Distinct(Tail(q))
<1>1. /\ Len(q) \in Nat \ {0} /\ DOMAIN q = 1 .. Len(q)
      /\ Tail(q) \in Seq(Packet) /\ Head(q) = q[1]
      /\ DOMAIN Tail(q) = 1 .. Len(q) - 1
      /\ \A i \in 1 .. Len(q) - 1 : Tail(q)[i] = q[i + 1]
      /\ \A i \in 1 .. Len(q) : q[i] \in Packet
  BY EmptySeq, LenProperties, HeadTailProperties, ElementOfSeq
<1>2. Distinct(Tail(q))
  BY <1>1 DEF Distinct
<1>3. ASSUME NEW x
      PROVE  x \in ToSet(Tail(q)) <=> x \in ToSet(q) \ {Head(q)}
  <2>1. ASSUME NEW i \in DOMAIN Tail(q), x = Tail(q)[i]
        PROVE  x \in ToSet(q) \ {Head(q)}
    BY <1>1, <2>1 DEF ToSet, Distinct
  <2>2. ASSUME NEW i \in DOMAIN q, x = q[i], x # Head(q)
        PROVE  x \in ToSet(Tail(q))
    <3>1. i - 1 \in 1 .. Len(q) - 1 /\ Tail(q)[i - 1] = x
      BY <1>1, <2>2
    <3> QED
      BY <1>1, <3>1 DEF ToSet
  <2> QED
    BY <2>1, <2>2 DEF ToSet
<1>4. ToSet(Tail(q)) = ToSet(q) \ {Head(q)}
  BY <1>3
<1>5. Head(q) \in Packet /\ Head(q) \in ToSet(q)
  BY <1>1 DEF ToSet
<1> QED
  BY <1>1, <1>2, <1>4, <1>5

-----------------------------------------------------------------------------

\* What the life of the object says about its threads: none has been created
\* before Init, none is left once End has joined them, and then OutQueue is
\* flushed for good.
Life ==
  /\ phase = "off" => \A t \in Thread : pc[t] = "off"
  /\ phase \in {"flushing", "ended"} => \A t \in Thread : pc[t] = "done"
  /\ phase = "ended" => OutQueue = <<>>

LEMMA LifeInvariant == Spec => [](TypeOK /\ Life)
<1>1. Init => TypeOK /\ Life
  BY RedisAssumption DEF Init, TypeOK, Life, Actor, Phase, PC
<1>2. TypeOK /\ Life /\ [Next]_vars => TypeOK' /\ Life'
  <2> SUFFICES ASSUME TypeOK, Life, [Next]_vars PROVE TypeOK' /\ Life'
    OBVIOUS
  <2> USE RedisAssumption DEF TypeOK, Life, Actor, Phase, PC, replies
  <2>1. CASE CreateThread
    BY <2>1 DEF CreateThread, memory
  <2>2. CASE DestroyThread
    BY <2>2 DEF DestroyThread, memory
  <2>3. CASE Joined
    BY <2>3 DEF Joined, memory
  <2>4. CASE FlushQueue
    BY <2>4 DEF FlushQueue
  <2>5. ASSUME NEW c \in Caller, NEW p \in Packet, NewPacket(c, p) PROVE TypeOK' /\ Life'
    BY <2>5 DEF NewPacket
  <2>6. ASSUME NEW a \in Actor, PushReqTest(a) PROVE TypeOK' /\ Life'
    BY <2>6 DEF PushReqTest, Return
  <2>7. ASSUME NEW a \in Actor, PushReq(a) PROVE TypeOK' /\ Life'
    BY <2>7 DEF PushReq, Return, memory
  <2>8. CASE GetRes
    <3>1. OutQueue # <<>> /\ Head(OutQueue) \in Packet /\ Tail(OutQueue) \in Seq(Packet)
      BY <2>8, HeadTailProperties DEF GetRes
    <3> QED
      BY <2>8, <3>1 DEF GetRes
  <2>9. ASSUME NEW p \in Packet, Sent(p) PROVE TypeOK' /\ Life'
    BY <2>9 DEF Sent
  <2>10. ASSUME NEW t \in Thread, Connect(t) PROVE TypeOK' /\ Life'
    BY <2>10 DEF Connect, Goto, memory
  <2>11. ASSUME NEW t \in Thread, WhileRunning(t) PROVE TypeOK' /\ Life'
    BY <2>11 DEF WhileRunning, Goto, memory
  <2>12. ASSUME NEW t \in Thread, DequeReq(t) PROVE TypeOK' /\ Life'
    <3>1. InQueue # <<>> => Head(InQueue) \in Packet /\ Tail(InQueue) \in Seq(Packet)
      BY HeadTailProperties
    <3>2. CASE InQueue = <<>>
      <4>1. /\ pc[t] = "deque" /\ pc' = [pc EXCEPT ![t] = "while"]
            /\ UNCHANGED <<phase, InQueue, OutQueue, pkt, broken, heap, popped, replies>>
        BY <2>12, <3>2 DEF DequeReq, Goto, memory
      <4> QED
        BY <4>1
    <3>3. CASE InQueue # <<>>
      <4>1. /\ pc[t] = "deque" /\ pc' = [pc EXCEPT ![t] = "setex"]
            /\ pkt' = [pkt EXCEPT ![t] = Head(InQueue)]
            /\ InQueue' = Tail(InQueue)
            /\ UNCHANGED <<phase, OutQueue, broken, heap, popped, replies>>
        BY <2>12, <3>3 DEF DequeReq, Goto, memory
      <4>2. Head(InQueue) \in Packet /\ Tail(InQueue) \in Seq(Packet)
        BY <3>1, <3>3
      <4> HIDE DEF Phase
      <4> QED
        BY <4>1, <4>2
    <3> QED
      BY <3>2, <3>3
  <2>13. ASSUME NEW t \in Thread, SetEx(t) PROVE TypeOK' /\ Life'
    BY <2>13 DEF SetEx, Execute, Deny, Goto, memory
  <2>14. ASSUME NEW t \in Thread, PushResult(t) PROVE TypeOK' /\ Life'
    BY <2>14 DEF PushResult, Return, memory
  <2>15. CASE UNCHANGED vars
    BY <2>15 DEF vars, memory
  <2> QED
    BY <2>1, <2>2, <2>3, <2>4, <2>5, <2>6, <2>7, <2>8, <2>9, <2>10, <2>11, <2>12,
       <2>13, <2>14, <2>15 DEF Next, CallerStep, ThreadStep
<1> QED
  BY <1>1, <1>2, PTL DEF Spec

\* Type correctness, for every value of the constants.
THEOREM TypeCorrect == Spec => []TypeOK
BY LifeInvariant, PTL

\* A server that has ended is flushed and stays so: the flush follows the
\* joins, and only a task thread pushes onto OutQueue.
THEOREM EndFlushes == Spec => []EndedIsFlushed
<1>1. TypeOK /\ Life => EndedIsFlushed
  BY DEF Life, EndedIsFlushed
<1> QED
  BY <1>1, LifeInvariant, PTL
-----------------------------------------------------------------------------
(* The owner of a packet: OneOwner in parts, held being the set of the     *)
(* packets that threads hold.                                              *)

held == {pkt[a] : a \in Holding}

Injective == \A a, b \in Holding : pkt[a] = pkt[b] => a = b

Apart ==
  /\ ToSet(InQueue) \cap ToSet(OutQueue) = {}
  /\ held \cap (ToSet(InQueue) \cup ToSet(OutQueue)) = {}
  /\ popped \cap (held \cup ToSet(InQueue) \cup ToSet(OutQueue)) = {}
  /\ heap = held \cup ToSet(InQueue) \cup ToSet(OutQueue) \cup popped

Owners == Distinct(InQueue) /\ Distinct(OutQueue) /\ Injective /\ Apart

\* A thread that comes to hold a packet nobody held.
LEMMA Takes ==
  ASSUME TypeOK, Injective, NEW a \in Actor, pkt[a] = nullptr,
         NEW p \in Packet, p \notin held, pkt' = [pkt EXCEPT ![a] = p]
  PROVE  Injective' /\ held' = held \cup {p}
<1>1. /\ pkt'[a] = p /\ p # nullptr
      /\ \A b \in Actor : b # a => pkt'[b] = pkt[b]
  BY RedisAssumption DEF TypeOK
<1>2. Holding' = Holding \cup {a} /\ a \notin Holding
  BY <1>1 DEF Holding
<1>3. \A b \in Holding : pkt'[b] = pkt[b] /\ pkt[b] # p
  BY <1>1, <1>2 DEF Holding, held
<1>4. Injective'
  BY <1>1, <1>2, <1>3 DEF Injective
<1>5. held' = held \cup {p}
  BY <1>1, <1>2, <1>3 DEF held
<1> QED
  BY <1>4, <1>5

\* A thread that gives its packet away.
LEMMA Gives ==
  ASSUME TypeOK, Injective, NEW a \in Actor, pkt[a] # nullptr,
         pkt' = [pkt EXCEPT ![a] = nullptr]
  PROVE  Injective' /\ held' = held \ {pkt[a]} /\ pkt[a] \in held /\ pkt[a] \in Packet
<1>1. /\ pkt'[a] = nullptr
      /\ \A b \in Actor : b # a => pkt'[b] = pkt[b]
  BY DEF TypeOK
<1>2. Holding' = Holding \ {a} /\ a \in Holding
  BY <1>1 DEF Holding
<1>3. \A b \in Holding : b # a => pkt'[b] = pkt[b] /\ pkt[b] # pkt[a]
  BY <1>1, <1>2 DEF Holding, Injective
<1>4. Injective'
  BY <1>2, <1>3 DEF Injective
<1>5. held' = held \ {pkt[a]} /\ pkt[a] \in held
  BY <1>2, <1>3 DEF held
<1> QED
  BY <1>4, <1>5 DEF TypeOK

\* A step that moves no pointer.
LEMMA Keeps ==
  ASSUME Injective, UNCHANGED pkt
  PROVE  Injective' /\ held' = held
BY DEF Injective, held, Holding

LEMMA OwnersInvariant == Spec => []Owners
<1>1. Init => Owners
  BY DEF Init, Owners, Injective, Apart, held, Holding, Distinct, ToSet
<1>2. TypeOK /\ Owners /\ [Next]_vars => Owners'
  <2> SUFFICES ASSUME TypeOK, Owners, [Next]_vars PROVE Owners'
    OBVIOUS
  <2>1. CASE CreateThread \/ DestroyThread \/ Joined
    BY <2>1, Keeps DEF CreateThread, DestroyThread, Joined, memory, Owners, Apart
  <2>2. CASE FlushQueue
    <3>1. Distinct(<<>>) /\ ToSet(<<>>) = {}
      BY DEF Distinct, ToSet
    <3> QED
      BY <2>2, <3>1, Keeps DEF FlushQueue, Owners, Apart
  <2>3. ASSUME NEW c \in Caller, NEW p \in Packet, NewPacket(c, p) PROVE Owners'
    <3>1. c \in Actor /\ pkt[c] = nullptr
      BY <2>3 DEF NewPacket, TypeOK, Actor
    <3>2. p \notin held
      BY <2>3 DEF NewPacket, Owners, Apart
    <3>3. Injective' /\ held' = held \cup {p}
      BY <2>3, <3>1, <3>2, Takes DEF NewPacket, Owners
    <3> QED
      BY <2>3, <3>3 DEF NewPacket, Owners, Apart
  <2>4. ASSUME NEW a \in Actor, PushReqTest(a) PROVE Owners'
    <3>1. CASE mIsRun
      BY <2>4, <3>1, Keeps DEF PushReqTest, Owners, Apart
    <3>2. CASE ~mIsRun
      <4>1. /\ pkt' = [pkt EXCEPT ![a] = nullptr] /\ pkt[a] # nullptr
            /\ heap' = heap \ {pkt[a]} /\ UNCHANGED <<InQueue, OutQueue, popped>>
        BY <2>4, <3>2 DEF PushReqTest, Return, TypeOK
      <4> QED
        BY <4>1, Gives DEF Owners, Apart
    <3> QED
      BY <3>1, <3>2
  <2>5. ASSUME NEW a \in Actor, PushReq(a) PROVE Owners'
    <3>1. /\ pkt' = [pkt EXCEPT ![a] = nullptr] /\ pkt[a] # nullptr
          /\ UNCHANGED <<OutQueue, heap, popped>>
      BY <2>5 DEF PushReq, Return, TypeOK, memory
    <3>2. Injective' /\ held' = held \ {pkt[a]} /\ pkt[a] \in held /\ pkt[a] \in Packet
      BY <3>1, Gives DEF Owners
    <3>3. ToSet(InQueue') = ToSet(InQueue) \cup {pkt[a]} /\ Distinct(InQueue')
      BY <2>5, <3>2, Appended DEF PushReq, TypeOK, Owners, Apart
    <3> QED
      BY <3>1, <3>2, <3>3 DEF Owners, Apart
  <2>6. CASE GetRes
    <3>1. /\ Head(OutQueue) \in ToSet(OutQueue) /\ Distinct(OutQueue')
          /\ ToSet(OutQueue') = ToSet(OutQueue) \ {Head(OutQueue)}
      BY <2>6, Popped DEF GetRes, TypeOK, Owners
    <3> QED
      BY <2>6, <3>1, Keeps DEF GetRes, Owners, Apart
  <2>7. ASSUME NEW p \in Packet, Sent(p) PROVE Owners'
    BY <2>7, Keeps DEF Sent, Owners, Apart
  <2>8. ASSUME NEW t \in Thread, Connect(t) \/ WhileRunning(t) \/ SetEx(t) PROVE Owners'
    BY <2>8, Keeps DEF Connect, WhileRunning, SetEx, memory, Owners, Apart
  <2>9. ASSUME NEW t \in Thread, DequeReq(t) PROVE Owners'
    <3>1. CASE InQueue = <<>>
      BY <2>9, <3>1, Keeps DEF DequeReq, memory, Owners, Apart
    <3>2. CASE InQueue # <<>>
      <4> DEFINE p == Head(InQueue)
      <4>1. /\ p \in ToSet(InQueue) /\ p \in Packet /\ Distinct(InQueue')
            /\ ToSet(InQueue') = ToSet(InQueue) \ {p}
        BY <2>9, <3>2, Popped DEF DequeReq, TypeOK, Owners
      <4>2. /\ t \in Actor /\ pkt[t] = nullptr /\ pkt' = [pkt EXCEPT ![t] = p]
            /\ UNCHANGED <<OutQueue, heap, popped>>
        BY <2>9, <3>2 DEF DequeReq, TypeOK, Actor, memory
      <4> HIDE DEF p
      <4>3. p \notin held
        BY <4>1 DEF Owners, Apart
      <4>4. Injective' /\ held' = held \cup {p}
        BY <4>1, <4>2, <4>3, Takes DEF Owners
      <4> QED
        BY <4>1, <4>2, <4>4 DEF Owners, Apart
    <3> QED
      BY <3>1, <3>2
  <2>10. ASSUME NEW t \in Thread, PushResult(t) PROVE Owners'
    <3>1. /\ t \in Actor /\ pkt' = [pkt EXCEPT ![t] = nullptr] /\ pkt[t] # nullptr
          /\ UNCHANGED <<InQueue, heap, popped>>
      BY <2>10 DEF PushResult, Return, TypeOK, Actor, memory
    <3>2. Injective' /\ held' = held \ {pkt[t]} /\ pkt[t] \in held /\ pkt[t] \in Packet
      BY <3>1, Gives DEF Owners
    <3>3. ToSet(OutQueue') = ToSet(OutQueue) \cup {pkt[t]} /\ Distinct(OutQueue')
      BY <2>10, <3>2, Appended DEF PushResult, TypeOK, Owners, Apart
    <3> QED
      BY <3>1, <3>2, <3>3 DEF Owners, Apart
  <2>11. CASE UNCHANGED vars
    BY <2>11, Keeps DEF vars, memory, Owners, Apart
  <2> QED
    BY <2>1, <2>2, <2>3, <2>4, <2>5, <2>6, <2>7, <2>8, <2>9, <2>10, <2>11
       DEF Next, CallerStep, ThreadStep, Actor
<1> QED
  BY <1>1, <1>2, TypeCorrect, PTL DEF Spec

\* Every packet has one owner, for any number of packets and threads.
THEOREM PacketsHaveOneOwner == Spec => []OneOwner
<1>1. Owners => OneOwner
  BY DEF Owners, Apart, Injective, held, OneOwner
<1> QED
  BY <1>1, OwnersInvariant, PTL
-----------------------------------------------------------------------------
(* A packet is handed out only after Redis has answered its command.       *)

Replied == stored \cup denied

\* A thread on its way to PushResult holds a packet whose SETEX was answered.
ResultIsDone == \A t \in Thread : pc[t] = "result" => pkt[t] \in Replied

Done == AnsweredIsDone /\ ResultIsDone

LEMMA DoneInvariant == Spec => []Done
<1> USE DEF Replied, replies
<1>1. Init => Done
  <2>1. ToSet(<<>>) = {}
    BY DEF ToSet
  <2>2. Init => \A t \in Thread : pc[t] = "off"
    BY DEF Init, Actor
  <2> QED
    BY <2>1, <2>2 DEF Init, Done, AnsweredIsDone, ResultIsDone
<1>2. TypeOK /\ Owners /\ Done /\ [Next]_vars => Done'
  <2> SUFFICES ASSUME TypeOK, Owners, Done, [Next]_vars PROVE Done'
    OBVIOUS
  <2>1. CASE CreateThread \/ DestroyThread \/ Joined \/ UNCHANGED vars
    BY <2>1 DEF CreateThread, DestroyThread, Joined, vars, memory, TypeOK,
                Done, AnsweredIsDone, ResultIsDone, Actor
  <2>2. CASE FlushQueue
    <3>1. ToSet(<<>>) = {}
      BY DEF ToSet
    <3> QED
      BY <2>2, <3>1 DEF FlushQueue, Done, AnsweredIsDone, ResultIsDone
  <2>3. ASSUME NEW c \in Caller, NEW p \in Packet, NewPacket(c, p) PROVE Done'
    <3>1. /\ p \notin ToSet(OutQueue) \cup popped \cup held /\ Replied' = Replied \ {p}
          /\ UNCHANGED <<OutQueue, popped>>
      BY <2>3 DEF NewPacket, Owners, Apart
    <3>2. AnsweredIsDone'
      BY <3>1 DEF Done, AnsweredIsDone
    <3>3. ASSUME NEW t \in Thread, pc'[t] = "result" PROVE pkt'[t] \in Replied'
      <4>1. t \in Actor /\ t # c /\ pc[t] = "result" /\ pkt'[t] = pkt[t]
        BY <2>3, <3>3, RedisAssumption DEF NewPacket, TypeOK, Actor
      <4>2. pkt[t] \in held /\ pkt[t] \in Replied
        BY <4>1 DEF held, Holding, TypeOK, Done, ResultIsDone
      <4> QED
        BY <3>1, <4>1, <4>2
    <3> QED
      BY <3>2, <3>3 DEF Done, ResultIsDone
  <2>4. ASSUME NEW a \in Actor, PushReqTest(a) \/ PushReq(a) PROVE Done'
    <3>1. /\ UNCHANGED <<OutQueue, popped, Replied>>
          /\ \A t \in Thread : pc'[t] = "result" => pc[t] = "result" /\ pkt'[t] = pkt[t]
      BY <2>4 DEF PushReqTest, PushReq, Return, memory, TypeOK, Actor
    <3> QED
      BY <3>1 DEF Done, AnsweredIsDone, ResultIsDone
  <2>5. CASE GetRes
    <3>1. /\ Head(OutQueue) \in ToSet(OutQueue)
          /\ ToSet(OutQueue') = ToSet(OutQueue) \ {Head(OutQueue)}
      BY <2>5, Popped DEF GetRes, TypeOK, Owners
    <3> QED
      BY <2>5, <3>1 DEF GetRes, Done, AnsweredIsDone, ResultIsDone
  <2>6. ASSUME NEW p \in Packet, Sent(p) PROVE Done'
    BY <2>6 DEF Sent, Done, AnsweredIsDone, ResultIsDone
  <2>7. ASSUME NEW t \in Thread, Connect(t) \/ WhileRunning(t) \/ DequeReq(t) PROVE Done'
    <3>1. /\ UNCHANGED <<OutQueue, popped, Replied>>
          /\ \A u \in Thread : pc'[u] = "result" => pc[u] = "result" /\ pkt'[u] = pkt[u]
      BY <2>7 DEF Connect, WhileRunning, DequeReq, Goto, memory, TypeOK, Actor
    <3> QED
      BY <3>1 DEF Done, AnsweredIsDone, ResultIsDone
  <2>8. ASSUME NEW t \in Thread, SetEx(t) PROVE Done'
    <3>1. /\ UNCHANGED <<OutQueue, popped, pkt>> /\ Replied \subseteq Replied'
          /\ \A u \in Thread : pc'[u] = "result" =>
               pc[u] = "result" \/ (u = t /\ pkt[t] \in Replied')
      BY <2>8 DEF SetEx, Execute, Deny, Goto, memory, TypeOK, Actor
    <3> QED
      BY <3>1 DEF Done, AnsweredIsDone, ResultIsDone
  <2>9. ASSUME NEW t \in Thread, PushResult(t) PROVE Done'
    <3>1. pkt[t] \in Replied /\ pkt[t] \in Packet
      BY <2>9 DEF PushResult, Done, ResultIsDone, TypeOK
    <3>2. ToSet(OutQueue') = ToSet(OutQueue) \cup {pkt[t]}
      BY <2>9, <3>1, Appended DEF PushResult, TypeOK
    <3>3. /\ UNCHANGED <<popped, Replied>>
          /\ \A u \in Thread : pc'[u] = "result" => pc[u] = "result" /\ pkt'[u] = pkt[u]
      BY <2>9 DEF PushResult, Return, memory, TypeOK, Actor
    <3> QED
      BY <3>1, <3>2, <3>3 DEF Done, AnsweredIsDone, ResultIsDone
  <2> QED
    BY <2>1, <2>2, <2>3, <2>4, <2>5, <2>6, <2>7, <2>8, <2>9
       DEF Next, CallerStep, ThreadStep, Actor
<1> QED
  BY <1>1, <1>2, TypeCorrect, OwnersInvariant, PTL DEF Spec

\* What GetRes returns has been answered by Redis, by storing it or by an error,
\* however many connections are lost and commands are retried.
THEOREM AnswersAreDone == Spec => []AnsweredIsDone
<1>1. Done => AnsweredIsDone
  BY DEF Done
<1> QED
  BY <1>1, DoneInvariant, PTL

-----------------------------------------------------------------------------
(* The refinement.  Accepted is the set of the packets InService speaks of. *)

Serves(a) == a \in Thread \/ pc[a] = "push"
Carried == {pkt[a] : a \in {b \in Holding : Serves(b)}}
Accepted == ToSet(InQueue) \cup Carried

Ones(S) == [p \in Packet |-> IF p \in S THEN 1 ELSE 0]

LEMMA MappedState ==
  ASSUME TypeOK, TypeOK'
  PROVE  /\ Waiting = Ones(Accepted)
         /\ Ready = Ones(ToSet(OutQueue))
         /\ Waiting' = Ones(Accepted')
         /\ Ready' = Ones(ToSet(OutQueue)')
BY DEF Waiting, Ready, Ones, InService, Accepted, Carried, Serves

\* Adding a member to a set, taking one out, and dropping some.
LEMMA OnesAdd ==
  ASSUME NEW S, NEW p \in Packet, p \notin S
  PROVE  Ones(S \cup {p}) = [Ones(S) EXCEPT ![p] = @ + 1]
<1> DEFINE f == Ones(S \cup {p})
           g == [Ones(S) EXCEPT ![p] = @ + 1]
<1>1. f = [q \in Packet |-> f[q]] /\ g = [q \in Packet |-> g[q]]
  BY DEF Ones
<1>2. \A q \in Packet : f[q] = g[q]
  BY DEF Ones
<1> HIDE DEF f, g
<1> QED
  BY <1>1, <1>2 DEF f, g

LEMMA OnesRemove ==
  ASSUME NEW S, NEW p \in Packet, p \in S
  PROVE  /\ Ones(S \ {p}) = [Ones(S) EXCEPT ![p] = @ - 1]
         /\ Ones(S)[p] > 0
<1> DEFINE f == Ones(S \ {p})
           g == [Ones(S) EXCEPT ![p] = @ - 1]
<1>1. f = [q \in Packet |-> f[q]] /\ g = [q \in Packet |-> g[q]]
  BY DEF Ones
<1>2. \A q \in Packet : f[q] = g[q]
  BY DEF Ones
<1>3. Ones(S)[p] > 0
  BY DEF Ones
<1> HIDE DEF f, g
<1> QED
  BY <1>1, <1>2, <1>3 DEF f, g

LEMMA OnesDrop ==
  ASSUME NEW S, NEW T, T \subseteq S
  PROVE  Ones(T) \in [Packet -> Nat] /\ \A p \in Packet : Ones(T)[p] <= Ones(S)[p]
BY DEF Ones

\* A step of RedisManager moves no packet into the service or through it but
\* as RequestService allows; these are the six ways.
Stutters == mIsRun' = mIsRun /\ Accepted' = Accepted /\ ToSet(OutQueue)' = ToSet(OutQueue)
Starts   == ~mIsRun /\ mIsRun' /\ Accepted' = Accepted /\ ToSet(OutQueue)' = ToSet(OutQueue)
Drops    == ~mIsRun' /\ Accepted' \subseteq Accepted /\ ToSet(OutQueue)' \subseteq ToSet(OutQueue)
Pushes   == \E p \in Packet \ Accepted :
              mIsRun' = mIsRun /\ Accepted' = Accepted \cup {p} /\ ToSet(OutQueue)' = ToSet(OutQueue)
Answers  == \E p \in Accepted \ ToSet(OutQueue) :
              /\ p \in Packet /\ mIsRun' = mIsRun
              /\ Accepted' = Accepted \ {p} /\ ToSet(OutQueue)' = ToSet(OutQueue) \cup {p}
Pops     == \E p \in ToSet(OutQueue) :
              /\ p \in Packet /\ mIsRun' = mIsRun
              /\ Accepted' = Accepted /\ ToSet(OutQueue)' = ToSet(OutQueue) \ {p}

LEMMA Refines ==
  ASSUME TypeOK, TypeOK',
         Stutters \/ Starts \/ Drops \/ Pushes \/ Answers \/ Pops
  PROVE  [Service!Next]_(Service!vars)
<1>1. /\ Waiting = Ones(Accepted) /\ Ready = Ones(ToSet(OutQueue))
      /\ Waiting' = Ones(Accepted') /\ Ready' = Ones(ToSet(OutQueue)')
  BY MappedState
<1>2. mIsRun \in BOOLEAN /\ mIsRun' \in BOOLEAN
  BY DEF mIsRun
<1>3. CASE Stutters
  BY <1>1, <1>3 DEF Stutters, Service!vars
<1>4. CASE Starts
  BY <1>1, <1>2, <1>4 DEF Starts, Service!Next, Service!Start
<1>5. CASE Drops
  BY <1>1, <1>2, <1>5, OnesDrop DEF Drops, Service!Next, Service!Drop
<1>6. CASE Pushes
  <2>1. PICK p \in Packet \ Accepted :
          mIsRun' = mIsRun /\ Accepted' = Accepted \cup {p} /\ ToSet(OutQueue)' = ToSet(OutQueue)
    BY <1>6 DEF Pushes
  <2>2. Waiting' = [Waiting EXCEPT ![p] = @ + 1] /\ Ready' = Ready
    BY <1>1, <2>1, OnesAdd
  <2> QED
    BY <2>1, <2>2 DEF Service!Next, Service!PushReq
<1>7. CASE Answers
  <2>1. PICK p \in Accepted \ ToSet(OutQueue) :
          /\ p \in Packet /\ mIsRun' = mIsRun
          /\ Accepted' = Accepted \ {p} /\ ToSet(OutQueue)' = ToSet(OutQueue) \cup {p}
    BY <1>7 DEF Answers
  <2>2. Waiting' = [Waiting EXCEPT ![p] = @ - 1] /\ Waiting[p] > 0
    BY <1>1, <2>1, OnesRemove
  <2>3. Ready' = [Ready EXCEPT ![p] = @ + 1]
    BY <1>1, <2>1, OnesAdd
  <2> QED
    BY <2>1, <2>2, <2>3 DEF Service!Next, Service!Serve
<1>8. CASE Pops
  <2>1. PICK p \in ToSet(OutQueue) :
          /\ p \in Packet /\ mIsRun' = mIsRun
          /\ Accepted' = Accepted /\ ToSet(OutQueue)' = ToSet(OutQueue) \ {p}
    BY <1>8 DEF Pops
  <2>2. Ready' = [Ready EXCEPT ![p] = @ - 1] /\ Ready[p] > 0 /\ Waiting' = Waiting
    BY <1>1, <2>1, OnesRemove
  <2> QED
    BY <2>1, <2>2 DEF Service!Next, Service!PopRes
<1> QED
  BY <1>3, <1>4, <1>5, <1>6, <1>7, <1>8

\* What becomes of the packets carried when thread a takes or gives one, and
\* no other thread moves.
OthersStay(a) == \A b \in Actor \ {a} : pkt'[b] = pkt[b] /\ (Serves(b)' <=> Serves(b))

LEMMA CarriedKeeps ==
  ASSUME pkt' = pkt, \A b \in Actor : Serves(b)' <=> Serves(b)
  PROVE  Carried' = Carried
<1>1. Holding' = Holding /\ Holding \subseteq Actor
  BY DEF Holding
<1> QED
  BY <1>1 DEF Carried

LEMMA CarriedTakes ==
  ASSUME NEW a \in Actor, pkt[a] = nullptr, pkt'[a] # nullptr, OthersStay(a)
  PROVE  Carried' = IF Serves(a)' THEN Carried \cup {pkt'[a]} ELSE Carried
<1>1. \A b \in Actor : b # a => (b \in Holding' <=> b \in Holding)
  BY DEF Holding, OthersStay
<1>2. a \in Holding' /\ a \notin Holding /\ Holding \subseteq Actor /\ Holding' \subseteq Actor
  BY DEF Holding
<1> QED
  BY <1>1, <1>2 DEF Carried, OthersStay

LEMMA CarriedGives ==
  ASSUME Injective, NEW a \in Actor, pkt[a] # nullptr, pkt'[a] = nullptr, OthersStay(a)
  PROVE  Carried' = IF Serves(a) THEN Carried \ {pkt[a]} ELSE Carried
<1>1. \A b \in Actor : b # a => (b \in Holding' <=> b \in Holding)
  BY DEF Holding, OthersStay
<1>2. a \notin Holding' /\ a \in Holding /\ Holding \subseteq Actor /\ Holding' \subseteq Actor
  BY DEF Holding
<1>3. \A b \in Holding : b # a => pkt[b] # pkt[a]
  BY <1>2 DEF Injective
<1> QED
  BY <1>1, <1>2, <1>3 DEF Carried, OthersStay

\* What each step does to the packets in the service.
LEMMA Moves ==
  ASSUME TypeOK, TypeOK', Owners, [Next]_vars
  PROVE  Stutters \/ Starts \/ Drops \/ Pushes \/ Answers \/ Pops
<1>1. CASE CreateThread
  <2>1. Carried' = Carried
    BY <1>1, CarriedKeeps DEF CreateThread, Serves, TypeOK, Actor
  <2> QED
    BY <1>1, <2>1 DEF CreateThread, Starts, mIsRun, Accepted
<1>2. CASE DestroyThread
  <2>1. Carried' = Carried
    BY <1>2, CarriedKeeps DEF DestroyThread, Serves
  <2> QED
    BY <1>2, <2>1 DEF DestroyThread, Drops, mIsRun, Accepted
<1>3. CASE Joined \/ UNCHANGED vars
  <2>1. Carried' = Carried
    BY <1>3, CarriedKeeps DEF Joined, Serves, vars, memory
  <2> QED
    BY <1>3, <2>1 DEF Joined, Stutters, mIsRun, Accepted, vars, memory
<1>4. CASE FlushQueue
  <2>1. ToSet(<<>>) = {} /\ Carried' = Carried
    BY <1>4, CarriedKeeps DEF FlushQueue, Serves, ToSet
  <2> QED
    BY <1>4, <2>1 DEF FlushQueue, Drops, mIsRun, Accepted
<1>5. ASSUME NEW c \in Caller, NEW p \in Packet, NewPacket(c, p) PROVE Stutters
  <2>1. c \in Actor /\ ~Serves(c)' /\ OthersStay(c) /\ pkt[c] = nullptr /\ pkt'[c] # nullptr
    BY <1>5, RedisAssumption DEF NewPacket, Serves, OthersStay, TypeOK, Actor
  <2>2. Carried' = Carried
    BY <2>1, CarriedTakes
  <2> QED
    BY <1>5, <2>2 DEF NewPacket, Stutters, mIsRun, Accepted
<1>6. ASSUME NEW a \in Actor, PushReqTest(a) PROVE Stutters \/ Drops \/ Pushes
  <2>1. CASE ~mIsRun
    <3>1. /\ pkt[a] # nullptr /\ pkt'[a] = nullptr /\ OthersStay(a)
          /\ ~mIsRun' /\ UNCHANGED <<InQueue, OutQueue>>
      BY <1>6, <2>1 DEF PushReqTest, Return, Serves, OthersStay, TypeOK, mIsRun
    <3>2. Carried' \subseteq Carried
      BY <3>1, CarriedGives DEF Owners
    <3> QED
      BY <3>1, <3>2 DEF Drops, Accepted
  <2>2. CASE mIsRun /\ a \in Thread
    <3>1. Carried' = Carried
      BY <1>6, <2>2, CarriedKeeps DEF PushReqTest, Serves, TypeOK, mIsRun
    <3> QED
      BY <1>6, <2>2, <3>1 DEF PushReqTest, Stutters, Accepted, mIsRun
  <2>3. CASE mIsRun /\ a \notin Thread
    <3>1. /\ pkt' = pkt /\ mIsRun' = mIsRun /\ UNCHANGED <<InQueue, OutQueue>>
          /\ a \in Holding /\ pkt[a] \in Packet
          /\ ~Serves(a) /\ Serves(a)' /\ \A b \in Actor \ {a} : Serves(b)' <=> Serves(b)
      BY <1>6, <2>3 DEF PushReqTest, Serves, Holding, TypeOK, mIsRun
    <3>2. pkt[a] \notin Accepted
      BY <3>1 DEF Accepted, Carried, Owners, Apart, Injective, held
    <3>3. Carried' = Carried \cup {pkt[a]}
      <4>1. Holding' = Holding /\ Holding \subseteq Actor
        BY <3>1 DEF Holding
      <4> QED
        BY <3>1, <4>1 DEF Carried
    <3> QED
      BY <3>1, <3>2, <3>3 DEF Pushes, Accepted
  <2> QED
    BY <2>1, <2>2, <2>3
<1>7. ASSUME NEW a \in Actor, PushReq(a) PROVE Stutters
  <2>1. /\ pkt[a] # nullptr /\ pkt'[a] = nullptr /\ OthersStay(a) /\ Serves(a)
        /\ pkt[a] \in Packet /\ mIsRun' = mIsRun /\ UNCHANGED OutQueue
    BY <1>7 DEF PushReq, Return, Serves, OthersStay, TypeOK, mIsRun
  <2>2. Carried' = Carried \ {pkt[a]} /\ pkt[a] \in Carried
    BY <2>1, CarriedGives DEF Owners, Carried, Holding
  <2>3. ToSet(InQueue') = ToSet(InQueue) \cup {pkt[a]}
    BY <1>7, <2>1, Appended DEF PushReq, TypeOK
  <2> QED
    BY <2>1, <2>2, <2>3 DEF Stutters, Accepted
<1>8. CASE GetRes
  <2>1. /\ Head(OutQueue) \in ToSet(OutQueue) /\ Head(OutQueue) \in Packet
        /\ ToSet(OutQueue') = ToSet(OutQueue) \ {Head(OutQueue)}
    BY <1>8, Popped DEF GetRes, TypeOK, Owners
  <2>2. Carried' = Carried
    BY <1>8, CarriedKeeps DEF GetRes, Serves
  <2> QED
    BY <1>8, <2>1, <2>2 DEF GetRes, Pops, Accepted, mIsRun
<1>9. ASSUME NEW p \in Packet, Sent(p) PROVE Stutters
  <2>1. Carried' = Carried
    BY <1>9, CarriedKeeps DEF Sent, Serves
  <2> QED
    BY <1>9, <2>1 DEF Sent, Stutters, Accepted, mIsRun
<1>10. ASSUME NEW t \in Thread, Connect(t) \/ WhileRunning(t) \/ SetEx(t) PROVE Stutters
  <2>1. Carried' = Carried
    BY <1>10, CarriedKeeps DEF Connect, WhileRunning, SetEx, Goto, Serves, TypeOK
  <2> QED
    BY <1>10, <2>1 DEF Connect, WhileRunning, SetEx, Stutters, Accepted, mIsRun, memory
<1>11. ASSUME NEW t \in Thread, DequeReq(t) PROVE Stutters
  <2>1. CASE InQueue = <<>>
    <3>1. Carried' = Carried
      BY <1>11, <2>1, CarriedKeeps DEF DequeReq, Goto, Serves, TypeOK
    <3> QED
      BY <1>11, <2>1, <3>1 DEF DequeReq, Stutters, Accepted, mIsRun
  <2>2. CASE InQueue # <<>>
    <3> DEFINE p == Head(InQueue)
    <3>1. p \in ToSet(InQueue) /\ p \in Packet /\ ToSet(InQueue') = ToSet(InQueue) \ {p}
      BY <1>11, <2>2, Popped DEF DequeReq, TypeOK, Owners
    <3>2. /\ t \in Actor /\ pkt[t] = nullptr /\ pkt'[t] = p /\ OthersStay(t)
          /\ Serves(t)' /\ UNCHANGED <<phase, OutQueue>>
      BY <1>11, <2>2 DEF DequeReq, Goto, Serves, OthersStay, TypeOK, Actor
    <3> HIDE DEF p
    <3>3. Carried' = Carried \cup {p}
      BY <3>1, <3>2, CarriedTakes, RedisAssumption
    <3> QED
      BY <3>1, <3>2, <3>3 DEF Stutters, Accepted, mIsRun
  <2> QED
    BY <2>1, <2>2
<1>12. ASSUME NEW t \in Thread, PushResult(t) PROVE Answers
  <2>1. /\ t \in Actor /\ pkt[t] # nullptr /\ pkt'[t] = nullptr /\ OthersStay(t) /\ Serves(t)
        /\ pkt[t] \in Packet /\ UNCHANGED <<phase, InQueue>>
    BY <1>12 DEF PushResult, Return, Serves, OthersStay, TypeOK, Actor
  <2>2. Carried' = Carried \ {pkt[t]} /\ pkt[t] \in Carried /\ pkt[t] \in held
    BY <2>1, CarriedGives DEF Owners, Carried, Holding, held
  <2>3. ToSet(OutQueue') = ToSet(OutQueue) \cup {pkt[t]}
    BY <1>12, <2>1, Appended DEF PushResult, TypeOK
  <2>4. pkt[t] \notin ToSet(InQueue) /\ pkt[t] \notin ToSet(OutQueue)
    BY <2>2 DEF Owners, Apart
  <2> QED
    BY <2>1, <2>2, <2>3, <2>4 DEF Answers, Accepted, mIsRun
<1> QED
  BY <1>1, <1>2, <1>3, <1>4, <1>5, <1>6, <1>7, <1>8, <1>9, <1>10, <1>11, <1>12
     DEF Next, CallerStep, ThreadStep, Actor

\* RedisManager is a request service whose answers are packets: while
\* it runs it loses none and hands none out twice, for any number of threads.
THEOREM RedisServes == Spec => ImplementsService
<1>1. Init => Service!Init
  BY DEF Init, Service!Init, Waiting, Ready, InService, Holding, mIsRun, ToSet
<1>2. TypeOK /\ TypeOK' /\ Owners /\ [Next]_vars => [Service!Next]_(Service!vars)
  BY Moves, Refines
<1> QED
  BY <1>1, <1>2, TypeCorrect, OwnersInvariant, PTL DEF Spec, ImplementsService, Service!Spec
=============================================================================
