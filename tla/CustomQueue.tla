---------------------------- MODULE CustomQueue ----------------------------
(***************************************************************************)
(* The linked queue of CustomQueue.hpp (three classes with one body:       *)
(* SendPacketDataQueue, DBRequestQueue, DBResultQueue).  A popped node is  *)
(* not deleted: it goes to FreeList, a stack from which push takes nodes   *)
(* before it allocates one.  Every caller holds a mutex, so a member       *)
(* function is one step; the destructor runs when no caller is left.       *)
(***************************************************************************)
EXTENDS Naturals, FiniteSets

CONSTANTS
  Node,     \* the addresses operator new may return for a node
  Data,     \* the pointers callers push
  nullptr

ASSUME NullAssumption == nullptr \notin Node \cup Data

VARIABLES
  head, tail,   \* Head and Tail: those names belong to module Sequences
  FreeList, mSize,
  next, data,   \* the two members of every node
  heap,         \* the nodes allocated and not deleted
  life          \* "alive", in the destructor's loops, "gone", or "undefined"

links == <<next, data>>
vars  == <<head, tail, FreeList, mSize, links, heap, life>>

NodeOrNull == Node \cup {nullptr}

Init ==
  /\ head = nullptr
  /\ tail = nullptr
  /\ FreeList = nullptr
  /\ mSize = 0
  /\ next = [n \in Node |-> nullptr]
  /\ data = [n \in Node |-> nullptr]
  /\ heap = {}
  /\ life = "alive"

empty == mSize = 0

\* getNewNode's two cases: n comes from operator new, with next null ...
Allocated(n) ==
  /\ FreeList = nullptr
  /\ n \in Node \ heap
  /\ heap' = heap \cup {n}
  /\ UNCHANGED FreeList

\* Fault: the node is not taken off FreeList.
ReusedStillPooled(n) ==
  /\ FreeList # nullptr
  /\ n = FreeList
  /\ UNCHANGED <<FreeList, heap>>

\* ... or from the top of FreeList, with the next it had there.
Reused(n) ==
  /\ FreeList # nullptr
  /\ n = FreeList
  /\ FreeList' = next[FreeList]
  /\ UNCHANGED heap

getNewNode(n) == Allocated(n) \/ Reused(n)

\* Fault: the tail of a queue that is not empty stays where it is.
pushKeepingTail(d) ==
  /\ life = "alive"
  /\ \E n \in Node :
       /\ getNewNode(n)
       /\ data' = [data EXCEPT ![n] = d]
       /\ next' = IF empty THEN next ELSE [next EXCEPT ![tail] = n]
       /\ head' = IF empty THEN n ELSE head
       /\ tail' = IF empty THEN n ELSE tail
  /\ mSize' = mSize + 1
  /\ UNCHANGED life

push(d) ==
  /\ life = "alive"
  /\ \E n \in Node :
       /\ getNewNode(n)
       /\ data' = [data EXCEPT ![n] = d]
       /\ tail' = n
       /\ \/ empty /\ head' = n /\ UNCHANGED next
          \/ ~empty /\ next' = [next EXCEPT ![tail] = n] /\ UNCHANGED head
  /\ mSize' = mSize + 1
  /\ UNCHANGED life

\* Fault: FreeList is replaced, not linked behind the node given back.
discardUnlinked(n) ==
  /\ data' = [data EXCEPT ![n] = nullptr]
  /\ next' = [next EXCEPT ![n] = nullptr]
  /\ FreeList' = n

\* release clears both members, then the node is pushed on FreeList.
discard(n) ==
  /\ data' = [data EXCEPT ![n] = nullptr]
  /\ next' = [next EXCEPT ![n] = FreeList]
  /\ FreeList' = n

\* The code has no guard.  Its callers in DataBase and RedisManager ask empty()
\* first; SendCompleted (ClientSession.hpp:228) does not, and relies on the
\* packet it reports to be there, which OneSendAtATime of IOCPServer states.
pop ==
  /\ life = "alive"
  /\ ~empty
  /\ head' = next[head]
  /\ discard(head)
  /\ mSize' = mSize - 1
  /\ UNCHANGED <<tail, heap, life>>

-----------------------------------------------------------------------------
(* The destructor: it deletes along Head, then along FreeList.  To read or *)
(* delete a node that is already deleted is undefined behaviour.           *)

Destroy ==
  /\ life = "alive"
  /\ life' = "deleting Head"
  /\ UNCHANGED <<head, tail, FreeList, mSize, links, heap>>

\* Fault: the nodes in the pool are forgotten.
DeleteHeadOnly ==
  /\ life = "deleting Head"
  /\ \/ /\ head = nullptr
        /\ life' = "gone"
        /\ UNCHANGED <<head, heap>>
     \/ /\ head \in heap
        /\ head' = next[head]
        /\ heap' = heap \ {head}
        /\ UNCHANGED life
     \/ /\ head \in Node \ heap
        /\ life' = "undefined"
        /\ UNCHANGED <<head, heap>>
  /\ UNCHANGED <<tail, FreeList, mSize, links>>

DeleteHead ==
  /\ life = "deleting Head"
  /\ \/ /\ head = nullptr
        /\ life' = "deleting FreeList"
        /\ UNCHANGED <<head, heap>>
     \/ /\ head \in heap
        /\ head' = next[head]
        /\ heap' = heap \ {head}
        /\ UNCHANGED life
     \/ /\ head \in Node \ heap
        /\ life' = "undefined"
        /\ UNCHANGED <<head, heap>>
  /\ UNCHANGED <<tail, FreeList, mSize, links>>

DeleteFreeList ==
  /\ life = "deleting FreeList"
  /\ \/ /\ FreeList = nullptr
        /\ life' = "gone"
        /\ UNCHANGED <<FreeList, heap>>
     \/ /\ FreeList \in heap
        /\ FreeList' = next[FreeList]
        /\ heap' = heap \ {FreeList}
        /\ UNCHANGED life
     \/ /\ FreeList \in Node \ heap
        /\ life' = "undefined"
        /\ UNCHANGED <<FreeList, heap>>
  /\ UNCHANGED <<head, tail, mSize, links>>

Next == pop \/ (\E d \in Data : push(d)) \/ Destroy \/ DeleteHead \/ DeleteFreeList

Spec == Init /\ [][Next]_vars

-----------------------------------------------------------------------------
(* Properties.                                                             *)

\* The first mSize nodes from Head on, in the order of the links.
InQueue ==
  LET node[i \in 1 .. mSize] == IF i = 1 THEN head ELSE next[node[i - 1]]
  IN node

\* What front() returns; nobody asks an empty queue.
front == IF empty THEN nullptr ELSE data[head]

\* The nodes a walk from n meets, at most one per node there is.
Chain(n) ==
  LET node[i \in 1 .. Cardinality(Node)] ==
        IF i = 1 THEN n
        ELSE IF node[i - 1] = nullptr THEN nullptr ELSE next[node[i - 1]]
  IN {node[i] : i \in 1 .. Cardinality(Node)} \ {nullptr}

\* No node is lost and none is in two places: every allocated node is either
\* in the queue, once, or in the pool, so that the memory a queue takes is
\* that of its longest backlog.
EveryNodeHasAPlace ==
  LET queued == {InQueue[i] : i \in 1 .. mSize} IN
  life = "alive" =>
    /\ Cardinality(queued) = mSize
    /\ queued \cap Chain(FreeList) = {}
    /\ queued \cup Chain(FreeList) = heap

\* The destructor leaves no node behind when it comes to its end.
NothingLeaks == life = "gone" => heap = {}

\* The destructor deletes every node once: a node taken from FreeList is "one
\* node" (CustomQueue.hpp:104), no longer linked to those that stay there.
DeletedOnce == life # "undefined"
=============================================================================
