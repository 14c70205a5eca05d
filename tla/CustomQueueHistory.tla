------------------------ MODULE CustomQueueHistory ------------------------
(***************************************************************************)
(* CustomQueue with two history variables: the nodes in the queue and the  *)
(* nodes in the pool, each in the order its links have.  They restrict     *)
(* nothing; they let the shape of the two lists be stated without walking  *)
(* the links, which the inductive proof needs.                             *)
(***************************************************************************)
EXTENDS CustomQueue, Sequences

VARIABLES queued, pooled

hvars == <<vars, queued, pooled>>

HInit == Init /\ queued = <<>> /\ pooled = <<>>

Hpush(d) ==
  /\ push(d)
  /\ queued' = Append(queued, tail')
  /\ pooled' = IF pooled = <<>> THEN <<>> ELSE Tail(pooled)

Hpop ==
  /\ pop
  /\ queued' = Tail(queued)
  /\ pooled' = <<head>> \o pooled

\* The destructor reads the links only.
Hdestroy == (Destroy \/ DeleteHead \/ DeleteFreeList) /\ UNCHANGED <<queued, pooled>>

HNext == Hpop \/ Hdestroy \/ \E d \in Data : Hpush(d)

HSpec == HInit /\ [][HNext]_hvars

-----------------------------------------------------------------------------
(* Properties.                                                             *)

HTypeOK ==
  /\ head \in NodeOrNull
  /\ tail \in NodeOrNull
  /\ FreeList \in NodeOrNull
  /\ mSize \in Nat
  /\ next \in [Node -> NodeOrNull]
  /\ data \in [Node -> Data \cup {nullptr}]
  /\ heap \in SUBSET Node
  /\ queued \in Seq(Node)
  /\ pooled \in Seq(Node)

\* The links from Head to Tail are those of the queued nodes.  The last one's
\* next is not mentioned: in a reused node it is whatever the pool left there.
QueueLinked ==
  /\ Len(queued) = mSize
  /\ mSize > 0 => head = queued[1] /\ tail = queued[mSize]
  /\ \A i \in 1 .. mSize : i < mSize => next[queued[i]] = queued[i + 1]
  /\ \A i \in 1 .. mSize : data[queued[i]] \in Data

\* FreeList is the null-terminated list of the pooled nodes.
PoolLinked ==
  /\ pooled = <<>> => FreeList = nullptr
  /\ pooled # <<>> => FreeList = pooled[1]
  /\ \A i \in 1 .. Len(pooled) :
       next[pooled[i]] = IF i < Len(pooled) THEN pooled[i + 1] ELSE nullptr

\* Every allocated node has one place, in the queue or in the pool.
Placed ==
  /\ \A i, j \in 1 .. Len(queued) : queued[i] = queued[j] => i = j
  /\ \A i, j \in 1 .. Len(pooled) : pooled[i] = pooled[j] => i = j
  /\ \A i \in 1 .. Len(queued), j \in 1 .. Len(pooled) : queued[i] # pooled[j]
  /\ heap = {queued[i] : i \in 1 .. Len(queued)}
              \cup {pooled[i] : i \in 1 .. Len(pooled)}

WellFormed == HTypeOK /\ QueueLinked /\ PoolLinked /\ Placed

\* The two lists of a queue have the shape getNewNode and discard count on:
\* their nodes are those allocated, each once, and a link the next operation
\* follows is never one that a reused node brought from the pool.
ListsWellFormed == life = "alive" => WellFormed

\* The linked list is a first-in first-out queue, whichever of its nodes are
\* new and whichever come from the pool with a stale next: the promise every
\* shared queue of the server relies on.
Contents == [i \in 1 .. Len(queued) |-> data[queued[i]]]
Queue == IF life = "alive" THEN Contents ELSE <<>>
Size  == IF life = "alive" THEN mSize ELSE 0
Fifo  == INSTANCE FifoQueue WITH queue <- Queue, size <- Size
ContentsAreFifo == Fifo!Spec
=============================================================================
