----------------------------- MODULE FifoQueue -----------------------------
(***************************************************************************)
(* What the queues of CustomQueue.hpp promise to the code that shares them *)
(* under a mutex: the pointers pushed come out in the order of the pushes, *)
(* each once, and front() and size() speak of the oldest and of how many.  *)
(***************************************************************************)
EXTENDS Naturals, Sequences

CONSTANT Data   \* the pointers callers push

VARIABLES
  queue,   \* the pointers pushed and not yet popped, oldest first
  front,   \* what front() returns, when it may be called
  size     \* what size() returns

vars == <<queue, front, size>>

\* front and size are functions of the queue.
Show(q) ==
  /\ size' = Len(q)
  /\ q # <<>> => front' = Head(q)

Init ==
  /\ queue = <<>>
  /\ size = 0

push(d) ==
  /\ queue' = Append(queue, d)
  /\ Show(queue')

pop ==
  /\ queue # <<>>
  /\ queue' = Tail(queue)
  /\ Show(queue')

\* The queue is destroyed, with the pointers that are left in it.
destroy ==
  /\ queue' = <<>>
  /\ Show(queue')

Next == pop \/ destroy \/ \E d \in Data : push(d)

Spec == Init /\ [][Next]_vars
=============================================================================
