--------------------------- MODULE RequestService ---------------------------
(***************************************************************************)
(* What the two services behind the authentication server, DataBase and    *)
(* RedisManager, promise to its workers and sender threads: while it runs, *)
(* a request a client has pushed is answered at most once, its answer is   *)
(* handed out at most once, and neither is lost before that.               *)
(***************************************************************************)
EXTENDS Naturals

CONSTANT Client   \* those a request may come from

VARIABLES
  running,   \* between the start of the service and its end
  waiting,   \* per client: requests pushed and not yet answered
  ready      \* per client: answers not yet popped

vars == <<running, waiting, ready>>

Init ==
  /\ running = FALSE
  /\ waiting = [c \in Client |-> 0]
  /\ ready = [c \in Client |-> 0]

Start ==
  /\ ~running
  /\ running' = TRUE
  /\ UNCHANGED <<waiting, ready>>

PushReq(c) ==
  /\ waiting' = [waiting EXCEPT ![c] = @ + 1]
  /\ UNCHANGED <<running, ready>>

Serve(c) ==
  /\ waiting[c] > 0
  /\ waiting' = [waiting EXCEPT ![c] = @ - 1]
  /\ ready' = [ready EXCEPT ![c] = @ + 1]
  /\ UNCHANGED running

PopRes(c) ==
  /\ ready[c] > 0
  /\ ready' = [ready EXCEPT ![c] = @ - 1]
  /\ UNCHANGED <<running, waiting>>

\* A service that stops, or has stopped, may drop what it still holds.
Drop ==
  /\ running' = FALSE
  /\ waiting' \in [Client -> Nat] /\ \A c \in Client : waiting'[c] <= waiting[c]
  /\ ready' \in [Client -> Nat]   /\ \A c \in Client : ready'[c] <= ready[c]

Next == Start \/ Drop \/ \E c \in Client : PushReq(c) \/ Serve(c) \/ PopRes(c)

Spec == Init /\ [][Next]_vars
=============================================================================
