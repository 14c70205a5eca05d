----------------------- MODULE DatabaseServiceProofs -----------------------
(***************************************************************************)
(* DataBase implements RequestService: the DB threads of a running server, *)
(* however many there are and whatever their statements do, answer every   *)
(* sign-in and sign-up they take from the queue exactly once, and to the   *)
(* client that sent it.                                                    *)
(*                                                                         *)
(* RequestService counts, so the proof does: Hits and Held are the sets    *)
(* counted, and the first two sections say how one step of a queue or of a *)
(* thread changes their cardinalities.                                     *)
(***************************************************************************)
EXTENDS DatabaseProofs, FiniteSetTheorems

-----------------------------------------------------------------------------
(* Counting the entries of a queue.                                        *)

Hits(q, S) == {k \in DOMAIN q : q[k] \in S}

One(p) == IF p THEN 1 ELSE 0

\* A queue has finitely many entries of any kind.
LEMMA HitsFinite ==
  ASSUME NEW T, NEW q \in Seq(T), NEW S
  PROVE  IsFiniteSet(Hits(q, S)) /\ Cardinality(Hits(q, S)) \in Nat
<1>1. IsFiniteSet(1 .. Len(q)) /\ Hits(q, S) \subseteq 1 .. Len(q)
  BY FS_Interval DEF Hits
<1> QED
  BY <1>1, FS_Subset, FS_CardinalityType

\* Append adds its element to the count.
LEMMA HitsAppend ==
  ASSUME NEW T, NEW q \in Seq(T), NEW e \in T, NEW S
  PROVE  Cardinality(Hits(Append(q, e), S)) = Cardinality(Hits(q, S)) + One(e \in S)
<1> DEFINE n == Len(q) + 1
<1>1. /\ DOMAIN Append(q, e) = DOMAIN q \cup {n} /\ n \notin DOMAIN q
      /\ Append(q, e)[n] = e
      /\ \A k \in DOMAIN q : Append(q, e)[k] = q[k]
  BY AppendProperties, LenProperties
<1>2. n \notin Hits(q, S)
  BY <1>1 DEF Hits
<1>3. CASE e \in S
  <2>1. Hits(Append(q, e), S) = Hits(q, S) \cup {n}
    BY <1>1, <1>3 DEF Hits
  <2> QED
    BY <1>2, <1>3, <2>1, HitsFinite, FS_AddElement DEF One
<1>4. CASE e \notin S
  <2>1. Hits(Append(q, e), S) = Hits(q, S)
    BY <1>1, <1>4 DEF Hits
  <2> QED
    BY <1>4, <2>1, HitsFinite DEF One
<1> QED
  BY <1>3, <1>4

\* Tail takes its head out of the count.
LEMMA HitsTail ==
  ASSUME NEW T, NEW q \in Seq(T), q # <<>>, NEW S
  PROVE  Cardinality(Hits(q, S)) = Cardinality(Hits(Tail(q), S)) + One(Head(q) \in S)
<1> DEFINE Rest == Hits(q, S) \ {1}
           f == [k \in Hits(Tail(q), S) |-> k + 1]
<1>1. /\ Tail(q) \in Seq(T) /\ Len(Tail(q)) = Len(q) - 1 /\ Len(q) \in Nat \ {0}
      /\ \A k \in 1 .. Len(Tail(q)) : Tail(q)[k] = q[k + 1]
      /\ Head(q) = q[1]
  BY HeadTailProperties, LenProperties, EmptySeq
<1>2. f \in Bijection(Hits(Tail(q), S), Rest)
  <2>1. f \in [Hits(Tail(q), S) -> Rest]
    BY <1>1, LenProperties DEF Hits
  <2>2. \A a, b \in Hits(Tail(q), S) : f[a] = f[b] => a = b
    BY <1>1, LenProperties DEF Hits
  <2>3. \A m \in Rest : \E k \in Hits(Tail(q), S) : f[k] = m
    <3> TAKE m \in Rest
    <3>1. m - 1 \in Hits(Tail(q), S)
      BY <1>1, LenProperties DEF Hits
    <3>2. f[m - 1] = m
      BY <3>1, <1>1, LenProperties DEF Hits
    <3> QED
      BY <3>1, <3>2
  <2> HIDE DEF f, Rest
  <2> QED
    BY <2>1, <2>2, <2>3 DEF Bijection, Injection, Surjection, IsInjective
<1>3. Cardinality(Rest) = Cardinality(Hits(Tail(q), S)) /\ IsFiniteSet(Rest)
  <2>1. IsFiniteSet(Hits(Tail(q), S))
    BY <1>1, HitsFinite
  <2>2. ExistsBijection(Hits(Tail(q), S), Rest)
    BY <1>2 DEF ExistsBijection
  <2> HIDE DEF Rest
  <2> QED
    BY <2>1, <2>2, FS_Bijection
<1>4. CASE Head(q) \in S
  <2>1. Hits(q, S) = Rest \cup {1} /\ 1 \notin Rest
    BY <1>1, <1>4, LenProperties DEF Hits
  <2> HIDE DEF Rest
  <2> QED
    BY <1>3, <1>4, <2>1, FS_AddElement DEF One
<1>5. CASE Head(q) \notin S
  <2>1. Hits(q, S) = Rest
    BY <1>1, <1>5 DEF Hits
  <2> HIDE DEF Rest
  <2> QED
    BY <1>1, <1>3, <1>5, <2>1, HitsFinite DEF One
<1> QED
  BY <1>4, <1>5

-----------------------------------------------------------------------------
(* Counting the threads that hold a request.                               *)

Held(s, i) == {t \in Thread : pc[<<s, t>>] \in Unanswered /\ req[<<s, t>>].clientIndex = i}

\* A server has finitely many threads, before and after a step.
LEMMA HeldFinite ==
  ASSUME NEW s, NEW i
  PROVE  /\ IsFiniteSet(Held(s, i)) /\ Cardinality(Held(s, i)) \in Nat
         /\ IsFiniteSet(Held(s, i)') /\ Cardinality(Held(s, i)') \in Nat
<1>1. Held(s, i) \subseteq Thread /\ Held(s, i)' \subseteq Thread
  BY DEF Held
<1> QED
  BY <1>1, DatabaseAssumption, FS_Subset, FS_CardinalityType

Asks(i) == {r \in DBRequest : r.req # "LOGOUT" /\ r.clientIndex = i}
Gets(i) == {r \in DBResult : r.clientIndex = i}

\* The two counts of the refinement mapping, by the sets counted above.
LEMMA MappedState ==
  ASSUME TypeOK, TypeOK', NEW s \in Server, NEW i
  PROVE  /\ Waiting(s, i) = Cardinality(Hits(ReqQueue[s], Asks(i))) + Cardinality(Held(s, i))
         /\ Waiting(s, i)' = Cardinality(Hits(ReqQueue'[s], Asks(i))) + Cardinality(Held(s, i)')
         /\ Ready(s, i) = Cardinality(Hits(ResQueue[s], Gets(i)))
         /\ Ready(s, i)' = Cardinality(Hits(ResQueue'[s], Gets(i)))
<1>1. /\ ReqQueue[s] \in Seq(DBRequest) /\ ReqQueue'[s] \in Seq(DBRequest)
      /\ ResQueue[s] \in Seq(DBResult) /\ ResQueue'[s] \in Seq(DBResult)
  BY DEF TypeOK
<1>2. ASSUME NEW q \in Seq(DBRequest)
      PROVE  {k \in DOMAIN q : q[k].req # "LOGOUT" /\ q[k].clientIndex = i} = Hits(q, Asks(i))
  <2>1. \A k \in DOMAIN q : q[k] \in DBRequest
    BY LenProperties, ElementOfSeq
  <2> QED
    BY <2>1 DEF Hits, Asks
<1>3. ASSUME NEW q \in Seq(DBResult)
      PROVE  {k \in DOMAIN q : q[k].clientIndex = i} = Hits(q, Gets(i))
  <2>1. \A k \in DOMAIN q : q[k] \in DBResult
    BY LenProperties, ElementOfSeq
  <2> QED
    BY <2>1 DEF Hits, Gets
<1> QED
  BY <1>1, <1>2, <1>3 DEF Waiting, Ready, Held

\* Both counts are numbers.
LEMMA MappedTyped ==
  ASSUME TypeOK, TypeOK', NEW s \in Server, NEW i
  PROVE  Waiting(s, i) \in Nat /\ Ready(s, i) \in Nat /\ Waiting(s, i)' \in Nat /\ Ready(s, i)' \in Nat
<1>1. /\ ReqQueue[s] \in Seq(DBRequest) /\ ReqQueue'[s] \in Seq(DBRequest)
      /\ ResQueue[s] \in Seq(DBResult) /\ ResQueue'[s] \in Seq(DBResult)
  BY DEF TypeOK
<1>2. /\ Cardinality(Hits(ReqQueue[s], Asks(i))) \in Nat
      /\ Cardinality(Hits(ReqQueue'[s], Asks(i))) \in Nat
      /\ Cardinality(Hits(ResQueue[s], Gets(i))) \in Nat
      /\ Cardinality(Hits(ResQueue'[s], Gets(i))) \in Nat
  BY <1>1, HitsFinite
<1> QED
  BY <1>2, MappedState, HeldFinite

-----------------------------------------------------------------------------
(* The six ways a step of DataBase looks to one of its servers' clients.   *)

Same(s) == \A i \in Clients : Waiting(s, i)' = Waiting(s, i) /\ Ready(s, i)' = Ready(s, i)

Stutters(s) == mIsRun(s)' = mIsRun(s) /\ Same(s)
Starts(s)   == ~mIsRun(s) /\ mIsRun(s)' /\ Same(s)
Drops(s)    == /\ ~mIsRun(s)'
               /\ \A i \in Clients : /\ Waiting(s, i)' <= Waiting(s, i)
                                     /\ Ready(s, i)' <= Ready(s, i)
Pushes(s)   == \E c \in Clients :
                 /\ mIsRun(s)' = mIsRun(s)
                 /\ \A i \in Clients : /\ Waiting(s, i)' = Waiting(s, i) + One(i = c)
                                       /\ Ready(s, i)' = Ready(s, i)
Answers(s)  == \E c \in Clients :
                 /\ mIsRun(s)' = mIsRun(s)
                 /\ \A i \in Clients : /\ Waiting(s, i) = Waiting(s, i)' + One(i = c)
                                       /\ Ready(s, i)' = Ready(s, i) + One(i = c)
Pops(s)     == \E c \in Clients :
                 /\ mIsRun(s)' = mIsRun(s)
                 /\ \A i \in Clients : /\ Waiting(s, i)' = Waiting(s, i)
                                       /\ Ready(s, i) = Ready(s, i)' + One(i = c)

W(s) == [i \in Clients |-> Waiting(s, i)]
R(s) == [i \in Clients |-> Ready(s, i)]

\* What it means that two functions differ by one at c.
LEMMA OneMore ==
  ASSUME NEW S, NEW f \in [S -> Nat], NEW g \in [S -> Nat], NEW c \in S,
         \A i \in S : g[i] = f[i] + One(i = c)
  PROVE  g = [f EXCEPT ![c] = @ + 1] /\ f = [g EXCEPT ![c] = @ - 1] /\ g[c] > 0
BY DEF One

\* Each of them is a step RequestService allows.
LEMMA Refines ==
  ASSUME TypeOK, TypeOK', NEW s \in Server,
         Stutters(s) \/ Starts(s) \/ Drops(s) \/ Pushes(s) \/ Answers(s) \/ Pops(s)
  PROVE  [Service(s)!Next]_(Service(s)!vars)
<1>1. /\ \A i \in Clients : /\ W(s)[i] = Waiting(s, i) /\ W(s)'[i] = Waiting(s, i)'
                            /\ R(s)[i] = Ready(s, i) /\ R(s)'[i] = Ready(s, i)'
      /\ W(s) \in [Clients -> Nat] /\ W(s)' \in [Clients -> Nat]
      /\ R(s) \in [Clients -> Nat] /\ R(s)' \in [Clients -> Nat]
  BY MappedTyped DEF W, R
<1>2. /\ Service(s)!vars = <<mIsRun(s), W(s), R(s)>>
      /\ Service(s)!vars' = <<mIsRun(s)', W(s)', R(s)'>>
      /\ Service(s)!Start <=> ~mIsRun(s) /\ mIsRun(s)' = TRUE /\ W(s)' = W(s) /\ R(s)' = R(s)
      /\ Service(s)!Drop <=>
           /\ mIsRun(s)' = FALSE
           /\ W(s)' \in [Clients -> Nat] /\ \A c \in Clients : W(s)'[c] <= W(s)[c]
           /\ R(s)' \in [Clients -> Nat] /\ \A c \in Clients : R(s)'[c] <= R(s)[c]
      /\ \A c \in Clients :
           Service(s)!PushReq(c) <=>
             W(s)' = [W(s) EXCEPT ![c] = @ + 1] /\ mIsRun(s)' = mIsRun(s) /\ R(s)' = R(s)
      /\ \A c \in Clients :
           Service(s)!Serve(c) <=>
             /\ W(s)[c] > 0
             /\ W(s)' = [W(s) EXCEPT ![c] = @ - 1] /\ R(s)' = [R(s) EXCEPT ![c] = @ + 1]
             /\ mIsRun(s)' = mIsRun(s)
      /\ \A c \in Clients :
           Service(s)!PopRes(c) <=>
             /\ R(s)[c] > 0
             /\ R(s)' = [R(s) EXCEPT ![c] = @ - 1]
             /\ mIsRun(s)' = mIsRun(s) /\ W(s)' = W(s)
  BY DEF W, R, Service!vars, Service!Start, Service!Drop, Service!PushReq, Service!Serve,
         Service!PopRes
<1>3. mIsRun(s) \in BOOLEAN /\ mIsRun(s)' \in BOOLEAN
  BY DEF mIsRun
<1>4. ASSUME \A i \in Clients : Waiting(s, i)' = Waiting(s, i) PROVE W(s)' = W(s)
  BY <1>4 DEF W
<1>5. ASSUME \A i \in Clients : Ready(s, i)' = Ready(s, i) PROVE R(s)' = R(s)
  BY <1>5 DEF R
<1>6. CASE Stutters(s)
  BY <1>2, <1>4, <1>5, <1>6 DEF Stutters, Same
<1>7. CASE Starts(s)
  BY <1>2, <1>3, <1>4, <1>5, <1>7 DEF Starts, Same, Service!Next
<1>8. CASE Drops(s)
  BY <1>1, <1>2, <1>3, <1>8 DEF Drops, Service!Next
<1>9. CASE Pushes(s)
  <2>1. PICK c \in Clients :
          /\ mIsRun(s)' = mIsRun(s)
          /\ \A i \in Clients : /\ Waiting(s, i)' = Waiting(s, i) + One(i = c)
                                /\ Ready(s, i)' = Ready(s, i)
    BY <1>9 DEF Pushes
  <2>2. W(s)' = [W(s) EXCEPT ![c] = @ + 1] /\ R(s)' = R(s)
    BY <1>1, <1>5, <2>1, OneMore
  <2> QED
    BY <1>2, <2>1, <2>2 DEF Service!Next
<1>10. CASE Answers(s)
  <2>1. PICK c \in Clients :
          /\ mIsRun(s)' = mIsRun(s)
          /\ \A i \in Clients : /\ Waiting(s, i) = Waiting(s, i)' + One(i = c)
                                /\ Ready(s, i)' = Ready(s, i) + One(i = c)
    BY <1>10 DEF Answers
  <2>2. W(s)' = [W(s) EXCEPT ![c] = @ - 1] /\ W(s)[c] > 0
    BY <1>1, <2>1, OneMore
  <2>3. R(s)' = [R(s) EXCEPT ![c] = @ + 1]
    BY <1>1, <2>1, OneMore
  <2> QED
    BY <1>2, <2>1, <2>2, <2>3 DEF Service!Next
<1>11. CASE Pops(s)
  <2>1. PICK c \in Clients :
          /\ mIsRun(s)' = mIsRun(s)
          /\ \A i \in Clients : /\ Waiting(s, i)' = Waiting(s, i)
                                /\ Ready(s, i) = Ready(s, i)' + One(i = c)
    BY <1>11 DEF Pops
  <2>2. R(s)' = [R(s) EXCEPT ![c] = @ - 1] /\ R(s)[c] > 0 /\ W(s)' = W(s)
    BY <1>1, <1>4, <2>1, OneMore
  <2> QED
    BY <1>2, <2>1, <2>2 DEF Service!Next
<1> QED
  BY <1>6, <1>7, <1>8, <1>9, <1>10, <1>11

-----------------------------------------------------------------------------
(* Every answer goes to the client that asked.                             *)

\* What is queued, and what a thread works on, comes from a client; the result
\* a thread is about to push is for the client of its request, although
\* Answer takes the index through an unsigned short once more.
Addressed ==
  /\ \A s \in Server, k \in Nat : k \in DOMAIN ReqQueue[s] => ReqQueue[s][k].clientIndex \in Clients
  /\ \A w \in Worker :
       /\ pc[w] \in Unanswered => req[w].clientIndex \in Clients
       /\ pc[w] = "push" => ret[w].clientIndex = req[w].clientIndex

AddressedInv == EndInv /\ Addressed

\* An index that went through an unsigned short goes through it again unchanged.
LEMMA ClientsFit == \A i \in Clients : i \in Nat /\ i % UShort = i
<1> SUFFICES ASSUME NEW r \in Input
             PROVE  /\ r.clientIndex % UShort \in Nat
                    /\ (r.clientIndex % UShort) % UShort = r.clientIndex % UShort
  BY DEF Clients
<1>1. r.clientIndex \in Nat /\ UShort \in Nat \ {0}
  BY DatabaseAssumption DEF DBRequest
<1>2. r.clientIndex % UShort \in 0 .. UShort - 1
  BY <1>1
<1>3. \A x \in 0 .. UShort - 1 : x % UShort = x
  BY <1>1
<1> QED
  BY <1>2, <1>3

\* What a thread's step may do to the request and the result it holds.
LEMMA ThreadStepAddresses ==
  ASSUME AddressedInv, NEW w \in Worker, ThreadStep(w), NEW v \in Worker
  PROVE  /\ pc'[v] \in Unanswered => req'[v].clientIndex \in Clients
         /\ pc'[v] = "push" => ret'[v].clientIndex = req'[v].clientIndex
<1> USE DEF AddressedInv, Addressed, Unanswered
<1>0. TypeOK
  BY DEF EndInv
<1>1. CASE PopReq(w)
  <2> DEFINE q == ReqQueue[w[1]]
  <2>1. CASE q = <<>>
    BY <1>0, <1>1, <2>1 DEF PopReq, Goto, TypeOK
  <2>2. CASE q # <<>>
    <3>1. Head(q) = q[1] /\ 1 \in DOMAIN q
      BY <1>0, <2>2, WorkerServer, EmptySeq, LenProperties DEF TypeOK
    <3>2. Head(q).clientIndex \in Clients
      BY <3>1, WorkerServer
    <3>3. Head(q) \in DBRequest
      BY <1>0, <2>2, WorkerServer, HeadTailProperties DEF TypeOK
    <3>4. Dispatch(Head(q)) # "push"
      BY <3>3 DEF Dispatch, DBRequest, eDBReqCode
    <3> QED
      BY <1>0, <1>1, <2>2, <3>2, <3>4 DEF PopReq, Goto, TypeOK
  <2> QED
    BY <2>1, <2>2
<1>2. CASE \E res, usercode : Answer(w, res, usercode) /\ UNCHANGED req /\ pc[w] \in Unanswered
  BY <1>0, <1>2, ClientsFit DEF Answer, Goto, TypeOK
<1>3. CASE \E label \in {"update", "select", "insert"} :
             Goto(w, label) /\ UNCHANGED <<req, ret>> /\ pc[w] \in Unanswered
  BY <1>0, <1>3 DEF Goto, TypeOK
<1>4. CASE Connect(w) \/ WhileRunning(w) \/ PushRes(w) \/ LogOut(w)
  BY <1>0, <1>4 DEF Connect, WhileRunning, PushRes, LogOut, Delete, Goto, TypeOK
<1>5. CASE SignIn(w) \/ SignInUpdate(w) \/ SignInSelect(w) \/ SignUp(w) \/ SignUpInsert(w)
  BY <1>2, <1>3, <1>5 DEF SignIn, SignInUpdate, SignInSelect, SignUp, SignUpInsert
<1> QED
  BY <1>1, <1>4, <1>5 DEF ThreadStep

\* A queue of addressed requests stays one when a request is pushed or popped.
LEMMA QueueAddressed ==
  ASSUME AddressedInv, [Next]_vars, NEW s \in Server
  PROVE  \A k \in Nat : k \in DOMAIN ReqQueue'[s] => ReqQueue'[s][k].clientIndex \in Clients
<1> USE DEF AddressedInv, Addressed
<1> DEFINE q == ReqQueue[s]
<1>0. TypeOK /\ q \in Seq(DBRequest)
  BY DEF EndInv, TypeOK
<1>1. CASE ReqQueue'[s] = q
  BY <1>1
<1>2. CASE ReqQueue'[s] = <<>>
  BY <1>2, EmptySeq
<1>3. CASE q # <<>> /\ ReqQueue'[s] = Tail(q)
  BY <1>0, <1>3, HeadTailProperties, LenProperties
<1>4. CASE \E r \in Input : ReqQueue'[s] = Append(q, [r EXCEPT !.clientIndex = @ % UShort])
  <2>1. PICK r \in Input : ReqQueue'[s] = Append(q, [r EXCEPT !.clientIndex = @ % UShort])
    BY <1>4
  <2> DEFINE e == [r EXCEPT !.clientIndex = @ % UShort]
  <2>2. e \in DBRequest /\ e.clientIndex \in Clients
    BY DatabaseAssumption DEF DBRequest, Clients
  <2> HIDE DEF e
  <2> QED
    BY <1>0, <2>1, <2>2, AppendProperties, LenProperties DEF e
<1> QED
  <2>1. ASSUME NEW t \in Server, Initialize(t) \/ DestroyThreads(t) \/ EndInitAuth(t) \/ PopRes(t)
        PROVE  ReqQueue'[s] = q
    BY <2>1 DEF Initialize, DestroyThreads, EndInitAuth, PopRes, queues
  <2>2. ASSUME NEW t \in Server, Exit(t) PROVE ReqQueue'[s] \in {q, <<>>}
    BY <1>0, <2>2 DEF Exit, TypeOK
  <2>3. ASSUME NEW t \in Server, NEW r \in Input, PushReq(t, r)
        PROVE  ReqQueue'[s] \in {q, Append(q, [r EXCEPT !.clientIndex = @ % UShort])}
    BY <1>0, <2>3 DEF PushReq, TypeOK
  <2>4. ASSUME NEW w \in Worker, PopReq(w)
        PROVE  ReqQueue'[s] = q \/ (q # <<>> /\ ReqQueue'[s] = Tail(q))
    BY <1>0, <2>4 DEF PopReq, TypeOK
  <2>5. ASSUME NEW w \in Worker, ThreadStep(w), ~PopReq(w) PROVE ReqQueue'[s] = q
    BY <2>5 DEF ThreadStep, Connect, WhileRunning, SignIn, SignInUpdate, SignInSelect,
                SignUp, SignUpInsert, PushRes, LogOut, queues
  <2>6. CASE UNCHANGED vars
    BY <2>6 DEF vars, queues
  <2> QED
    BY <1>1, <1>2, <1>3, <1>4, <2>1, <2>2, <2>3, <2>4, <2>5, <2>6 DEF Next

\* Addressed holds initially and after every step.
LEMMA AddressedInductive ==
  /\ Init => AddressedInv
  /\ AddressedInv /\ [Next]_vars => AddressedInv'
<1>1. Init => AddressedInv
  BY EndInvInductive, EmptySeq DEF Init, AddressedInv, Addressed, Unanswered
<1>2. ASSUME AddressedInv, [Next]_vars PROVE AddressedInv'
  <2>1. EndInv'
    BY <1>2, EndInvInductive DEF AddressedInv
  <2>2. \A s \in Server, k \in Nat : k \in DOMAIN ReqQueue'[s] => ReqQueue'[s][k].clientIndex \in Clients
    BY <1>2, QueueAddressed
  <2>3. ASSUME NEW v \in Worker
        PROVE  /\ pc'[v] \in Unanswered => req'[v].clientIndex \in Clients
               /\ pc'[v] = "push" => ret'[v].clientIndex = req'[v].clientIndex
    <3>1. ASSUME NEW w \in Worker, ThreadStep(w)
          PROVE  /\ pc'[v] \in Unanswered => req'[v].clientIndex \in Clients
                 /\ pc'[v] = "push" => ret'[v].clientIndex = req'[v].clientIndex
      BY <1>2, <3>1, ThreadStepAddresses
    <3>2. CASE pc'[v] \in {"connect", "dead"}
      BY <3>2 DEF Unanswered
    <3>3. CASE pc'[v] = pc[v] /\ req'[v] = req[v] /\ ret'[v] = ret[v]
      BY <1>2, <3>3 DEF AddressedInv, Addressed
    <3>4. ASSUME NEW s \in Server,
                 \/ Initialize(s) \/ DestroyThreads(s) \/ EndInitAuth(s) \/ Exit(s)
                 \/ PopRes(s) \/ \E r \in Input : PushReq(s, r)
          PROVE  \/ pc'[v] \in {"connect", "dead"}
                 \/ pc'[v] = pc[v] /\ req'[v] = req[v] /\ ret'[v] = ret[v]
      BY <3>4 DEF Initialize, CreateThreads, DestroyThreads, EndInitAuth, Exit, PopRes,
                  PushReq, local
    <3>5. CASE UNCHANGED vars
      BY <3>3, <3>5 DEF vars, local
    <3> QED
      BY <1>2, <3>1, <3>2, <3>3, <3>4, <3>5 DEF Next
  <2> QED
    BY <2>1, <2>2, <2>3 DEF AddressedInv, Addressed
<1> QED
  BY <1>1, <1>2

-----------------------------------------------------------------------------
(* What each step does to the counts.                                      *)

\* No thread of s takes a request or answers one.
HeldStays(s) ==
  \A t \in Thread :
    /\ pc'[<<s, t>>] \in Unanswered <=> pc[<<s, t>>] \in Unanswered
    /\ pc[<<s, t>>] \in Unanswered => req'[<<s, t>>] = req[<<s, t>>]

OthersStay(w) == \A v \in Worker \ {w} : pc'[v] = pc[v] /\ req'[v] = req[v]

\* A step that leaves the queues and the threads' requests alone changes no count.
LEMMA QuietStep ==
  ASSUME TypeOK, TypeOK', NEW s \in Server, HeldStays(s),
         ReqQueue'[s] = ReqQueue[s], ResQueue'[s] = ResQueue[s]
  PROVE  Same(s)
<1>1. \A i : Held(s, i)' = Held(s, i)
  BY DEF Held, HeldStays
<1> QED
  BY <1>1, MappedState DEF Same

\* A thread that takes a request is counted for its client.
LEMMA HeldTakes ==
  ASSUME NEW w \in Worker, OthersStay(w), pc[w] \notin Unanswered, pc'[w] \in Unanswered, NEW i
  PROVE  Cardinality(Held(w[1], i)') = Cardinality(Held(w[1], i)) + One(i = req'[w].clientIndex)
<1> DEFINE s == w[1]
           t == w[2]
<1>0. w = <<s, t>> /\ t \in Thread /\ \A x \in Thread : <<s, x>> \in Worker
  BY DEF Worker
<1>1. t \notin Held(s, i)
  BY <1>0 DEF Held
<1>2. \A x \in Thread : x # t => (x \in Held(s, i)' <=> x \in Held(s, i))
  BY <1>0 DEF Held, OthersStay
<1>3. t \in Held(s, i)' <=> i = req'[w].clientIndex
  BY <1>0 DEF Held
<1>4. Held(s, i) \subseteq Thread /\ Held(s, i)' \subseteq Thread
  BY DEF Held
<1>5. CASE i = req'[w].clientIndex
  <2>1. Held(s, i)' = Held(s, i) \cup {t}
    BY <1>0, <1>2, <1>3, <1>4, <1>5
  <2> QED
    BY <1>1, <1>5, <2>1, HeldFinite, FS_AddElement DEF One
<1>6. CASE i # req'[w].clientIndex
  <2>1. Held(s, i)' = Held(s, i)
    BY <1>1, <1>2, <1>3, <1>4, <1>6
  <2> QED
    BY <1>6, <2>1, HeldFinite DEF One
<1> QED
  BY <1>5, <1>6

\* A thread that has answered is no longer counted for its client.
LEMMA HeldGives ==
  ASSUME NEW w \in Worker, OthersStay(w), pc[w] \in Unanswered, pc'[w] \notin Unanswered, NEW i
  PROVE  Cardinality(Held(w[1], i)) = Cardinality(Held(w[1], i)') + One(i = req[w].clientIndex)
<1> DEFINE s == w[1]
           t == w[2]
<1>0. w = <<s, t>> /\ t \in Thread /\ \A x \in Thread : <<s, x>> \in Worker
  BY DEF Worker
<1>1. t \notin Held(s, i)'
  BY <1>0 DEF Held
<1>2. \A x \in Thread : x # t => (x \in Held(s, i)' <=> x \in Held(s, i))
  BY <1>0 DEF Held, OthersStay
<1>3. t \in Held(s, i) <=> i = req[w].clientIndex
  BY <1>0 DEF Held
<1>4. Held(s, i) \subseteq Thread /\ Held(s, i)' \subseteq Thread
  BY DEF Held
<1>5. CASE i = req[w].clientIndex
  <2>1. Held(s, i) = Held(s, i)' \cup {t}
    BY <1>0, <1>2, <1>3, <1>4, <1>5
  <2> QED
    BY <1>1, <1>5, <2>1, HeldFinite, FS_AddElement DEF One
<1>6. CASE i # req[w].clientIndex
  <2>1. Held(s, i)' = Held(s, i)
    BY <1>1, <1>2, <1>3, <1>4, <1>6
  <2> QED
    BY <1>6, <2>1, HeldFinite DEF One
<1> QED
  BY <1>5, <1>6

\* The SQL statements of a batch answer nobody: the thread goes on holding its
\* request, or, after LogOut, holds none as before.
LEMMA StatementQuiet ==
  ASSUME AddressedInv, TypeOK', NEW w \in Worker, ThreadStep(w), ~PopReq(w), ~PushRes(w),
         NEW s \in Server
  PROVE  Stutters(s)
<1>0. TypeOK
  BY DEF AddressedInv, EndInv
<1>1. /\ phase' = phase /\ ReqQueue' = ReqQueue /\ ResQueue' = ResQueue
      /\ OthersStay(w)
      /\ pc'[w] \in Unanswered <=> pc[w] \in Unanswered
      /\ pc[w] \in Unanswered => req'[w] = req[w]
  BY <1>0 DEF ThreadStep, Connect, WhileRunning, SignIn, SignInUpdate, SignInSelect, SignUp,
              SignUpInsert, LogOut, Answer, Goto, Delete, queues, Unanswered, OthersStay, TypeOK
<1>2. HeldStays(s)
  <2>1. \A t \in Thread : <<s, t>> \in Worker
    BY DEF Worker
  <2> QED
    BY <1>1, <2>1 DEF HeldStays, OthersStay
<1> QED
  BY <1>0, <1>1, <1>2, QuietStep DEF Stutters, mIsRun

\* A step that leaves the queues and threads of s alone is a stutter for s.
LEMMA ElsewhereQuiet ==
  ASSUME TypeOK, TypeOK', NEW s \in Server, phase'[s] = phase[s],
         ReqQueue'[s] = ReqQueue[s], ResQueue'[s] = ResQueue[s],
         \A t \in Thread : pc'[<<s, t>>] = pc[<<s, t>>] /\ req'[<<s, t>>] = req[<<s, t>>]
  PROVE  Stutters(s)
BY QuietStep DEF HeldStays, Stutters, mIsRun

\* PopReq moves a sign-in or sign-up from the queue to a thread, which counts
\* as often; a LOGOUT is counted in neither place.
LEMMA PopReqQuiet ==
  ASSUME AddressedInv, TypeOK', NEW w \in Worker, PopReq(w), NEW s \in Server
  PROVE  Stutters(s)
<1> DEFINE q == ReqQueue[w[1]]
<1>0. TypeOK /\ w[1] \in Server /\ q \in Seq(DBRequest) /\ w = <<w[1], w[2]>>
      /\ \A x \in Server, t \in Thread : <<x, t>> \in Worker
  BY WorkerServer DEF AddressedInv, EndInv, TypeOK, Worker
<1>1. phase' = phase /\ ResQueue' = ResQueue /\ OthersStay(w) /\ pc[w] = "pop"
      /\ \A x \in Server \ {w[1]} : ReqQueue'[x] = ReqQueue[x]
  BY <1>0 DEF PopReq, Goto, OthersStay, TypeOK, table
<1>2. CASE s # w[1]
  <2>1. \A t \in Thread : pc'[<<s, t>>] = pc[<<s, t>>] /\ req'[<<s, t>>] = req[<<s, t>>]
    BY <1>0, <1>1, <1>2 DEF OthersStay
  <2> QED
    BY <1>0, <1>1, <1>2, <2>1, ElsewhereQuiet
<1>3. CASE s = w[1] /\ q = <<>>
  <2>1. ReqQueue' = ReqQueue /\ pc'[w] = "while" /\ req' = req
    BY <1>0, <1>3 DEF PopReq, Goto, TypeOK
  <2>2. HeldStays(s)
    BY <1>0, <1>1, <2>1 DEF HeldStays, OthersStay, Unanswered
  <2> QED
    BY <1>0, <1>1, <2>1, <2>2, QuietStep DEF Stutters, mIsRun
<1>4. CASE s = w[1] /\ q # <<>>
  <2> DEFINE h == Head(q)
  <2>1. h \in DBRequest /\ Tail(q) \in Seq(DBRequest)
    BY <1>0, <1>4, HeadTailProperties
  <2>2. ReqQueue'[s] = Tail(q) /\ req'[w] = h /\ pc'[w] = Dispatch(h)
    BY <1>0, <1>4 DEF PopReq, Goto, TypeOK
  <2>3. \A i : Cardinality(Hits(q, Asks(i)))
                 = Cardinality(Hits(Tail(q), Asks(i))) + One(h \in Asks(i))
    BY <1>0, <1>4, HitsTail
  <2>4. \A i : /\ Cardinality(Hits(q, Asks(i))) \in Nat
               /\ Cardinality(Hits(Tail(q), Asks(i))) \in Nat
    BY <1>0, <2>1, HitsFinite
  <2>5. \A i : Cardinality(Held(s, i)') = Cardinality(Held(s, i)) + One(h \in Asks(i))
    <3>1. CASE h.req = "LOGOUT"
      <4>1. pc'[w] = "logout" /\ \A i : h \notin Asks(i)
        BY <2>2, <3>1 DEF Dispatch, Asks
      <4>2. \A i : Held(s, i)' = Held(s, i)
        BY <1>0, <1>1, <1>4, <4>1 DEF Held, OthersStay, Unanswered
      <4> QED
        BY <4>1, <4>2, HeldFinite DEF One
    <3>2. CASE h.req # "LOGOUT"
      <4>1. pc'[w] \in Unanswered /\ pc[w] \notin Unanswered
        BY <1>1, <2>1, <2>2, <3>2 DEF Dispatch, DBRequest, eDBReqCode, Unanswered
      <4>2. \A i : h \in Asks(i) <=> i = req'[w].clientIndex
        BY <2>1, <2>2, <3>2 DEF Asks
      <4>3. \A i : One(h \in Asks(i)) = One(i = req'[w].clientIndex)
        BY <4>2 DEF One
      <4> QED
        BY <1>1, <1>4, <4>1, <4>3, HeldTakes
    <3> QED
      BY <3>1, <3>2
  <2>6. \A i : One(h \in Asks(i)) \in Nat
    BY DEF One
  <2> HIDE DEF h
  <2>7. \A i : Waiting(s, i)' = Waiting(s, i)
    BY <1>0, <1>4, <2>2, <2>3, <2>4, <2>5, <2>6, MappedState, HeldFinite
  <2>8. \A i : Ready(s, i)' = Ready(s, i)
    BY <1>0, <1>1, MappedState
  <2> QED
    BY <1>1, <2>7, <2>8 DEF Stutters, Same, mIsRun
<1> QED
  BY <1>2, <1>3, <1>4

\* PushRes answers the client of the request the thread holds.
LEMMA PushResAnswers ==
  ASSUME AddressedInv, TypeOK', NEW w \in Worker, PushRes(w), NEW s \in Server
  PROVE  Stutters(s) \/ Answers(s)
<1> DEFINE q == ResQueue[w[1]]
<1>0. TypeOK /\ w[1] \in Server /\ q \in Seq(DBResult) /\ ret[w] \in DBResult
      /\ w = <<w[1], w[2]>> /\ \A x \in Server, t \in Thread : <<x, t>> \in Worker
  BY WorkerServer DEF AddressedInv, EndInv, TypeOK, Worker
<1>1. /\ phase' = phase /\ ReqQueue' = ReqQueue /\ OthersStay(w)
      /\ pc[w] = "push" /\ pc'[w] \in {"while", "logout"}
      /\ \A x \in Server \ {w[1]} : ResQueue'[x] = ResQueue[x]
      /\ ResQueue'[w[1]] = Append(q, ret[w])
  BY <1>0 DEF PushRes, Delete, Goto, OthersStay, TypeOK, table
<1>2. CASE s # w[1]
  <2>1. \A t \in Thread : pc'[<<s, t>>] = pc[<<s, t>>] /\ req'[<<s, t>>] = req[<<s, t>>]
    BY <1>0, <1>1, <1>2 DEF OthersStay
  <2> QED
    BY <1>0, <1>1, <1>2, <2>1, ElsewhereQuiet
<1>3. CASE s = w[1]
  <2> DEFINE c == req[w].clientIndex
  <2>1. c \in Clients /\ ret[w].clientIndex = c
    BY <1>1 DEF AddressedInv, Addressed, Unanswered
  <2>2. \A i : Cardinality(Hits(ResQueue'[s], Gets(i)))
                 = Cardinality(Hits(q, Gets(i))) + One(ret[w] \in Gets(i))
    <3>1. \A i : Cardinality(Hits(Append(q, ret[w]), Gets(i)))
                    = Cardinality(Hits(q, Gets(i))) + One(ret[w] \in Gets(i))
      BY <1>0, HitsAppend
    <3> QED
      BY <1>1, <1>3, <3>1
  <2>3. \A i : One(ret[w] \in Gets(i)) = One(i = c)
    BY <1>0, <2>1 DEF Gets, One
  <2>4. \A i : Cardinality(Held(s, i)) = Cardinality(Held(s, i)') + One(i = c)
    BY <1>1, <1>3, HeldGives DEF Unanswered
  <2>5. \A i : One(i = c) \in Nat
    BY DEF One
  <2>6. \A i : Cardinality(Hits(ReqQueue[s], Asks(i))) \in Nat
    BY <1>0, HitsFinite DEF TypeOK
  <2> HIDE DEF c
  <2>7. \A i : Waiting(s, i) = Waiting(s, i)' + One(i = c)
    <3> SUFFICES ASSUME NEW i PROVE Waiting(s, i) = Waiting(s, i)' + One(i = c)
      OBVIOUS
    <3> DEFINE x == Cardinality(Hits(ReqQueue[s], Asks(i)))
               y == Cardinality(Held(s, i))
               z == Cardinality(Held(s, i)')
    <3>1. Waiting(s, i) = x + y /\ Waiting(s, i)' = x + z
      BY <1>0, <1>1, MappedState
    <3>2. x \in Nat /\ z \in Nat /\ One(i = c) \in Nat /\ y = z + One(i = c)
      BY <2>4, <2>5, <2>6, HeldFinite
    <3> HIDE DEF x, y, z
    <3> QED
      BY <3>1, <3>2
  <2>8. \A i : Ready(s, i)' = Ready(s, i) + One(i = c)
    BY <1>0, <1>3, <2>2, <2>3, MappedState
  <2> QED
    BY <1>1, <2>1, <2>7, <2>8 DEF Answers, mIsRun
<1> QED
  BY <1>2, <1>3

\* PushReq adds one request; a LOGOUT is not counted.
LEMMA PushReqPushes ==
  ASSUME AddressedInv, TypeOK', NEW t \in Server, NEW r \in Input, PushReq(t, r),
         NEW s \in Server
  PROVE  Stutters(s) \/ Pushes(s)
<1> DEFINE q == ReqQueue[t]
           e == [r EXCEPT !.clientIndex = @ % UShort]
           c == r.clientIndex % UShort
<1>0. TypeOK /\ q \in Seq(DBRequest)
  BY DEF AddressedInv, EndInv, TypeOK
<1>1. e \in DBRequest /\ e.clientIndex = c /\ c \in Clients
  BY DatabaseAssumption DEF DBRequest, Clients
<1>2. /\ phase' = phase /\ ResQueue' = ResQueue /\ pc' = pc /\ req' = req
      /\ \A x \in Server \ {t} : ReqQueue'[x] = ReqQueue[x]
      /\ ReqQueue'[t] = Append(q, e)
  BY <1>0 DEF PushReq, TypeOK, local
<1> HIDE DEF e, c
<1>3. CASE s # t
  BY <1>0, <1>2, <1>3, ElsewhereQuiet
<1>4. CASE s = t
  <2>1. \A i : Cardinality(Hits(Append(q, e), Asks(i)))
                 = Cardinality(Hits(q, Asks(i))) + One(e \in Asks(i))
    BY <1>0, <1>1, HitsAppend
  <2>2. \A i : Held(s, i)' = Held(s, i)
    BY <1>2 DEF Held
  <2>3. \A i : /\ Waiting(s, i) = Cardinality(Hits(ReqQueue[s], Asks(i))) + Cardinality(Held(s, i))
               /\ Waiting(s, i)' = Cardinality(Hits(ReqQueue'[s], Asks(i)))
                                    + Cardinality(Held(s, i)')
               /\ Ready(s, i)' = Ready(s, i)
    BY <1>0, <1>2, MappedState
  <2>4. \A i : /\ Cardinality(Hits(q, Asks(i))) \in Nat /\ Cardinality(Held(s, i)) \in Nat
               /\ One(e \in Asks(i)) \in Nat
    BY <1>0, HitsFinite, HeldFinite DEF One
  <2>5. \A i : Waiting(s, i)' = Waiting(s, i) + One(e \in Asks(i))
    <3> SUFFICES ASSUME NEW i PROVE Waiting(s, i)' = Waiting(s, i) + One(e \in Asks(i))
      OBVIOUS
    <3> DEFINE x == Cardinality(Hits(q, Asks(i)))
               y == Cardinality(Held(s, i))
    <3>1. Waiting(s, i) = x + y /\ Waiting(s, i)' = x + One(e \in Asks(i)) + y
      BY <1>2, <1>4, <2>1, <2>2, <2>3
    <3>2. x \in Nat /\ y \in Nat /\ One(e \in Asks(i)) \in Nat
      BY <2>4
    <3> HIDE DEF x, y
    <3> QED
      BY <3>1, <3>2
  <2>6. CASE e.req = "LOGOUT"
    <3>1. \A i : One(e \in Asks(i)) = 0 /\ Waiting(s, i) \in Nat
      BY <1>0, <2>6, MappedTyped DEF Asks, One
    <3>2. \A i : Waiting(s, i)' = Waiting(s, i)
      BY <2>5, <3>1
    <3> QED
      BY <1>2, <2>3, <3>2 DEF Stutters, Same, mIsRun
  <2>7. CASE e.req # "LOGOUT"
    <3>1. \A i : One(e \in Asks(i)) = One(i = c)
      BY <1>1, <2>7 DEF Asks, One
    <3> QED
      BY <1>1, <1>2, <2>3, <2>5, <3>1 DEF Pushes, mIsRun
  <2> QED
    BY <2>6, <2>7
<1> QED
  BY <1>3, <1>4

\* PopRes hands one answer out.  Results for no client of the mapping are not
\* counted.
LEMMA PopResPops ==
  ASSUME AddressedInv, TypeOK', NEW t \in Server, PopRes(t), NEW s \in Server
  PROVE  Stutters(s) \/ Pops(s)
<1> DEFINE q == ResQueue[t]
           h == Head(q)
           c == h.clientIndex
<1>0. TypeOK /\ q \in Seq(DBResult)
  BY DEF AddressedInv, EndInv, TypeOK
<1>1. /\ phase' = phase /\ ReqQueue' = ReqQueue /\ pc' = pc /\ req' = req
      /\ \A x \in Server \ {t} : ResQueue'[x] = ResQueue[x]
      /\ q # <<>> /\ ResQueue'[t] = Tail(q)
  BY <1>0 DEF PopRes, TypeOK, local
<1>2. h \in DBResult /\ Tail(q) \in Seq(DBResult)
  BY <1>0, <1>1, HeadTailProperties
<1>3. CASE s # t
  BY <1>0, <1>1, <1>3, ElsewhereQuiet
<1>4. CASE s = t
  <2>1. \A i : Cardinality(Hits(q, Gets(i)))
                 = Cardinality(Hits(Tail(q), Gets(i))) + One(h \in Gets(i))
    BY <1>0, <1>1, HitsTail
  <2>2. \A i : One(h \in Gets(i)) = One(i = c)
    BY <1>2 DEF Gets, One
  <2>3. \A i : Held(s, i)' = Held(s, i)
    BY <1>1 DEF Held
  <2>4. \A i : Waiting(s, i)' = Waiting(s, i)
    BY <1>0, <1>1, <2>3, MappedState
  <2>5. \A i : /\ Ready(s, i) = Cardinality(Hits(q, Gets(i)))
               /\ Ready(s, i)' = Cardinality(Hits(Tail(q), Gets(i)))
    BY <1>0, <1>1, <1>4, MappedState
  <2> HIDE DEF q, h, c
  <2>6. \A i : Ready(s, i) = Ready(s, i)' + One(i = c)
    BY <2>1, <2>2, <2>5
  <2>7. CASE c \in Clients
    BY <1>1, <2>4, <2>6, <2>7 DEF Pops, mIsRun
  <2>8. CASE c \notin Clients
    <3>1. \A i \in Clients : One(i = c) = 0 /\ Ready(s, i)' \in Nat
      BY <1>0, <2>8, MappedTyped DEF One
    <3>2. \A i \in Clients : Ready(s, i)' = Ready(s, i)
      BY <2>6, <3>1
    <3> QED
      BY <1>1, <2>4, <3>2 DEF Stutters, Same, mIsRun
  <2> QED
    BY <2>7, <2>8
<1> QED
  BY <1>3, <1>4

\* What Initialize, End and a crash do to the counts.
LEMMA LifeSteps ==
  ASSUME AddressedInv, TypeOK', NEW t \in Server, NEW s \in Server,
         Initialize(t) \/ DestroyThreads(t) \/ EndInitAuth(t) \/ Exit(t)
  PROVE  Stutters(s) \/ Starts(s) \/ Drops(s)
<1>0. TypeOK /\ Joined /\ \A x \in Thread : <<s, x>> \in Worker
  BY DEF AddressedInv, EndInv, Worker
<1>1. CASE s # t
  <2>1. /\ phase'[s] = phase[s] /\ ReqQueue'[s] = ReqQueue[s] /\ ResQueue'[s] = ResQueue[s]
        /\ \A x \in Thread : pc'[<<s, x>>] = pc[<<s, x>>] /\ req'[<<s, x>>] = req[<<s, x>>]
    BY <1>0, <1>1 DEF Initialize, CreateThreads, DestroyThreads, EndInitAuth, Exit, TypeOK,
                      queues, local
  <2> QED
    BY <1>0, <2>1, ElsewhereQuiet
<1>2. CASE s = t /\ Initialize(t)
  <2>1. /\ ~mIsRun(s) /\ mIsRun(s)'
        /\ ReqQueue'[s] = ReqQueue[s] /\ ResQueue'[s] = ResQueue[s]
        /\ \A x \in Thread : pc[<<s, x>>] = "dead" /\ pc'[<<s, x>>] = "connect"
    BY <1>0, <1>2 DEF Initialize, CreateThreads, TypeOK, mIsRun, queues, Joined
  <2>2. HeldStays(s)
    BY <2>1 DEF HeldStays, Unanswered
  <2> QED
    BY <1>0, <2>1, <2>2, QuietStep DEF Starts
<1>3. CASE s = t /\ (DestroyThreads(t) \/ EndInitAuth(t))
  <2>1. /\ ~mIsRun(s)'
        /\ ReqQueue' = ReqQueue /\ ResQueue' = ResQueue /\ pc' = pc /\ req' = req
    BY <1>0, <1>3 DEF DestroyThreads, EndInitAuth, TypeOK, mIsRun, queues, local
  <2>2. Same(s)
    BY <1>0, <2>1, QuietStep DEF HeldStays
  <2>3. \A i : Waiting(s, i) \in Nat /\ Ready(s, i) \in Nat
    BY <1>0, MappedTyped
  <2> QED
    BY <2>1, <2>2, <2>3 DEF Drops, Same
<1>4. CASE s = t /\ Exit(t)
  <2>1. /\ ~mIsRun(s)'
        /\ ReqQueue'[s] = <<>> /\ ResQueue'[s] = <<>>
        /\ \A x \in Thread : pc'[<<s, x>>] = "dead"
    BY <1>0, <1>4 DEF Exit, TypeOK, mIsRun
  <2>2. \A S : Hits(<<>>, S) = {}
    BY DEF Hits
  <2>3. \A i : Held(s, i)' = {}
    BY <2>1 DEF Held, Unanswered
  <2>4. \A i : Waiting(s, i)' = 0 /\ Ready(s, i)' = 0
    BY <1>0, <2>1, <2>2, <2>3, MappedState, FS_EmptySet
  <2>5. \A i : Waiting(s, i) \in Nat /\ Ready(s, i) \in Nat
    BY <1>0, MappedTyped
  <2> QED
    BY <2>1, <2>4, <2>5 DEF Drops
<1> QED
  BY <1>1, <1>2, <1>3, <1>4

\* DataBase keeps the promise of RequestService at every server of a cluster:
\* for any number of DB threads and whatever the DBMS does, a sign-in or
\* sign-up is answered at most once and to the client that sent it, an answer
\* is popped at most once, and neither is lost while the server runs.
THEOREM DatabaseServes == Spec => ImplementsService
<1>1. Init => \A s \in Server : Service(s)!Init
  <2> SUFFICES ASSUME Init, NEW s \in Server PROVE Service(s)!Init
    OBVIOUS
  <2>1. /\ ReqQueue[s] = <<>> /\ ResQueue[s] = <<>> /\ ~mIsRun(s)
        /\ \A x \in Thread : <<s, x>> \in Worker /\ pc[<<s, x>>] = "dead"
    BY DEF Init, mIsRun, Worker
  <2>2. \A i : Waiting(s, i) = 0 /\ Ready(s, i) = 0
    <3> SUFFICES ASSUME NEW i PROVE Waiting(s, i) = 0 /\ Ready(s, i) = 0
      OBVIOUS
    <3> DEFINE A == {k \in DOMAIN ReqQueue[s] : /\ ReqQueue[s][k].req # "LOGOUT"
                                                /\ ReqQueue[s][k].clientIndex = i}
               B == {k \in DOMAIN ResQueue[s] : ResQueue[s][k].clientIndex = i}
               C == {t \in Thread : pc[<<s, t>>] \in Unanswered /\ req[<<s, t>>].clientIndex = i}
    <3>1. A = {} /\ B = {} /\ C = {}
      BY <2>1 DEF Unanswered
    <3>2. Waiting(s, i) = Cardinality(A) + Cardinality(C) /\ Ready(s, i) = Cardinality(B)
      BY DEF Waiting, Ready
    <3>3. Cardinality({}) = 0
      BY FS_EmptySet
    <3> HIDE DEF A, B, C
    <3> QED
      BY <3>1, <3>2, <3>3
  <2> QED
    BY <2>1, <2>2 DEF Service!Init, mIsRun
<1>2. AddressedInv /\ AddressedInv' /\ [Next]_vars =>
        \A s \in Server : [Service(s)!Next]_(Service(s)!vars)
  <2> SUFFICES ASSUME AddressedInv, AddressedInv', [Next]_vars, NEW s \in Server
               PROVE  [Service(s)!Next]_(Service(s)!vars)
    OBVIOUS
  <2>0. TypeOK /\ TypeOK'
    BY DEF AddressedInv, EndInv
  <2>1. CASE UNCHANGED vars
    BY <2>0, <2>1, ElsewhereQuiet, Refines DEF vars, queues, local
  <2>2. ASSUME NEW t \in Server,
               \/ Initialize(t) \/ DestroyThreads(t) \/ EndInitAuth(t) \/ Exit(t)
               \/ PopRes(t) \/ \E r \in Input : PushReq(t, r)
        PROVE  [Service(s)!Next]_(Service(s)!vars)
    BY <2>0, <2>2, LifeSteps, PopResPops, PushReqPushes, Refines
  <2>3. ASSUME NEW w \in Worker, ThreadStep(w)
        PROVE  [Service(s)!Next]_(Service(s)!vars)
    BY <2>0, <2>3, StatementQuiet, PopReqQuiet, PushResAnswers, Refines
  <2> QED
    BY <2>1, <2>2, <2>3 DEF Next
<1> QED
  BY <1>1, <1>2, AddressedInductive, PTL DEF Spec, ImplementsService
=============================================================================
