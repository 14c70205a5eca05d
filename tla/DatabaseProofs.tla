--------------------------- MODULE DatabaseProofs ---------------------------
(***************************************************************************)
(* Theorems about Database for every value of its constants, with their    *)
(* proofs: types, the promise of DataBase::End, and the truth of the       *)
(* answers.                                                                *)
(***************************************************************************)
EXTENDS Database, SequenceTheorems, TLAPS

-----------------------------------------------------------------------------
(* Types.                                                                  *)

\* What a thread of any server is, for the leaves that update one entry.
LEMMA WorkerServer == \A w \in Worker : w[1] \in Server /\ w = <<w[1], w[2]>>
BY DEF Worker

\* The requests and results that are built from typed parts are typed.
LEMMA NoneTyped == NoRequest \in DBRequest /\ NoResult \in DBResult
BY DEF NoRequest, NoResult, DBRequest, DBResult, eDBReqCode, eReturnCode

\* Answer leaves a typed result and a typed program counter.
LEMMA AnswerTyped ==
  ASSUME TypeOK, NEW w \in Worker, NEW res \in eReturnCode,
         NEW usercode \in Code \cup {0}, Answer(w, res, usercode)
  PROVE  ret' \in [Worker -> DBResult] /\ pc' \in [Worker -> PC]
<1>1. req[w].clientIndex \in Nat
  BY DEF TypeOK, DBRequest
<1>2. req[w].clientIndex % UShort \in Nat
  BY <1>1, DatabaseAssumption
<1>3. [clientIndex |-> req[w].clientIndex % UShort,
       res |-> res, usercode |-> usercode] \in DBResult
  BY <1>2 DEF DBResult
<1> QED
  BY <1>3 DEF Answer, Goto, TypeOK, PC

\* Goto keeps the program counters typed.
LEMMA GotoTyped ==
  ASSUME TypeOK, NEW w \in Worker, NEW label \in PC, Goto(w, label)
  PROVE  pc' \in [Worker -> PC]
BY DEF Goto, TypeOK

\* The initial state is typed.
LEMMA InitTyped == Init => TypeOK
<1> SUFFICES ASSUME Init PROVE TypeOK
  OBVIOUS
<1>1. ID \in [Code -> IDs \cup {None}] /\ Password \in [Code -> PWs \cup {None}]
  BY DatabaseAssumption DEF Init
<1>2. pc \in [Worker -> PC] /\ phase \in [Server -> Phase]
  BY DEF Init, PC, Phase
<1>3. req \in [Worker -> DBRequest] /\ ret \in [Worker -> DBResult]
  BY NoneTyped DEF Init
<1>4. ReqQueue \in [Server -> Seq(DBRequest)] /\ ResQueue \in [Server -> Seq(DBResult)]
  BY DEF Init
<1> QED
  BY <1>1, <1>2, <1>3, <1>4 DEF Init, TypeOK

\* Every step of a server or of a DB thread keeps the types.
LEMMA StepTyped == TypeOK /\ [Next]_vars => TypeOK'
<1> SUFFICES ASSUME TypeOK, [Next]_vars PROVE TypeOK'
  OBVIOUS
<1> USE DatabaseAssumption
<1>1. ASSUME NEW s \in Server, Initialize(s) PROVE TypeOK'
  BY <1>1 DEF Initialize, CreateThreads, InitAuth, ReleaseAll, TypeOK, queues, Phase, PC
<1>2. ASSUME NEW s \in Server, DestroyThreads(s) PROVE TypeOK'
  BY <1>2 DEF DestroyThreads, TypeOK, table, queues, local, Phase
<1>3. ASSUME NEW s \in Server, EndInitAuth(s) PROVE TypeOK'
  BY <1>3 DEF EndInitAuth, ReleaseAll, TypeOK, queues, local, Phase
<1>4. ASSUME NEW s \in Server, Exit(s) PROVE TypeOK'
  <2>1. ReqQueue' \in [Server -> Seq(DBRequest)] /\ ResQueue' \in [Server -> Seq(DBResult)]
    BY <1>4 DEF Exit, TypeOK
  <2>2. pc' \in [Worker -> PC] /\ phase' \in [Server -> Phase]
    BY <1>4 DEF Exit, TypeOK, PC, Phase
  <2>3. req' \in [Worker -> DBRequest] /\ ret' \in [Worker -> DBResult]
    BY <1>4, NoneTyped DEF Exit, TypeOK
  <2>4. cursor' \in [Worker -> BOOLEAN]
    BY <1>4 DEF Exit, TypeOK
  <2> QED
    BY <1>4, <2>1, <2>2, <2>3, <2>4 DEF Exit, TypeOK, table
<1>5. ASSUME NEW s \in Server, PopRes(s) PROVE TypeOK'
  <2>1. Tail(ResQueue[s]) \in Seq(DBResult)
    BY <1>5, HeadTailProperties DEF PopRes, TypeOK
  <2> QED
    BY <1>5, <2>1 DEF PopRes, TypeOK, table, local
<1>6. ASSUME NEW s \in Server, NEW r \in Input, PushReq(s, r) PROVE TypeOK'
  <2>1. r.clientIndex \in Nat /\ r.clientIndex % UShort \in Nat
    BY DEF DBRequest
  <2>2. [r EXCEPT !.clientIndex = @ % UShort] \in DBRequest
    BY <2>1 DEF DBRequest
  <2>3. Append(ReqQueue[s], [r EXCEPT !.clientIndex = @ % UShort]) \in Seq(DBRequest)
    BY <2>2, AppendProperties DEF TypeOK
  <2> QED
    BY <1>6, <2>3 DEF PushReq, TypeOK, table, local
<1>7. ASSUME NEW w \in Worker, Connect(w) PROVE TypeOK'
  <2>1. pc' \in [Worker -> PC]
    BY <1>7, GotoTyped DEF Connect, PC
  <2> QED
    BY <1>7, <2>1 DEF Connect, TypeOK, table, queues
<1>8. ASSUME NEW w \in Worker, WhileRunning(w) PROVE TypeOK'
  <2>1. pc' \in [Worker -> PC]
    BY <1>8, GotoTyped DEF WhileRunning, PC
  <2> QED
    BY <1>8, <2>1 DEF WhileRunning, TypeOK, table, queues
<1>9. ASSUME NEW w \in Worker, PopReq(w) PROVE TypeOK'
  <2> DEFINE q == ReqQueue[w[1]]
  <2>1. q \in Seq(DBRequest)
    BY WorkerServer DEF TypeOK
  <2>2. CASE q = <<>>
    BY <1>9, <2>2, GotoTyped DEF PopReq, TypeOK, table, PC
  <2>3. CASE q # <<>>
    <3>1. Head(q) \in DBRequest /\ Tail(q) \in Seq(DBRequest)
      BY <2>1, <2>3, HeadTailProperties
    <3>2. Dispatch(Head(q)) \in PC
      BY <3>1 DEF Dispatch, PC, DBRequest, eDBReqCode
    <3>3. pc' \in [Worker -> PC]
      BY <1>9, <2>3, <3>2, GotoTyped DEF PopReq
    <3>4. req' \in [Worker -> DBRequest]
      BY <1>9, <2>3, <3>1 DEF PopReq, TypeOK
    <3>5. ReqQueue' \in [Server -> Seq(DBRequest)]
      BY <1>9, <2>3, <3>1, WorkerServer DEF PopReq, TypeOK
    <3> QED
      BY <1>9, <3>3, <3>4, <3>5 DEF PopReq, TypeOK, table
  <2> QED
    BY <2>2, <2>3
<1>10. ASSUME NEW w \in Worker, SignIn(w) PROVE TypeOK'
  <2>1. ret' \in [Worker -> DBResult] /\ pc' \in [Worker -> PC]
    <3>1. CASE Answer(w, "SIGNIN_FAIL", 0)
      BY <3>1, AnswerTyped DEF eReturnCode
    <3>2. CASE Goto(w, "update") /\ UNCHANGED ret
      BY <3>2, GotoTyped DEF PC, TypeOK
    <3> QED
      BY <1>10, <3>1, <3>2 DEF SignIn
  <2> QED
    BY <1>10, <2>1 DEF SignIn, CloseCursor, TypeOK, table, queues
<1>11. ASSUME NEW w \in Worker, SignInUpdate(w) PROVE TypeOK'
  <2>1. ret' \in [Worker -> DBResult] /\ pc' \in [Worker -> PC]
    <3>1. CASE Answer(w, "SIGNIN_FAIL", 0)
      BY <3>1, AnswerTyped DEF eReturnCode
    <3>2. CASE Goto(w, "select") /\ UNCHANGED ret
      BY <3>2, GotoTyped DEF PC, TypeOK
    <3> QED
      BY <1>11, <3>1, <3>2 DEF SignInUpdate
  <2>2. LASTAUTHSERVER' \in [Code -> Server \cup {0}]
    BY <1>11, WorkerServer DEF SignInUpdate, TypeOK
  <2> QED
    BY <1>11, <2>1, <2>2 DEF SignInUpdate, TypeOK, queues
<1>12. ASSUME NEW w \in Worker, SignInSelect(w) PROVE TypeOK'
  <2>1. PICK res \in eReturnCode, usercode \in Code \cup {0} :
          Answer(w, res, usercode)
    BY <1>12 DEF SignInSelect, eReturnCode
  <2>2. ret' \in [Worker -> DBResult] /\ pc' \in [Worker -> PC]
    BY <2>1, AnswerTyped
  <2> QED
    BY <1>12, <2>2 DEF SignInSelect, TypeOK, table, queues
<1>13. ASSUME NEW w \in Worker, SignUp(w) PROVE TypeOK'
  <2>1. ret' \in [Worker -> DBResult] /\ pc' \in [Worker -> PC]
    <3>1. CASE \E res \in eReturnCode : Answer(w, res, 0)
      BY <3>1, AnswerTyped
    <3>2. CASE Goto(w, "insert") /\ UNCHANGED ret
      BY <3>2, GotoTyped DEF PC, TypeOK
    <3> QED
      BY <1>13, <3>1, <3>2 DEF SignUp, eReturnCode
  <2> QED
    BY <1>13, <2>1 DEF SignUp, MayLeaveOpen, TypeOK, table, queues
<1>14. ASSUME NEW w \in Worker, SignUpInsert(w) PROVE TypeOK'
  <2>1. PICK res \in eReturnCode : Answer(w, res, 0)
    BY <1>14 DEF SignUpInsert, eReturnCode
  <2>2. ret' \in [Worker -> DBResult] /\ pc' \in [Worker -> PC]
    BY <2>1, AnswerTyped
  <2>3. ID' \in [Code -> IDs \cup {None}] /\ Password' \in [Code -> PWs \cup {None}]
    <3>1. \/ UNCHANGED <<ID, Password>>
          \/ \E c \in Code : /\ ID' = [ID EXCEPT ![c] = req[w].ID]
                            /\ Password' = [Password EXCEPT ![c] = req[w].PW]
      BY <1>14 DEF SignUpInsert
    <3>2. req[w].ID \in IDs \cup {None} /\ req[w].PW \in PWs \cup {None}
      BY DEF TypeOK, DBRequest
    <3> QED
      BY <3>1, <3>2 DEF TypeOK
  <2> QED
    BY <1>14, <2>2, <2>3 DEF SignUpInsert, MayLeaveOpen, TypeOK, queues
<1>15. ASSUME NEW w \in Worker, PushRes(w) PROVE TypeOK'
  <2>1. Append(ResQueue[w[1]], ret[w]) \in Seq(DBResult)
    BY AppendProperties, WorkerServer DEF TypeOK
  <2>2. pc' \in [Worker -> PC]
    BY <1>15, GotoTyped DEF PushRes, Delete, PC
  <2>3. req' \in [Worker -> DBRequest] /\ ret' \in [Worker -> DBResult]
    BY <1>15, NoneTyped DEF PushRes, Delete, TypeOK
  <2> QED
    BY <1>15, <2>1, <2>2, <2>3 DEF PushRes, TypeOK, table
<1>16. ASSUME NEW w \in Worker, LogOut(w) PROVE TypeOK'
  <2>1. pc' \in [Worker -> PC]
    BY <1>16, GotoTyped DEF LogOut, Delete, PC
  <2>2. req' \in [Worker -> DBRequest] /\ ret' \in [Worker -> DBResult]
    BY <1>16, NoneTyped DEF LogOut, Delete, TypeOK
  <2> QED
    BY <1>16, <2>1, <2>2 DEF LogOut, TypeOK, queues
<1>17. CASE UNCHANGED vars
  BY <1>17 DEF vars, table, queues, local, TypeOK
<1> QED
  BY <1>1, <1>2, <1>3, <1>4, <1>5, <1>6, <1>7, <1>8, <1>9, <1>10, <1>11,
     <1>12, <1>13, <1>14, <1>15, <1>16, <1>17 DEF Next, ThreadStep

\* Every variable keeps its type, for any number of servers and threads, any
\* width of the client index and any failures of the DBMS.
THEOREM TypeCorrect == Spec => []TypeOK
<1> QED
  BY InitTyped, StepTyped, PTL DEF Spec

-----------------------------------------------------------------------------
(* DataBase::End.                                                          *)

\* A server that is not up, or whose End has passed its joins, has no thread
\* that could still run a statement: this is what the join in DestroyThreads
\* buys, and EndedHoldsNothing is not inductive without it.
Joined ==
  \A w \in Worker : phase[w[1]] \in {"off", "ended", "aborted"} => pc[w] = "dead"

EndInv == TypeOK /\ Joined /\ EndedHoldsNothing

\* A thread step of a server in one of those phases is impossible.
LEMMA ThreadStepNeedsServer ==
  ASSUME EndInv, NEW w \in Worker, ThreadStep(w)
  PROVE  phase[w[1]] \in {"running", "stopping"}
<1>1. pc[w] # "dead"
  BY DEF ThreadStep, Connect, WhileRunning, PopReq, SignIn, SignInUpdate,
         SignInSelect, SignUp, SignUpInsert, PushRes, LogOut
<1>2. phase[w[1]] \in Phase
  BY WorkerServer DEF EndInv, TypeOK
<1> QED
  BY <1>1, <1>2 DEF EndInv, Joined, Phase

\* A thread step starts no other thread and leaves the phases alone.
LEMMA ThreadStepFrame ==
  ASSUME TypeOK, NEW w \in Worker, ThreadStep(w)
  PROVE  /\ phase' = phase
         /\ \A v \in Worker : v # w => pc'[v] = pc[v]
BY DEF ThreadStep, Connect, WhileRunning, PopReq, SignIn, SignInUpdate,
       SignInSelect, SignUp, SignUpInsert, PushRes, LogOut, Answer, Goto,
       Delete, TypeOK

\* The only thread step that records an account for a server is the UPDATE of
\* the sign-in batch, and it records it for the thread's own server.
LEMMA ThreadStepRecords ==
  ASSUME TypeOK, NEW w \in Worker, ThreadStep(w), NEW c \in Code
  PROVE  LASTAUTHSERVER'[c] \in {LASTAUTHSERVER[c], w[1], 0}
<1>1. CASE SignInUpdate(w)
  BY <1>1 DEF SignInUpdate, TypeOK
<1>2. CASE LogOut(w)
  BY <1>2 DEF LogOut, TypeOK
<1>3. CASE UNCHANGED LASTAUTHSERVER
  BY <1>3
<1> QED
  BY <1>1, <1>2, <1>3
     DEF ThreadStep, Connect, WhileRunning, PopReq, SignIn, SignInSelect,
         SignUp, SignUpInsert, PushRes, table

\* EndInv holds initially and after every step.
LEMMA EndInvInductive ==
  /\ Init => EndInv
  /\ EndInv /\ [Next]_vars => EndInv'
<1>1. Init => EndInv
  BY InitTyped DEF Init, EndInv, Joined, EndedHoldsNothing, Worker
<1>2. ASSUME EndInv, [Next]_vars PROVE EndInv'
  <2>0. TypeOK'
    BY <1>2, StepTyped DEF EndInv
  <2> USE <1>2 DEF EndInv
  <2>1. ASSUME NEW s \in Server, Initialize(s) PROVE (Joined /\ EndedHoldsNothing)'
    <3>1. Joined'
      BY <2>1, WorkerServer DEF Initialize, CreateThreads, Joined, TypeOK
    <3>2. EndedHoldsNothing'
      BY <2>1, DatabaseAssumption
         DEF Initialize, CreateThreads, InitAuth, ReleaseAll, EndedHoldsNothing, TypeOK
    <3> QED
      BY <3>1, <3>2
  <2>2. ASSUME NEW s \in Server, DestroyThreads(s) PROVE (Joined /\ EndedHoldsNothing)'
    BY <2>2, WorkerServer
       DEF DestroyThreads, Joined, EndedHoldsNothing, TypeOK, table, local
  <2>3. ASSUME NEW s \in Server, EndInitAuth(s) PROVE (Joined /\ EndedHoldsNothing)'
    <3>1. Joined'
      <4>1. \A w \in Worker : w[1] = s => pc[w] = "dead"
        BY <2>3 DEF EndInitAuth, Worker
      <4> QED
        BY <2>3, <4>1, WorkerServer DEF EndInitAuth, Joined, TypeOK, local
    <3>2. EndedHoldsNothing'
      BY <2>3, DatabaseAssumption DEF EndInitAuth, ReleaseAll, EndedHoldsNothing, TypeOK
    <3> QED
      BY <3>1, <3>2
  <2>4. ASSUME NEW s \in Server, Exit(s) PROVE (Joined /\ EndedHoldsNothing)'
    BY <2>4, WorkerServer DEF Exit, Joined, EndedHoldsNothing, TypeOK, table
  <2>5. ASSUME NEW w \in Worker, ThreadStep(w) PROVE (Joined /\ EndedHoldsNothing)'
    <3>1. phase[w[1]] \in {"running", "stopping"}
      BY <2>5, ThreadStepNeedsServer
    <3>2. phase' = phase /\ \A v \in Worker : v # w => pc'[v] = pc[v]
      BY <2>5, ThreadStepFrame
    <3>3. Joined'
      BY <3>1, <3>2 DEF Joined
    <3>4. EndedHoldsNothing'
      <4> SUFFICES ASSUME NEW s \in Server, NEW c \in Code, phase[s] = "ended"
                   PROVE  LASTAUTHSERVER'[c] # s
        BY <3>2 DEF EndedHoldsNothing
      <4>1. LASTAUTHSERVER[c] # s /\ s # w[1] /\ s # 0
        BY <3>1, DatabaseAssumption DEF EndedHoldsNothing
      <4> QED
        BY <2>5, <4>1, ThreadStepRecords
    <3> QED
      BY <3>3, <3>4
  <2>6. ASSUME UNCHANGED <<LASTAUTHSERVER, phase, pc>>
        PROVE  (Joined /\ EndedHoldsNothing)'
    BY <2>6 DEF Joined, EndedHoldsNothing
  <2> QED
    <3>1. ASSUME NEW s \in Server, PopRes(s) \/ \E r \in Input : PushReq(s, r)
          PROVE  (Joined /\ EndedHoldsNothing)'
      BY <3>1, <2>6 DEF PopRes, PushReq, table, local
    <3>2. CASE UNCHANGED vars
      BY <2>0, <3>2, <2>6 DEF vars, table, local
    <3> QED
      BY <2>0, <2>1, <2>2, <2>3, <2>4, <2>5, <3>1, <3>2 DEF Next
<1> QED
  BY <1>1, <1>2

\* Once DataBase::End has returned from its second InitAuth, no account is
\* recorded for the server any more (Database.hpp:57), whatever batches its
\* threads were in, and whatever the other servers and the late callers of
\* PushReq do.
THEOREM EndReleasesAccounts == Spec => []EndedHoldsNothing
<1>1. EndInv => EndedHoldsNothing
  BY DEF EndInv
<1> QED
  BY <1>1, EndInvInductive, PTL DEF Spec

-----------------------------------------------------------------------------
(* The truth of the answers.                                               *)

Told == {"SIGNUP_SUCCESS", "SIGNUP_ALREADY_IN_USE", "SIGNIN_SUCCESS"}

RowOf(id, pw) == \E c \in Code : ID[c] = id /\ Password[c] = pw

\* What a thread knows of the table between the statements of a batch: the
\* request it holds passed the checks, the row its IF EXISTS found is still
\* there, and the answer it is about to push is true.
Knows(w) ==
  /\ \/ pc[w] \in {"update", "select", "insert"}
     \/ pc[w] = "push" /\ ret[w].res \in Told
     => req[w].ID \in IDs
  /\ pc[w] \in {"update", "select"} => RowOf(req[w].ID, req[w].PW)
  /\ pc[w] = "push" =>
       /\ ret[w].res = "SIGNUP_SUCCESS" => RowOf(req[w].ID, req[w].PW)
       /\ ret[w].res = "SIGNUP_ALREADY_IN_USE" => \E c \in Code : ID[c] = req[w].ID
       /\ ret[w].res = "SIGNIN_SUCCESS" =>
            /\ ret[w].usercode \in Code
            /\ ID[ret[w].usercode] = req[w].ID
            /\ RowOf(req[w].ID, req[w].PW)

AnswerInv ==
  /\ TypeOK
  /\ \A w \in Worker : Knows(w)

\* No statement deletes a row or changes its ID or its password.
LEMMA RowsStay ==
  ASSUME TypeOK, [Next]_vars, NEW c \in Code, ID[c] # None
  PROVE  ID'[c] = ID[c] /\ Password'[c] = Password[c]
<1>1. CASE ID' = ID /\ Password' = Password
  BY <1>1
<1>2. ASSUME NEW w \in Worker, SignUpInsert(w)
      PROVE  ID'[c] = ID[c] /\ Password'[c] = Password[c]
  BY <1>2 DEF SignUpInsert, NextIdentity, TypeOK
<1> QED
  BY <1>1, <1>2
     DEF Next, vars, table, ThreadStep, Initialize, InitAuth, DestroyThreads,
         EndInitAuth, Exit, PopRes, PushReq, Connect, WhileRunning, PopReq,
         SignIn, SignInUpdate, SignInSelect, SignUp, PushRes, LogOut

\* A thread that does not move goes on knowing what it knew.
LEMMA KnowsStays ==
  ASSUME AnswerInv, [Next]_vars, NEW w \in Worker,
         pc'[w] = pc[w], req'[w] = req[w], ret'[w] = ret[w]
  PROVE  Knows(w)'
<1>1. Knows(w) /\ None \notin IDs
  BY DatabaseAssumption DEF AnswerInv
<1>2. \A c \in Code : ID[c] # None => ID'[c] = ID[c] /\ Password'[c] = Password[c]
  BY RowsStay DEF AnswerInv
<1>3. req[w].ID \in IDs /\ RowOf(req[w].ID, req[w].PW) => RowOf(req[w].ID, req[w].PW)'
  BY <1>1, <1>2 DEF RowOf
<1> QED
  BY <1>1, <1>2, <1>3 DEF Knows, Told

\* Nor does a thread outside a batch know anything.
LEMMA KnowsNothing ==
  ASSUME NEW w \in Worker, pc'[w] \notin {"update", "select", "insert", "push"}
  PROVE  Knows(w)'
BY DEF Knows

\* A thread that fails a request claims nothing.
LEMMA KnowsFailure ==
  ASSUME TypeOK, NEW w \in Worker, NEW res \in eReturnCode \ Told,
         Answer(w, res, 0)
  PROVE  Knows(w)'
<1>1. pc'[w] = "push" /\ ret'[w].res = res
  BY DEF Answer, Goto, TypeOK
<1> QED
  BY <1>1 DEF Knows, Told

\* Each statement of a batch leaves its thread knowing what is true.
LEMMA KnowsStatement ==
  ASSUME AnswerInv, NEW w \in Worker,
         SignIn(w) \/ SignInUpdate(w) \/ SignInSelect(w) \/ SignUp(w) \/ SignUpInsert(w)
  PROVE  Knows(w)'
<1> USE DEF AnswerInv
<1>0. /\ req'[w] = req[w] /\ req[w] \in DBRequest
      /\ \A label \in PC : Goto(w, label) => pc'[w] = label
      /\ \A res \in eReturnCode, usercode \in Code \cup {0} :
           Answer(w, res, usercode) =>
             pc'[w] = "push" /\ ret'[w].res = res /\ ret'[w].usercode = usercode
  BY DEF SignIn, SignInUpdate, SignInSelect, SignUp, SignUpInsert, Answer, Goto, TypeOK
<1>1. Valid(req[w]) => req[w].ID \in IDs
  BY DatabaseAssumption DEF Valid, CheckIDIsValid
<1>2. CASE SignIn(w)
  <2>1. CASE Answer(w, "SIGNIN_FAIL", 0)
    BY <2>1, KnowsFailure DEF eReturnCode, Told
  <2>2. CASE /\ Valid(req[w]) /\ FreeRowExists(req[w].ID, req[w].PW)
             /\ Goto(w, "update")
    <3>1. pc'[w] = "update"
      BY <1>0, <2>2 DEF PC
    <3>2. RowOf(req[w].ID, req[w].PW)'
      BY <1>0, <1>2, <2>2 DEF FreeRowExists, RowOf, SignIn, table
    <3> QED
      BY <1>0, <1>1, <2>2, <3>1, <3>2 DEF Knows
  <2> QED
    BY <1>2, <2>1, <2>2 DEF SignIn
<1>3. CASE SignInUpdate(w)
  <2>1. CASE Answer(w, "SIGNIN_FAIL", 0)
    BY <2>1, KnowsFailure DEF eReturnCode, Told
  <2>2. CASE Goto(w, "select")
    <3>1. pc[w] = "update" /\ pc'[w] = "select"
      BY <1>0, <1>3, <2>2 DEF SignInUpdate, PC
    <3>2. req[w].ID \in IDs /\ RowOf(req[w].ID, req[w].PW)
      BY <3>1 DEF Knows
    <3>3. RowOf(req[w].ID, req[w].PW)'
      BY <1>0, <1>3, <3>2 DEF SignInUpdate, RowOf
    <3> QED
      BY <1>0, <3>1, <3>2, <3>3 DEF Knows
  <2> QED
    BY <1>3, <2>1, <2>2 DEF SignInUpdate
<1>4. CASE SignInSelect(w)
  <2>1. CASE Answer(w, "SIGNIN_FAIL", 0)
    BY <2>1, KnowsFailure DEF eReturnCode, Told
  <2>2. ASSUME NEW c \in Code, ID[c] = req[w].ID, Answer(w, "SIGNIN_SUCCESS", c)
        PROVE  Knows(w)'
    <3>1. pc'[w] = "push" /\ ret'[w].res = "SIGNIN_SUCCESS" /\ ret'[w].usercode = c
      BY <1>0, <2>2 DEF eReturnCode
    <3>2. req[w].ID \in IDs /\ RowOf(req[w].ID, req[w].PW)
      BY <1>4 DEF Knows, SignInSelect
    <3>3. ID' = ID /\ Password' = Password
      BY <1>4 DEF SignInSelect, table
    <3>4. RowOf(req[w].ID, req[w].PW)'
      BY <1>0, <3>2, <3>3 DEF RowOf
    <3> QED
      BY <1>0, <2>2, <3>1, <3>2, <3>3, <3>4 DEF Knows
  <2> QED
    BY <1>4, <2>1, <2>2 DEF SignInSelect
<1>5. CASE SignUp(w)
  <2>1. CASE Answer(w, "SIGNUP_FAIL", 0)
    BY <2>1, KnowsFailure DEF eReturnCode, Told
  <2>2. CASE Valid(req[w]) /\ Goto(w, "insert")
    BY <1>0, <1>1, <2>2 DEF Knows, PC
  <2>3. CASE /\ Valid(req[w]) /\ \E c \in Code : ID[c] = req[w].ID
             /\ Answer(w, "SIGNUP_ALREADY_IN_USE", 0)
    <3>1. pc'[w] = "push" /\ ret'[w].res = "SIGNUP_ALREADY_IN_USE"
      BY <1>0, <2>3 DEF eReturnCode
    <3>2. ID' = ID
      BY <1>5 DEF SignUp, table
    <3> QED
      BY <1>0, <1>1, <2>3, <3>1, <3>2 DEF Knows
  <2> QED
    BY <1>5, <2>1, <2>2, <2>3 DEF SignUp
<1>6. CASE SignUpInsert(w)
  <2>1. CASE Answer(w, "SIGNUP_FAIL", 0)
    BY <2>1, KnowsFailure DEF eReturnCode, Told
  <2>2. ASSUME NEW c \in Code, ID' = [ID EXCEPT ![c] = req[w].ID],
               Password' = [Password EXCEPT ![c] = req[w].PW],
               Answer(w, "SIGNUP_SUCCESS", 0)
        PROVE  Knows(w)'
    <3>1. pc'[w] = "push" /\ ret'[w].res = "SIGNUP_SUCCESS"
      BY <1>0, <2>2 DEF eReturnCode
    <3>2. req[w].ID \in IDs
      BY <1>6 DEF Knows, SignUpInsert
    <3>3. RowOf(req[w].ID, req[w].PW)'
      BY <1>0, <2>2 DEF RowOf, TypeOK
    <3> QED
      BY <1>0, <3>1, <3>2, <3>3 DEF Knows
  <2> QED
    BY <1>6, <2>1, <2>2 DEF SignUpInsert
<1> QED
  BY <1>2, <1>3, <1>4, <1>5, <1>6

\* AnswerInv holds initially and after every step.
LEMMA AnswerInvInductive ==
  /\ Init => AnswerInv
  /\ AnswerInv /\ [Next]_vars => AnswerInv'
<1>1. ASSUME Init PROVE AnswerInv
  <2>1. ASSUME NEW w \in Worker PROVE Knows(w)
    BY <1>1 DEF Init, Knows
  <2> QED
    BY <1>1, <2>1, InitTyped DEF AnswerInv
<1>2. ASSUME AnswerInv, [Next]_vars PROVE AnswerInv'
  <2>1. TypeOK'
    BY <1>2, StepTyped DEF AnswerInv
  <2>2. ASSUME NEW w \in Worker PROVE Knows(w)'
    <3>1. CASE pc'[w] = pc[w] /\ req'[w] = req[w] /\ ret'[w] = ret[w]
      BY <1>2, <3>1, KnowsStays
    <3>2. CASE pc'[w] \notin {"update", "select", "insert", "push"}
      BY <3>2, KnowsNothing
    <3>3. ASSUME NEW v \in Worker, ThreadStep(v) PROVE Knows(w)'
      <4>1. CASE v # w
        <5>1. pc'[w] = pc[w] /\ req'[w] = req[w] /\ ret'[w] = ret[w]
          BY <1>2, <3>3, <4>1
             DEF ThreadStep, Connect, WhileRunning, PopReq, SignIn, SignInUpdate,
                 SignInSelect, SignUp, SignUpInsert, PushRes, LogOut, Answer,
                 Goto, Delete, AnswerInv, TypeOK
        <5> QED
          BY <3>1, <5>1
      <4>2. CASE /\ v = w
                 /\ \/ Connect(w) \/ WhileRunning(w) \/ PopReq(w)
                    \/ PushRes(w) \/ LogOut(w)
        <5>1. pc'[w] \notin {"update", "select", "insert", "push"}
          <6>1. CASE Connect(w) \/ WhileRunning(w) \/ PushRes(w) \/ LogOut(w)
            BY <1>2, <6>1
               DEF Connect, WhileRunning, PushRes, LogOut, Goto, Delete,
                   AnswerInv, TypeOK
          <6>2. CASE PopReq(w)
            <7> DEFINE q == ReqQueue[w[1]]
            <7>1. q # <<>> => Head(q) \in DBRequest
              BY <1>2, WorkerServer, HeadTailProperties DEF AnswerInv, TypeOK
            <7>2. q # <<>> => Dispatch(Head(q)) \in {"signin", "signup", "logout"}
              BY <7>1 DEF Dispatch, DBRequest, eDBReqCode
            <7> QED
              BY <1>2, <6>2, <7>2 DEF PopReq, Goto, AnswerInv, TypeOK
          <6> QED
            BY <4>2, <6>1, <6>2
        <5> QED
          BY <3>2, <5>1
      <4> QED
        BY <1>2, <3>3, <4>1, <4>2, KnowsStatement DEF ThreadStep
    <3>4. ASSUME NEW s \in Server,
                 \/ Initialize(s) \/ DestroyThreads(s) \/ EndInitAuth(s) \/ Exit(s)
                 \/ PopRes(s) \/ \E r \in Input : PushReq(s, r)
          PROVE  Knows(w)'
      <4>1. \/ pc'[w] = pc[w] /\ req'[w] = req[w] /\ ret'[w] = ret[w]
            \/ pc'[w] \in {"connect", "dead"}
        BY <3>4 DEF Initialize, CreateThreads, DestroyThreads, EndInitAuth, Exit, PopRes,
                    PushReq, local
      <4> QED
        BY <3>1, <3>2, <4>1
    <3>5. CASE UNCHANGED vars
      BY <3>1, <3>5 DEF vars, local
    <3> QED
      BY <1>2, <3>3, <3>4, <3>5 DEF Next
  <2> QED
    BY <2>1, <2>2 DEF AnswerInv
<1> QED
  BY <1>1, <1>2

\* A SIGNUP_SUCCESS or SIGNUP_ALREADY_IN_USE is true of the table when it is
\* pushed, with any number of threads between the IF NOT EXISTS and the INSERT
\* (Database.hpp:77-115).
THEOREM SignUpAnswersAreTrue == Spec => []SignUpAnswerIsTrue
<1>1. AnswerInv => SignUpAnswerIsTrue
  BY DEF AnswerInv, Knows, RowOf, SignUpAnswerIsTrue
<1> QED
  BY <1>1, AnswerInvInductive, PTL DEF Spec

\* A client that is told SIGNIN_SUCCESS gets the usercode of a row of its own
\* ID and has sent the password of such a row, also where the race of two
\* sign-ups has made several rows of that ID, and although the batch reads the
\* code in a statement that no longer names the password (Database.hpp:144-148).
THEOREM SignInAnswersAreTrue == Spec => []SignInAnswerIsTrue
<1>1. AnswerInv => SignInAnswerIsTrue
  BY DEF AnswerInv, Knows, RowOf, SignInAnswerIsTrue
<1> QED
  BY <1>1, AnswerInvInductive, PTL DEF Spec
=============================================================================
