# Verification of Authentication_Server

TLA+ models of the authentication server in `src/Authentication_Server`, the
TLC runs that check them on small instances and the theorems TLAPS proves about
them. Source lines are cited as `File.hpp:line`; comments of the source that
are quoted are translated.

## 1. The system

A cluster of authentication servers shares one account table (`LOGINDATA` in
SQL Server). A client connects over TCP, signs up or signs in, and asks for a
token, which the server encrypts, stores in Redis and sends back.

    clients <-> IOCPServer/ClientInfo <-> AuthServer --PushReq--> DataBase <-> LOGINDATA
                                              ^  |                   |
                                              |  +--PushReq--> RedisManager <-> Redis
                                              +---- GetRes / PopRes -+

| component | state | operations | what makes it correct |
|---|---|---|---|
| `DataBase` (`Database.hpp`) | `ReqQueue`, `ResQueue`, `mIsRun`, two DB threads, each with one ODBC statement handle | `Initialize`, `End`, `PushReq`, `PopRes`; threads: `SignIn`, `SignUp`, `LogOut`, `PushRes` | an account is signed in at one place at a time; answers are true of the table; each request is answered once; `End` leaves no account locked |
| `LOGINDATA` (SQL Server, external) | a row per `USERCODE`: `ID`, `Password`, `LASTAUTHSERVER` (0 = free) | the statements the threads send, each committed by itself | one row per name |
| `CustomQueue` (three classes, one body) | linked list `Head..Tail`, `FreeList`, `mSize` | `push`, `pop`, `front`, `empty`, destructor | first in, first out; no node lost or shared; each deleted once |
| `IOCPServer` (`IOCP.hpp`) | sessions, listen socket, accepter, 12 workers, run flags | accept, dispatch of completions, `SendMsg`, `DestroyThread` | a completion is handled for the session it belongs to; a slot is not reused while its operations are in flight |
| `ClientInfo` (`ClientSession.hpp`) | socket, connected flag, close time, overlapped structures, `mSendQueue`, `mClientUserID` | `PostAccept`, `AcceptCompletion`, `BindRecv`, `Close`, `SendMsg`, `SendCompleted` | one send in flight; packets of one connection never reach another; every connection is closed once |
| `AuthServer` (`AuthServer.hpp`) | two sender threads, `mIsRun`, `mRedis`, `mDB` | `OnReceive`, `OnClose`, `ProcessSendPacket`, `ProcessSendRes`, `End` | an answer goes to the client that asked; a closed session is logged out |
| `RedisManager` (`RedisManager.hpp`) | `InQueue`, `OutQueue`, `mIsRun`, two task threads | `PushReq`, `GetRes`, `RedisTaskThread`, `End` | a token is sent only after it is stored; no packet is lost, freed twice or leaked at `End` |
| Packet, Base64, AES, token | none | encode, decode, encrypt | what is encoded decodes to itself; the buffers are long enough |
| `InjectionCheck`, `IsStringContains` | the list of reserved words | search | a string with a reserved word is refused |

Interactions: the IOCP workers call `AuthServer::OnReceive`/`OnClose`, which
push into `DataBase` and `RedisManager`; DB and Redis threads push results;
two sender threads are to pop these and call `IOCPServer::SendMsg`. Everything
shared is a queue under a mutex, the sessions, and the table.

What is hard here: several DB threads and servers on one table without
transactions; statements that fail between two others that have committed;
servers that die and restart with accounts recorded for them; completions of
different operations of one session on different workers; slots reused by a
later client; shutdown in stages while other parts still run. The list, line by
line, is in `PROJECT.json` under `hazards`.

## 2. Modules

### Database

`Database.tla` models the class `DataBase` of every server (`Server`, the
`AUTHSERVER_NUM`s) and the shared table.

* The table is three functions of `USERCODE`; `ID[c] = None` is a row that does
  not exist. `NextIdentity` is the IDENTITY column: codes are given in order.
* `phase[s]` is the life of the process: `Initialize` (InitAuth, then
  CreateThreads: `Database.hpp:41-51`), `DestroyThreads` and `EndInitAuth` (the
  two halves of `End`), `Exit` (a crash, or `main` returning). An exit keeps the
  table and loses everything else. `mIsRun` is `phase = "running"`.
* `ThreadStep` is `DBThreadWork` (`Database.hpp:503-604`) with a program counter
  per thread. A critical section (`PushReq`, `PopReq`, `PushRes`, `PopRes`) is
  one step. A batch is one step per statement, because the code opens no
  transaction: `SignIn` is its `IF EXISTS`, `SignInUpdate` its `UPDATE`,
  `SignInSelect` its `SELECT` with `SQLFetch`; likewise `SignUp` and
  `SignUpInsert`. `LogOut` is one statement.
* `cursor` is the state of the statement handle that decides whether the next
  statement is accepted: `SignIn` closes the cursor on every path, `SignUp`
  on none.
* `PushRes` goes on into `LogOut` for every request that is not a sign-up, as
  the `if`/`if`/`else` of `Database.hpp:563-589` does.
* Nothing makes a name unique: the documented schema (`Database.hpp:13-17`) has no
  such key, and two sign-ups may insert one name twice. `SignInAnswerIsTrue` says
  what is still true then: the usercode is that of a row of the name, and the
  password was that of such a row.
* `PushReq` keeps `clientIndex` modulo `UShort`: its parameter is an unsigned
  short.
* `DBMayFail` opens a failure of any ODBC call: no handle or connection, a
  refused statement, a fetch that fails (which is also what a driver does that
  returns the row count of the `UPDATE` as first result), with whatever
  statements had run before it.

Read in: the text of a batch has its intended meaning when the DBMS accepts it.
The text the code sends is narrow text in a wide buffer and its last SELECT has
no FROM; that it may be refused is one of the `DBMayFail` choices. What the
passing runs show holds either way; the traces of `db_double_sign_in`,
`db_sign_in_releases` and `auth_account_kept` need a sign-in batch that is
executed as meant. A row's
`LASTAUTHSERVER` starts as 0 (`INSERT` names two columns only, so the table must
have that default). When a process dies, a batch it had sent stops between two
statements; it does not go on after the server has been started again.

`MCDatabase.tla` gives the constants values: three names (one refused by
`CheckIDIsValid`), two passwords, one initial account, and one set of requests
per question. `OnClose` can only push a `LOGOUT` of usercode 0, because nothing
calls `SetUserCode` with anything else (`AuthServer.hpp:165-169`); the inputs say
so.

### CustomQueue

`FifoQueue.tla` is the promise: a sequence, what `front()` shows and what
`size()` returns. `CustomQueue.tla` is the linked list of
`CustomQueue.hpp:6-126` with its pool of nodes and its destructor; a push, pop
or discard is one step because every caller holds a mutex. `pop` has no test in the code:
its callers in `DataBase` and `RedisManager` ask `empty()` first, and `SendCompleted`,
which does not, is covered by `OneSendAtATime`. The allocator may return any free
address. The destructor is one step per node, since what it
does to a deleted node is undefined (`life = "undefined"`).
`CustomQueueHistory.tla` adds two history variables, the queued and the pooled
nodes in order, which restrict nothing and make the shape of the lists a state
formula without recursion over links. `Database`, `RedisManager` and `IOCPServer` use
sequences for their queues; theorem `QueueIsFifo` is what justifies that.

### ClientInfo and IOCPServer

`ClientInfo.tla` holds the sessions of `ClientSession.hpp` with the sockets and
overlapped operations they use; its operators are the member functions, or the
parts of them between two accesses to state another thread may change.
`IOCPServer.tla` is the threads of `IOCP.hpp` that call them.

* `ops` is what Winsock holds: an operation is posted "pending", ends "ok" or
  "failed" (`Transfer`, `ClientConnects`, `Abort`), and leaves the set when a
  worker dequeues it, in any order. `m_userIndex` is the index in the structure
  it was posted with: 0 for a receive, because `BindRecv` does not set it.
* `PostAccept` is two steps (`socket()` into `mSocket`, then `AcceptEx`), `Close`
  four (`Disconnect`, `TakeTime`, `CloseSocket`, `ForgetSocket`): no lock protects
  them. `AcceptCompletion` is three: it reads `mSocket`, `OnConnect` writes what
  it read back (the accepter may have overwritten it in between), `BindIOCP`
  associates the socket with the port. A failure of the last is NULL, for which
  `BindIOCP` does not look, so nobody notices: the socket is not in `bound`, and
  no operation on it is ever reported. `SendMsg` and `SendCompleted` are one step
  each, under `mSendLock`; both include their `SendIO`.
* A worker (`WorkerStep`) dequeues (`Dispatch` is the tests after
  `GetQueuedCompletionStatus`), then runs the branch. `AcceptCompletion` and
  `OnReceive` go on to `WorkerBindRecv`, whose failure closes the session in the
  first case and is ignored in the second.
* `asked[s]` counts the requests taken from session `s` and not yet answered;
  `Send` answers one on the session, whoever has it by now. In the server as
  it stands the sender threads return at once (`AuthServer.hpp:294` is never set),
  so `Send` is what the class promises to a caller of `SendMsg`, not what
  happens today.
* Time is one bit per session, `rested`: more than `RE_USE_SESSION_WAIT_TIMESEC`
  has passed since `mLatestClosedTimeSec`. `Slow` says which of accepts,
  connections and handlers may last longer than that wait; all three may in
  the real program, and `iocp_sends` has the first two.
* A socket is an identity, free again when nothing refers to it. That Windows
  reuses the number of a closed socket is not modelled.

`StartServer` is the initial state; the index `AcceptCompletion` and `OnReceive`
see is `pClientInfo`, the session found by `m_userIndex`, not the one that posted.

### RequestService

`RequestService.tla` is what the two services behind the workers promise: per
client, requests pushed and not yet answered, and answers not yet popped; while
the service runs a request becomes one answer and an answer is handed out once,
and only a service that stops may drop what it holds. `Database` implements it
with client indices for clients, per server (`ImplementsService`, a step that
is none of the service's is a stutter); `RedisManager` with packets.

### RedisManager

`RedisManager.tla` is the class of `RedisManager.hpp`. A packet is an address:
allocated by a caller (`NewPacket`, the `new` in `MakeSendPacket`), then owned
by exactly one of the queues, a thread, or the session that sends it
(`popped`), and deleted by `Sent`, by `PushReq` of a stopped server or by
`FlushQueue`. `pkt[a]` is the pointer thread `a` holds.

* `PushReq` is two steps, the test of `mIsRun` without the lock and the push
  under it; callers and the retry of a task thread both go through them.
* `SetEx` is one `redisCommand`: a reply, which may be an error reply, leads to
  `PushResult`; no reply to `PushReq` again, the command executed or not, and the
  context stays broken, as hiredis documents (`broken`). `stored` are the packets
  Redis has stored, `denied` those it has answered with an error, which the code
  takes for success. `Fault` says which of
  refused connections, lost replies and error replies may happen.
* `End` is `DestroyThread`, `Joined`, `FlushQueue`.

### AuthServer

`AuthServer.tla` composes one process: the main thread (`main.cpp`), the workers,
the accepter, the two sender threads, on `INSTANCE`s of `Database` and
`RedisManager` whose operators are called where the code calls the member
functions. `main` names the last thing the main thread has begun: `Init`
(`InitSocket`, whose failure is ignored, `RedisInit`, `DBInitialize`), `Run`,
and `End` in its order: Redis, database, port, join of the workers, sessions
deleted, flag and join of the accepter, join of the senders.

* A session is reduced to the state of its client (`client`) and `mUserCode`; a
  handler is one step between two dequeues, its socket work being
  `IOCPServer`'s. `OnClose` and `OnReceive` push into the database from there.
  A worker calls the session `pClientInfo` finds, as in `IOCPServer`: a receive is
  taken for one of session 0, which then gets the answer, the next receive or the
  `Close`; the session it came from is left without a receive ("deaf").
* `AuthServer::mIsRun` is an operator that is FALSE: the class declares its own
  and nothing sets it. `SenderStep` is written for both values.
* A certified session's `TokenReq` makes a packet and pushes it (`PushPacket`). No
  session ever has a usercode other than 0, so no run gets there; what Redis does
  with packets is module `RedisManager`.
* `AccepterWalk` over deleted sessions may crash the process or go unnoticed.
* `Requests` is what the workers may push, the `Input` of the `Database` in the
  process. `PartsAssumption` says that the parts' own assumptions hold of what
  the process gives them; TLC evaluates it.

### Base64, InjectionCheck, Packet

Pure operators. `Base64.tla` translates both tables and both functions, with the
state their loops keep, as recursive functions of the number of steps taken;
`InjectionCheck.tla` the search for reserved words and
the tests of a name; `Packet.tla` the packets of `Packet.hpp`, the lengths that
`AES.hpp` returns on each path (as sets: a call may fail), and `encrypt` and
`MakeSendPacket` of `AuthServer.hpp` by the lengths of texts.
`stPktRes.userid`, which nobody sets, may be any `Long`. `Algorithms.tla` feeds
them inputs that grow one element a step and compares them with reference
definitions: bits for Base64, `SubSeq` for the search, buffer sizes for the rest.
The sizes of the structures are constants; the configuration gives those of a
64-bit debug build (8, 48 and 80).

## 3. Runs

| run | shows | bounds |
|---|---|---|
| `db_threads` | types; nothing recorded for an ended server; a successful sign-in carries the code of a row of its name and was made with the password of such a row; sign-up answers are true; the service is implemented: no answer is lost, repeated or invented; no client is starved; `End` returns | 1 server, 2 threads, 2 USERCODEs, 6 requests, 2 pending, failures and crashes on, fairness |
| `db_double_sign_in` | *violation*: two threads sign one account in | 2 threads, no failures |
| `db_sign_in_releases` | *violation*: a sign-in frees the account whose code is the client's index | 1 server |
| `iocp_sends` | types; one send of a session in flight and it is the head of its queue, whatever call fails | 1 session, 2 workers, 2 sockets, 2 packets; slow accepts and connections (slow handlers too in the theorem) |
| `iocp_wrong_session` | *violation*: with two sessions the end of one client closes the connection of another | 2 sessions, 2 workers, 2 sockets, nothing slow, nothing fails |
| `iocp_stuck_queue` | *violation*: a queue nobody will send | 1 unanswered request |
| `queue_fifo` | the linked queue with its destructor implements the abstract one; its lists are well formed; a destructor that ends leaves no node | 4 nodes, 3 data |
| `redis` | types; every packet has one owner; what is answered has been stored, or refused by Redis with an error reply, whatever was lost and retried; after `End` nothing is in `OutQueue`; the service is implemented; `End` returns; no packet is starved | 3 packets, 2 callers, 2 threads, connections refused, commands lost, error replies, fairness |
| `auth_end` | types; no thread is left after `End`; the sessions are deleted only when nothing but the accepter can use them, and no account is recorded then unless `InitAuth` failed; `End` returns, or the accepter has crashed over deleted sessions | 1 session, 2 workers, 1 account, 1 DB thread, 1 Redis thread, 2 requests under way; the DBMS and `InitSocket` may fail, fairness |
| `auth_unsent` | *violation*: results stay in the queue for ever | the same |
| `auth_account_kept` | *violation*: an account stays recorded after its client has left | the same |
| `algorithms` | Base64, ciphertext and packet lengths, word search, names that pass | inputs of up to 18 elements, 4 of them free, 5 bytes and 5 characters |

Further configurations answer questions that are not in the list of runs
(`tlc -config <configuration> <module>`):

| configuration | shows |
|---|---|
| `MCDatabase_cluster.cfg` | passes: two servers on one table that start, stop and crash independently; what it checks is proved for any number of servers (section 4) |
| `MCDatabase_one_thread.cfg` | passes: with one thread in the cluster a sign-in takes a free account only, so `db_double_sign_in` is due to the interleaving alone |
| `MCDatabase_same_id_twice.cfg` | violation of `IDsAreUnique`: one name is inserted twice |
| `MCDatabase_failed_fetch.cfg` | violation of `FailedSignInTakesNothing`: a fetch that fails after the `UPDATE` leaves the account locked |
| `MCIOCPServer_lost_client.cfg` | violation of `EveryConnectionHasASession`: an accept that waits longer than three seconds is posted again, and its client belongs to no session |
| `MCIOCPServer_silent_session.cfg` | violation of `ConnectedSessionListens` when calls may fail: the failed receive after `OnReceive` is ignored |
| `MCIOCPServer_reuse.cfg` | violation of `ReuseWaits` when connections are slow: `Close` clears `mIsConnected` before it takes the time |
| `MCCustomQueueHistory_double_delete.cfg` | violation of `DeletedOnce`: the destructor walks on into the pool and deletes its nodes again |
| `MCRedisManager_stopped_queue.cfg` | violation of `StoppedTakesNothing`: a push between the test and the lock fills the queue of a stopped server |
| `MCRedisManager_retry_for_ever.cfg` | violation of `RetriedIsStored`: a broken context is never replaced |
| `MCRedisManager_error_reply.cfg` | violation of `AnsweredIsStored`, what `RedisManager.hpp:123` says of `GetRes`: an error reply counts as success |
| `MCAlgorithms_cut.cfg` | violation of `MessageIsWhole`: the bytes sent are fewer than the text's |
| `MCAlgorithms_wrong_user.cfg` | violation of `TokenIsForUser`: a token's packet carries an unset usercode |

Why the bounds are enough. Every interference in `Database` is between two
threads or two servers about one account or one name, so two of each show it;
the two pending requests of `MaxPending` (counting queued, held and unread
ones) put both threads to work at once or let one wait behind another; two
`USERCODE`s leave one for a sign-up, and none for a second, which is the
refused `INSERT`. In the queue, four nodes allow a backlog of two with two
nodes in the pool, which is where a reused node meets a non-empty list.
In the sessions, two workers are enough for two completions of one session to be
handled at once, two sockets for an accept to be posted over another or a
connection to follow one, two packets for one to wait behind the other, and
two receives (`MaxReceives`) with one structure for the case the program should
not get into. `iocp_sends` has one session, which is where all receives go whoever
they are of; its two properties are proved for any number. `iocp_wrong_session` has
two. Workers, sockets
and packets are interchangeable in `iocp_sends` (`SYMMETRY`; no liveness there).
In `RedisManager`, three packets let one wait in a queue while both threads hold
one, and one be retried behind another; two callers give the two pushes that
race `End`. In `AuthServer`, two workers let one be in a handler while the other
waits for a completion or sees the flag; with one session every receive is found
for the right one, and the invariants are proved for any number. Deadlock is
checked everywhere but where the system really stops: after the destructor
(`queue_fifo`), after `End` (`redis`, the three `auth` runs), at the bound of an
input (`algorithms`), and in `iocp_sends`, where a session that hears nothing (see
`MCIOCPServer_silent_session.cfg`) is a real stop.

`db_sign_in_releases` is about the class: the client index in the input (1) is
a slot's own number. In the server as it stands only slot 0 is ever reported as
the receiver (see hazard `ClientSession.hpp:107`), and no USERCODE is 0.

Fairness (`Database!FairSpec`): weak fairness of each thread's step, because
the operating system runs every thread, a mutex is held for a few instructions
only, and an ODBC call returns with an answer or an error; weak fairness of
`EndInitAuth`, which follows the joins in the same thread. Nothing is assumed of
callers, of starts, stops or crashes. `RequestIsAnswered` is conditional on a
thread being alive: one that could not connect never returns.
`RedisManager!FairSpec`: weak fairness of each task thread, of a caller inside
`PushReq`, of the join and the flush; `redisCommand` returns, with a reply or
with NULL. `PacketIsStored` is about a server that keeps running with a live
thread and no broken context, since `RetriedIsStored` shows what happens else.
`AuthServer!FairSpec`: weak fairness of every thread and of the main thread's
steps in `End`; nothing of the clients, of starts or of the key that ends the
server. `EndReturns` there allows the accepter to have crashed the process.

## 4. Proofs

`DatabaseProofs.tla` (for all values of the constants that satisfy
`DatabaseAssumption`):

* `TypeCorrect`: `Spec => []TypeOK`; `TypeOK` is inductive by itself.
* `EndReleasesAccounts`: `Spec => []EndedHoldsNothing`. The property alone is
  not inductive: an `UPDATE` of a thread that is still alive would break it. The
  invariant `EndInv` adds `Joined`, that a server that has ended (or is off) has
  only dead threads; `EndInitAuth` establishes it from its join, `Initialize`
  leaves the phase before it creates threads, and no dead thread acts.
* `SignUpAnswersAreTrue`: `Spec => []SignUpAnswerIsTrue`, because rows are only
  ever added and the answer is decided in the step that adds or finds the row.
* `SignInAnswersAreTrue`: `Spec => []SignInAnswerIsTrue`. The invariant `AnswerInv`
  adds, for each thread (`Knows`), what its check established and the table
  keeps: from the check on there is a row with that ID and password, and what
  the last statement reads is the code of a row of that ID. No row ever changes
  its ID or its password, and none is deleted.

`DatabaseServiceProofs.tla` (from the same assumption, which has `Thread` finite: a
program has finitely many):

* `DatabaseServes`: `Spec => ImplementsService`, for every server. The service
  counts, so the proof counts: `Hits` (the entries of a queue that name a client)
  and `Held` (the threads that hold one of its requests before the answer) are
  finite sets, one group of lemmas says by how much an `Append`, a `Tail`, the
  taking and the giving of a thread change them, and another maps each action to
  a push, an answer, a pop or a stutter. `Addressed` is the invariant it needs:
  an index that is queued, held or answered went through the unsigned short,
  so that `PushRes`, which converts once more, answers the client that asked.

`CustomQueueProofs.tla` (for any set of addresses and data):

* `QueueWellFormed`: `HSpec => []ListsWellFormed`. `QueueLinked`, `PoolLinked`
  and `Placed` are inductive together: `push` writes the next of the tail or of
  no node, and `Placed` says that neither is in the pool.
* `QueueIsFifo`: `HSpec => ContentsAreFifo`, each step mapping to the abstract
  `push`, `pop` or `destroy`, or to a stutter, under `ListsWellFormed`.
* `NodesHavePlaces`: `IsFiniteSet(Node) => (HSpec => []EveryNodeHasAPlace)`. The
  property follows the links, the histories hold the nodes in order; that the
  two meet the same nodes (`SameWalk`) is by least counterexample. Finiteness is
  what makes `Cardinality(Node)` steps enough to reach the end of a list.
* `DestructorLeavesNothing`: `HSpec => []NothingLeaks`. `DestructorInv` says which
  nodes are left at each step of the destructor, all of the pool among them
  until its second loop; a walk that leads from the queue into the pool ends
  in `life = "undefined"` and so not in `"gone"`.

`IOCPServerProofs.tla` (for any number of sessions, workers, sockets and packets,
any `Slow`, calls that may fail):

* `TypeCorrect` and `SendsOneAtATime`: `Spec => []TypeOK` and
  `Spec => []OneSendAtATime`. Neither is inductive alone: `SendCompleted` of an
  empty queue would break the types, and a worker at `sent` must hold the
  completion of a send (`PcMatchesJob`). `SendInv` is the three together. A send
  exists only for the head of a queue that is not empty, so `SendMsg` on an empty
  queue finds none in flight, and neither does `SendCompleted` once it has
  dropped its own; closing or reusing the session touches neither.

`RedisManagerProofs.tla` (for any number of packets, callers and threads and any
`Fault`, from `RedisAssumption`):

* `TypeCorrect`, `EndFlushes`, `PacketsHaveOneOwner`: `TypeOK` says at which
  points a thread holds a packet, and `OneOwner` is inductive with it: each
  step moves a pointer from one owner to the next. `EndFlushes` adds that from
  the join on no task thread is alive.
* `RedisServes`: `Spec => ImplementsService`. A packet is "waiting" in `InQueue`, with
  a task thread, or with a caller past the test; `OneOwner` is what makes
  `PushResult` answer one waiting packet and `GetRes` take one answer.
* `AnswersAreDone`: `Spec => []AnsweredIsDone`. The invariant adds that a thread
  before `PushResult` holds a packet that is stored or denied. It needs
  `OneOwner`: `NewPacket` reuses the address of a deleted packet, which must then
  be nobody's answer.

`AuthServerProofs.tla` (for any number of sessions, workers and threads of each
kind, from `AuthAssumption` and `PartsAssumption`):

* `NoThreadLeft` and `SessionsLast`: `EndInv` is inductive. It says what each join
  leaves behind (`RedisJoined`, `DBJoined`: nobody alive once the owner has gone
  past the join; `Released`: nobody writes `LASTAUTHSERVER` after `DataBase::End`
  has) and which joins `main` has passed at each point of `End` (`Waited`). A
  worker that is not done shows that `main` has not come to the sessions, so what
  handlers push late stays in a queue without a thread.
* The lemma `PartsAreUsed`: every step of the process is a step of `Database` and one
  of `RedisManager`, or leaves them alone. Most of it is how the actions are
  written; what it takes is the invariant (`SessionInv`) that a worker serves a
  session and that no session has a usercode, so that what `OnClose` pushes is one
  of the `Requests` and `TokenReq` pushes nothing.
* `TypeCorrect` and `AnswersAreTrue` compose: the modules of proofs are instantiated
  with what the process gives its parts, `Same...` shows that these instances say
  what `mDB` and `mRedis` say, and the theorems about one part become theorems
  about the process. Any other theorem of `DatabaseProofs` or
  `RedisManagerProofs` can be had in the same way.

`AlgorithmsProofs.tla` (for any bytes and characters and any length, from
`AlgorithmsAssumption`):

* `EncodesAsSpecified` and `DecodesEncoded`: the invariants `EncodedAsSpecified` and
  `DecodedIsEncoded`. Each loop is a recursive function of the number of steps.
  Its state after `n` steps is given in closed form (`Encoded`, `Decoded`), one step
  leads from the closed form of `n` to that of `n + 1` (`EncodeStep`, `DecodeStep`),
  and the two are equal for all `n` because there is no least `n` at which they
  differ. The bits of a quadruple are compared one by one (`SextetBits`).
* `ContainsIsRight`, `ValidNamesAreHarmless`: `ContainsIsSubstring` and
  `ValidNameIsHarmless`, which follows from the first: no part of a name that
  passes is a reserved word, wherever it begins and ends.
* `SendsStayInBuffer`: `SendStaysInBuffer`, if `PktHeader` and `PktRes` have at most
  56 bytes together. They have 8 and 48 in a 64-bit debug build (a
  `std::string` of 40 bytes) and 8 and 40 in a release build; with larger ones the
  shortest text would be shorter than the bytes sent.
* `TokenIsEmpty`: `encrypt` never sets a token, because `EncodedSize(n) > n`.
* `CiphersFit`: `CipherFits`.

Facts by induction: the induction theorems of the library take a predicate as
a parameter, which the provers cannot instantiate. Two of the modules therefore
argue by least counterexample: `LeastElement` (a set of naturals that is not empty
has a least element) follows from the well-foundedness of `<`, takes a set and no
predicate, and is applied to the set of the places where a claim fails.

Every invariant and refinement of the passing runs is a theorem. Only
model-checked: liveness (`RequestIsAnswered`, the three `EndReturns`,
`PacketIsStored`), which rests on fairness and `ENABLED`, out of the prover's reach.
What the sessions are meant to do beyond their sends (`EveryConnectionHasASession`,
`ConnectedSessionListens`, `LiveClientIsNotClosed`, `ReuseWaits`) is neither a
theorem nor a passing run, because the program does not do it: each is violated
in a run or a configuration of section 3.

## 5. Findings

Six disagreements between the code and what its comments say are kept as
violation runs (`PROJECT.json`, `findings`): the double sign-in, the sign-in that
logs another account out, the send queue that outlives its connection and stays
stuck, the connection that is closed because another client has left, the answers
that are never sent, and the account that is kept after its client has left. More
show in the further configurations of section 3. One is a theorem: `TokenIsEmpty`,
no token request is ever answered with a token.

## 6. Not modelled

* Vendored hiredis and build files; console output; `AES.hpp` inside OpenSSL;
  the wording of JSON and SQL texts.
* `parseDataFromJson` (`Packet.hpp`): it has no caller.
* The bytes `OnReceive` copies over a `RecvPacketData`, and the byte behind a full
  receive buffer (`IOCP.hpp:239`): their effect is up to the memory layout.
* In `AuthServer`, the sockets of a session: `IOCPServer` has them, and the two
  together are out of TLC's reach.
* `InitSocket`'s single failures: they differ in nothing that is kept; a crash
  inside `Initialize` between its calls is `Exit` of `Database`.

## 7. Plan

What is left: the session properties of section 4 for a program that sets
`m_userIndex` in `BindRecv` and waits from the end of `Close`, should the code be
changed so; the reset that `Initialize` makes, told apart from one that failed;
and `RequestService` carried over to the process as `AnswersAreTrue` is.
