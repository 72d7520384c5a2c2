# Verification of the RAN Online Linux servers

TLA+ models of `src/ranserver-linux/`, the port of the RAN Online game servers to
Linux: a networking layer on boost::asio (`net/`), an ODBC layer (`db/`) and five
servers (`servers/`) that share the same skeleton. TLC checks the models on small
instances; TLAPS proves the most important invariants of the session, of the
connection from one end to the other, of the server's life under its main program, of
the message path, of the login handlers, of the calls on the database and of the
certification with its cipher for every value of their parameters.

    tlc -workers 2 -config Session.cfg MCSession.tla     # any run below
    tlapm SessionProofs.tla                              # the proofs

The runs, the mutants that show what each property is able to catch, and the line
ranges each definition models are in `PROJECT.json`.

## 1. The system

A *server* is a `NetServer` with hooks. `main()` calls `Start()`, waits for a
signal and calls `Stop()`. `Start()` opens the database (`OnStart`), listens, arms
an accept loop and two timers and starts a pool of worker threads that all run one
`io_context`. **Nothing is bound to a strand**: any two completion handlers may run
at the same time on two workers, and what orders them is only the pending-operation
discipline (a timer is re-armed after its handler) and the mutexes named below.

| Component | State | Operations | Hard behaviours |
|---|---|---|---|
| `NetServer` (`net/net_server`) | `m_running`, acceptor, two timers, `io_context`, worker pool | `Start`, `Stop`, `doAccept`, `armUpdateTimer`, `armScheduleTimer`; hooks `OnStart/OnStop/OnAccept/OnUpdate/OnRegularSchedule` | Stop racing the re-arming of a timer; handlers that stay in the stopped `io_context`; restart; failed accepts; serialization of hooks |
| `Session` (`net/session`) | `m_sock`, `m_buf`/framer, `m_sendBuffer`, `m_writeQueue`, `m_writeInProgress` (`m_writeMx`), `m_closed` (no lock) | `Start/doRead`, `Send`, `Flush`, `enqueueWrite`, `doWrite`, `Close` | tick, read handler and write handler in it at once; `Close` from all three; lifetime through `shared_ptr`s held by operations |
| `SendMsgBuffer` (`net/send_msg_buffer`) | one batch of messages, its length | `addMsg`, `getSendSize` (pack, compress, reset), `reset` | thresholds and limits; a batch full in the middle of a send |
| `MessageFramer` (`net/packet`) | `m_buf`, bytes not yet cut | `Feed`, `EncodeMessage` | arbitrary cuts of the stream, envelopes with several messages, malformed input |
| `MsgManager` (`net/msg_manager`) | front and back queue | `MsgQueueInsert`, `MsgQueueFlip`, `GetMsg` | read loops inserting while the tick flips and drains |
| message path of the servers (`servers/*/*_server.cpp`) | `m_sessions`, `m_recvMsgs`, `m_nextClientId` | `OnAccept`, `OnUpdate`, `dispatch`, the `onClose` callback | sessions used after they were looked up and unlocked, erased meanwhile; flush |
| `AgentServer` handlers | `m_loginSessions` (under `m_sessMx`), `m_db` (under `m_dbMx`) | login, character list, character detail, PIN check | state read, then a database call, then state written, while links drop; every order of requests |
| `AuthServer` certification, `auth_crypto` | the request and its certification result, `m_db` | decrypt, split, certify, encrypt, answer | every way to be cut short: hexadecimal, padding, number of fields, fixed-size fields; a certification that fails, or of which only some columns are read |
| `OdbcDb` (`db/odbc_db`) | connection, statement, parameters, cursor, `m_paramsExecuted`, `m_resultsDrained` | `Open`, `Close`, `Append*`, `ClearParams`, `Execute*`, `Next`, `GetCollect`, `GetParam` | order of the calls; a call that fails half-way; parameters that the driver writes after the execute, when the results are drained |
| `main.cpp` of the servers | `g_stop`, `g_cv` | signal handler, wait, `Stop`, exit | a notification that nobody waits for, a spurious wakeup, a start that fails half-way |
| `minlzo`, `msgpack_min`, `char_lobby`, message layouts | none | pure conversions | only their outcomes matter to the rest |

How they interact: `main()` calls `Start()` and, after a signal, `Stop()`. A read handler feeds the `MessageFramer` and calls
`MsgQueueInsert` for every message; the update timer's `OnUpdate` flips the queues,
dispatches every message, and a handler answers with `Session::Send`, which puts
the answer in the session's `SendMsgBuffer` and, when the batch reaches the
threshold, queues it for the socket. In `AgentServer` and `AuthServer` the end of
`OnUpdate` flushes every session. When a link drops, `Close()` runs in whichever
thread saw it first and calls back into the server, which erases its entries.

What makes each component correct: hooks are serialized and `Stop()` terminates with
the database released last (`NetServer`); packets leave one at a time, in order,
without loss, and a closed session is let go (`Session`); what is sent is what is
cut on the other end, whatever the chunking (`MessageFramer`, `SendMsgBuffer`);
no message is lost, doubled, reordered or misrouted between read loop and tick
(`MsgManager`, message path); what a client is told about its login is the state the
server holds and answers from (`AgentServer`); a procedure is called with the arguments
of its own command and its outputs are read as it gave them (`OdbcDb` and its callers);
a certification answer decrypts, at the server that asked, to what it asked about
(`AuthServer`); a signal ends the program, with its workers joined and nothing listening (`main.cpp`).

## 2. The modules

| Module | Models | Notes |
|---|---|---|
| `SendMsgBuffer` | `send_msg_buffer.cpp` | constant-level operators over a batch record; used by three modules |
| `Session` | `session.cpp` with `SendMsgBuffer` and its three threads | the core; `pc` per thread, one step per access to shared state |
| `FifoChannel` | nothing: an abstract channel that may break | `Session` implements it (`ImplementsChannel`), and `GameServer`, from read loop to socket, one per client (`ImplementsEcho`) |
| `SessionProofs` | theorems about `Session`, and about it as a `FifoChannel` | |
| `PrefixLemmas` | lemmas that the proofs share: prefixes, how often an element occurs in a queue, induction for a set of numbers, loops | |
| `NetServer` | `net_server.cpp` and the servers' `OnStart/OnStop` | the `io_context` is a FIFO of ready handlers |
| `ServerMain` | `servers/*/main.cpp` | extends `NetServer`: its control thread is the thread of `main()` |
| `ServerMainProofs` | theorems about `ServerMain` and, with it, `NetServer` | |
| `MsgManager` | `msg_manager.h` | constant-level operators |
| `GameServer` | `OnAccept`, `OnUpdate`, `dispatch`, `onClose` of the five servers | composes `MsgManager`, `SendMsgBuffer` and, per client, a FIFO channel in place of `Session` |
| `GameServerProofs` | theorems about `GameServer` | |
| `MessageFramer` | `packet.cpp` and the read loop's use of it | state and actions of the receiving end |
| `FramedLink` | one connection | composes the sending end (`SendMsgBuffer`, `EncodeMessage`) with `MessageFramer` |
| `FramedLinkProofs` | theorems about `FramedLink` | |
| `AgentServer` | login, lobby and PIN handlers | `dispatch` split at its lock acquisitions |
| `AgentServerProofs` | theorems about `AgentServer` | |
| `OdbcDb` | `odbc_db.cpp` and the driver behind it | one action per call, with every way it may fail |
| `DbCallers` | the database calls of `agent_server.cpp`, `auth_server.cpp`, `db_smoke.cpp` and `db_param_smoke.cpp` | extends `OdbcDb`; the programs that call it, in their order |
| `DbCallersProofs` | theorems about `DbCallers`: rows, arguments and outputs | |
| `AuthCrypto` | `auth_crypto.cpp` | constant-level functions; word size, rounds and key are parameters |
| `AuthServer` | `dispatch` and certification of `auth_server.cpp`, client and procedure of `authserver_smoke.cpp` | extends `AuthCrypto` |
| `AuthServerProofs` | theorems about `AuthServer` and `AuthCrypto` | |
| `MC...` | instances for TLC | symmetry sets and the scaled-down constants |

**Session.** Threads `tick`, `reader`, `writer`: the tick runs `Send`, `Flush` and
`Close` (from `dispatch`), the other two are the completion handlers. A thread's `pc`
names where it is: `doWrite`/`issue` are `doWrite()` before and after it releases
`m_writeMx`, `pop` is the completion between the write and `pop_front`, `close`,
`mark`, `shutdown`, `clear`, `notify` are the steps of `Close()`. `m_closed` is a plain
`bool` read and set without a lock, so testing it (`CloseTest`) and setting it
(`CloseMark`) are two steps. The kernel's half of the socket is the `Io...` actions.
`accepted` and `wire` are histories; `poppedEmpty` records that `pop_front` ran on an
empty `deque`, which is undefined behaviour, and the thread stops there.

**NetServer.** `control` is where `main` is in `Start`/`Stop`; `at` what each worker
does (in `run()`, in a hook, between a hook and the re-arming of its timer); `queue`
holds the handlers that are ready. A handler that completes with an error returns
at once and changes nothing, so it is left out, but for a failed accept, which does
change something: the loop ends. `db` counts connections opened and not released.

**ServerMain.** `program` is where `main()` is; the wait on `g_cv` is three steps, the test
of `g_stop`, the moment between it and the sleep, and the sleep. The signal handler runs
between any two steps and is two steps itself (`handler`), the store and the
notification; `missed` records a notification that found `main()` tested but not asleep
yet. A `program` that is `"harness"` is a test program, which may stop and start the
server at will, so the module includes every behaviour of `NetServer`. The destructors
at the end of `main()` are part of its last step: they release a database that a failed
`OnStart` left open.

**GameServer.** `tick` is where `OnUpdate` is; `msg` the message in hand; `erasing` the
clients whose `Close()`, on a worker, has set `m_closed` and has yet to erase the
session. Below `Send`, a session is the channel that `Session` was shown to implement:
`Transmit` hands the next packet to the socket while the link is up.

**FramedLink.** `stream` is the sequence of frames written, `unread` how many of their
bytes no read has returned, `m_buf` how many bytes the framer holds: the reads may cut
anywhere, and contents are messages numbered in the order the peer made them. LZO
is a choice: a batch becomes smaller or it is sent as it is.

**AgentServer.** A `dispatch` is: look the session up, look the login up, call the
database, store or send. Between any two of these a worker may close the link
(`LinkDrops`) and erase both entries (`OnClose`). Stored procedures answer anything or
fail. `replies` is what was handed to `Send`, and `Known(replies)` what a client can know
of its own login from it.

**OdbcDb, DbCallers.** `m_stmt` is the statement handle with what the driver holds behind
it: the result sets not yet consumed, the row it is on, and the answer it still owes to
the bound output parameters. It writes them with the last result set, as the ODBC
interface has it, into whatever `m_params` is then. Every value carries the number of
the command it was made for, so a value of another command is recognised wherever it
is read. `DbCallers` says who calls what in which order and what each does after a call that
failed.

**AuthCrypto, AuthServer.** The cipher is computed: key schedule, rounds, chaining, padding and
digits as in the code. The bits of a digit, the bytes of a word, the rounds, the two magic
numbers and the key are constants, which the code has as 4, 4, 16 and its own; TLC runs it on
words of two bytes of four bits with two rounds. Exclusive or, shifts, `std::to_string`, `atoi` and `strncpy` are
written out, over numbers of any size, and `atoi` without a sign: the code's `int`s agree with
it as long as a field is a number that fits one. Characters are numbered
anew, the digits 1 to 10 and the comma 11: nothing in the cipher depends on which is which. `tick` is where `dispatch` is
between a request, its certification and its answer; `sent` keeps the fields the sender
meant, next to the text that arrives.

## 3. What is checked

### Runs that pass

| Run | Distinct states | Shows |
|---|---|---|
| `session` | 157 k | one write outstanding, queue never abandoned, the stream complete, buffer bounds, `pop_front` on an empty deque only after `Close()`; an accepted message is written or the link is closed; a closed session is released; the session implements `FifoChannel`, its order and its liveness included |
| `netserver_restart` | 42 k | under `main()` with two signals at any moment, and under a harness with two lives: hooks serialized in the first life, the database open under every hook in both, no timer loop lost and at most one more per restart, `Stop()` returns, the tick recurs; a signal that is not missed ends the program, and it ends clean |
| `gameserver` | 114 k | two clients, two frames each: frames conserved, in order and to the right client, whatever closes when; with a flushing `OnUpdate` the path implements one `FifoChannel` per client, so every frame comes back or the link breaks; closed sessions are forgotten for good |
| `framedlink_safety` | 1.9 M | what was sent is delivered once, in order, nothing complete waits, own frames are never refused, with malformed frames at any point |
| `agentserver_safety` | 4.2 M | login state equals what replies said, lobby answers are for the user last logged in on that connection, a PIN is checked only while one is pending, an erased client's entry is never used |
| `dbcallers` | 46 k | each procedure is called with its own command's arguments, the rows read are those of the own command, in order and without a gap, outputs are the last procedure's answer, and the driver never writes a parameter that is not there any more |
| `authserver` | 27 k | a request is answered exactly when it can be, the answer decrypts to its own request's fields, only the good key is certified, with damaged, short and over-long requests in between |

### Runs that find the code at odds with its documentation

| Run | The code does | The repository says |
|---|---|---|
| `session_onclose` | two threads find `m_closed` false and both call `m_onClose` | `session.h:22` "onClose is invoked once" |
| `netserver_serialized` | a tick that was ready when `io.stop()` was called runs in the next life, next to the loop the new `Start()` armed: two `OnUpdate` at once (`io.stop()` does not drain, other than `net_server.h:52` says) | `auth_server.h:68-69` "the serialized update tick" |
| `netserver_accept` | one failed accept ends the accept loop | `net_server.cpp:102` "keep accepting" |
| `gameserver_noflush` | Login-, Session- and FieldServer never flush: a small reply stays in the buffer | `fieldserver_smoke.cpp:83` "3 frames echoed back" |
| `framedlink_beforeerror` | complete messages read together with a malformed frame behind them are dropped | `session.h:21` "onMsg is invoked ... for each complete inbound message" |

Seen while modelling, on which the repository makes no claim, and therefore kept in
the models as behaviour: the completion handler may `pop_front` an empty deque when
`Close()` cleared the queue before it (`session.cpp:122`); a message that overflows a
batch and itself reaches the threshold stays in the buffer until the next send or
flush (`session.cpp:60-71`); `OnStart` that fails in its probe query leaves the
connection open; a login stored after its client was erased stays in
`m_loginSessions` (it is never used: `StrangersChangeNothing`); a failed login leaves an
earlier login of the same connection in force; a list that cannot be read goes out
empty and details that cannot be read are not answered; setting an initial PIN
(result 2) leaves the PIN pending; frames are accepted up to 4108 bytes, where the older
`net-packet-layer.md:84` still says 2048; a login whose user record cannot be read
succeeds with user number 0, the variable's initial value.

The database layer has more of these, all of them behaviour of `OdbcDb` and `DbCallers`:

- the drain before an output parameter is read (`odbc_db.cpp:319`) stops at the first
  result that is neither success nor "no data"; `odbc_db.h:84-86` says outputs are valid
  once all result sets are consumed and `GetParam` drains them. After such a stop
  `GetParam` finds the parameter unwritten, and `ProcessPassCheck`
  (`agent_server.cpp:521-525`) reads what it could not get as 0, its code for an accepted
  PIN. `OutputsAreTheAnswer` states what does hold: what is read is the answer of the
  last procedure, unless its results broke off;
- `Next()` returns false for a fetch that failed exactly as at the end of the rows, so a
  list may be cut short without notice (`RowsComplete` excepts a result that broke off);
- an execute that fails leaves `m_paramsExecuted` as it was, so a later `Append` would add to
  the old parameters. The servers call `ClearParams` first and the tests stop at the
  first failure, which is why `ProcedureGetsItsArguments` holds.

And one in `main.cpp:15`: the handler notifies without the mutex, so a notification
between `main()`'s test of `g_stop` and its sleep wakes nobody, and the program sleeps on
until another signal or a spurious wakeup. The comment of `servers/authserver/main.cpp:3`
("SIGINT/SIGTERM -> graceful Stop()") speaks of no such moment; `StopSignalExits` excepts
exactly it, and drops to a violation without `missed`.

### Bounds, and why they are enough

- *Sizes* are scaled with their order kept: threshold 4 < largest message 6 <
  buffer 8 and an envelope header of 2 stand for 1000 < 2048 < 4096 and 12. `Sizes`
  has one member per class: one that batches, one that reaches the threshold alone, one
  that is refused. Two small ones make a batch, a small and a large one overflow it.
  `FramedLink` adds header and maximum sizes (2, 3, 12) in the proportion that decides
  whether an unpacked batch fits the receive limit.
- *Session:* three messages allow a packet in flight, one queued, and a batch that
  overflows; the theorems lift the bound for the invariants they state. The threads and outstanding operations are all there are
  per session, so nothing else is bounded.
- *NetServer, ServerMain:* two workers suffice for two hooks at once. Two `Start()`s make one
  restart; two signals let one be missed and another come.
- *GameServer:* two clients, to misroute; two frames each, to reorder.
- *FramedLink:* three messages make a batch of two between plain messages, and
  a malformed frame may follow any of them.
- *AgentServer:* four requests over two clients: login, second login or PIN, lobby on
  one, interleaved with a request of the other; two users tell logins apart.
- *DbCallers:* four commands let a handler follow one that failed and one that was cut
  short, and cover every part of the test programs. Result sets are none, one or two, of
  up to two rows.
- *AuthServer:* two requests, of two servers; twelve kinds of message, each the first of its
  kind to be refused by one of the checks or to pass it at its limit. Two rounds are
  the fewest in which the two halves of a block depend on each other. `szAuthData` ends
  inside a block, as that of the code does.
- Bounds are constants (`MaxSends`, `MaxReplies`, `MaxStarts`, `MaxFrames`, `MaxMessages`,
  `MaxRequests`, `MaxSignals`, `MaxCommands`) and occur only in guards. Symmetry is over clients,
  in safety runs alone. Deadlock checking is off only in `agentserver_safety` and
  `authserver`, where the requests end; elsewhere idle states are steps of the model (`Over`, `StaysStopped`, ...).

### Fairness

Weak fairness of a thread of the `io_context` that is inside a handler: handlers do not
block for ever and the pool has workers to run them. Strong fairness of `Flush` and of
timer expiry: the timer recurs for as long as the server runs, though in between the
thread is elsewhere or the lock is taken. `PeerReads`, that a write on an open socket
completes one way or another, is the peer's and TCP's doing and is a conjunct of its
own. Nobody is obliged to connect, to send, to call `Start()` or `Stop()`, and no link is
obliged to drop. `MainFairness` adds that the thread of `main()` goes on, also inside the
`Start()` and `Stop()` it calls, and that a signal handler that began returns; nobody has to
send a signal, and no spurious wakeup is counted on.

## 4. What is proved

`SessionProofs.tla`, for all message sizes, buffer sizes (under the relations between
them that `SendMsgBuffer` assumes, which the constants of `send_msg_buffer.h` satisfy) and
all bounds:

| Theorem | States |
|---|---|
| `TypeCorrect` | `Spec => []TypeOK` |
| `TurnInvariantHolds` | `Spec => []TurnInvariant`, the inductive invariant |
| `OneWriteCorrect` | at most one write turn |
| `QueueServedCorrect` | a non-empty queue has somebody who will write it, unless closing |
| `PopsEmptyOnlyIfClosedCorrect` | `pop_front` on an empty deque only after `Close()` |
| `BufferFitsCorrect` | every copy stays inside its array; only a lone message exceeds the threshold |

`OneWriteAtATime` is not inductive: that the tick does not find `m_writeInProgress` false
while the writer is between its completion and the next `doWrite` depends on the
*token* reading of the flag. `TurnInvariant` states it: the tick in `doWrite`, the
writer in `pop`/`doWrite` and the outstanding operation exclude each other; whoever has
the turn implies the flag; the flag without a turn implies that the session is
closing; a queue that is not empty implies the flag. It is proved by one step per action
of the specification, then the named properties follow from it. `BufferFits` has its own induction over the
four outcomes of `Send` and over `Flush`.

Of the session as a channel, in the same module and under the same assumptions:

| Theorem | States |
|---|---|
| `StreamInvariantHolds` | `Spec => []StreamInvariant`, the inductive invariant of the stream |
| `WritesInOrderCorrect` | `Spec => WritesInOrder`: the session implements `FifoChannel`, its liveness aside |
| `OpenUntilMarkedCorrect` | nobody closes the socket or clears the queue before `m_closed` is set |
| `NothingLostCorrect` | until then every accepted message is on the wire, queued or batched, exactly once and in order |

The invariant says what `NothingLost` says by concatenating the queue without a concatenation: a
message carries the number of its acceptance, so a packet is a run (`Run`) of
accepted messages, the queue is a chain of runs (`Chained`) that begins behind what is
written and ends where the batch begins, and the batch ends with the last message accepted.
The lemmas `ChainAppend`, `ChainTail`, `SegmentAppend`, `DeliverRun` say what `enqueueWrite`,
`pop_front`, `addMsg` and the socket do to such a chain. Where the front is written already
but not popped, the chain begins one packet earlier (`Written`); that this is never a packet
of another write is what `TurnInvariant` is needed for. All of it is said while the socket is
open; afterwards nothing is written, and `Agrees(wire, accepted)` remains. `NothingLost` follows:
`OpenUntilMarked` says that the socket is open while `m_closed` is false, and a chain of runs,
put together, is the part of the accepted messages between its ends (`ChainContents`). That the
recursion in `FlattenSeq` computes this is an induction over the length of the queue
(`FlattenSteps`), for the set of the places up to which it does. With
`EchoesInOrderCorrect` below, both uses of `FifoChannel` are proved: `GameServer` builds on the
channel that `Session` implements, and is one itself towards its clients.

`ServerMainProofs.tla`, for any number of workers, of starts and of signals:

| Theorem | States |
|---|---|
| `MainTypeCorrect` | `MainSpec => []MainTypeOK` |
| `DatabaseOpenCorrect` | no hook runs on a released database |
| `ExitIsCleanCorrect` | `main()` returns only with workers gone and nothing listening, and stops a started server only for a signal |
| `FirstLifeSerializedCorrect` | in the first life two workers are never in the same hook |
| `TimerChainsBoundedCorrect` | each timer loop is alive at most once per `Start()`, and at least once while the server runs |

`LifeInvariant` is what the place of the control thread says of the rest: whether the
database is open, whether workers may exist, whether the acceptor and the stop flag of
the `io_context` may be set. It and the type are proved together (`ServerCorrect`), since
each step's type needs the other's bounds on `db`. `MainInvariant` says the same of `main()`
and the server. `FirstLifeSerialized` is not inductive: `TokenInvariant` adds that in the
first life each of the three loops (accept, update, schedule) is alive at most once,
as a pending operation, as one ready handler or as one worker inside it, never two of
these. Three lemmas say how each kind of step moves a loop from one to the next. The second
life is excluded for the reason `netserver_serialized` shows. `TimerChainsBounded` holds in every
life: it counts the same three forms of a loop, and `ChainInvariant` adds that between the
`OnStart` of a life and its arming of the timers one more is still to come. Each handler takes
one place of the queue away or adds one, which the `Spots...` lemmas of `PrefixLemmas` count.

`AgentServerProofs.tla`, for any clients, users, verification codes and number of requests:

| Theorem | States |
|---|---|
| `AgentTypeCorrect` | `Spec => []TypeOK` |
| `DispatchInvariantHolds` | `Spec => []DispatchInvariant`, the inductive invariant |
| `StateMatchesRepliesCorrect` | between two messages the login state is what the replies told |
| `LobbyBelongsToLoginCorrect` | lobby replies are about the user last logged in on that connection |
| `PinAnsweredWhilePendingCorrect` | a PIN is checked only while one is pending |
| `StrangersChangeNothingCorrect` | an erased client is never answered again |

`StateMatchesReplies` speaks of the moments between messages; `DispatchInvariant` of every step
inside a `dispatch`: the state may be one reply ahead of what the client was told
(`After` and `Owed` name that reply), and what `dispatch` has read agrees with the state
while the client is still there. `Known` looks for the last login among the replies; that
a sequence with a login in it has a last one is an induction, so the invariant carries it
(`HasLastLogin`), and the lemmas `KnownByLast` and `KnownAfter` follow what one more reply
changes. The two properties about replies follow from `RepliesJustified`, which is proved from the
invariant.

`GameServerProofs.tla`, for any clients, numbers and sizes of frames, and sizes of the buffers:

| Theorem | States |
|---|---|
| `PathTypeCorrect` | `Spec => [](TypeOK /\ HandInvariant)`: also, a message is in hand exactly while `dispatch` runs |
| `PathCorrect` | `Spec => [](Typed /\ Inv)`, the inductive invariant |
| `FramesConservedCorrect` | no frame lost, repeated, reordered or misrouted |
| `EchoesInOrderCorrect` | `Spec => EchoesInOrder`: the path implements one `FifoChannel` per client, its liveness aside |
| `ClosedIsBeingErasedCorrect` | a closed session still in the session map has a thread that is about to erase it |
| `ForgottenForGood` | no step brings a closed session back into the map |

`FramesConserved` is not inductive: that the frame `GetMsg` pops is its client's next one needs
to know that every queued frame is one that was received, under its number, and that
the queue holds each client's frames in the order of their numbers (`InboundInvariant`).
`Waits` says, in terms of the values, that what is handled agrees with what was received
and that the rest is in the queue; the `Waits...` lemmas say how an insert and a pop change
it, for the client concerned and for the others. What is handled (`Handled`: written,
queued for the socket, batched, in hand) is a concatenation, and the tick and the socket
only move its borders: `HandledSteps` shows it one step at a time from `SendConserves`, that
`Send` keeps every frame in order over the four answers of `addMsg`. `SessionInvariant` is
needed for the moment in which `dispatch` holds a session that may be closed: a client whose
link is up is in the session map, so no frame of it is dropped. `EchoInvariant` carries the
order of what was written past the close of the link. In the refinement a read loop's
step is a `Send` of its client's channel, a write to the socket a `Deliver`, a `Close` a `Break`.
Of the liveness property `ClosedIsForgotten` the last two theorems are the safety part: whoever
closes a session goes on to erase it, and nothing undoes that; TLC adds that the erasing
thread gets there.

`FramedLinkProofs.tla`, for all sizes under the relations that `FramedLink` and `SendMsgBuffer`
assume, any number of messages, any set of malformed frames, and any cut of the stream into reads:

| Theorem | States |
|---|---|
| `LinkInvariantHolds` | `Spec => []LinkInvariant`, the inductive invariant |
| `LinkTypeCorrect` | `Spec => []TypeOK`: also, the receive buffer holds no more than two of the largest messages |
| `InOrderCorrect` | what is delivered is a beginning of what was sent |
| `NothingCompleteWaitsCorrect` | between two reads less than a frame is held |
| `AllDeliveredCorrect` | once every byte was read everything sent is delivered |
| `OwnFramesAreAcceptedCorrect` | the framer refuses nothing that the send buffer produces |

What is sent and what is delivered are sequences of messages; between them are bytes counted
in frames. `InFlight` says that the delivered messages, those cut and not yet handed over, the rest
of the envelope being unpacked and the frames of the stream follow each other in what was
sent (`Segment`, `Chain`), and `Wire` that the lengths of the frames add up to the bytes held and
not yet read (`Adds`). `Chain` and `Adds` are sums along a sequence; they are said by the sequence
of partial sums, so the lemmas `...Append` and `...Tail` about them need no induction. A malformed
frame is the last one of the stream and is never accepted: `Malformed` says what is wrong with it,
and of an envelope one of whose messages does not fit, `DoesNotFit` says that this message is
still to come. `OwnFramesAreAccepted` is where the limits of the two ends meet: an envelope of a
full batch, or of a message that came alone, is at most `kMaxMessageSize` bytes long.

`DbCallersProofs.tla`, for any result sets, answers and number of commands:

| Theorem | States |
|---|---|
| `RowsCompleteCorrect` | `DbSpec => []RowsComplete`: own rows, in order, each once, and all unless a fetch failed |
| `CallersTypeCorrect` | `DbSpec => []CallersTypeOK` |
| `CallInvariantHolds` | `DbSpec => []CallInvariant`, the inductive invariant of parameters and outputs |
| `ProcedureGetsItsArgumentsCorrect` | a procedure is called with its own arguments, in their order |
| `OutputsAreTheAnswerCorrect` | outputs read as the answer of the procedure called last, unless the drain broke off |
| `DriverWritesLiveParamsCorrect` | the driver never writes to parameters that are there no more |

`RowsComplete` speaks of what was read, not of the cursor. `CursorInvariant` ties them: while
a handler loops, the statement is that of its command, the column map describes its result
set or nothing, and the number of fetches is one ahead of the rows read while a row is still
to be read (`at = "rows"`), equal to it before `Next()` (`at = "next"`). `FetchRow` says what one
`SQLFetch` does to this, and `ExecuteFetchesFirst` what any successful execute leaves.

The three properties about parameters rest on what the flags of the connection cannot tell by
themselves. A server clears the list before every command and may therefore leave anything
behind; a test does not clear, and is safe because it never leaves parameters that were not
executed (`NothingOld`), since it stops at the first failure. `Composed` says that while a command
is composed, the list is what its caller has appended; `Answered`, that from the execute to the last
output the same parameters are bound and hold the answer, unless the driver still owes it.
That the driver binds a return value first is a reordering: `Place` counts what is bound before a
parameter, and the lemmas `BoundInOrder` and `BoundAsDeclared` say where each one ends up.

`AuthServerProofs.tla`, for any number of servers and messages, any procedure key and sizes of the
fields, and a cipher of any word size, number of rounds and key:

| Theorem | States |
|---|---|
| `DecryptsWhatWasEncrypted` | `DecryptAuthData(EncryptAuthData(t)) = t` for every text, and how long the cipher text is |
| `SplitsWhatWasJoined` | `splitFields` finds the fields that were joined with commas, empty ones included |
| `NumbersReadBack` | `atoi(to_string(n)) = n`, and the digits hold no comma |
| `AuthTypeCorrect` | `Spec => []TypeOK`: also, no answer overruns `szServerIP` or `szAuthData` |
| `EveryRequestAnsweredCorrect` | one reply per message that calls for one, none for another |
| `AnswerReadsBackCorrect` | an answer decrypts to what the request that it answers said, or was cut and decrypts to nothing |
| `CertifiedByOwnKeyCorrect` | certified is only who sent the certified key with this very request |

The first three are about functions and go from the inside to the outside. Exclusive or is a
recursion over pairs of numbers; that it exists, commutes, undoes itself (`XorUndone`) and stays
within the bits of its operands (`XorFits`) is an induction on the sum of the pair. A rotation is
undone by the rotation the other way (`RotateBack`), so a round is undone by `Unround`
(`RoundUndone`), whatever words are in the table; that `KeyExpand` yields words is all that is
needed of it (`TableType`). `BlockRoundTrip` unwinds the rounds, `XoredUndone` the
chaining, `HexRoundTrip` the digits, and `PaddedAndUnpadded` finds the length of the padding in
its last byte. `Places` is the arithmetic of blocks in a row. A text cut to `AUTH_DATA_LENGTH` is
not a number of whole blocks, so `DecryptAuthData` returns the empty text for it (`CutOrWhole`):
this is the assumption `AUTH_DATA_LENGTH % (2 * Block) # 0`, in the code 500 and 16.
`SealReadsBack` puts them together.

The loops of the code are recursive functions here. The library proves that such a function has
the values its definition asks for by theorems with an operator parameter, which the installed
provers cannot use. The lemmas `Loop...` of `PrefixLemmas` say the same of a sequence of
functions, one per step, on a set: there is a run of it (`LoopRuns`), by induction over how far one
gets; and the recursive definition is this run (`SplitLoop`, `JoinLoop`, `AtoiLoop`,
`EncryptChain`, ...).

The invariant `IInv` ties the queue to the history. `Numbered` gives every queued message its
number among those of its client: numbers grow along the queue, and all those after `h[c]`, how
many of client `c` were dealt with, are queued; so the message in hand is number `h[c] + 1`
(`NumberedTail`). `Counts` says that the replies to a client are as many as the messages up to
`h[c]` that call for one, while its session is there or its request is in hand.
`EveryRequestAnswered` follows since what waits corresponds, one to one, to what calls for a reply
and is not dealt with (`NumberedCounts`). `InWork` says that `req` is the request in hand and
`res` what the procedure, or its failure, can say of it, `LastFits` that the last reply is the
answer to the request that is due for it; `AnswerRepeats` reads it back. `MessagesAssumption` says
what a message is: sealed fields, or a damaged text that has fewer than five fields if it can be
read at all. A text that was damaged into five fields which nobody sent is outside the theorems,
as no one can tell it from a request.

All theorems assume no more than the named assumptions of the modules on their constants,
which TLC evaluates in every run.

The assumptions say no more than the code does: the relations between the four sizes of
`send_msg_buffer.h` and the two of `packet.h`, that bounds are numbers and pools finite, and that a
member of `BadFrames` is malformed (`Malformed`: what `Feed` answers with an error, or a length
that its bytes never come up to); what the peer may write that is well-formed, its other actions
write.

`SetInduction` (`PrefixLemmas`) is induction over the natural numbers, for a set in place of a
predicate: were a number missing, there would be no smallest `0..n` with a number missing. It is
what `NothingLost`, the least element in `Found` (`LeastElement`) and the loops of `AuthServer` need.

Every invariant that a passing run checks is stated by a theorem. Left to TLC is all liveness, which
these provers do not reach, and with it that half of the refinements of `FifoChannel` and of
`ClosedIsForgotten`.

## 5. What is not modelled, and why

Contents of messages, logging, parsing of names and dates, columns of the character and
the widths they are narrowed to: data that no property tells apart. The LZO algorithm,
`msgpack_min`, `char_lobby` and the layouts: pure conversions without state; whether a batch
becomes smaller is a choice. Arguments and environment of the main programs, and with
them the start without a connection string: `OnStart` then succeeds with no database,
and the server runs with its database layer skipped; every start modelled opens one. Of
a hexadecimal byte with a blank or a sign in front, which `strtol` reads as a number,
the model makes 0, as of any other damage. A certification that returns several rows:
`auth_server.cpp:202-207` loops over all and the last one stands; `AuthServer` has one
row, the loop itself is in `DbCallers`. The data races inside asio objects
(`timer.cancel()` next to `expires_after`, `Close()` on a socket another thread starts
an operation on): their outcome inside the library is not described by this code. The
smoke tests of the network and the other servers, and the build files: read for what
they claim. In `AgentServer`, a stored procedure answers anything or fails, and
`DbCallers` shows how the calls on the connection lead to such an answer. The echo of
`AgentServer` for other messages is that of `GameServer`.

## 6. Plan

Done: the modules of section 2, the theorems of section 4.

1. An abstract specification of `NetServer` (stopped, running).
2. `char_lobby` as functions, with the widths of the columns it is given.
