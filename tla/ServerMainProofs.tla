-------------------------- MODULE ServerMainProofs --------------------------
(***************************************************************************)
(* Theorems about ServerMain, the main program over NetServer, for any pool*)
(* of workers, any number of starts and any number of signals.             *)
(***************************************************************************)
EXTENDS ServerMain, PrefixLemmas

(* The states of the control thread in which workers may be running.        *)
InService == {"running", "closing", "cancelling", "halting", "joining"}

(* What the place of the control thread says of the rest of the server.     *)
LifeInvariant ==
  /\ db <= starts /\ (control = "opening" => db < starts)
  /\ control \in InService \cup {"listening"} => db > 0
  /\ control \notin InService => \A w \in Workers : at[w] = Absent
  /\ m_running <=> control \in {"opening", "listening", "running"}
  /\ acceptor = "open" => control \in {"running", "closing"}
  /\ io_stopped => control \in {"joining", "restarting"}

(* What the place of main() says of the server.                             *)
MainInvariant ==
  /\ program = "exited" => control = "stopped" /\ db = 0
  /\ program = "stopping" => g_stop

(* Where a loop is alive: its operation is pending, its handler is ready to *)
(* run, or a worker is inside its handler.                                  *)
Pending(l) == IF l = "accept" THEN accepting > 0 ELSE waiting[l]
Ready(l)   == \E i \in 1..Len(queue) : queue[i] = l

AliveOnce(l) ==
  /\ \A i, j \in 1..Len(queue) : queue[i] = l /\ queue[j] = l => i = j
  /\ \A v, w \in Running(l) : v = w
  /\ Pending(l) => ~Ready(l) /\ Running(l) = {}
  /\ Ready(l) => Running(l) = {}

(* In the first life a loop is a token that moves around, and before it     *)
(* there is none.                                                           *)
TokenInvariant ==
  starts <= 1 =>
    /\ accepting <= 1
    /\ \A l \in Loops : AliveOnce(l)
    /\ starts = 0 \/ control \in {"opening", "listening"} =>
         queue = << >> /\ \A l \in Loops : ~Pending(l)

-----------------------------------------------------------------------------
(* What a step of the program does to the server: a step of the server      *)
(* itself, nothing, or the destructors at the end of main().                *)
Destroyed ==
  /\ control = "stopped" /\ db' = 0
  /\ UNCHANGED << control, starts, m_running, acceptor, timing, pool, io_stopped >>

(* Every step of the program does one of these to the server.               *)
LEMMA ServerSteps ==
  ASSUME [MainNext]_allVars
  PROVE  \/ ControlNext \/ (\E w \in Workers : WorkerNext(w)) \/ IoNext
         \/ UNCHANGED vars \/ Destroyed
BY DEF MainNext, ControlSteps, MainSteps, Started, StartFailed, TestSucceeds, TestFails, FallsAsleep,
       Stopped, Leaves, WakesSpuriously, SignalStores, SignalNotifies, StaysStopped, allVars, Destroyed

(* The server keeps its type, and what the place of the control thread says *)
(* of the rest (net_server.cpp:22-87), whatever main() does with it.        *)
THEOREM ServerCorrect == MainSpec => [](TypeOK /\ LifeInvariant)
<1> USE DEF pool, timing, Go, Idle, Absent, InHook, Rearms, Loops, Timers
<1>1. MainInit => TypeOK
  <2> SUFFICES ASSUME MainInit PROVE TypeOK
    OBVIOUS
  <2>1. at \in [Workers -> {Idle, Absent} \cup {InHook(l) : l \in Loops} \cup {Rearms(l) : l \in Loops}]
    BY DEF MainInit, Init
  <2>2. queue \in Seq(Loops) /\ waiting \in [Timers -> BOOLEAN]
    BY DEF MainInit, Init
  <2>3. starts \in 0..MaxStarts /\ db \in 0..MaxStarts /\ accepting \in Nat
    BY WorkersAssumption DEF MainInit, Init
  <2> QED
    BY <2>1, <2>2, <2>3 DEF MainInit, Init, TypeOK
<1>2. TypeOK /\ LifeInvariant /\ [MainNext]_allVars => TypeOK'
  <2> SUFFICES ASSUME TypeOK, LifeInvariant, [MainNext]_allVars PROVE TypeOK'
    OBVIOUS
  <2> USE WorkersAssumption DEF TypeOK
  <2>1. CASE ControlNext
    <3>1. CASE StartBegins
      BY <3>1 DEF StartBegins
    <3>2. CASE OnStartSucceeds
      BY <3>2 DEF OnStartSucceeds, LifeInvariant
    <3>3. CASE OnStartFails
      <4>1. db' \in 0..MaxStarts
        BY <3>3 DEF OnStartFails, LifeInvariant
      <4> QED
        BY <3>3, <4>1 DEF OnStartFails
    <3>4. CASE ListenFails
      <4>1. db' \in 0..MaxStarts
        BY <3>4 DEF ListenFails, OnStop, LifeInvariant
      <4> QED
        BY <3>4, <4>1 DEF ListenFails
    <3>5. CASE StartReturns
      BY <3>5 DEF StartReturns
    <3>6. CASE StopBegins \/ StopIo \/ StopReturns
      BY <3>6 DEF StopBegins, StopIo, StopReturns
    <3>7. CASE StopAccepting \/ CancelTimers
      <4>2. [t \in Timers |-> FALSE] \in [Timers -> BOOLEAN] /\ 0 \in Nat
        OBVIOUS
      <4>3. waiting' \in {waiting, [t \in Timers |-> FALSE]} /\ accepting' \in {accepting, 0}
        BY <3>7 DEF StopAccepting, CancelTimers
      <4>1. waiting' \in [Timers -> BOOLEAN] /\ accepting' \in Nat
        BY <4>2, <4>3
      <4> QED
        BY <3>7, <4>1 DEF StopAccepting, CancelTimers
    <3>8. CASE JoinWorkers
      <4>1. db' \in 0..MaxStarts
        BY <3>8 DEF JoinWorkers, OnStop, LifeInvariant, InService
      <4>2. control' = "restarting" /\ UNCHANGED << starts, m_running, acceptor, timing, pool, io_stopped >>
        BY <3>8 DEF JoinWorkers
      <4> QED
        BY <4>1, <4>2
    <3> QED
      BY <2>1, <3>1, <3>2, <3>3, <3>4, <3>5, <3>6, <3>7, <3>8 DEF ControlNext
  <2>2. ASSUME NEW w \in Workers, WorkerNext(w) PROVE TypeOK'
    <3>1. CASE RunHandler(w)
      <4>1. Head(queue) \in Loops /\ Tail(queue) \in Seq(Loops)
        BY <3>1 DEF RunHandler
      <4> QED
        BY <3>1, <4>1 DEF RunHandler
    <3>2. ASSUME NEW l \in Loops, HookReturns(w, l) PROVE TypeOK'
      BY <3>2 DEF HookReturns
    <3>3. ASSUME NEW t \in Timers, RearmTimer(w, t) PROVE TypeOK'
      BY <3>3 DEF RearmTimer
    <3>4. CASE AcceptAgain(w)
      BY <3>4 DEF AcceptAgain
    <3>5. CASE WorkerReturns(w)
      BY <3>5 DEF WorkerReturns
    <3> QED
      BY <2>2, <3>1, <3>2, <3>3, <3>4, <3>5 DEF WorkerNext
  <2>3. CASE IoNext
    <3>1. ASSUME NEW t \in Timers, IoExpires(t) PROVE TypeOK'
      BY <3>1 DEF IoExpires
    <3>2. CASE IoAccepts
      BY <3>2 DEF IoAccepts
    <3>3. CASE IoAcceptFails
      BY <3>3 DEF IoAcceptFails
    <3> QED
      BY <2>3, <3>1, <3>2, <3>3 DEF IoNext
  <2>4. CASE UNCHANGED vars
    BY <2>4 DEF vars
  <2>5. CASE Destroyed
    BY <2>5 DEF Destroyed
  <2> QED
    BY <2>1, <2>2, <2>3, <2>4, <2>5, ServerSteps
<1>3. MainInit => LifeInvariant
  BY DEF MainInit, Init, LifeInvariant, InService
<1>4. TypeOK /\ LifeInvariant /\ [MainNext]_allVars => LifeInvariant'
  <2> SUFFICES ASSUME TypeOK, LifeInvariant, [MainNext]_allVars PROVE LifeInvariant'
    OBVIOUS
  <2> USE DEF LifeInvariant, InService
  <2>0. db \in Nat /\ starts \in Nat /\ at \in [Workers -> {Idle, Absent} \cup {InHook(l) : l \in Loops} \cup {Rearms(l) : l \in Loops}]
    BY WorkersAssumption DEF TypeOK
  <2>1. CASE ControlNext
    BY <2>0, <2>1 DEF ControlNext, StartBegins, OnStartSucceeds, OnStartFails, ListenFails, StartReturns,
       StopBegins, StopAccepting, CancelTimers, StopIo, JoinWorkers, StopReturns, OnStop
  <2>2. ASSUME NEW w \in Workers, WorkerNext(w) PROVE LifeInvariant'
    <3>1. at[w] # Absent
      BY <2>0, <2>2 DEF WorkerNext, RunHandler, HookReturns, RearmTimer, AcceptAgain, WorkerReturns
    <3>2. UNCHANGED << control, starts, m_running, db, acceptor, io_stopped >>
      BY <2>2 DEF WorkerNext, RunHandler, HookReturns, RearmTimer, AcceptAgain, WorkerReturns
    <3> QED
      BY <3>1, <3>2
  <2>3. CASE IoNext
    <3>1. UNCHANGED << control, starts, m_running, db, acceptor, io_stopped, at >>
      BY <2>3 DEF IoNext, IoExpires, IoAccepts, IoAcceptFails
    <3> QED
      BY <3>1
  <2>4. CASE UNCHANGED vars
    BY <2>4 DEF vars
  <2>5. CASE Destroyed
    BY <2>0, <2>5 DEF Destroyed
  <2> QED
    BY <2>1, <2>2, <2>3, <2>4, <2>5, ServerSteps
<1> QED
  BY <1>1, <1>2, <1>3, <1>4, PTL DEF MainSpec

(* A hook never runs on a database that OnStop has released, however many   *)
(* workers there are (net_server.cpp:57-87).                                *)
THEOREM DatabaseOpenCorrect == MainSpec => []DatabaseOpenInHooks
<1>1. TypeOK /\ LifeInvariant => DatabaseOpenInHooks
  BY DEF LifeInvariant, InService, DatabaseOpenInHooks, Running, Absent, InHook, Rearms
<1> QED
  BY <1>1, ServerCorrect, PTL

(* The program keeps its type (main.cpp:15-60).                             *)
THEOREM MainTypeCorrect == MainSpec => []MainTypeOK
<1> DEFINE Program == {"harness", "starting", "testing", "falling asleep", "asleep", "stopping", "exited"}
           Inv == /\ program \in Program
                  /\ g_stop \in BOOLEAN /\ missed \in BOOLEAN
                  /\ handler \in {"none", "stored"}
                  /\ signals \in 0..MaxSignals
<1>1. MainInit => Inv
  <2> SUFFICES ASSUME MainInit PROVE Inv
    OBVIOUS
  <2>1. signals \in 0..MaxSignals
    BY SignalsAssumption DEF MainInit
  <2> QED
    BY <2>1, Zenon DEF MainInit
<1>2. Inv /\ [MainNext]_allVars => Inv'
  <2> SUFFICES ASSUME Inv, [MainNext]_allVars PROVE Inv'
    OBVIOUS
  <2>1. CASE UNCHANGED main
    BY <2>1 DEF main
  <2>2. CASE MainSteps \/ WakesSpuriously
    BY <2>2 DEF MainSteps, Started, StartFailed, TestSucceeds, TestFails, FallsAsleep, Stopped, Leaves,
       Proceeds, WakesSpuriously
  <2>3. CASE SignalStores
    <3>1. signals' \in 0..MaxSignals
      <4>1. signals < MaxSignals /\ signals' = signals + 1
        BY <2>3, Zenon DEF SignalStores
      <4>2. signals \in 0..MaxSignals
        OBVIOUS
      <4> HIDE DEF Inv
      <4> QED
        BY <4>1, <4>2, SignalsAssumption
    <3> QED
      BY <2>3, <3>1, Zenon DEF SignalStores
  <2>4. CASE SignalNotifies
    <3>1. missed' \in BOOLEAN
      BY <2>4, Zenon DEF SignalNotifies
    <3>2. program' \in Program /\ handler' \in {"none", "stored"}
      BY <2>4 DEF SignalNotifies
    <3>3. UNCHANGED << g_stop, signals >>
      BY <2>4 DEF SignalNotifies
    <3> QED
      BY <3>1, <3>2, <3>3
  <2> QED
    BY <2>1, <2>2, <2>3, <2>4 DEF MainNext, ControlSteps, allVars
<1>3. TypeOK /\ Inv => MainTypeOK
  BY DEF MainTypeOK
<1> QED
  BY <1>1, <1>2, <1>3, ServerCorrect, PTL DEF MainSpec

(* main() returns only with the server all down, and stops a server that    *)
(* was started only for a signal (main.cpp:45-55).                          *)
THEOREM ExitIsCleanCorrect == MainSpec => []ExitIsClean
<1>1. MainInit => MainInvariant
  BY DEF MainInit, MainInvariant
<1>2. MainInvariant /\ [MainNext]_allVars => MainInvariant'
  <2> SUFFICES ASSUME MainInvariant, [MainNext]_allVars PROVE MainInvariant'
    OBVIOUS
  <2> USE DEF MainInvariant, main, vars, pool, timing
  <2>1. CASE ControlSteps
    BY <2>1 DEF ControlSteps, ControlNext, StartBegins, OnStartSucceeds, OnStartFails, ListenFails, StartReturns,
       StopBegins, StopAccepting, CancelTimers, StopIo, JoinWorkers, StopReturns, Go
  <2>2. CASE MainSteps \/ WakesSpuriously
    BY <2>2 DEF MainSteps, Started, StartFailed, TestSucceeds, TestFails, FallsAsleep, Stopped, Leaves,
       Proceeds, WakesSpuriously
  <2>3. CASE SignalStores \/ SignalNotifies
    BY <2>3 DEF SignalStores, SignalNotifies
  <2>4. CASE ((\E w \in Workers : WorkerNext(w)) \/ IoNext) /\ UNCHANGED main
    <3>1. UNCHANGED << control, db >>
      BY <2>4 DEF WorkerNext, RunHandler, HookReturns, RearmTimer, AcceptAgain, WorkerReturns,
         IoNext, IoExpires, IoAccepts, IoAcceptFails
    <3> QED
      BY <2>4, <3>1
  <2>5. CASE UNCHANGED allVars
    BY <2>5 DEF allVars
  <2> QED
    BY <2>1, <2>2, <2>3, <2>4, <2>5 DEF MainNext, StaysStopped, allVars
<1>3. TypeOK /\ LifeInvariant /\ MainInvariant => ExitIsClean
  BY DEF TypeOK, LifeInvariant, MainInvariant, ExitIsClean, InService
<1> QED
  BY <1>1, <1>2, <1>3, ServerCorrect, PTL DEF MainSpec

-----------------------------------------------------------------------------
(* How the steps of the workers and of the reactor move a loop on.          *)

(* A worker that takes a ready handler moves its loop from ready to running.*)
LEMMA RunHandlerMoves ==
  ASSUME TypeOK, NEW w \in Workers, RunHandler(w), \A l \in Loops : AliveOnce(l)
  PROVE  \A l \in Loops : AliveOnce(l)'
<1> USE DEF TypeOK, RunHandler, AliveOnce, Ready, Pending, Running, timing, InHook, Rearms, Idle
<1> DEFINE h == Head(queue)
<1>1. h \in Loops /\ h = queue[1] /\ Len(queue) \in Nat \ {0}
  OBVIOUS
<1>2. Len(queue') = Len(queue) - 1 /\ \A i \in 1..Len(queue') : queue'[i] = queue[i + 1]
  OBVIOUS
<1>3. TAKE l \in Loops
<1>4. Pending(l)' = Pending(l)
  OBVIOUS
<1>5. CASE l = h
  <2>1. Ready(l) /\ Running(l) = {} /\ ~Pending(l)
    BY <1>1, <1>5
  <2>2. ~Ready(l)'
    BY <1>1, <1>2, <1>5
  <2>3. Running(l)' \subseteq {w}
    BY <2>1
  <2> QED
    BY <2>1, <2>2, <2>3, <1>4
<1>6. CASE l # h
  <2>1. Running(l)' = Running(l)
    BY <1>6
  <2>2. Ready(l)' => Ready(l)
    BY <1>1, <1>2
  <2>3. \A i, j \in 1..Len(queue') : queue'[i] = l /\ queue'[j] = l => i = j
    BY <1>1, <1>2
  <2> QED
    BY <2>1, <2>2, <2>3, <1>4
<1> QED
  BY <1>5, <1>6

(* A worker that leaves a hook re-arms its loop, or lets it end.            *)
LEMMA HandlerMoves ==
  ASSUME TypeOK, NEW w \in Workers, \A l \in Loops : AliveOnce(l), accepting <= 1,
         \/ \E l \in Loops : HookReturns(w, l)
         \/ \E t \in Timers : RearmTimer(w, t)
         \/ AcceptAgain(w)
         \/ WorkerReturns(w)
  PROVE  accepting' <= 1 /\ \A l \in Loops : AliveOnce(l)'
<1> USE DEF TypeOK, Ready, Running, timing, InHook, Rearms, Idle, Absent, Timers, Loops
<1>1. CASE WorkerReturns(w) \/ \E l \in Loops : HookReturns(w, l)
  <2>1. UNCHANGED << waiting, accepting, queue >>
    BY <1>1 DEF WorkerReturns, HookReturns
  <2>2. \A l \in Loops : Running(l)' \subseteq Running(l)
    BY <1>1 DEF WorkerReturns, HookReturns
  <2> QED
    BY <2>1, <2>2 DEF AliveOnce, Pending
<1>2. ASSUME NEW t \in Timers, RearmTimer(w, t) PROVE accepting' <= 1 /\ \A l \in Loops : AliveOnce(l)'
  <2> USE <1>2 DEF RearmTimer
  <2>1. w \in Running(t) /\ \A l \in Loops : Running(l)' = Running(l) \ {w}
    OBVIOUS
  <2>2. Running(t)' = {} /\ ~Ready(t)
    BY <2>1 DEF AliveOnce
  <2>3. \A l \in Loops \ {t} : Pending(l)' = Pending(l)
    BY DEF Pending
  <2> QED
    BY <2>1, <2>2, <2>3 DEF AliveOnce
<1>3. CASE AcceptAgain(w)
  <2> USE <1>3 DEF AcceptAgain
  <2>1. w \in Running("accept") /\ \A l \in Loops : Running(l)' = Running(l) \ {w}
    OBVIOUS
  <2>2. Running("accept")' = {} /\ ~Ready("accept") /\ ~Pending("accept")
    BY <2>1 DEF AliveOnce
  <2>3. \A l \in Loops \ {"accept"} : Pending(l)' = Pending(l)
    BY DEF Pending
  <2>4. accepting' <= 1
    BY <2>2 DEF Pending
  <2> QED
    BY <2>1, <2>2, <2>3, <2>4 DEF AliveOnce
<1> QED
  BY <1>1, <1>2, <1>3

(* A timer that expires or an accept that completes makes its loop ready.   *)
LEMMA ReactorMoves ==
  ASSUME TypeOK, \A l \in Loops : AliveOnce(l), accepting <= 1, IoNext
  PROVE  accepting' <= 1 /\ \A l \in Loops : AliveOnce(l)'
<1> USE DEF TypeOK, Running
<1>1. ASSUME NEW h \in Loops, Pending(h), queue' = Append(queue, h), at' = at,
             ~Pending(h)', \A l \in Loops \ {h} : Pending(l)' = Pending(l)
      PROVE  \A l \in Loops : AliveOnce(l)'
  <2>1. Len(queue') = Len(queue) + 1 /\ queue'[Len(queue) + 1] = h
        /\ \A i \in 1..Len(queue) : queue'[i] = queue[i]
    BY <1>1
  <2>2. ~Ready(h) /\ Running(h) = {}
    BY <1>1 DEF AliveOnce
  <2>3. \A l \in Loops : Running(l)' = Running(l)
    BY <1>1
  <2>4. \A l \in Loops \ {h} : Ready(l)' = Ready(l)
    BY <2>1 DEF Ready
  <2>5. \A l \in Loops : \A i, j \in 1..Len(queue') : queue'[i] = l /\ queue'[j] = l => i = j
    BY <2>1, <2>2 DEF Ready, AliveOnce
  <2> QED
    BY <1>1, <2>2, <2>3, <2>4, <2>5 DEF AliveOnce
<1>2. ASSUME NEW t \in Timers, IoExpires(t) PROVE accepting' <= 1 /\ \A l \in Loops : AliveOnce(l)'
  BY <1>1, <1>2 DEF IoExpires, Pending, Timers, Loops
<1>3. CASE IoAccepts
  BY <1>1, <1>3 DEF IoAccepts, Pending, Timers, Loops
<1>4. CASE IoAcceptFails
  <2>1. accepting' = accepting - 1 /\ UNCHANGED << waiting, queue, at >>
    BY <1>4 DEF IoAcceptFails, pool
  <2> QED
    BY <1>4, <2>1 DEF IoAcceptFails, Pending, AliveOnce, Ready
<1> QED
  BY <1>2, <1>3, <1>4 DEF IoNext

(* Until the server is started again a loop is a token, and two workers are *)
(* never inside the same hook (net_server.cpp:73-122), however many there   *)
(* are and whatever Stop() meets.                                           *)
THEOREM FirstLifeSerializedCorrect == MainSpec => []FirstLifeSerialized
<1>1. MainInit => TokenInvariant
  BY DEF MainInit, Init, TokenInvariant, AliveOnce, Pending, Ready, Running, Loops, Timers, Absent, InHook, Rearms
<1>2. TypeOK /\ LifeInvariant /\ TokenInvariant /\ [MainNext]_allVars => TokenInvariant'
  <2> SUFFICES ASSUME TypeOK, LifeInvariant, TokenInvariant, [MainNext]_allVars, starts' <= 1
               PROVE  TokenInvariant'
    BY DEF TokenInvariant
  <2> DEFINE Fresh == starts = 0 \/ control \in {"opening", "listening"}
             NoLoop == queue = << >> /\ \A l \in Loops : ~Pending(l)
  <2>0. starts \in Nat
    BY WorkersAssumption DEF TypeOK
  <2>1. CASE UNCHANGED vars \/ Destroyed
    BY <2>1 DEF vars, pool, timing, Destroyed, TokenInvariant, AliveOnce, Pending, Ready, Running
  <2>2. CASE StartBegins
    <3>1. starts = 0 /\ starts' = 1 /\ NoLoop /\ UNCHANGED << queue, at, accepting, waiting >>
      BY <2>0, <2>2 DEF StartBegins, TokenInvariant, timing, pool
    <3> QED
      BY <3>1 DEF TokenInvariant, AliveOnce, Pending, Ready, Running
  <2>3. CASE StartReturns
    <3>1. NoLoop /\ accepting <= 1
      BY <2>3 DEF StartReturns, Go, TokenInvariant
    <3>2. accepting = 0
      BY <3>1 DEF TypeOK, Pending, Loops
    <3>3. queue' = << >> /\ accepting' = 1 /\ \A l \in Loops : Running(l)' = {}
      BY <2>3, <3>1, <3>2 DEF StartReturns, Running, Idle, InHook, Rearms
    <3>4. starts' # 0 /\ control' = "running"
      BY <2>0, <2>3 DEF StartReturns, Go, LifeInvariant, TypeOK
    <3> QED
      BY <3>3, <3>4 DEF TokenInvariant, AliveOnce, Ready
  <2>4. CASE \/ OnStartSucceeds \/ OnStartFails \/ ListenFails \/ StopBegins
             \/ StopIo \/ JoinWorkers \/ StopReturns
    <3>1. UNCHANGED << starts, accepting, waiting, queue, at >>
      BY <2>4 DEF OnStartSucceeds, OnStartFails, ListenFails, StopBegins, StopIo, JoinWorkers, StopReturns,
         timing, pool
    <3>2. Fresh' => Fresh
      BY <2>4, <3>1 DEF OnStartSucceeds, OnStartFails, ListenFails, StopBegins, StopIo, JoinWorkers, StopReturns, Go
    <3> QED
      BY <3>1, <3>2 DEF TokenInvariant, AliveOnce, Pending, Ready, Running
  <2>5. CASE StopAccepting \/ CancelTimers
    <3>1. UNCHANGED << starts, queue, at >> /\ (Fresh' => Fresh)
      BY <2>5 DEF StopAccepting, CancelTimers, timing, pool, Go
    <3>2. accepting' \in {0, accepting} /\ \A l \in Loops : Pending(l)' => Pending(l)
      BY <2>5 DEF StopAccepting, CancelTimers, timing, Pending, Loops, Timers
    <3> QED
      BY <3>1, <3>2 DEF TokenInvariant, AliveOnce, Ready, Running
  <2>6. ASSUME NEW w \in Workers, WorkerNext(w) PROVE TokenInvariant'
    <3>1. UNCHANGED << starts, control >>
      BY <2>6 DEF WorkerNext, RunHandler, HookReturns, RearmTimer, AcceptAgain, WorkerReturns
    <3>2. ~Fresh
      <4>1. at[w] # Absent
        <5>1. at[w] = Idle \/ \E l \in Loops : at[w] \in {InHook(l), Rearms(l)}
          BY <2>6 DEF WorkerNext, RunHandler, HookReturns, RearmTimer, AcceptAgain, WorkerReturns, Loops
        <5> QED
          BY <5>1 DEF Idle, Absent, InHook, Rearms
      <4>2. control \in InService
        BY <4>1 DEF LifeInvariant
      <4> QED
        BY <2>0, <4>2 DEF LifeInvariant, InService, TypeOK
    <3>3. accepting <= 1 /\ \A l \in Loops : AliveOnce(l)
      BY <3>1 DEF TokenInvariant
    <3>4. accepting' <= 1 /\ \A l \in Loops : AliveOnce(l)'
      <4>1. CASE RunHandler(w)
        BY <3>3, <4>1, RunHandlerMoves DEF RunHandler, timing
      <4>2. CASE ~RunHandler(w)
        BY <2>6, <3>3, <4>2, HandlerMoves DEF WorkerNext
      <4> QED
        BY <4>1, <4>2
    <3> QED
      BY <3>1, <3>2, <3>4 DEF TokenInvariant
  <2>7. CASE IoNext
    <3>1. UNCHANGED << starts, control >> /\ Polled
      BY <2>7 DEF IoNext, IoExpires, IoAccepts, IoAcceptFails
    <3>2. ~Fresh
      <4>1. control \in InService
        BY <3>1 DEF Polled, LifeInvariant, Idle, Absent
      <4> QED
        BY <2>0, <4>1 DEF LifeInvariant, InService, TypeOK
    <3>3. accepting' <= 1 /\ \A l \in Loops : AliveOnce(l)'
      BY <2>7, <3>1, ReactorMoves DEF TokenInvariant
    <3> QED
      BY <3>1, <3>2, <3>3 DEF TokenInvariant
  <2> QED
    BY <2>1, <2>2, <2>3, <2>4, <2>5, <2>6, <2>7, ServerSteps DEF ControlNext
<1>3. TokenInvariant => FirstLifeSerialized
  <2> SUFFICES ASSUME TokenInvariant, starts <= 1, NEW l \in Loops PROVE Cardinality(Running(l)) <= 1
    BY DEF FirstLifeSerialized, HooksSerialized
  <2>1. \A v, w \in Running(l) : v = w
    BY DEF TokenInvariant, AliveOnce
  <2>2. PICK x : Running(l) \subseteq {x}
    BY <2>1
  <2> HIDE DEF Running
  <2>3. IsFiniteSet({x}) /\ Cardinality({x}) = 1
    BY FS_Singleton
  <2> QED
    BY <2>2, <2>3, FS_Subset, FS_CardinalityType
<1> QED
  BY <1>1, <1>2, <1>3, ServerCorrect, PTL DEF MainSpec

-----------------------------------------------------------------------------
(* Each timer loop is alive at most once for every Start() that armed it.   *)
(* What keeps the bound is that a chain moves from waiting to ready to      *)
(* running and back, each time as one chain; what keeps a running server's  *)
(* timers alive is that only a handler that finds m_running FALSE ends one. *)
Armed == IF control \in {"opening", "listening"} THEN 1 ELSE 0

ChainInvariant ==
  \A t \in Timers : /\ TimerChains(t) + Armed <= starts
                    /\ control = "running" => TimerChains(t) >= 1

Waits(t) == IF waiting[t] THEN 1 ELSE 0

(* The three counts of a loop.                                              *)
Counted ==
  \A t \in Timers :
    /\ TimerChains(t) = Waits(t) + Cardinality(Places(t)) + Cardinality(Running(t))
    /\ Waits(t) \in {0, 1}
    /\ Cardinality(Places(t)) \in Nat
    /\ IsFiniteSet(Running(t)) /\ Cardinality(Running(t)) \in Nat
    /\ TimerChains(t) \in Nat

(* They are counts: the queue is a sequence and the pool is finite.         *)
LEMMA ChainParts == TypeOK => Counted
<1> SUFFICES ASSUME TypeOK, NEW t \in Timers
             PROVE  /\ TimerChains(t) = Waits(t) + Cardinality(Places(t)) + Cardinality(Running(t))
                    /\ Waits(t) \in {0, 1}
                    /\ Cardinality(Places(t)) \in Nat
                    /\ IsFiniteSet(Running(t)) /\ Cardinality(Running(t)) \in Nat
                    /\ TimerChains(t) \in Nat
  BY DEF Counted
<1>1. TimerChains(t) = Waits(t) + Cardinality(Places(t)) + Cardinality(Running(t)) /\ Waits(t) \in {0, 1}
  BY DEF TimerChains, Waits
<1>2. Cardinality(Places(t)) \in Nat
  <2>1. queue \in Seq(Loops)
    BY DEF TypeOK
  <2>2. Cardinality(Spots(queue, t)) \in Nat
    BY <2>1, SpotsFinite
  <2> QED
    BY <2>2 DEF Spots, Places
<1>3. IsFiniteSet(Running(t)) /\ Cardinality(Running(t)) \in Nat
  <2>1. Running(t) \in SUBSET Workers
    BY DEF Running
  <2>2. IsFiniteSet(Running(t))
    BY <2>1, WorkersAssumption, FS_Subset
  <2> QED
    BY <2>2, FS_CardinalityType
<1> QED
  BY <1>1, <1>2, <1>3

(* A worker leaves the handler of a loop, and of no other.                  *)
LEMMA LeavesHandler ==
  ASSUME TypeOK, NEW w \in Workers, NEW l \in Loops, at[w] \in {InHook(l), Rearms(l)},
         at' = [at EXCEPT ![w] = Idle]
  PROVE  \A t \in Timers : /\ Cardinality(Running(t)') \in Nat
                           /\ Cardinality(Running(t)) = Cardinality(Running(t)') + (IF t = l THEN 1 ELSE 0)
<1> TAKE t \in Timers
<1>1. IsFiniteSet(Running(t)) /\ Cardinality(Running(t)) \in Nat
  BY ChainParts DEF Counted
<1>2. Running(t)' = Running(t) \ {w} /\ (w \in Running(t) <=> t = l)
  BY DEF TypeOK, Running, Idle, InHook, Rearms
<1>3. /\ IsFiniteSet(Running(t) \ {w})
      /\ Cardinality(Running(t) \ {w}) = IF w \in Running(t) THEN Cardinality(Running(t)) - 1 ELSE Cardinality(Running(t))
  BY <1>1, FS_RemoveElement
<1>4. Cardinality(Running(t) \ {w}) \in Nat
  BY <1>3, FS_CardinalityType
<1> HIDE DEF Running
<1> QED
  BY <1>1, <1>2, <1>3, <1>4

(* A worker moves a chain on, or ends it once m_running is FALSE.           *)
LEMMA WorkerKeepsChains ==
  ASSUME TypeOK, TypeOK', ChainInvariant, control = "running" => m_running,
         NEW w \in Workers, WorkerNext(w)
  PROVE  ChainInvariant'
<1>0. UNCHANGED << control, starts >> /\ starts \in Nat /\ Armed' = Armed /\ Armed \in {0, 1}
  BY WorkersAssumption DEF TypeOK, WorkerNext, RunHandler, HookReturns, RearmTimer, AcceptAgain, WorkerReturns, Armed
<1>c. Counted /\ Counted'
  BY ChainParts, PTL
<1>1. SUFFICES ASSUME NEW t \in Timers
               PROVE  /\ TimerChains(t)' <= TimerChains(t)
                      /\ control = "running" => TimerChains(t)' >= 1
  <2>1. \A u \in Timers : TimerChains(u) \in Nat /\ TimerChains(u)' \in Nat
    BY <1>c DEF Counted
  <2> QED
    BY <1>0, <1>1, <2>1 DEF ChainInvariant
<1> DEFINE c == TimerChains(t)
           a == Waits(t)
           p == Cardinality(Places(t))
           r == Cardinality(Running(t))
           cn == TimerChains(t)'
           an == Waits(t)'
           pn == Cardinality(Places(t))'
           rn == Cardinality(Running(t))'
<1>2. c = a + p + r /\ a \in {0, 1} /\ p \in Nat /\ r \in Nat
  BY <1>c DEF Counted
<1>3. cn = an + pn + rn /\ an \in {0, 1} /\ pn \in Nat /\ rn \in Nat
  BY <1>c DEF Counted
<1>4. control = "running" => c >= 1
  BY DEF ChainInvariant
<1>5. queue' = queue => pn = p
  BY DEF Places
<1>6. waiting' = waiting => an = a
  BY DEF Waits
<1> HIDE DEF c, a, p, r, cn, an, pn, rn
<1>7. ASSUME RunHandler(w) PROVE cn <= c /\ (control = "running" => cn >= 1)
  <2> DEFINE h == Head(queue)
  <2>1. /\ at[w] = Idle /\ queue # << >> /\ at' = [at EXCEPT ![w] = InHook(h)]
        /\ queue' = Tail(queue) /\ waiting' = waiting /\ queue \in Seq(Loops) /\ h \in Loops
    BY <1>7 DEF RunHandler, timing, TypeOK
  <2>2. p = pn + (IF h = t THEN 1 ELSE 0)
    <3>1. Places(t) = Spots(queue, t) /\ Places(t)' = Spots(Tail(queue), t)
      BY <2>1 DEF Places, Spots
    <3>2. Cardinality(Spots(queue, t)) = Cardinality(Spots(Tail(queue), t)) + (IF h = t THEN 1 ELSE 0)
      BY <2>1, SpotsTail
    <3> QED
      BY <3>1, <3>2 DEF p, pn
  <2>3. rn = r + (IF h = t THEN 1 ELSE 0)
    <3>1. IsFiniteSet(Running(t))
      BY <1>c DEF Counted
    <3>2. w \notin Running(t) /\ Running(t)' = IF h = t THEN Running(t) \cup {w} ELSE Running(t)
      BY <2>1 DEF TypeOK, Running, Idle, InHook, Rearms
    <3>3. Cardinality(Running(t) \cup {w}) = Cardinality(Running(t)) + 1
      BY <3>1, <3>2, FS_AddElement
    <3> QED
      BY <1>2, <3>2, <3>3 DEF r, rn
  <2> QED
    BY <1>2, <1>3, <1>4, <1>6, <2>1, <2>2, <2>3
<1>8. ASSUME NEW l \in Loops, HookReturns(w, l) PROVE cn <= c /\ (control = "running" => cn >= 1)
  <2>1. queue' = queue /\ waiting' = waiting /\ at[w] = InHook(l)
        /\ at' = [at EXCEPT ![w] = IF m_running THEN Rearms(l) ELSE Idle]
    BY <1>8 DEF HookReturns, timing
  <2>2. CASE m_running
    <3>1. Running(t)' = Running(t)
      BY <2>1, <2>2 DEF TypeOK, Running, Idle, InHook, Rearms
    <3>2. rn = r
      BY <3>1 DEF r, rn
    <3> QED
      BY <1>2, <1>3, <1>4, <1>5, <1>6, <2>1, <3>2
  <2>3. CASE ~m_running
    <3>1. at' = [at EXCEPT ![w] = Idle]
      BY <2>1, <2>3
    <3>2. r = rn + (IF t = l THEN 1 ELSE 0)
      BY <2>1, <3>1, LeavesHandler DEF r, rn
    <3> QED
      BY <1>2, <1>3, <1>4, <1>5, <1>6, <2>1, <2>3, <3>2
  <2> QED
    BY <2>2, <2>3
<1>9. ASSUME NEW u \in Timers, RearmTimer(w, u) PROVE cn <= c /\ (control = "running" => cn >= 1)
  <2>1. queue' = queue /\ waiting' = [waiting EXCEPT ![u] = TRUE] /\ at[w] = Rearms(u)
        /\ at' = [at EXCEPT ![w] = Idle]
    BY <1>9 DEF RearmTimer
  <2>2. r = rn + (IF t = u THEN 1 ELSE 0)
    BY <2>1, LeavesHandler DEF r, rn, Loops
  <2>3. t = u => an = 1
    BY <2>1 DEF a, an, Waits, TypeOK
  <2>4. t # u => an = a
    BY <2>1 DEF a, an, Waits, TypeOK
  <2> QED
    BY <1>2, <1>3, <1>4, <1>5, <2>1, <2>2, <2>3, <2>4
<1>10. ASSUME AcceptAgain(w) PROVE cn <= c /\ (control = "running" => cn >= 1)
  <2>1. queue' = queue /\ waiting' = waiting /\ at[w] = Rearms("accept") /\ at' = [at EXCEPT ![w] = Idle]
    BY <1>10 DEF AcceptAgain
  <2>2. r = rn
    <3>1. t # "accept" /\ "accept" \in Loops
      BY DEF Timers, Loops
    <3>2. r = rn + (IF t = "accept" THEN 1 ELSE 0)
      BY <2>1, <3>1, LeavesHandler DEF r, rn
    <3> QED
      BY <1>3, <3>1, <3>2
  <2> QED
    BY <1>2, <1>3, <1>4, <1>5, <1>6, <2>1, <2>2
<1>11. ASSUME WorkerReturns(w) PROVE cn <= c /\ (control = "running" => cn >= 1)
  <2>1. queue' = queue /\ waiting' = waiting /\ at[w] = Idle /\ at' = [at EXCEPT ![w] = Absent]
    BY <1>11 DEF WorkerReturns, timing
  <2>2. Running(t)' = Running(t)
    BY <2>1 DEF TypeOK, Running, Idle, Absent, InHook, Rearms
  <2>3. rn = r
    BY <2>2 DEF r, rn
  <2> QED
    BY <1>2, <1>3, <1>4, <1>5, <1>6, <2>1, <2>3
<1>12. cn <= c /\ (control = "running" => cn >= 1)
  BY <1>7, <1>8, <1>9, <1>10, <1>11 DEF WorkerNext
<1> QED
  BY <1>12 DEF c, cn

(* The reactor makes a waiting chain a ready one.                           *)
LEMMA ReactorKeepsChains ==
  ASSUME TypeOK, TypeOK', ChainInvariant, IoNext
  PROVE  ChainInvariant'
<1>0. UNCHANGED << control, starts, at >> /\ Armed' = Armed
  BY DEF IoNext, IoExpires, IoAccepts, IoAcceptFails, pool, Armed
<1>c. Counted /\ Counted'
  BY ChainParts, PTL
<1>1. SUFFICES ASSUME NEW t \in Timers PROVE TimerChains(t)' = TimerChains(t)
  BY <1>0, <1>1 DEF ChainInvariant
<1> DEFINE a == Waits(t)
           p == Cardinality(Places(t))
           r == Cardinality(Running(t))
           an == Waits(t)'
           pn == Cardinality(Places(t))'
           rn == Cardinality(Running(t))'
<1>2. TimerChains(t) = a + p + r /\ a \in {0, 1} /\ p \in Nat /\ r \in Nat
  BY <1>c DEF Counted
<1>3. TimerChains(t)' = an + pn + rn /\ an \in {0, 1} /\ pn \in Nat /\ rn \in Nat
  BY <1>c DEF Counted
<1>4. rn = r
  BY <1>0 DEF Running
<1>5. ASSUME NEW l \in Loops, queue' = Append(queue, l)
      PROVE  pn = p + (IF l = t THEN 1 ELSE 0)
  <2>1. Places(t) = Spots(queue, t) /\ Places(t)' = Spots(Append(queue, l), t)
    BY <1>5 DEF Places, Spots
  <2>2. queue \in Seq(Loops)
    BY DEF TypeOK
  <2>3. Cardinality(Spots(Append(queue, l), t)) = Cardinality(Spots(queue, t)) + (IF l = t THEN 1 ELSE 0)
    BY <2>2, SpotsAppend
  <2> QED
    BY <2>1, <2>3
<1>6. waiting' = waiting => an = a
  BY DEF Waits
<1> HIDE DEF a, p, r, an, pn, rn
<1>7. ASSUME NEW u \in Timers, IoExpires(u) PROVE an + pn = a + p
  <2>1. waiting[u] /\ waiting' = [waiting EXCEPT ![u] = FALSE] /\ queue' = Append(queue, u)
    BY <1>7 DEF IoExpires
  <2>2. pn = p + (IF u = t THEN 1 ELSE 0)
    BY <1>5, <2>1 DEF Loops
  <2>3. u = t => a = 1 /\ an = 0
    BY <2>1 DEF a, an, Waits, TypeOK
  <2>4. u # t => an = a
    BY <2>1 DEF a, an, Waits, TypeOK
  <2> QED
    BY <1>2, <1>3, <2>2, <2>3, <2>4
<1>8. ASSUME IoAccepts PROVE an + pn = a + p
  <2>1. waiting' = waiting /\ queue' = Append(queue, "accept")
    BY <1>8 DEF IoAccepts
  <2>2. "accept" \in Loops /\ "accept" # t
    BY DEF Loops, Timers
  <2>3. pn = p
    BY <1>2, <1>5, <2>1, <2>2
  <2> QED
    BY <1>6, <2>1, <2>3
<1>9. ASSUME IoAcceptFails PROVE an + pn = a + p
  <2>1. waiting' = waiting /\ queue' = queue
    BY <1>9 DEF IoAcceptFails, pool
  <2>2. pn = p
    BY <2>1 DEF p, pn, Places
  <2> QED
    BY <1>6, <2>1, <2>2
<1>10. an + pn = a + p
  BY <1>7, <1>8, <1>9 DEF IoNext
<1> QED
  BY <1>2, <1>3, <1>4, <1>10

(* While the server runs no timer loop is lost, and none is alive more often*)
(* than Start() was called (net_server.cpp:73-122), for any pool of workers *)
(* and any number of restarts.                                              *)
THEOREM TimerChainsBoundedCorrect == MainSpec => []TimerChainsBounded
<1>1. MainInit => ChainInvariant
  <2> SUFFICES ASSUME MainInit, NEW t \in Timers PROVE TimerChains(t) = 0 /\ starts = 0 /\ control = "stopped"
    BY DEF ChainInvariant, Armed
  <2>1. starts = 0 /\ control = "stopped" /\ Places(t) = {} /\ Running(t) = {} /\ ~waiting[t]
    BY DEF MainInit, Init, Places, Running, Absent, InHook, Rearms
  <2> QED
    BY <2>1, FS_EmptySet DEF TimerChains
<1>2. TypeOK /\ TypeOK' /\ LifeInvariant /\ ChainInvariant /\ [MainNext]_allVars => ChainInvariant'
  <2> SUFFICES ASSUME TypeOK, TypeOK', LifeInvariant, ChainInvariant, [MainNext]_allVars PROVE ChainInvariant'
    OBVIOUS
  <2>c. Counted /\ Counted'
    BY ChainParts, PTL
  <2>0. starts \in Nat /\ \A t \in Timers : TimerChains(t) \in Nat /\ TimerChains(t)' \in Nat
    BY <2>c, WorkersAssumption DEF TypeOK, Counted
  <2>1. ASSUME UNCHANGED << waiting, queue, at >> PROVE \A t \in Timers : TimerChains(t)' = TimerChains(t)
    BY <2>1 DEF TimerChains, Places, Running
  <2>2. CASE UNCHANGED vars \/ Destroyed
    <3>1. UNCHANGED << waiting, queue, at, control, starts >>
      BY <2>2 DEF vars, pool, timing, Destroyed
    <3> QED
      BY <2>1, <3>1 DEF ChainInvariant, Armed
  <2>3. CASE StartBegins
    <3>1. control' = "opening" /\ control = "stopped" /\ starts' = starts + 1 /\ UNCHANGED << waiting, queue, at >>
      BY <2>3 DEF StartBegins, Go, timing, pool
    <3> QED
      BY <2>0, <2>1, <3>1 DEF ChainInvariant, Armed
  <2>4. CASE OnStartSucceeds \/ OnStartFails \/ ListenFails \/ StopBegins \/ StopAccepting \/ StopIo
             \/ JoinWorkers \/ StopReturns
    <3>1. /\ starts' = starts /\ UNCHANGED << waiting, queue, at >> /\ control' # "running"
          /\ control' \in {"opening", "listening"} => control \in {"opening", "listening"}
      BY <2>4 DEF OnStartSucceeds, OnStartFails, ListenFails, StopBegins, StopAccepting, StopIo, JoinWorkers,
         StopReturns, Go, timing, pool
    <3> QED
      BY <2>0, <2>1, <3>1 DEF ChainInvariant, Armed
  <2>5. CASE StartReturns
    <3>1. /\ control = "listening" /\ control' = "running" /\ starts' = starts
          /\ waiting' = [t \in Timers |-> TRUE] /\ queue' = queue /\ at' = [w \in Workers |-> Idle]
      BY <2>5 DEF StartReturns, Go
    <3>2. ASSUME NEW t \in Timers PROVE TimerChains(t)' <= TimerChains(t) + 1 /\ TimerChains(t)' >= 1
      <4>1. Running(t)' = {} /\ Running(t) = {} /\ Places(t)' = Places(t) /\ Waits(t)' = 1
        BY <3>1 DEF LifeInvariant, InService, Running, Idle, Absent, InHook, Rearms, Places, Waits
      <4>2. /\ TimerChains(t) = Waits(t) + Cardinality(Places(t)) + Cardinality(Running(t))
            /\ Waits(t) \in {0, 1} /\ Cardinality(Places(t)) \in Nat
        BY <2>c DEF Counted
      <4>3. TimerChains(t)' = (Waits(t) + Cardinality(Places(t)) + Cardinality(Running(t)))'
        BY <2>c DEF Counted
      <4>4. TimerChains(t)' = 1 + Cardinality(Places(t)) + Cardinality(Running(t))
        BY <4>1, <4>3
      <4>5. Cardinality(Running(t)) = 0
        BY <4>1, FS_EmptySet
      <4> QED
        BY <4>2, <4>4, <4>5
    <3>3. Armed = 1 /\ Armed' = 0
      BY <3>1 DEF Armed
    <3> QED
      BY <2>0, <3>1, <3>2, <3>3 DEF ChainInvariant
  <2>6. CASE CancelTimers
    <3>1. /\ control = "cancelling" /\ control' = "halting" /\ starts' = starts
          /\ waiting' = [t \in Timers |-> FALSE] /\ queue' = queue /\ at' = at
      BY <2>6 DEF CancelTimers, Go, pool
    <3>2. ASSUME NEW t \in Timers PROVE TimerChains(t)' <= TimerChains(t)
      <4>1. Running(t)' = Running(t) /\ Places(t)' = Places(t) /\ Waits(t)' = 0
        BY <3>1 DEF Running, Places, Waits
      <4>2. /\ TimerChains(t) = Waits(t) + Cardinality(Places(t)) + Cardinality(Running(t))
            /\ Waits(t) \in {0, 1} /\ Cardinality(Places(t)) \in Nat /\ Cardinality(Running(t)) \in Nat
        BY <2>c DEF Counted
      <4>3. TimerChains(t)' = (Waits(t) + Cardinality(Places(t)) + Cardinality(Running(t)))'
        BY <2>c DEF Counted
      <4>4. TimerChains(t)' = 0 + Cardinality(Places(t)) + Cardinality(Running(t))
        BY <4>1, <4>3
      <4> QED
        BY <4>2, <4>4
    <3>3. Armed = 0 /\ Armed' = 0
      BY <3>1 DEF Armed
    <3> QED
      BY <2>0, <3>1, <3>2, <3>3 DEF ChainInvariant
  <2>7. ASSUME NEW w \in Workers, WorkerNext(w) PROVE ChainInvariant'
    BY <2>7, WorkerKeepsChains DEF LifeInvariant
  <2>8. CASE IoNext
    BY <2>8, ReactorKeepsChains
  <2> QED
    BY <2>2, <2>3, <2>4, <2>5, <2>6, <2>7, <2>8, ServerSteps DEF ControlNext
<1>3. TypeOK /\ ChainInvariant => TimerChainsBounded
  <2> SUFFICES ASSUME TypeOK, ChainInvariant, NEW t \in Timers
               PROVE  TimerChains(t) <= starts /\ (control = "running" => TimerChains(t) >= 1)
    BY DEF TimerChainsBounded
  <2>1. TimerChains(t) \in Nat /\ starts \in Nat /\ Armed \in {0, 1}
    BY ChainParts, WorkersAssumption DEF TypeOK, Armed, Counted
  <2> QED
    BY <2>1 DEF ChainInvariant
<1> QED
  BY <1>1, <1>2, <1>3, ServerCorrect, PTL DEF MainSpec
=============================================================================
