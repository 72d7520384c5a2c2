----------------------------- MODULE NetServer -----------------------------
(***************************************************************************)
(* The life of a server, net/net_server.{h,cpp}: Start() opens the database*)
(* (OnStart) and the listen socket, arms the accept loop and the two       *)
(* timers and starts a pool of workers that run the io_context; Stop()     *)
(* undoes this.  The control thread (main) and the workers run             *)
(* concurrently; the hooks of the concrete server run on the workers.      *)
(*                                                                         *)
(* The io_context is a FIFO queue of completion handlers whose operation   *)
(* succeeded.  A handler that completes with an error returns at once and  *)
(* changes nothing (net_server.cpp:95-100, 109, 118): it is left out.      *)
(* io.stop() makes run() return; it leaves the queue as it is.             *)
(***************************************************************************)
EXTENDS Naturals, Sequences, FiniteSets

CONSTANTS
  Workers,    (* the worker threads of the pool                      *)
  MaxStarts   (* Bound: how often the control thread calls Start().  *)

ASSUME WorkersAssumption ==
  /\ Workers # {} /\ IsFiniteSet(Workers)
  /\ MaxStarts \in Nat

Timers == {"update", "schedule"}
Loops  == Timers \cup {"accept"}

VARIABLES
  control,    (* where the control thread is                                  *)
  starts,     (* calls of Start() that got past m_running                     *)
  m_running,
  db,         (* database connections opened and not released                 *)
  acceptor,   (* "open" | "closed": m_acceptor                                *)
  accepting,  (* outstanding async_accept operations                          *)
  waiting,    (* does the timer have a pending async_wait?                    *)
  queue,      (* the io_context: handlers ready to run, oldest first          *)
  io_stopped, (* io.stop() was called, and not yet io.restart()               *)
  at          (* what each worker does: [doing, loop]                         *)

pool == << queue, at >>
timing == << accepting, waiting >>
vars == << control, starts, m_running, db, acceptor, timing, pool, io_stopped >>

Idle   == [doing |-> "idle",   loop |-> "none"]   (* inside io.run()         *)
Absent == [doing |-> "absent", loop |-> "none"]   (* not started or returned *)
InHook(l) == [doing |-> "hook",  loop |-> l]      (* OnAccept, OnUpdate, ... *)
Rearms(l) == [doing |-> "rearm", loop |-> l]      (* found m_running TRUE    *)

TypeOK ==
  /\ control \in {"stopped", "opening", "listening", "running", "closing",
                  "cancelling", "halting", "joining", "restarting"}
  /\ starts \in 0..MaxStarts
  /\ m_running \in BOOLEAN
  /\ db \in 0..MaxStarts
  /\ acceptor \in {"open", "closed"}
  /\ accepting \in Nat
  /\ waiting \in [Timers -> BOOLEAN]
  /\ queue \in Seq(Loops)
  /\ io_stopped \in BOOLEAN
  /\ at \in [Workers -> {Idle, Absent} \cup {InHook(l) : l \in Loops} \cup {Rearms(l) : l \in Loops}]

Init ==
  /\ control = "stopped"
  /\ starts = 0
  /\ m_running = FALSE
  /\ db = 0
  /\ acceptor = "closed"
  /\ accepting = 0
  /\ waiting = [t \in Timers |-> FALSE]
  /\ queue = << >>
  /\ io_stopped = FALSE
  /\ at = [w \in Workers |-> Absent]

Go(from, to) == control = from /\ control' = to

-----------------------------------------------------------------------------
(* Start().                                                                 *)

StartBegins ==
  /\ Go("stopped", "opening")
  /\ starts < MaxStarts
  /\ starts' = starts + 1
  /\ m_running' = TRUE
  /\ UNCHANGED << db, acceptor, timing, pool, io_stopped >>

(* OnStart(): Open() overwrites whatever handle m_db has.                   *)
OnStartSucceeds ==
  /\ Go("opening", "listening")
  /\ db' = db + 1
  /\ UNCHANGED << starts, m_running, acceptor, timing, pool, io_stopped >>

(* Faulty variants, named Bad..., are what a plausible bug would make of    *)
(* the definition that follows them; no specification uses them.            *)
BadOnStartFailsReleases ==
  /\ Go("opening", "stopped")
  /\ db' \in {db - 1, db}
  /\ m_running' = FALSE
  /\ UNCHANGED << starts, acceptor, timing, pool, io_stopped >>

(* The connection fails, or it succeeds and the probe query fails; nothing  *)
(* closes the connection then, because OnStop() is not called.              *)
OnStartFails ==
  /\ Go("opening", "stopped")
  /\ db' \in {db, db + 1}
  /\ m_running' = FALSE
  /\ UNCHANGED << starts, acceptor, timing, pool, io_stopped >>

(* OnStop(): m_db.Close() releases the connection m_db refers to.           *)
OnStop == db' = db - 1

ListenFails ==
  /\ Go("listening", "stopped")
  /\ m_running' = FALSE
  /\ OnStop
  /\ UNCHANGED << starts, acceptor, timing, pool, io_stopped >>

(* The socket listens; the accept loop and the timers are armed before the  *)
(* first worker runs.  expires_after cancels a wait that is still pending.  *)
StartReturns ==
  /\ Go("listening", "running")
  /\ acceptor' = "open"
  /\ accepting' = accepting + 1
  /\ waiting' = [t \in Timers |-> TRUE]
  /\ at' = [w \in Workers |-> Idle]
  /\ UNCHANGED << starts, m_running, db, queue, io_stopped >>

-----------------------------------------------------------------------------
(* Stop().                                                                  *)

StopBegins ==
  /\ Go("running", "closing")
  /\ m_running' = FALSE
  /\ UNCHANGED << starts, db, acceptor, timing, pool, io_stopped >>

StopAccepting ==
  /\ Go("closing", "cancelling")
  /\ acceptor' = "closed"
  /\ accepting' = 0
  /\ UNCHANGED << starts, m_running, db, waiting, pool, io_stopped >>

(* m_updateTimer.cancel() and m_scheduleTimer.cancel().                     *)
CancelTimers ==
  /\ Go("cancelling", "halting")
  /\ waiting' = [t \in Timers |-> FALSE]
  /\ UNCHANGED << starts, m_running, db, acceptor, accepting, pool, io_stopped >>

(* m_work.reset() and m_io.stop().                                          *)
BadStopIoKeepsRunning ==
  /\ Go("halting", "joining")
  /\ UNCHANGED << starts, m_running, db, acceptor, timing, pool, io_stopped >>

StopIo ==
  /\ Go("halting", "joining")
  /\ io_stopped' = TRUE
  /\ UNCHANGED << starts, m_running, db, acceptor, timing, pool >>

BadJoinSkipped ==
  /\ Go("joining", "restarting")
  /\ OnStop
  /\ UNCHANGED << starts, m_running, acceptor, timing, pool, io_stopped >>

JoinWorkers ==
  /\ Go("joining", "restarting")
  /\ \A w \in Workers : at[w] = Absent
  /\ OnStop
  /\ UNCHANGED << starts, m_running, acceptor, timing, pool, io_stopped >>

StopReturns ==
  /\ Go("restarting", "stopped")
  /\ io_stopped' = FALSE
  /\ UNCHANGED << starts, m_running, db, acceptor, timing, pool >>

-----------------------------------------------------------------------------
(* A worker inside io.run().                                                *)

BadRunRearmsFirst(w) ==
  /\ ~io_stopped
  /\ at[w] = Idle
  /\ queue # << >>
  /\ at' = [at EXCEPT ![w] = InHook(Head(queue))]
  /\ queue' = Tail(queue)
  /\ waiting' = [t \in Timers |-> waiting[t] \/ t = Head(queue)]
  /\ UNCHANGED << control, starts, m_running, db, acceptor, accepting, io_stopped >>

RunHandler(w) ==
  /\ ~io_stopped
  /\ at[w] = Idle
  /\ queue # << >>
  /\ at' = [at EXCEPT ![w] = InHook(Head(queue))]
  /\ queue' = Tail(queue)
  /\ UNCHANGED << control, starts, m_running, db, acceptor, timing, io_stopped >>

BadHookEndsLoop(w, l) ==
  /\ at[w] = InHook(l)
  /\ at' = [at EXCEPT ![w] = Idle]
  /\ UNCHANGED << control, starts, m_running, db, acceptor, timing, queue, io_stopped >>

(* The hook of the concrete server returns and the handler reads m_running. *)
HookReturns(w, l) ==
  /\ at[w] = InHook(l)
  /\ at' = [at EXCEPT ![w] = IF m_running THEN Rearms(l) ELSE Idle]
  /\ UNCHANGED << control, starts, m_running, db, acceptor, timing, queue, io_stopped >>

BadRearmWithoutWait(w, t) ==
  /\ at[w] = Rearms(t)
  /\ at' = [at EXCEPT ![w] = Idle]
  /\ UNCHANGED << control, starts, m_running, db, acceptor, timing, queue, io_stopped >>

(* armUpdateTimer, armScheduleTimer: Stop() may have cancelled meanwhile.   *)
RearmTimer(w, t) ==
  /\ at[w] = Rearms(t)
  /\ at' = [at EXCEPT ![w] = Idle]
  /\ waiting' = [waiting EXCEPT ![t] = TRUE]
  /\ UNCHANGED << control, starts, m_running, db, acceptor, accepting, queue, io_stopped >>

(* doAccept: on a closed acceptor async_accept completes with an error.     *)
AcceptAgain(w) ==
  /\ at[w] = Rearms("accept")
  /\ at' = [at EXCEPT ![w] = Idle]
  /\ accepting' = IF acceptor = "open" THEN accepting + 1 ELSE accepting
  /\ UNCHANGED << control, starts, m_running, db, acceptor, waiting, queue, io_stopped >>

(* run() returns because the io_context is stopped.                         *)
WorkerReturns(w) ==
  /\ io_stopped
  /\ at[w] = Idle
  /\ at' = [at EXCEPT ![w] = Absent]
  /\ UNCHANGED << control, starts, m_running, db, acceptor, timing, queue, io_stopped >>

WorkerNext(w) ==
  \/ RunHandler(w)
  \/ \E l \in Loops : HookReturns(w, l)
  \/ \E t \in Timers : RearmTimer(w, t)
  \/ AcceptAgain(w)
  \/ WorkerReturns(w)

-----------------------------------------------------------------------------
(* The reactor, run by a worker that waits inside io.run().                 *)
Polled == ~io_stopped /\ \E w \in Workers : at[w] = Idle

(* A timer expires: its handler is queued and can no longer be cancelled.   *)
IoExpires(t) ==
  /\ Polled
  /\ waiting[t]
  /\ waiting' = [waiting EXCEPT ![t] = FALSE]
  /\ queue' = Append(queue, t)
  /\ UNCHANGED << control, starts, m_running, db, acceptor, accepting, at, io_stopped >>

IoAccepts ==
  /\ Polled
  /\ accepting > 0
  /\ accepting' = accepting - 1
  /\ queue' = Append(queue, "accept")
  /\ UNCHANGED << control, starts, m_running, db, acceptor, waiting, at, io_stopped >>

(* accept fails (no file descriptors left): the handler logs and returns,   *)
(* without starting another accept.                                         *)
IoAcceptFails ==
  /\ Polled
  /\ accepting > 0
  /\ accepting' = accepting - 1
  /\ UNCHANGED << control, starts, m_running, db, acceptor, waiting, pool, io_stopped >>

-----------------------------------------------------------------------------
ControlNext ==
  \/ StartBegins \/ OnStartSucceeds \/ OnStartFails \/ ListenFails \/ StartReturns
  \/ StopBegins \/ StopAccepting \/ CancelTimers \/ StopIo \/ JoinWorkers \/ StopReturns

IoNext == (\E t \in Timers : IoExpires(t)) \/ IoAccepts \/ IoAcceptFails

(* The process may stay stopped for good.                                   *)
StaysStopped == control = "stopped" /\ UNCHANGED vars

Next == ControlNext \/ (\E w \in Workers : WorkerNext(w)) \/ IoNext \/ StaysStopped

Spec == Init /\ [][Next]_vars

(* Workers are scheduled and every hook returns; time passes, and the       *)
(* reactor takes its turn between the handlers (hence strong fairness: the  *)
(* workers need not be waiting all the time); a Start() or Stop() that      *)
(* began goes on.  Nobody is obliged to call Start() or Stop().             *)
Fairness ==
  /\ \A w \in Workers : WF_vars(WorkerNext(w))
  /\ \A t \in Timers : SF_vars(IoExpires(t))
  /\ WF_vars(OnStartSucceeds \/ OnStartFails \/ ListenFails \/ StartReturns)
  /\ WF_vars(StopAccepting \/ CancelTimers \/ StopIo \/ JoinWorkers \/ StopReturns)

FairSpec == Spec /\ Fairness

-----------------------------------------------------------------------------
(* Safety.                                                                  *)

(* The workers that are inside the handler of a loop.                       *)
Running(l) == {w \in Workers : at[w] \in {InHook(l), Rearms(l)}}

(* auth_server.h:68-69 and docs/runbooks/auth-cert-flow.md:78 rely on it:   *)
(* OnUpdate and everything it calls, the database included, never runs on   *)
(* two workers at once; the same for OnAccept and OnRegularSchedule.        *)
HooksSerialized == \A l \in Loops : Cardinality(Running(l)) <= 1

(* Until the server is started a second time, hooks are indeed serialized,  *)
(* whatever Stop() meets (net_server.cpp:73-122).                           *)
FirstLifeSerialized == starts <= 1 => HooksSerialized

(* The places of a loop among the handlers that are ready.                  *)
Places(l) == {i \in 1..Len(queue) : queue[i] = l}

(* How many times a timer loop is alive: waiting, ready to run or running.  *)
TimerChains(t) ==
  (IF waiting[t] THEN 1 ELSE 0) + Cardinality(Places(t)) + Cardinality(Running(t))

(* While the server runs no timer loop is lost, and a loop is alive at most *)
(* once per Start(): Stop() may end it and never doubles it, but a handler  *)
(* that survives Stop() in the queue adds one (net_server.cpp:73-122).      *)
TimerChainsBounded ==
  \A t \in Timers : TimerChains(t) <= starts /\ (control = "running" => TimerChains(t) >= 1)

(* A hook never runs on a database that OnStop has released: Stop() joins   *)
(* the workers before it (net_server.cpp:83-86).                            *)
DatabaseOpenInHooks == \A l \in Loops : Running(l) # {} => db > 0

(* net_server.cpp:102: the accept handler is to "keep accepting".           *)
KeepsAccepting ==
  control = "running" =>
    \/ accepting > 0
    \/ \E i \in 1..Len(queue) : queue[i] = "accept"
    \/ Running("accept") # {}

-----------------------------------------------------------------------------
(* Liveness.                                                                *)

(* Stop() returns: every worker leaves io.run() (net_server.cpp:80-84).     *)
StopTerminates == (control = "closing") ~> (control = "stopped")

(* OnUpdate keeps being called while the server runs.                       *)
TickRecurs == []<>(control # "running" \/ (\E w \in Workers : at[w] = InHook("update")))
=============================================================================
