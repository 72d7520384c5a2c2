----------------------------- MODULE ServerMain -----------------------------
(***************************************************************************)
(* The main program of every server, servers/*/main.cpp: start the server, *)
(* sleep on a condition variable until a signal handler has set g_stop,    *)
(* stop the server and return.  The control thread of module NetServer is  *)
(* the thread of main(); the handler runs between any two of its steps.    *)
(*                                                                         *)
(* A program that is no main() ("harness", as the smoke tests are) may     *)
(* call Start() and Stop() whenever it likes, as in module NetServer.      *)
(***************************************************************************)
EXTENDS NetServer

CONSTANT MaxSignals   (* Bound: SIGINT and SIGTERM sent to the process.     *)

ASSUME SignalsAssumption == MaxSignals \in Nat

VARIABLES
  program,  (* where main() is, or "harness"                                *)
  g_stop,
  handler,  (* "none", or "stored": onSignal between its two statements     *)
  signals,  (* signals delivered so far                                     *)
  missed    (* history: the last notify_all came after main() had tested    *)
            (* g_stop and before it slept                                   *)

main == << program, g_stop, handler, signals, missed >>
allVars == << vars, main >>

MainTypeOK ==
  /\ TypeOK
  /\ program \in {"harness", "starting", "testing", "falling asleep", "asleep", "stopping", "exited"}
  /\ g_stop \in BOOLEAN /\ missed \in BOOLEAN
  /\ handler \in {"none", "stored"}
  /\ signals \in 0..MaxSignals

(* The handlers are installed before the server is made.                    *)
MainInit ==
  /\ Init
  /\ program \in {"harness", "starting"}
  /\ g_stop = FALSE
  /\ handler = "none"
  /\ signals = 0
  /\ missed = FALSE

Proceeds(from, to) ==
  /\ program = from
  /\ program' = to
  /\ UNCHANGED << g_stop, handler, signals, missed >>

(* Start() and Stop() of the server, called by main() or by the harness.    *)
ControlSteps ==
  /\ ControlNext
  /\ control = "stopped" => program = "harness" \/ (program = "starting" /\ starts = 0)
  /\ control = "running" => program \in {"harness", "stopping"}
  /\ UNCHANGED main

Started == Proceeds("starting", "testing") /\ control = "running" /\ UNCHANGED vars

(* The destructors: ~NetServer finds m_running false, ~OdbcDb closes what a *)
(* failed OnStart() has left open.                                          *)
Leaves(from) == Proceeds(from, "exited") /\ control = "stopped" /\ db' = 0

StartFailed ==
  /\ starts > 0
  /\ Leaves("starting")
  /\ UNCHANGED << control, starts, m_running, acceptor, timing, pool, io_stopped >>

-----------------------------------------------------------------------------
(* g_cv.wait(lk, pred) is  while (!pred()) g_cv.wait(lk) .                  *)

TestSucceeds == Proceeds("testing", "stopping") /\ g_stop /\ UNCHANGED vars
TestFails    == Proceeds("testing", "falling asleep") /\ ~g_stop /\ UNCHANGED vars
FallsAsleep  == Proceeds("falling asleep", "asleep") /\ UNCHANGED vars

BadWakesSpuriously == Proceeds("asleep", "stopping") /\ UNCHANGED vars

WakesSpuriously == Proceeds("asleep", "testing") /\ UNCHANGED vars

(* srv.Stop() is called once the wait is over and runs to its end.          *)
Stopped ==
  /\ Leaves("stopping")
  /\ UNCHANGED << control, starts, m_running, acceptor, timing, pool, io_stopped >>

-----------------------------------------------------------------------------
(* onSignal: it takes no mutex.                                             *)

SignalStores ==
  /\ program \notin {"harness", "exited"}
  /\ handler = "none"
  /\ signals < MaxSignals
  /\ signals' = signals + 1
  /\ handler' = "stored"
  /\ g_stop' = TRUE
  /\ UNCHANGED << vars, program, missed >>

BadSignalNotifies ==
  /\ handler = "stored"
  /\ handler' = "none"
  /\ missed' = (program = "falling asleep")
  /\ UNCHANGED << vars, program, g_stop, signals >>

SignalNotifies ==
  /\ handler = "stored"
  /\ handler' = "none"
  /\ program' = IF program = "asleep" THEN "testing" ELSE program
  /\ missed' = (program = "falling asleep")
  /\ UNCHANGED << vars, g_stop, signals >>

-----------------------------------------------------------------------------
MainSteps == Started \/ StartFailed \/ TestSucceeds \/ TestFails \/ FallsAsleep \/ Stopped

MainNext ==
  \/ ControlSteps
  \/ MainSteps
  \/ WakesSpuriously
  \/ SignalStores
  \/ SignalNotifies
  \/ ((\E w \in Workers : WorkerNext(w)) \/ IoNext) /\ UNCHANGED main
  \/ StaysStopped /\ program \in {"harness", "exited"} /\ UNCHANGED main

MainSpec == MainInit /\ [][MainNext]_allVars

(* Beyond the fairness of the server: main() runs, also into Start() and    *)
(* Stop(), and a handler that began returns.  Nobody has to send a signal,  *)
(* and nothing wakes main() spuriously by itself.                           *)
MainFairness ==
  /\ Fairness
  /\ WF_allVars(MainSteps)
  /\ WF_allVars(ControlSteps /\ program \in {"starting", "stopping"})
  /\ WF_allVars(SignalNotifies)

MainFairSpec == MainSpec /\ MainFairness

-----------------------------------------------------------------------------
(* main() returns only after the whole server is down: no worker is left    *)
(* inside a hook of the object that it destroys and nothing listens,        *)
(* whatever failed on the way; and a server that was started is stopped by  *)
(* a signal alone, not by a spurious wakeup (main.cpp:45-55).               *)
ExitIsClean ==
  /\ program = "exited" =>
       /\ \A w \in Workers : at[w] = Absent
       /\ acceptor = "closed" /\ ~m_running /\ ~io_stopped
  /\ program = "stopping" => g_stop

(* A signal ends the program, whenever it comes, unless its notification    *)
(* falls between main()'s test of g_stop and its sleep, which nothing in    *)
(* onSignal prevents: then main() may sleep on (main.cpp:15, 50-51).        *)
StopSignalExits == (g_stop /\ ~missed) ~> (program = "exited" \/ missed)

=============================================================================
