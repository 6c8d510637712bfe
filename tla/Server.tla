------------------------------- MODULE Server -------------------------------
(***************************************************************************)
(* The process: the main goroutine, the goroutine that waits for a signal, *)
(* the scheduler's loop and the requests on shifts, from the start to the  *)
(* end of the process.  httpapi.Server is what the first two share; the    *)
(* net/http server below it is modelled by what its documentation says of  *)
(* ListenAndServe and Shutdown.                                            *)
(***************************************************************************)
EXTENDS Scheduler

CONSTANT MaxLoad    \* bound: stored shifts and requests in flight together

VARIABLES
    main,       \* where the main goroutine is
    sig,        \* where the goroutine of the signal is
    inShutdown, \* has Shutdown of the net/http server been called?
    signalled,  \* has a signal been sent?
    exit,       \* how the process ended, or "no"
    early       \* history: did Stop come before the loop was counted?

serverVars == <<main, sig, inShutdown, signalled, exit, early>>

vars == <<shiftVars, callVars, schedVars, serverVars>>

TypeOK ==
    /\ CallTypeOK
    /\ SchedTypeOK
    /\ main \in {"spawn", "start", "launch", "assign", "listen", "serve"}
    /\ sig \in {"none", "notify", "wait", "stop", "join", "close", "drain",
                "done", "gave up"}
    /\ inShutdown \in BOOLEAN
    /\ signalled \in BOOLEAN
    /\ early \in BOOLEAN
    /\ exit \in {"no", "ok", "error", "killed"}

Init ==
    /\ CallInit
    /\ SchedInit
    /\ main = "spawn"
    /\ sig = "none"
    /\ inShutdown = FALSE
    /\ signalled = FALSE
    /\ exit = "no"
    /\ early = FALSE

Running == exit = "no"

service == <<shiftVars, callVars>>

(***************************************************************************)
(* The main goroutine.                                                     *)
(***************************************************************************)
SpawnSignalHandler ==
    /\ main = "spawn"
    /\ main' = "start"
    /\ sig' = "notify"
    /\ UNCHANGED <<service, schedVars, inShutdown, signalled, exit, early>>

\* Server.Start calls Scheduler.Start, which returns at once when it is started.
StartScheduler ==
    /\ main = "start"
    /\ IF Started THEN main' = "assign" /\ UNCHANGED schedVars
                  ELSE main' = "launch" /\ Arm
    /\ UNCHANGED <<service, sig, inShutdown, signalled, exit, early>>

LaunchLoop ==
    /\ main = "launch"
    /\ Launch
    /\ main' = "assign"
    /\ UNCHANGED <<service, sig, inShutdown, signalled, exit, early>>

\* From here on s.httpSrv is set.
AssignServer ==
    /\ main = "assign"
    /\ main' = "listen"
    /\ UNCHANGED <<service, schedVars, sig, inShutdown, signalled, exit, early>>

\* ListenAndServe returns at once when the server was shut down before; it may
\* fail to listen, and then main exits with an error.
ListenAndServe ==
    /\ main = "listen"
    /\ \/ inShutdown /\ exit' = "ok" /\ UNCHANGED main
       \/ ~inShutdown /\ main' = "serve" /\ UNCHANGED exit
       \/ ~inShutdown /\ exit' = "error" /\ UNCHANGED main
    /\ UNCHANGED <<service, schedVars, sig, inShutdown, signalled, early>>

\* The listener is closed: ListenAndServe returns ErrServerClosed, and main
\* returns, which ends the process and every goroutine of it.
MainReturns ==
    /\ main = "serve"
    /\ inShutdown
    /\ exit' = "ok"
    /\ UNCHANGED <<service, schedVars, main, sig, inShutdown, signalled, early>>

MainStep ==
    /\ Running
    /\ \/ SpawnSignalHandler
       \/ StartScheduler
       \/ LaunchLoop
       \/ AssignServer
       \/ ListenAndServe
       \/ MainReturns

(***************************************************************************)
(* The goroutine of the signal: Server.Shutdown.                           *)
(***************************************************************************)
Notify ==
    /\ sig = "notify"
    /\ sig' = "wait"
    /\ UNCHANGED <<service, schedVars, main, inShutdown, signalled, exit, early>>

ReceiveSignal ==
    /\ sig = "wait"
    /\ signalled
    /\ sig' = "stop"
    /\ UNCHANGED <<service, schedVars, main, inShutdown, signalled, exit, early>>

StopScheduler ==
    /\ sig = "stop"
    /\ early' = (loop = "unborn")
    /\ IF Started THEN sig' = "join" /\ Cancel
                  ELSE sig' = "close" /\ UNCHANGED schedVars
    /\ UNCHANGED <<service, main, inShutdown, signalled, exit>>

JoinLoop ==
    /\ sig = "join"
    /\ Joined
    /\ sig' = "close"
    /\ UNCHANGED <<service, schedVars, main, inShutdown, signalled, exit, early>>

\* s.httpSrv is read without synchronisation with main's write: until main has
\* gone on to serve, the read may miss it.
SeenServer ==
    CASE main = "serve"  -> {TRUE}
      [] main = "listen" -> {TRUE, FALSE}
      [] OTHER           -> {FALSE}

\* Without a server there is nothing to close: Shutdown returns.
CloseListener ==
    /\ sig = "close"
    /\ \E seen \in SeenServer :
          /\ inShutdown' = seen
          /\ sig' = IF seen THEN "drain" ELSE "done"
    /\ UNCHANGED <<service, schedVars, main, signalled, exit, early>>

\* Shutdown returns when no request is left, or after ten seconds.
Drain ==
    /\ sig = "drain"
    /\ \/ InFlight = {} /\ sig' = "done"
       \/ InFlight # {} /\ sig' = "gave up"
    /\ UNCHANGED <<service, schedVars, main, inShutdown, signalled, exit, early>>

SignalStep ==
    /\ Running
    /\ \/ Notify
       \/ ReceiveSignal
       \/ StopScheduler
       \/ JoinLoop
       \/ CloseListener
       \/ Drain

(***************************************************************************)
(* The environment: a signal, requests, time.                              *)
(***************************************************************************)
\* Before signal.Notify a signal ends the process; later ones are not read.
Signal ==
    /\ Running
    /\ ~signalled
    /\ signalled' = TRUE
    /\ exit' = IF sig \in {"none", "notify"} THEN "killed" ELSE exit
    /\ UNCHANGED <<service, schedVars, main, sig, inShutdown, early>>

Listening == main = "serve" /\ ~inShutdown

Accept(w) ==
    /\ Running
    /\ Listening
    /\ Cardinality(DOMAIN shifts) + Cardinality(InFlight) < MaxLoad
    /\ Start(w)
    /\ UNCHANGED <<schedVars, serverVars>>

Serve(w) ==
    /\ Running
    /\ Continue(w)
    /\ UNCHANGED <<schedVars, serverVars>>

LoopEnds ==
    /\ Running
    /\ LoopExit
    /\ UNCHANGED serverVars

LoopStep ==
    \/ LoopEnds
    \/ Running /\ LoopTick /\ UNCHANGED serverVars
    \/ Running /\ LoopSweep /\ UNCHANGED serverVars

Time ==
    /\ Running
    /\ Tick
    /\ UNCHANGED <<callVars, schedVars, serverVars>>

Next ==
    \/ MainStep
    \/ SignalStep
    \/ LoopStep
    \/ \E w \in Worker : Accept(w) \/ Serve(w)
    \/ Signal
    \/ Time

Spec == Init /\ [][Next]_vars

\* The runtime runs every goroutine, the ticker keeps firing and time passes.  A
\* select whose context is cancelled takes ticks as well, and the cancellation in
\* the end.
FairSpec ==
    /\ Spec
    /\ WF_vars(MainStep)
    /\ WF_vars(SignalStep)
    /\ WF_vars(LoopStep)
    /\ SF_vars(LoopEnds)
    /\ \A w \in Worker : WF_vars(Serve(w))
    /\ WF_vars(Time)

(***************************************************************************)
(* Properties.                                                             *)
(***************************************************************************)

StopReturned == sig \in {"close", "drain", "done", "gave up"}

\* Once Stop has returned, no sweep runs and none begins, so that the process
\* never ends in the middle of one; unless Stop came before the loop was counted.
NoSweepAfterStop ==
    StopReturned /\ ~early => loop = "exited" /\ sweep = Idle

\* A process that ended through Shutdown has answered the requests it accepted,
\* or has waited for them as long as it promised to.
Graceful ==
    exit = "ok" => InFlight = {} \/ sig = "gave up"

\* Shutdown was called and found no server to close.
Deaf == sig = "done" /\ ~inShutdown

\* A signal ends the process, whatever is in flight, unless Shutdown came before
\* the server was set: that signal is lost.
SignalEndsProcess == signalled ~> (exit # "no" \/ Deaf)

Approved == {s \in DOMAIN shifts : shifts[s] = "approved"}

\* A shift that is approved in time starts when it is due, or is cancelled, as
\* long as the process runs and was not told to stop.
DueShiftsStart ==
    \A s \in ShiftID :
        (s \in Approved /\ ShiftSpec[s].departure <= MaxTime)
        ~> (s \notin Approved \/ signalled \/ exit # "no")
=============================================================================
