----------------------------- MODULE Scheduler -----------------------------
(***************************************************************************)
(* background.Scheduler: a goroutine that runs the sweeps on every tick    *)
(* until its context is cancelled.  Start and Stop each have a section     *)
(* under the mutex, followed by steps outside it: Start counts and spawns  *)
(* its loop after unlocking, Stop waits for the count to be zero.          *)
(*                                                                         *)
(* The program calls Start once and Stop at most once.  s.cancel is set    *)
(* exactly while ctx is "live", and the wait group counts the loop exactly *)
(* while it is running, so neither needs a variable of its own.            *)
(***************************************************************************)
EXTENDS ShiftCalls

VARIABLES
    ctx,        \* the context of the loop: "none", "live" or "cancelled"
    loop        \* the goroutine: "unborn", "running" or "exited"

schedVars == <<ctx, loop>>

SchedTypeOK ==
    /\ ctx \in {"none", "live", "cancelled"}
    /\ loop \in {"unborn", "running", "exited"}

SchedInit ==
    /\ ctx = "none"
    /\ loop = "unborn"

\* The section of Start under the mutex.
Arm ==
    /\ ctx' = "live"
    /\ UNCHANGED loop

\* wg.Add(1) and the go statement.
Launch ==
    /\ loop' = "running"
    /\ UNCHANGED ctx

Started == ctx = "live"

\* Variant with a bug: the loop's context is not cancelled.
CancelNothing == UNCHANGED schedVars

\* The section of Stop under the mutex, when the scheduler is started.
Cancel ==
    /\ ctx' = "cancelled"
    /\ UNCHANGED loop

\* Variant with a bug: Stop does not wait.
JoinedAtOnce == TRUE

\* wg.Wait returns.
Joined == loop # "running"

\* The loop is in its select statement.
Selecting == loop = "running" /\ sweep = Idle

\* The select may take a tick even when the context is cancelled: among the
\* cases that are ready it chooses at random.  EscalateOverdue, which is in
\* AlertService, comes before ActivateDueShifts and shares no state with it.
LoopTick ==
    /\ Selecting
    /\ ListDueShifts
    /\ UNCHANGED schedVars

LoopExit ==
    /\ Selecting
    /\ ctx = "cancelled"
    /\ loop' = "exited"
    /\ UNCHANGED <<ctx, shiftVars, callVars>>

LoopSweep ==
    /\ SweepStep
    /\ UNCHANGED schedVars
=============================================================================
