---------------------------- MODULE ShiftService ----------------------------
(***************************************************************************)
(* app.ShiftService over the shift table of the store: weekly generation,  *)
(* the approval workflow and the activation of due shifts by the           *)
(* background scheduler.  Each operation is one step here.                 *)
(***************************************************************************)
EXTENDS Domain

CONSTANT MaxTime    \* bound: the clock stops there

VARIABLES
    shifts,     \* shift table: identifier -> status
    clock       \* domain.Clock, in units of the deadlines

shiftVars == <<shifts, clock>>

ShiftTypeOK ==
    /\ DOMAIN shifts \subseteq ShiftID
    /\ shifts \in [DOMAIN shifts -> ShiftStatus]
    /\ clock \in Nat

ShiftInit ==
    /\ shifts = [s \in {} |-> "draft"]
    /\ clock = 0

\* The assignments of one station are saved one by one as drafts until the
\* first invalid one (no officer or route, or a departure in the past) aborts
\* the call; accepted is what was saved by then.
GenerateWeeklyShifts(station, accepted) ==
    /\ accepted # {}
    /\ accepted \cap DOMAIN shifts = {}
    /\ \A s \in accepted : /\ ShiftSpec[s].station = station
                           /\ ShiftSpec[s].departure >= clock
    /\ shifts' = [s \in DOMAIN shifts \cup accepted |->
                    IF s \in accepted THEN "draft" ELSE shifts[s]]
    /\ UNCHANGED clock

MoveShift(s, target) ==
    /\ s \in DOMAIN shifts
    /\ ShiftCanTransition(shifts[s], target)
    /\ shifts' = [shifts EXCEPT ![s] = target]
    /\ UNCHANGED clock

SubmitShift(s) == MoveShift(s, "submitted")

ApproveShift(s) == MoveShift(s, "approved")

CompleteShift(s) == MoveShift(s, "completed")

CancelShift(s) == MoveShift(s, "cancelled")

\* Variant with a bug: shifts are due one unit ahead of their departure.
DueShiftsEarly == {s \in DOMAIN shifts : /\ shifts[s] = "approved"
                                         /\ ShiftSpec[s].departure <= clock + 1}

\* Variant with a bug: the departure itself is not due.
DueShiftsLate == {s \in DOMAIN shifts : /\ shifts[s] = "approved"
                                        /\ ShiftSpec[s].departure < clock}

\* No route activates a shift: only the scheduler's sweep calls ActivateShift.
DueShifts == {s \in DOMAIN shifts : /\ shifts[s] = "approved"
                                    /\ ShiftSpec[s].departure <= clock}

ActivateDueShifts ==
    /\ DueShifts # {}
    /\ shifts' = [s \in DOMAIN shifts |->
                    IF s \in DueShifts THEN "active" ELSE shifts[s]]
    /\ UNCHANGED clock

Tick ==
    /\ clock < MaxTime
    /\ clock' = clock + 1
    /\ UNCHANGED shifts

ShiftNext ==
    \/ \E station \in Station, accepted \in SUBSET ShiftID :
            GenerateWeeklyShifts(station, accepted)
    \/ \E s \in ShiftID : SubmitShift(s)
    \/ \E s \in ShiftID : ApproveShift(s)
    \/ \E s \in ShiftID : CompleteShift(s)
    \/ \E s \in ShiftID : CancelShift(s)
    \/ ActivateDueShifts
    \/ Tick
=============================================================================
