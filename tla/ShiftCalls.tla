----------------------------- MODULE ShiftCalls -----------------------------
(***************************************************************************)
(* The calls of app.ShiftService, split at the operations of the store: a  *)
(* request or the scheduler's sweep goes on with the shift it read before, *)
(* and writes the whole record back.  The stored record is the pair of     *)
(* shifts[s], its status, and of s \in signed, whether ApprovedBy is set.  *)
(***************************************************************************)
EXTENDS ShiftService

CONSTANT Worker     \* goroutines that serve requests

VARIABLES
    signed,     \* the shifts stored with the name of the chief who approved
    req,        \* what each worker is doing
    sweep,      \* what the scheduler's goroutine is doing
    overlapped  \* history: has a call begun while another was in flight?

callVars == <<signed, req, sweep, overlapped>>

ShiftRecord == [status : ShiftStatus, signed : BOOLEAN]

Idle == [pc |-> "idle"]

Request ==
    [pc : {"generate"}, todo : (SUBSET ShiftID) \ {{}}, now : Nat] \cup
    [pc : {"save"}, id : ShiftID, record : ShiftRecord, target : ShiftStatus]

SweepState ==
    [pc : {"next"}, todo : SUBSET ShiftID] \cup
    [pc : {"save"}, todo : SUBSET ShiftID, id : ShiftID, record : ShiftRecord]

CallTypeOK ==
    /\ ShiftTypeOK
    /\ signed \subseteq DOMAIN shifts
    /\ req \in [Worker -> {Idle} \cup Request]
    /\ sweep \in {Idle} \cup SweepState
    /\ overlapped \in BOOLEAN

CallInit ==
    /\ ShiftInit
    /\ signed = {}
    /\ req = [w \in Worker |-> Idle]
    /\ sweep = Idle
    /\ overlapped = FALSE

InFlight == {w \in Worker : req[w] # Idle}

Begin == overlapped' = (overlapped \/ InFlight # {} \/ sweep # Idle)

Stored(s) == [status |-> shifts[s], signed |-> s \in signed]

SaveShift(s, record) ==
    /\ shifts' = Put(shifts, s, record.status)
    /\ signed' = IF record.signed THEN signed \cup {s} ELSE signed \ {s}

Moved(record, target) ==
    [status |-> target, signed |-> record.signed \/ target = "approved"]

(***************************************************************************)
(* GenerateWeeklyShifts: the drafts are saved one by one, until the first  *)
(* assignment that is invalid, for want of an officer or a route or with a *)
(* departure before the start of the call.                                 *)
(***************************************************************************)
Promised == UNION {req[w].todo : w \in {v \in Worker : req[v].pc = "generate"}}

GenerateShifts(w, station, batch) ==
    /\ req[w] = Idle
    /\ batch # {}
    /\ batch \cap (DOMAIN shifts \cup Promised) = {}
    /\ \A s \in batch : ShiftSpec[s].station = station
    /\ req' = [req EXCEPT ![w] = [pc |-> "generate", todo |-> batch, now |-> clock]]
    /\ Begin
    /\ UNCHANGED <<shiftVars, signed, sweep>>

\* Variant with a bug: the call goes on after its last assignment.
SaveDraftEndlessly(w) ==
    /\ req[w].pc = "generate"
    /\ \E s \in req[w].todo :
          /\ SaveShift(s, [status |-> "draft", signed |-> FALSE])
          /\ req' = [req EXCEPT ![w].todo = @ \ {s}]
    /\ UNCHANGED <<clock, sweep, overlapped>>

SaveDraft(w) ==
    /\ req[w].pc = "generate"
    /\ \E s \in req[w].todo :
          LET rest == req[w].todo \ {s}
          IN  /\ ShiftSpec[s].departure >= req[w].now
              /\ SaveShift(s, [status |-> "draft", signed |-> FALSE])
              /\ req' = [req EXCEPT ![w] = IF rest = {} THEN Idle
                                           ELSE [@ EXCEPT !.todo = rest]]
    /\ UNCHANGED <<clock, sweep, overlapped>>

\* The next assignment is invalid: the drafts saved by then stay.
AbortGeneration(w) ==
    /\ req[w].pc = "generate"
    /\ req' = [req EXCEPT ![w] = Idle]
    /\ UNCHANGED <<shiftVars, signed, sweep, overlapped>>

(***************************************************************************)
(* SubmitShift, ApproveShift, CompleteShift and CancelShift.               *)
(***************************************************************************)
\* Variant with a bug: the edge is not checked.
ReadUnchecked(w, s, target) ==
    /\ req[w] = Idle
    /\ s \in DOMAIN shifts
    /\ req' = [req EXCEPT ![w] = [pc |-> "save", id |-> s,
                                  record |-> Stored(s), target |-> target]]
    /\ Begin
    /\ UNCHANGED <<shiftVars, signed, sweep>>

ReadShift(w, s, target) ==
    /\ req[w] = Idle
    /\ s \in DOMAIN shifts
    /\ ShiftCanTransition(shifts[s], target)
    /\ req' = [req EXCEPT ![w] = [pc |-> "save", id |-> s,
                                  record |-> Stored(s), target |-> target]]
    /\ Begin
    /\ UNCHANGED <<shiftVars, signed, sweep>>

\* No route activates a shift.
UpdateShift(w, s) ==
    \E target \in {"submitted", "approved", "completed", "cancelled"} :
        ReadShift(w, s, target)

SaveUpdate(w) ==
    /\ req[w].pc = "save"
    /\ SaveShift(req[w].id, Moved(req[w].record, req[w].target))
    /\ req' = [req EXCEPT ![w] = Idle]
    /\ UNCHANGED <<clock, sweep, overlapped>>

(***************************************************************************)
(* ActivateDueShifts: list the due shifts, then read and save each.        *)
(***************************************************************************)
ListDueShifts ==
    /\ sweep = Idle
    /\ sweep' = [pc |-> "next", todo |-> DueShifts]
    /\ Begin
    /\ UNCHANGED <<shiftVars, signed, req>>

\* Variant with a bug: the sweep trusts its list and does not check the edge.
ReadUncheckedDue ==
    /\ sweep.pc = "next"
    /\ \/ /\ sweep.todo = {}
          /\ sweep' = Idle
       \/ \E s \in sweep.todo :
            sweep' = [pc |-> "save", todo |-> sweep.todo \ {s}, id |-> s,
                      record |-> Stored(s)]
    /\ UNCHANGED <<shiftVars, signed, req, overlapped>>

\* A shift whose edge is gone is skipped.
ReadDueShift ==
    /\ sweep.pc = "next"
    /\ \/ /\ sweep.todo = {}
          /\ sweep' = Idle
       \/ \E s \in sweep.todo :
            LET rest == sweep.todo \ {s}
            IN  sweep' = IF ShiftCanTransition(shifts[s], "active")
                         THEN [pc |-> "save", todo |-> rest, id |-> s,
                               record |-> Stored(s)]
                         ELSE [pc |-> "next", todo |-> rest]
    /\ UNCHANGED <<shiftVars, signed, req, overlapped>>

ActivateShift ==
    /\ sweep.pc = "save"
    /\ SaveShift(sweep.id, Moved(sweep.record, "active"))
    /\ sweep' = [pc |-> "next", todo |-> sweep.todo]
    /\ UNCHANGED <<clock, req, overlapped>>

Start(w) ==
    \/ \E station \in Station, batch \in SUBSET ShiftID :
            GenerateShifts(w, station, batch)
    \/ \E s \in ShiftID : UpdateShift(w, s)

Continue(w) == SaveDraft(w) \/ AbortGeneration(w) \/ SaveUpdate(w)

SweepStep == ReadDueShift \/ ActivateShift

(***************************************************************************)
(* Properties.                                                             *)
(***************************************************************************)

\* No shift starts ahead of its departure, although the sweep saves what it read
\* and listed earlier and clients overwrite what it saved.
StartsInTime ==
    \A s \in DOMAIN shifts :
        shifts[s] \in {"active", "completed"} => ShiftSpec[s].departure <= clock

\* A shift that is approved, active or completed is stored with the name of the
\* chief who approved it, whatever older records are written over it.
ApprovalIsSigned ==
    \A s \in DOMAIN shifts :
        shifts[s] \in {"approved", "active", "completed"} => s \in signed

\* As long as no two calls have overlapped, a status changes along the edges of
\* the workflow only: a shift that was cancelled or completed stays so.
ShiftsFollowWorkflow ==
    [][~overlapped' =>
          \A s \in DOMAIN shifts :
              shifts'[s] = shifts[s] \/ ShiftCanTransition(shifts[s], shifts'[s])
      ]_<<shifts, overlapped>>
=============================================================================
