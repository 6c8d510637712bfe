--------------------------- MODULE EquipmentRaces ---------------------------
(***************************************************************************)
(* The calls of app.EquipmentService, split at the operations of the       *)
(* store.  The HTTP server runs every request on a goroutine of its own    *)
(* and the store locks one method at a time, so that another call may run  *)
(* between any two store operations of a call, which goes on with the      *)
(* record it read before.                                                  *)
(*                                                                         *)
(* A behaviour starts from one of the setups, which says which shifts are  *)
(* approved, which items are registered and which calls may be in flight   *)
(* together: "any", as in the server; "items", when no two of them concern *)
(* the same item; "none", when a call runs alone, and then the calls       *)
(* implement the atomic steps of EquipmentService.                         *)
(***************************************************************************)
EXTENDS EquipmentService

CONSTANTS
    Worker,     \* goroutines that serve requests
    Setup       \* the situations a behaviour may start from

ASSUME SetupAssumption ==
    Setup \subseteq [overlap  : {"none", "items", "any"},
                     approved : SUBSET ShiftID,
                     items    : SUBSET EquipmentID,
                     start    : Nat]

\* The status a claim has before it is stored is none of the statuses.
ASSUME StatusAssumption == None \notin ClaimStatus

VARIABLES
    setup,      \* the situation this behaviour started from
    req,        \* what each worker is doing
    before      \* history: the tables when the call in flight began, None
                \* between calls and where calls may overlap

raceVars == <<shifts, clock, equipment, claims, weather, setup, req, before>>

outside == <<shiftVars, weather, setup>>

PC == {"rules", "place", "reread", "stamp",
       "borrow.save", "borrow.load", "borrow.equip",
       "return.save", "return.load", "return.equip", "return.promote",
       "cancel.save", "cancel.release", "cancel.promote"}

\* The record a call has read and goes on with, before or after it is stored.
Snapshot == [shift : ShiftID, item : EquipmentID,
             status : ClaimStatus \cup {None},
             submittedAt : Nat, approved : BOOLEAN]

Idle == [pc |-> "idle"]

Request == [pc : PC, id : ClaimID, claim : Snapshot,
            equip : Equipment \cup {None}, loss : BOOLEAN]

InFlight == {w \in Worker : req[w] # Idle}

RaceTypeOK ==
    /\ TypeOK
    /\ setup \in Setup
    /\ req \in [Worker -> Request \cup {Idle}]
    /\ setup.overlap # "none" \/ InFlight = {} => before = None

\* The chief has approved some shifts and cancelled the others, and the keeper
\* has registered the items.
RaceInit ==
    /\ setup \in Setup
    /\ shifts = [s \in ShiftID |->
                    IF s \in setup.approved THEN "approved" ELSE "cancelled"]
    /\ clock = setup.start
    /\ equipment = [e \in setup.items |-> Cleared("available")]
    /\ claims = [c \in {} |-> None]
    /\ weather \in [Station -> WeatherReport]
    /\ req = [w \in Worker |-> Idle]
    /\ before = None

Busy(e) == \E w \in InFlight : req[w].claim.item = e

MayStart(e) ==
    /\ setup.overlap = "none" => InFlight = {}
    /\ setup.overlap = "items" => ~Busy(e)

\* Worker w starts a call with the claim it read or built.
Begin(w, pc, id, claim, loss) ==
    /\ req[w] = Idle
    /\ MayStart(claim.item)
    /\ req' = [req EXCEPT ![w] = [pc |-> pc, id |-> id, claim |-> claim,
                                  equip |-> None, loss |-> loss]]
    /\ before' = IF setup.overlap = "none"
                 THEN [equipment |-> equipment, claims |-> claims]
                 ELSE None
    /\ UNCHANGED <<outside, storeVars>>

At(w, pc) == req[w].pc = pc

Goto(w, pc) ==
    /\ req' = [req EXCEPT ![w].pc = pc]
    /\ UNCHANGED <<before, outside>>

\* The call returns, with an answer or an error.
Finish(w) ==
    /\ req' = [req EXCEPT ![w] = Idle]
    /\ before' = None
    /\ UNCHANGED outside

SaveClaim(w, status) ==
    /\ claims' = Put(claims, req[w].id, [req[w].claim EXCEPT !.status = status])
    /\ UNCHANGED equipment

\* SaveEquipment of the item read before, rewritten by the call.
SaveEquipment(w, item) ==
    /\ equipment' = [equipment EXCEPT ![req[w].claim.item] = item]
    /\ UNCHANGED claims

\* GetEquipment; an item is never deleted, so the one of a stored claim is there.
LoadEquipment(w, pc) ==
    /\ req' = [req EXCEPT ![w].pc = pc,
                          ![w].equip = equipment[req[w].claim.item]]
    /\ UNCHANGED <<before, outside, storeVars>>

(***************************************************************************)
(* SubmitClaim and ApproveCrossStationClaim.                               *)
(***************************************************************************)
BeginSubmit(w, id, officer, s, e) ==
    /\ id \notin DOMAIN claims
    /\ \A v \in InFlight : req[v].id # id
    /\ s \in DOMAIN shifts
    /\ shifts[s] \in {"approved", "active"}
    /\ ShiftSpec[s].officer = officer
    /\ Begin(w, "rules", id, NewClaim(s, e), FALSE)

BeginApprove(w, id) ==
    /\ id \in DOMAIN claims
    /\ CrossStation(claims[id])
    /\ ~claims[id].approved
    /\ Begin(w, "rules", id, [claims[id] EXCEPT !.approved = TRUE], FALSE)

\* A claim that is being submitted has no status yet.
Submitting(w) == req[w].claim.status = None

RulesHold(claim, submitting) ==
    /\ claim.item \in DOMAIN equipment
    /\ claim.shift \in DOMAIN shifts
    /\ InLockWindow(claim.shift)
    /\ submitting => OutstandingBorrowed(OfficerOf(claim), TypeOf(claim)) = {}
    /\ WeatherPermits(claim.shift, claim.item)

\* The remaining checks read the clock, the claims and the weather; the answer
\* is acted on in a later step.
CheckRules(w) ==
    /\ At(w, "rules")
    /\ \/ /\ RulesHold(req[w].claim, Submitting(w))
          /\ req' = [req EXCEPT
                       ![w].pc = "place",
                       ![w].claim.submittedAt =
                            IF Submitting(w) THEN clock ELSE @]
          /\ UNCHANGED <<before, outside>>
       \/ /\ ~RulesHold(req[w].claim, Submitting(w))
          /\ Finish(w)
    /\ UNCHANGED storeVars

\* A winner goes on to stamp its claim with the time of the lock.
Place(w) ==
    /\ At(w, "place")
    /\ LET id    == req[w].id
           claim == req[w].claim
       IN  \/ /\ CrossStation(claim) /\ Submitting(w)
              /\ Enqueue(id, claim)
              /\ Finish(w)
           \/ /\ ~(CrossStation(claim) /\ Submitting(w))
              /\ TryLockEquipment(id, claim)
              /\ \/ claims'[id].status = "locked" /\ Goto(w, "reread")
                 \/ claims'[id].status = "queued" /\ Finish(w)

Reread(w) ==
    /\ At(w, "reread")
    /\ req' = [req EXCEPT ![w].pc = "stamp", ![w].claim = claims[req[w].id]]
    /\ UNCHANGED <<before, outside, storeVars>>

\* The whole record is written back for the sake of LockedAt.
Stamp(w) ==
    /\ At(w, "stamp")
    /\ SaveClaim(w, req[w].claim.status)
    /\ Finish(w)

(***************************************************************************)
(* BorrowEquipment.                                                        *)
(***************************************************************************)
BeginBorrow(w, id) ==
    /\ id \in DOMAIN claims
    /\ CanBorrow(claims[id])
    /\ Begin(w, "borrow.save", id, claims[id], FALSE)

\* Variant with a bug: the call ends before it updates the item.
BorrowSaveOnly(w) ==
    /\ At(w, "borrow.save")
    /\ SaveClaim(w, "borrowed")
    /\ Finish(w)

BorrowSave(w) ==
    /\ At(w, "borrow.save")
    /\ SaveClaim(w, "borrowed")
    /\ Goto(w, "borrow.load")

BorrowLoad(w) == At(w, "borrow.load") /\ LoadEquipment(w, "borrow.equip")

BorrowEquip(w) ==
    /\ At(w, "borrow.equip")
    /\ SaveEquipment(w, [req[w].equip EXCEPT
                            !.status = "borrowed",
                            !.heldBy = OfficerOf(req[w].claim)])
    /\ Finish(w)

(***************************************************************************)
(* ReturnEquipment.                                                        *)
(***************************************************************************)
BeginReturn(w, id, loss) ==
    /\ id \in DOMAIN claims
    /\ CanReturn(claims[id])
    /\ Begin(w, "return.save", id, claims[id], loss)

ReturnSave(w) ==
    /\ At(w, "return.save")
    /\ SaveClaim(w, "returned")
    /\ Goto(w, "return.load")

ReturnLoad(w) == At(w, "return.load") /\ LoadEquipment(w, "return.equip")

\* Variant with a bug: the return forgets the standby queue.
ReturnEquipLast(w) ==
    /\ At(w, "return.equip")
    /\ SaveEquipment(w, Cleared(IF req[w].loss THEN "maintenance"
                                ELSE "available"))
    /\ Finish(w)

ReturnEquip(w) ==
    /\ At(w, "return.equip")
    /\ SaveEquipment(w, Cleared(IF req[w].loss THEN "maintenance"
                                ELSE "available"))
    /\ Goto(w, "return.promote")

\* The promotion that ends a return or the cancellation of a locked claim.
Promote(w) ==
    /\ At(w, "return.promote") \/ At(w, "cancel.promote")
    /\ PromoteNextQueued(equipment, claims, req[w].claim.item)
    /\ Finish(w)

(***************************************************************************)
(* CancelClaim.                                                            *)
(***************************************************************************)
BeginCancel(w, id) ==
    /\ id \in DOMAIN claims
    /\ ~IsTerminal(claims[id].status)
    /\ Begin(w, "cancel.save", id, claims[id], FALSE)

CancelSave(w) ==
    /\ At(w, "cancel.save")
    /\ SaveClaim(w, "cancelled")
    /\ \/ req[w].claim.status = "locked" /\ Goto(w, "cancel.release")
       \/ req[w].claim.status # "locked" /\ Finish(w)

\* Variant with a bug: the cancellation forgets the standby queue.
CancelReleaseLast(w) ==
    /\ At(w, "cancel.release")
    /\ equipment' = Released(req[w].claim.item)
    /\ UNCHANGED claims
    /\ Finish(w)

CancelRelease(w) ==
    /\ At(w, "cancel.release")
    /\ equipment' = Released(req[w].claim.item)
    /\ UNCHANGED claims
    /\ Goto(w, "cancel.promote")

(***************************************************************************)
(* Specification.                                                          *)
(***************************************************************************)
Start(w) ==
    \/ \E id \in ClaimID, officer \in Officer, s \in ShiftID, e \in EquipmentID :
            BeginSubmit(w, id, officer, s, e)
    \/ \E id \in ClaimID : BeginApprove(w, id)
    \/ \E id \in ClaimID : BeginBorrow(w, id)
    \/ \E id \in ClaimID, loss \in BOOLEAN : BeginReturn(w, id, loss)
    \/ \E id \in ClaimID : BeginCancel(w, id)

Continue(w) ==
    \/ CheckRules(w)
    \/ Place(w)
    \/ Reread(w)
    \/ Stamp(w)
    \/ BorrowSave(w)
    \/ BorrowLoad(w)
    \/ BorrowEquip(w)
    \/ ReturnSave(w)
    \/ ReturnLoad(w)
    \/ ReturnEquip(w)
    \/ CancelSave(w)
    \/ CancelRelease(w)
    \/ Promote(w)

\* Shift operations and the clock, between the store operations of any call.
Elsewhere ==
    /\ setup.overlap = "none" => InFlight = {}
    /\ ShiftStep
    /\ UNCHANGED <<setup, req, before>>

RaceNext ==
    \/ \E w \in Worker : Start(w)
    \/ \E w \in Worker : Continue(w)
    \/ Elsewhere

RaceSpec == RaceInit /\ [][RaceNext]_raceVars

(***************************************************************************)
(* The calls that do not overlap implement the atomic service: a call      *)
(* takes effect when it returns.                                           *)
(***************************************************************************)
\* What is seen from outside while a call that runs alone is in flight.
Hidden == setup.overlap = "none" /\ InFlight # {}

Service ==
    INSTANCE EquipmentService WITH
        equipment <- IF Hidden THEN before.equipment ELSE equipment,
        claims    <- IF Hidden THEN before.claims ELSE claims

\* Every call that runs alone has the effect of one step of EquipmentService.
ImplementsService ==
    [][setup.overlap = "none" => Service!Next]_(Service!vars)

(***************************************************************************)
(* Safety of overlapping calls.                                            *)
(***************************************************************************)

\* The two tables agree on an item whenever no call that concerns it is in
\* flight, however the calls on other items interleave with those on it.
SettledCustody ==
    \A c \in DOMAIN claims :
        LET claim == claims[c]
            item  == equipment[claim.item]
        IN  IsActive(claim.status) /\ ~Busy(claim.item) =>
                /\ item.status = claim.status
                /\ item.lockedBy = claim.shift
                /\ claim.status = "borrowed" => item.heldBy = OfficerOf(claim)

\* No claim waits for a free item once the call that freed it has returned,
\* except a cross-station claim that lacks its approval.
SettledStandby ==
    \A c \in DOMAIN claims :
        /\ claims[c].status = "queued"
        /\ equipment[claims[c].item].status = "available"
        /\ ~Busy(claims[c].item)
        => CrossStation(claims[c]) /\ ~claims[c].approved

\* UniqueHolder of EquipmentService, between the store operations of the calls:
\* at most one claim holds an item.
OneHolder ==
    \A c, d \in DOMAIN claims :
        /\ claims[c].item = claims[d].item
        /\ IsActive(claims[c].status)
        /\ IsActive(claims[d].status)
        => c = d
=============================================================================
