-------------------------- MODULE EquipmentService --------------------------
(***************************************************************************)
(* app.EquipmentService over the store, together with the shifts it reads: *)
(* registration of items, claiming, dispatcher approval of cross-station   *)
(* claims, handing out, taking back and cancelling.                        *)
(*                                                                         *)
(* One step is one whole call, so this module is the service as it behaves *)
(* when no two of its calls overlap.  EquipmentRaces splits the calls at   *)
(* their store operations.                                                 *)
(*                                                                         *)
(* The timestamps LockedAt, BorrowedAt and ReturnedAt and the loss note    *)
(* are written and never read by the service; they are left out.           *)
(***************************************************************************)
EXTENDS ShiftService, MemoryStore

VARIABLE weather    \* the provider's current report: station -> snapshot

vars == <<shifts, clock, equipment, claims, weather>>

TypeOK ==
    /\ ShiftTypeOK
    /\ StoreTypeOK
    /\ weather \in [Station -> WeatherReport]

Init ==
    /\ ShiftInit
    /\ StoreInit
    /\ weather \in [Station -> WeatherReport]

(***************************************************************************)
(* Operations.                                                             *)
(***************************************************************************)
RegisterEquipment(e) ==
    /\ e \notin DOMAIN equipment
    /\ equipment' = Put(equipment, e, Cleared("available"))
    /\ UNCHANGED <<shiftVars, claims, weather>>

\* The two rules that submission and approval share.
InLockWindow(s) == ShiftSpec[s].departure - clock >= LockLeadTime

WeatherPermits(s, e) ==
    EquipmentSpec[e].type = "drone" =>
        ~DroneFlightProhibited(weather[ShiftSpec[s].station])

\* The claim SubmitClaim builds; it gets its status from where it is stored.
NewClaim(s, e) ==
    [shift |-> s, item |-> e, status |-> None,
     submittedAt |-> clock, approved |-> FALSE]

\* Variant with a bug: the status of the shift is not checked.
MayClaimAnyShift(officer, s, e) ==
    /\ s \in DOMAIN shifts
    /\ ShiftSpec[s].officer = officer
    /\ e \in DOMAIN equipment
    /\ InLockWindow(s)
    /\ OutstandingBorrowed(officer, EquipmentSpec[e].type) = {}
    /\ WeatherPermits(s, e)

\* Everything SubmitClaim checks before it writes.
MayClaim(officer, s, e) ==
    /\ s \in DOMAIN shifts
    /\ shifts[s] \in {"approved", "active"}
    /\ ShiftSpec[s].officer = officer
    /\ e \in DOMAIN equipment
    /\ InLockWindow(s)
    /\ OutstandingBorrowed(officer, EquipmentSpec[e].type) = {}
    /\ WeatherPermits(s, e)

SubmitClaim(id, officer, s, e) ==
    /\ id \notin DOMAIN claims
    /\ MayClaim(officer, s, e)
    /\ LET claim == NewClaim(s, e)
       IN  \/ CrossStation(claim) /\ Enqueue(id, claim)
           \/ ~CrossStation(claim) /\ TryLockEquipment(id, claim)
    /\ UNCHANGED <<shiftVars, weather>>

\* The claim's status is not looked at; the approval is stored with the claim
\* by TryLockEquipment and lost when a rule fails before.
ApproveCrossStationClaim(id) ==
    /\ id \in DOMAIN claims
    /\ LET claim == claims[id]
       IN  /\ CrossStation(claim)
           /\ ~claim.approved
           /\ claim.shift \in DOMAIN shifts
           /\ InLockWindow(claim.shift)
           /\ WeatherPermits(claim.shift, claim.item)
           /\ TryLockEquipment(id, [claim EXCEPT !.approved = TRUE])
    /\ UNCHANGED <<shiftVars, weather>>

\* Variant with a bug: the item is not updated with the claim.
BorrowClaimOnly(id) ==
    /\ id \in DOMAIN claims
    /\ CanBorrow(claims[id])
    /\ claims' = [claims EXCEPT ![id].status = "borrowed"]
    /\ UNCHANGED <<shiftVars, weather, equipment>>

BorrowEquipment(id) ==
    /\ id \in DOMAIN claims
    /\ CanBorrow(claims[id])
    /\ LET e == claims[id].item
       IN  equipment' = IF e \in DOMAIN equipment
                        THEN [equipment EXCEPT
                                ![e].status = "borrowed",
                                ![e].heldBy = OfficerOf(claims[id])]
                        ELSE equipment
    /\ claims' = [claims EXCEPT ![id].status = "borrowed"]
    /\ UNCHANGED <<shiftVars, weather>>

ReturnEquipment(id, loss) ==
    /\ id \in DOMAIN claims
    /\ CanReturn(claims[id])
    /\ LET e     == claims[id].item
           table == [claims EXCEPT ![id].status = "returned"]
           left  == Cleared(IF loss THEN "maintenance" ELSE "available")
       IN  IF e \in DOMAIN equipment
           THEN PromoteNextQueued([equipment EXCEPT ![e] = left], table, e)
           ELSE equipment' = equipment /\ claims' = table
    /\ UNCHANGED <<shiftVars, weather>>

\* Variant with a bug: the item is freed and the queue forgotten.
CancelWithoutPromotion(id) ==
    /\ id \in DOMAIN claims
    /\ ~IsTerminal(claims[id].status)
    /\ equipment' = IF claims[id].status = "locked"
                    THEN Released(claims[id].item)
                    ELSE equipment
    /\ claims' = [claims EXCEPT ![id].status = "cancelled"]
    /\ UNCHANGED <<shiftVars, weather>>

\* Variant with a bug: any cancelled claim frees its item.
CancelFreesAnyItem(id) ==
    /\ id \in DOMAIN claims
    /\ ~IsTerminal(claims[id].status)
    /\ PromoteNextQueued(Released(claims[id].item),
                         [claims EXCEPT ![id].status = "cancelled"],
                         claims[id].item)
    /\ UNCHANGED <<shiftVars, weather>>

\* Only a claim that held the lock frees its item.
CancelClaim(id) ==
    /\ id \in DOMAIN claims
    /\ ~IsTerminal(claims[id].status)
    /\ LET e     == claims[id].item
           table == [claims EXCEPT ![id].status = "cancelled"]
       IN  IF claims[id].status = "locked"
           THEN PromoteNextQueued(Released(e), table, e)
           ELSE claims' = table /\ UNCHANGED equipment
    /\ UNCHANGED <<shiftVars, weather>>

ChangeWeather(station, report) ==
    /\ weather[station] # report
    /\ weather' = [weather EXCEPT ![station] = report]
    /\ UNCHANGED <<shiftVars, storeVars>>

ShiftStep ==
    /\ ShiftNext
    /\ UNCHANGED <<storeVars, weather>>

Next ==
    \/ ShiftStep
    \/ \E e \in EquipmentID : RegisterEquipment(e)
    \/ \E id \in ClaimID, officer \in Officer, s \in ShiftID, e \in EquipmentID :
            SubmitClaim(id, officer, s, e)
    \/ \E id \in ClaimID : ApproveCrossStationClaim(id)
    \/ \E id \in ClaimID : BorrowEquipment(id)
    \/ \E id \in ClaimID, loss \in BOOLEAN : ReturnEquipment(id, loss)
    \/ \E id \in ClaimID : CancelClaim(id)
    \/ \E station \in Station, report \in WeatherReport :
            ChangeWeather(station, report)

Spec == Init /\ [][Next]_vars

(***************************************************************************)
(* Safety.                                                                 *)
(***************************************************************************)

\* At most one claim holds an item, locked or handed out, whatever sequence of
\* claims, preemptions, approvals, returns and cancellations led here (the
\* unique owner the allocation of SubmitClaim and TryLockEquipment promises).
UniqueHolder ==
    \A c, d \in DOMAIN claims :
        /\ claims[c].item = claims[d].item
        /\ IsActive(claims[c].status)
        /\ IsActive(claims[d].status)
        => c = d

\* The two tables agree on custody: the item of a locked claim is locked for
\* that claim's shift, the item of a borrowed claim is borrowed by its officer,
\* and an item that is free or in maintenance names neither.
CustodyAgrees ==
    /\ \A c \in DOMAIN claims :
         LET claim == claims[c]
             item  == equipment[claim.item]
         IN  /\ claim.item \in DOMAIN equipment
             /\ IsActive(claim.status) => /\ item.status = claim.status
                                         /\ item.lockedBy = claim.shift
             /\ claim.status = "borrowed" => item.heldBy = OfficerOf(claim)
    /\ \A e \in DOMAIN equipment :
         /\ equipment[e].heldBy # None => equipment[e].status = "borrowed"
         /\ equipment[e].lockedBy # None =>
                equipment[e].status \in {"locked", "borrowed"}

\* No claim waits for an item that is free, except a cross-station claim that
\* still lacks the dispatcher's approval: the standby queue is promoted by the
\* very call that frees the item.
StandbyServed ==
    \A c \in DOMAIN claims :
        /\ claims[c].status = "queued"
        /\ equipment[claims[c].item].status = "available"
        => CrossStation(claims[c]) /\ ~claims[c].approved

\* A claim exists only for a shift the chief has approved at some time, however
\* the shift moved on since.
ClaimsFollowApproval ==
    \A c \in DOMAIN claims :
        /\ claims[c].shift \in DOMAIN shifts
        /\ shifts[claims[c].shift] \notin {"draft", "submitted"}

(***************************************************************************)
(* What a step may never do.                                               *)
(***************************************************************************)

\* A claim loses its lock to the queue only to a claim that beats it and that
\* takes the item in the same step, or by being approved itself.
PreemptionStep ==
    \A c \in DOMAIN claims :
        claims[c].status = "locked" /\ claims'[c].status = "queued" =>
            \/ claims'[c].approved # claims[c].approved
            \/ \E d \in DOMAIN claims' :
                  /\ claims'[d].item = claims[c].item
                  /\ claims'[d].status = "locked"
                  /\ Beats(claims'[d], claims[c])

\* Every step keeps to the rule of PreemptionStep.
PreemptionEarned == [][PreemptionStep]_vars

\* A claim promoted off the queue, by a return or a cancellation, is one that
\* no claim waiting for the same item beats.
PromotionStep ==
    \A c \in DOMAIN claims :
        /\ claims[c].status = "queued"
        /\ claims'[c].status = "locked"
        /\ claims'[c].approved = claims[c].approved
        => \A d \in QueuedClaimsForEquipment(claims, claims[c].item) :
              ~Beats(claims[d], claims[c])

\* Every step keeps to the rule of PromotionStep.
PromotionIsBest == [][PromotionStep]_vars

\* An item that was handed out stays with its holder until the claim it was
\* handed out for is returned: nothing preempts, releases or re-locks it.
HandedOutStep ==
    \A e \in DOMAIN equipment :
        equipment[e].status = "borrowed" =>
            \/ equipment'[e] = equipment[e]
            \/ \E c \in DOMAIN claims : /\ claims[c].item = e
                                        /\ claims[c].status = "borrowed"
                                        /\ claims'[c].status = "returned"

\* Every step keeps to the rule of HandedOutStep.
HandedOutIsFirm == [][HandedOutStep]_vars

(***************************************************************************)
(* What the service implements.                                            *)
(***************************************************************************)
Holders ==
    [e \in EquipmentID |->
        {c \in DOMAIN claims : /\ claims[c].item = e
                               /\ IsActive(claims[c].status)}]

HandedOut == {e \in DOMAIN equipment : equipment[e].status = "borrowed"}

Desk == INSTANCE ItemDesk WITH
            Item <- EquipmentID, Claim <- ClaimID,
            holders <- Holders, out <- HandedOut

\* Seen from the desk, every call moves one item by one step of ItemDesk: a
\* holder is replaced by one claim or none, an item goes out with the claim that
\* holds it and comes back from that claim only, and an item whose claim is
\* cancelled or queued while it is out never comes back, whatever approvals,
\* cancellations and returns of other claims follow.
ImplementsDesk == Desk!DeskSpec

(***************************************************************************)
(* What the documentation says of the service and the code does not do.    *)
(***************************************************************************)

\* A cross-station claim never holds an item without the dispatcher's approval.
ApprovalPrecedesCustody ==
    \A c \in DOMAIN claims :
        IsActive(claims[c].status) /\ CrossStation(claims[c]) =>
            claims[c].approved

\* A returned or cancelled claim is final.
TerminalIsFinal ==
    [][\A c \in DOMAIN claims :
          IsTerminal(claims[c].status) =>
              claims'[c].status = claims[c].status]_vars

\* Every lock is taken at least LockLeadTime before the departure.
LockedInTime ==
    [][\A c \in DOMAIN claims' :
          /\ claims'[c].status = "locked"
          /\ c \in DOMAIN claims => claims[c].status # "locked"
          => InLockWindow(claims'[c].shift)]_vars
=============================================================================
