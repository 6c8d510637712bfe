------------------------- MODULE EquipmentStepProofs -------------------------
(***************************************************************************)
(* Theorems of EquipmentService about its steps: what one call may do to   *)
(* the claims and items that were there before.                            *)
(***************************************************************************)
EXTENDS EquipmentProofs

\* What a claim never changes, its approval included.
SameClaim(claim, other) ==
    /\ claim.shift = other.shift
    /\ claim.item = other.item
    /\ claim.submittedAt = other.submittedAt
    /\ claim.approved = other.approved

-----------------------------------------------------------------------------
(***************************************************************************)
(* What the operations of the store leave alone.                           *)
(***************************************************************************)

\* Beats reads the shift and the submission time of the claims only.
LEMMA BeatsOfSame ==
    ASSUME NEW claim, NEW same, NEW other, SameClaim(claim, same)
    PROVE  /\ Beats(claim, other) <=> Beats(same, other)
           /\ Beats(other, claim) <=> Beats(other, same)
BY DEF Beats, SameClaim

\* A lock taken changes one claim and one item.
LEMMA SeizeEffect ==
    ASSUME NEW table, NEW id \in ClaimID, NEW claim \in ClaimRequest,
           Custody(equipment, table), Seize(table, id, claim)
    PROVE  /\ DOMAIN claims' = DOMAIN table \cup {id}
           /\ SameClaim(claims'[id], claim)
           /\ claims'[id].status = "locked"
           /\ \A c \in DOMAIN table : c # id => claims'[c] = table[c]
           /\ \A e \in DOMAIN equipment :
                e # claim.item => equipment'[e] = equipment[e]
<1> DEFINE locked == [claim EXCEPT !.status = "locked"]
<1>1. SameClaim(locked, claim) /\ locked.status = "locked"
  BY DEF ClaimRequest, SameClaim
<1>2. /\ DOMAIN claims' = DOMAIN table \cup {id}
      /\ claims'[id] = locked
      /\ \A c \in DOMAIN table : c # id => claims'[c] = table[c]
  BY DEF Seize, Put
<1>3. \A e \in DOMAIN equipment :
         e # claim.item => equipment'[e] = equipment[e]
  BY DEF Seize, Custody, Types
<1> HIDE DEF locked
<1> QED
  BY <1>1, <1>2, <1>3

\* A claim that is queued changes nothing else.
LEMMA EnqueueEffect ==
    ASSUME NEW id \in ClaimID, NEW claim \in ClaimRequest, Enqueue(id, claim)
    PROVE  /\ DOMAIN claims' = DOMAIN claims \cup {id}
           /\ SameClaim(claims'[id], claim)
           /\ claims'[id].status = "queued"
           /\ \A c \in DOMAIN claims : c # id => claims'[c] = claims[c]
           /\ equipment' = equipment
<1> DEFINE queued == [claim EXCEPT !.status = "queued"]
<1>1. SameClaim(queued, claim) /\ queued.status = "queued"
  BY DEF ClaimRequest, SameClaim
<1>2. /\ DOMAIN claims' = DOMAIN claims \cup {id}
      /\ claims'[id] = queued
      /\ \A c \in DOMAIN claims : c # id => claims'[c] = claims[c]
      /\ equipment' = equipment
  BY DEF Enqueue, Put
<1> HIDE DEF queued
<1> QED
  BY <1>1, <1>2

\* The claim c is the holder that the claim placed as id pushes into the queue.
Preempted(c, id, claim) ==
    /\ claims[c].status = "locked"
    /\ claims[c].item = claim.item
    /\ claims'[c] = [claims[c] EXCEPT !.status = "queued"]
    /\ claims'[id].status = "locked"
    /\ Beats(claim, claims[c])

\* Placing a claim changes that claim, the holder it beats and, when it takes the
\* lock of an item that was not handed out, its item.
Placed(id, claim) ==
    /\ DOMAIN claims' = DOMAIN claims \cup {id}
    /\ SameClaim(claims'[id], claim)
    /\ claims'[id].status \in {"locked", "queued"}
    /\ \A c \in DOMAIN claims :
         c # id => claims'[c] = claims[c] \/ Preempted(c, id, claim)
    /\ \A e \in DOMAIN equipment :
         equipment[e].status = "borrowed" \/ e # claim.item =>
            equipment'[e] = equipment[e]
    /\ claims'[id].status = "queued" => equipment' = equipment

\* Each branch of TryLockEquipment places the claim.
LEMMA TryLockPlaces ==
    ASSUME NEW id \in ClaimID, NEW claim \in ClaimRequest,
           Custody(equipment, claims), TryLockEquipment(id, claim)
    PROVE  Placed(id, claim)
<1> DEFINE e == claim.item
<1>1. CASE Enqueue(id, claim)
  BY <1>1, EnqueueEffect DEF Placed
<1>2. CASE equipment[e].status # "borrowed" /\ Seize(claims, id, claim)
  BY <1>2, SeizeEffect DEF Placed
<1>3. ASSUME equipment[e].status = "locked", NEW h \in LockHolders(e),
             Beats(claim, claims[h]),
             Seize([claims EXCEPT ![h].status = "queued"], id, claim)
      PROVE  Placed(id, claim)
  <2> DEFINE rest == [claims EXCEPT ![h].status = "queued"]
  <2>1. /\ h \in DOMAIN claims
        /\ claims[h].item = e
        /\ claims[h].status = "locked"
        /\ claims[h] \in EquipmentClaim
    BY DEF LockHolders, ClaimsOn, Custody, Types
  <2>2. /\ DOMAIN rest = DOMAIN claims
        /\ rest[h] = [claims[h] EXCEPT !.status = "queued"]
        /\ \A c \in DOMAIN claims : c # h => rest[c] = claims[c]
    BY <2>1
  <2>3. Custody(equipment, rest)
    <3>1. "queued" \in ClaimStatus /\ ~IsActive("queued")
      BY DEF ClaimStatus, IsActive
    <3> QED
      BY <2>1, <3>1, DropKeepsCustody
  <2>4. Seize(rest, id, claim)
    BY <1>3
  <2> HIDE DEF rest
  <2>5. /\ DOMAIN claims' = DOMAIN claims \cup {id}
        /\ SameClaim(claims'[id], claim)
        /\ claims'[id].status = "locked"
        /\ \A c \in DOMAIN claims : c # id => claims'[c] = rest[c]
        /\ \A k \in DOMAIN equipment : k # e => equipment'[k] = equipment[k]
    <3>1. /\ DOMAIN claims' = DOMAIN rest \cup {id}
          /\ SameClaim(claims'[id], claim)
          /\ claims'[id].status = "locked"
          /\ \A c \in DOMAIN rest : c # id => claims'[c] = rest[c]
          /\ \A k \in DOMAIN equipment : k # e => equipment'[k] = equipment[k]
      BY <2>3, <2>4, SeizeEffect
    <3>2. DOMAIN rest = DOMAIN claims
      BY <2>2
    <3> QED
      BY <3>1, <3>2
  <2>6. h # id => Preempted(h, id, claim)
    BY <1>3, <2>1, <2>2, <2>5 DEF Preempted
  <2> QED
    BY <1>3, <2>2, <2>5, <2>6 DEF Placed
<1> QED
  BY <1>1, <1>2, <1>3 DEF TryLockEquipment

\* The claim c is the one a promotion of item e takes off the queue.
Promoted(table, c, e) ==
    /\ c \in QueuedClaimsForEquipment(table, e)
    /\ \A d \in QueuedClaimsForEquipment(table, e) : ~Beats(table[d], table[c])
    /\ claims'[c] = [table[c] EXCEPT !.status = "locked"]

\* A promotion changes the best of the queue and the item it waited for.
LEMMA PromoteEffect ==
    ASSUME NEW items, NEW table, NEW e \in DOMAIN items,
           Custody(items, table), PromoteNextQueued(items, table, e)
    PROVE  /\ DOMAIN claims' = DOMAIN table
           /\ \A c \in DOMAIN table :
                claims'[c] = table[c] \/ Promoted(table, c, e)
           /\ \A k \in DOMAIN items : k # e => equipment'[k] = items[k]
<1>1. CASE equipment' = items /\ claims' = table
  BY <1>1
<1>2. ASSUME NEW best \in QueuedClaimsForEquipment(table, e),
             \A d \in QueuedClaimsForEquipment(table, e) :
                ~Beats(table[d], table[best]),
             equipment' = [items EXCEPT ![e] = LockedFor(@, table[best].shift)],
             claims' = [table EXCEPT ![best].status = "locked"]
      PROVE  /\ DOMAIN claims' = DOMAIN table
             /\ \A c \in DOMAIN table :
                  claims'[c] = table[c] \/ Promoted(table, c, e)
             /\ \A k \in DOMAIN items : k # e => equipment'[k] = items[k]
  <2>1. best \in DOMAIN table
    BY DEF QueuedClaimsForEquipment, ClaimsOn
  <2>2. /\ DOMAIN claims' = DOMAIN table
        /\ claims'[best] = [table[best] EXCEPT !.status = "locked"]
        /\ \A c \in DOMAIN table : c # best => claims'[c] = table[c]
    BY <1>2, <2>1
  <2>3. Promoted(table, best, e)
    BY <1>2, <2>2 DEF Promoted
  <2>4. \A k \in DOMAIN items : k # e => equipment'[k] = items[k]
    BY <1>2
  <2> QED
    BY <2>2, <2>3, <2>4
<1> QED
  BY <1>1, <1>2 DEF PromoteNextQueued

\* A claim gives up its item for good, and the best of the queue may follow.
Freed(id, status) ==
    /\ DOMAIN claims' = DOMAIN claims
    /\ claims'[id] = [claims[id] EXCEPT !.status = status]
    /\ \A c \in DOMAIN claims :
         c # id => claims'[c] = claims[c]
                    \/ Promoted(claims, c, claims[id].item)
    /\ equipment'[claims[id].item].status # "borrowed"
    /\ \A e \in DOMAIN equipment :
         e # claims[id].item => equipment'[e] = equipment[e]

\* The end of a return, or of the cancellation of the holder of a lock: the
\* queue the promotion looks at is the one before the call.
LEMMA ClearAndPromoteFrees ==
    ASSUME Custody(equipment, claims),
           NEW id \in DOMAIN claims, IsActive(claims[id].status),
           NEW status \in {"returned", "cancelled"},
           NEW left \in {"available", "maintenance"},
           PromoteNextQueued(
                [equipment EXCEPT ![claims[id].item] = Cleared(left)],
                [claims EXCEPT ![id].status = status], claims[id].item)
    PROVE  Freed(id, status)
<1> DEFINE e     == claims[id].item
           table == [claims EXCEPT ![id].status = status]
           items == [equipment EXCEPT ![e] = Cleared(left)]
<1>1. e \in DOMAIN equipment /\ claims[id] \in EquipmentClaim
  BY DEF Custody, ClaimCustody, Types
<1>2. /\ DOMAIN table = DOMAIN claims
      /\ table[id] = [claims[id] EXCEPT !.status = status]
      /\ table[id].status = status
      /\ \A c \in DOMAIN claims : c # id => table[c] = claims[c]
      /\ DOMAIN items = DOMAIN equipment
      /\ items[e].status # "borrowed"
      /\ \A k \in DOMAIN equipment : k # e => items[k] = equipment[k]
  BY <1>1 DEF EquipmentClaim, Cleared
<1>3. Custody(items, table)
  <2>1. status \in ClaimStatus /\ ~IsActive(status)
    BY DEF ClaimStatus, IsActive
  <2>2. Custody(equipment, table) /\ Unheld(table, e)
    BY <1>1, <2>1, DropKeepsCustody
  <2> HIDE DEF table
  <2> QED
    BY <1>1, <2>2, ClearKeepsCustody
<1>4. PromoteNextQueued(items, table, e)
  OBVIOUS
<1> HIDE DEF table, items
<1>5. /\ DOMAIN claims' = DOMAIN table
      /\ \A c \in DOMAIN table : claims'[c] = table[c] \/ Promoted(table, c, e)
      /\ \A k \in DOMAIN items : k # e => equipment'[k] = items[k]
  BY <1>1, <1>2, <1>3, <1>4, PromoteEffect
<1>6. equipment'[e].status # "borrowed"
  <2>1. CASE equipment' = items
    BY <1>2, <2>1
  <2>2. ASSUME NEW best,
               equipment' = [items EXCEPT ![e] = LockedFor(@, table[best].shift)]
        PROVE  equipment'[e].status # "borrowed"
    <3>1. items[e] \in Equipment
      BY <1>1, <1>2, <1>3 DEF Custody, Types
    <3>2. LockedFor(items[e], table[best].shift).status = "locked"
      BY <3>1 DEF LockedFor, Equipment
    <3> QED
      BY <1>1, <1>2, <2>2, <3>2
  <2> QED
    BY <1>4, <2>1, <2>2 DEF PromoteNextQueued
<1>7. QueuedClaimsForEquipment(table, e) = QueuedClaimsForEquipment(claims, e)
  BY <1>2 DEF QueuedClaimsForEquipment, ClaimsOn, IsActive
<1>8. \A c \in QueuedClaimsForEquipment(claims, e) : table[c] = claims[c]
  BY <1>2 DEF QueuedClaimsForEquipment, ClaimsOn, IsActive
<1>9. \A c \in DOMAIN claims : Promoted(table, c, e) => Promoted(claims, c, e)
  BY <1>7, <1>8 DEF Promoted
<1>10. ~Promoted(table, id, e)
  BY <1>2 DEF Promoted, QueuedClaimsForEquipment, ClaimsOn
<1> QED
  BY <1>2, <1>5, <1>6, <1>9, <1>10 DEF Freed

-----------------------------------------------------------------------------
(***************************************************************************)
(* The kinds of steps of the service.                                      *)
(***************************************************************************)
Bystander ==
    /\ claims' = claims
    /\ \A e \in DOMAIN equipment : equipment'[e] = equipment[e]

\* A new claim of a live shift, or an old one that gets its approval.
Placing ==
    \E id \in ClaimID, claim \in ClaimRequest :
        /\ Placed(id, claim)
        /\ id \notin DOMAIN claims =>
              /\ claim.shift \in DOMAIN shifts
              /\ shifts[claim.shift] \in {"approved", "active"}
        /\ id \in DOMAIN claims =>
              /\ claim.shift = claims[id].shift
              /\ claim.item = claims[id].item
              /\ ~claims[id].approved
              /\ claim.approved

HandingOut ==
    \E id \in DOMAIN claims :
        /\ claims[id].status = "locked"
        /\ claims' = [claims EXCEPT ![id].status = "borrowed"]
        /\ equipment[claims[id].item].status = "locked"
        /\ \A e \in DOMAIN equipment :
              e # claims[id].item => equipment'[e] = equipment[e]

GivingUp ==
    \E id \in DOMAIN claims :
        \/ claims[id].status = "borrowed" /\ Freed(id, "returned")
        \/ /\ claims[id].status = "locked"
           /\ equipment[claims[id].item].status = "locked"
           /\ Freed(id, "cancelled")

Withdrawing ==
    /\ \E id \in DOMAIN claims :
          claims' = [claims EXCEPT ![id].status = "cancelled"]
    /\ equipment' = equipment

\* Every step is of one of the five kinds.
LEMMA StepKinds ==
    ASSUME IInv, [Next]_vars
    PROVE  Bystander \/ Placing \/ HandingOut \/ GivingUp \/ Withdrawing
<1>1. Custody(equipment, claims) /\ ShiftTypeOK
  BY IInvParts
<1>2. ASSUME equipment' = equipment, claims' = claims
      PROVE  Bystander
  BY <1>2 DEF Bystander
<1>3. ASSUME NEW e \in EquipmentID, RegisterEquipment(e)
      PROVE  Bystander
  BY <1>3 DEF RegisterEquipment, Put, Bystander
<1>4. ASSUME NEW id \in ClaimID, NEW officer \in Officer,
             NEW s \in ShiftID, NEW e \in EquipmentID,
             SubmitClaim(id, officer, s, e)
      PROVE  Placing
  <2>1. /\ NewClaim(s, e) \in ClaimRequest
        /\ NewClaim(s, e).shift = s
        /\ s \in DOMAIN shifts
        /\ shifts[s] \in {"approved", "active"}
        /\ id \notin DOMAIN claims
    BY <1>1, <1>4 DEF NewClaim, ClaimRequest, SubmitClaim, MayClaim, ShiftTypeOK
  <2>2. Placed(id, NewClaim(s, e))
    <3>1. CASE Enqueue(id, NewClaim(s, e))
      BY <2>1, <3>1, EnqueueEffect DEF Placed
    <3>2. CASE TryLockEquipment(id, NewClaim(s, e))
      BY <1>1, <2>1, <3>2, TryLockPlaces
    <3> QED
      BY <1>4, <3>1, <3>2 DEF SubmitClaim
  <2> QED
    BY <2>1, <2>2 DEF Placing
<1>5. ASSUME NEW id \in ClaimID, ApproveCrossStationClaim(id)
      PROVE  Placing
  <2> DEFINE claim == [claims[id] EXCEPT !.approved = TRUE]
  <2>1. /\ id \in DOMAIN claims
        /\ claims[id] \in EquipmentClaim
        /\ claims[id].item \in DOMAIN equipment
        /\ ~claims[id].approved
    BY <1>1, <1>5 DEF ApproveCrossStationClaim, Custody, Types, ClaimCustody
  <2>2. /\ claim \in ClaimRequest
        /\ claim.shift = claims[id].shift
        /\ claim.item = claims[id].item
        /\ claim.approved
    BY <2>1 DEF EquipmentClaim, ClaimRequest
  <2>3. TryLockEquipment(id, claim)
    BY <1>5 DEF ApproveCrossStationClaim
  <2> HIDE DEF claim
  <2>4. Placed(id, claim)
    BY <1>1, <2>2, <2>3, TryLockPlaces
  <2> QED
    BY <2>1, <2>2, <2>4 DEF Placing
<1>6. ASSUME NEW id \in ClaimID, BorrowEquipment(id)
      PROVE  HandingOut
  <2>1. /\ id \in DOMAIN claims
        /\ claims[id].status = "locked"
        /\ equipment[claims[id].item].status = "locked"
    BY <1>1, <1>6 DEF BorrowEquipment, CanBorrow, IsActive, Custody, ClaimCustody
  <2> QED
    BY <1>6, <2>1 DEF BorrowEquipment, HandingOut
<1>7. ASSUME NEW id \in ClaimID, NEW loss \in BOOLEAN, ReturnEquipment(id, loss)
      PROVE  GivingUp
  <2>1. /\ id \in DOMAIN claims
        /\ claims[id].status = "borrowed"
        /\ IsActive(claims[id].status)
        /\ claims[id].item \in DOMAIN equipment
    BY <1>1, <1>7
       DEF ReturnEquipment, CanReturn, IsActive, Custody, ClaimCustody
  <2>2. Freed(id, "returned")
    <3> DEFINE left == IF loss THEN "maintenance" ELSE "available"
    <3>1. left \in {"available", "maintenance"}
      OBVIOUS
    <3>2. PromoteNextQueued(
                [equipment EXCEPT ![claims[id].item] = Cleared(left)],
                [claims EXCEPT ![id].status = "returned"], claims[id].item)
      BY <1>7, <2>1 DEF ReturnEquipment
    <3> HIDE DEF left
    <3> QED
      BY <1>1, <2>1, <3>1, <3>2, ClearAndPromoteFrees
  <2> QED
    BY <2>1, <2>2 DEF GivingUp
<1>8. ASSUME NEW id \in ClaimID, CancelClaim(id)
      PROVE  GivingUp \/ Withdrawing
  <2>1. /\ id \in DOMAIN claims
        /\ claims[id].item \in DOMAIN equipment
    BY <1>1, <1>8 DEF CancelClaim, Custody, ClaimCustody
  <2>2. CASE claims[id].status = "locked"
    <3>1. /\ IsActive(claims[id].status)
          /\ equipment[claims[id].item].status = "locked"
      BY <1>1, <2>1, <2>2 DEF IsActive, Custody, ClaimCustody
    <3>2. PromoteNextQueued(
                [equipment EXCEPT ![claims[id].item] = Cleared("available")],
                [claims EXCEPT ![id].status = "cancelled"], claims[id].item)
      BY <1>8, <2>1, <2>2 DEF CancelClaim, Released
    <3>3. Freed(id, "cancelled")
      BY <1>1, <2>1, <3>1, <3>2, ClearAndPromoteFrees
    <3> QED
      BY <2>1, <2>2, <3>1, <3>3 DEF GivingUp
  <2>3. CASE claims[id].status # "locked"
    BY <1>8, <2>1, <2>3 DEF CancelClaim, Withdrawing
  <2> QED
    BY <2>2, <2>3
<1>9. CASE ShiftStep
  BY <1>2, <1>9 DEF ShiftStep, storeVars
<1>10. ASSUME NEW station \in Station, NEW report \in WeatherReport,
              ChangeWeather(station, report)
       PROVE  Bystander
  BY <1>2, <1>10 DEF ChangeWeather, storeVars
<1>11. CASE UNCHANGED vars
  BY <1>2, <1>11 DEF vars
<1> QED
  BY <1>3, <1>4, <1>5, <1>6, <1>7, <1>8, <1>9, <1>10, <1>11 DEF Next

-----------------------------------------------------------------------------
(***************************************************************************)
(* The theorems.                                                           *)
(***************************************************************************)

\* A demotion of the holder goes with the lock of the claim that beats it.
LEMMA StepPreempts ==
    ASSUME IInv, [Next]_vars
    PROVE  PreemptionStep
<1> SUFFICES ASSUME NEW c \in DOMAIN claims, claims[c].status = "locked",
                    claims'[c].status = "queued"
             PROVE  \/ claims'[c].approved # claims[c].approved
                    \/ \E d \in DOMAIN claims' :
                          /\ claims'[d].item = claims[c].item
                          /\ claims'[d].status = "locked"
                          /\ Beats(claims'[d], claims[c])
  BY DEF PreemptionStep
<1>1. claims[c] \in EquipmentClaim
  BY IInvParts DEF Custody, Types
<1>2. CASE Placing
  <2>1. PICK id \in ClaimID, claim \in ClaimRequest :
            /\ Placed(id, claim)
            /\ id \in DOMAIN claims => ~claims[id].approved /\ claim.approved
    BY <1>2 DEF Placing
  <2>2. /\ id \in DOMAIN claims'
        /\ SameClaim(claims'[id], claim)
    BY <2>1 DEF Placed
  <2>3. CASE c = id
    BY <2>1, <2>2, <2>3 DEF SameClaim
  <2>4. CASE c # id
    <3>1. Preempted(c, id, claim)
      BY <2>1, <2>4 DEF Placed
    <3>2. Beats(claims'[id], claims[c])
      BY <2>2, <3>1, BeatsOfSame DEF Preempted
    <3> QED
      BY <2>2, <3>1, <3>2 DEF Preempted, SameClaim
  <2> QED
    BY <2>3, <2>4
<1>3. CASE HandingOut
  BY <1>1, <1>3 DEF HandingOut, EquipmentClaim
<1>4. CASE GivingUp
  <2>1. PICK id \in DOMAIN claims, status \in {"returned", "cancelled"} :
            Freed(id, status)
    BY <1>4 DEF GivingUp
  <2> QED
    BY <1>1, <2>1
       DEF Freed, Promoted, QueuedClaimsForEquipment, ClaimsOn, EquipmentClaim
<1>5. CASE Withdrawing
  BY <1>1, <1>5 DEF Withdrawing, EquipmentClaim
<1>6. CASE Bystander
  BY <1>6 DEF Bystander
<1> QED
  BY <1>2, <1>3, <1>4, <1>5, <1>6, StepKinds

\* A lock is lost to the queue only to a claim that beats the holder.
THEOREM PreemptionIsEarned == Spec => PreemptionEarned
BY Invariance, StepPreempts, PTL DEF Spec, PreemptionEarned

\* Only the end of a return or cancellation takes a claim off the queue, and it
\* takes the best.
LEMMA StepPromotes ==
    ASSUME IInv, [Next]_vars
    PROVE  PromotionStep
<1> SUFFICES ASSUME NEW c \in DOMAIN claims, claims[c].status = "queued",
                    claims'[c].status = "locked",
                    claims'[c].approved = claims[c].approved,
                    NEW d \in QueuedClaimsForEquipment(claims, claims[c].item)
             PROVE  ~Beats(claims[d], claims[c])
  BY DEF PromotionStep
<1>1. claims[c] \in EquipmentClaim
  BY IInvParts DEF Custody, Types
<1>2. CASE Placing
  <2>1. PICK id \in ClaimID, claim \in ClaimRequest :
            /\ Placed(id, claim)
            /\ id \in DOMAIN claims => ~claims[id].approved /\ claim.approved
    BY <1>2 DEF Placing
  <2>2. c # id
    BY <2>1 DEF Placed, SameClaim
  <2> QED
    BY <2>1, <2>2 DEF Placed, Preempted
<1>3. CASE HandingOut
  BY <1>1, <1>3 DEF HandingOut, EquipmentClaim
<1>4. CASE GivingUp
  <2>1. PICK id \in DOMAIN claims, status \in {"returned", "cancelled"} :
            Freed(id, status) /\ claims[id].status # "queued"
    BY <1>4 DEF GivingUp
  <2>2. Promoted(claims, c, claims[id].item)
    BY <1>1, <2>1 DEF Freed
  <2> QED
    BY <2>2 DEF Promoted, QueuedClaimsForEquipment, ClaimsOn
<1>5. CASE Withdrawing
  BY <1>1, <1>5 DEF Withdrawing, EquipmentClaim
<1>6. CASE Bystander
  BY <1>6 DEF Bystander
<1> QED
  BY <1>2, <1>3, <1>4, <1>5, <1>6, StepKinds

\* A promoted claim is one that no claim in the queue of its item beats.
THEOREM PromotionTakesTheBest == Spec => PromotionIsBest
BY Invariance, StepPromotes, PTL DEF Spec, PromotionIsBest

\* An item that was handed out changes with the return of its claim only.
LEMMA StepLeavesHandedOut ==
    ASSUME IInv, [Next]_vars
    PROVE  HandedOutStep
<1> SUFFICES ASSUME NEW e \in DOMAIN equipment, equipment[e].status = "borrowed"
             PROVE  \/ equipment'[e] = equipment[e]
                    \/ \E c \in DOMAIN claims : /\ claims[c].item = e
                                                /\ claims[c].status = "borrowed"
                                                /\ claims'[c].status = "returned"
  BY DEF HandedOutStep
<1>1. CASE Placing
  BY <1>1 DEF Placing, Placed
<1>2. CASE HandingOut
  BY <1>2 DEF HandingOut
<1>3. CASE GivingUp
  <2>1. PICK id \in DOMAIN claims :
            \/ claims[id].status = "borrowed" /\ Freed(id, "returned")
            \/ /\ equipment[claims[id].item].status = "locked"
               /\ Freed(id, "cancelled")
    BY <1>3 DEF GivingUp
  <2>2. CASE claims[id].item = e
    <3>1. claims[id] \in EquipmentClaim
      BY IInvParts DEF Custody, Types
    <3> QED
      BY <2>1, <2>2, <3>1 DEF Freed, EquipmentClaim
  <2>3. CASE claims[id].item # e
    BY <2>1, <2>3 DEF Freed
  <2> QED
    BY <2>2, <2>3
<1>4. CASE Withdrawing
  BY <1>4 DEF Withdrawing
<1>5. CASE Bystander
  BY <1>5 DEF Bystander
<1> QED
  BY <1>1, <1>2, <1>3, <1>4, <1>5, StepKinds

\* Nothing preempts, releases or re-locks an item that was handed out.
THEOREM HandedOutStays == Spec => HandedOutIsFirm
BY Invariance, StepLeavesHandedOut, PTL DEF Spec, HandedOutIsFirm

\* The shift operations never take a shift back to where it was not approved.
LEMMA ApprovalLasts ==
    ASSUME IInv, [Next]_vars, NEW s \in DOMAIN shifts,
           shifts[s] \notin {"draft", "submitted"}
    PROVE  /\ s \in DOMAIN shifts'
           /\ shifts'[s] \notin {"draft", "submitted"}
<1> USE DEF shiftVars
<1>1. shifts \in [DOMAIN shifts -> ShiftStatus]
  BY IInvParts DEF ShiftTypeOK
<1>2. CASE shifts' = shifts
  BY <1>2
<1>3. ASSUME NEW t \in ShiftID, NEW target, target # "draft",
             target = "submitted" => t # s, MoveShift(t, target)
      PROVE  /\ s \in DOMAIN shifts'
             /\ shifts'[s] \notin {"draft", "submitted"}
  BY <1>1, <1>3 DEF MoveShift
<1>4. ASSUME NEW t \in ShiftID, SubmitShift(t)
      PROVE  t # s
  BY <1>4 DEF SubmitShift, MoveShift, ShiftCanTransition, ShiftEdges
<1>5. CASE ShiftNext
  <2>1. ASSUME NEW station \in Station, NEW accepted \in SUBSET ShiftID,
               GenerateWeeklyShifts(station, accepted)
        PROVE  s \in DOMAIN shifts' /\ shifts'[s] = shifts[s]
    BY <2>1 DEF GenerateWeeklyShifts
  <2>2. CASE ActivateDueShifts
    BY <2>2 DEF ActivateDueShifts
  <2>3. CASE Tick
    BY <1>2, <2>3 DEF Tick
  <2> QED
    BY <1>3, <1>4, <1>5, <2>1, <2>2, <2>3
       DEF ShiftNext, SubmitShift, ApproveShift, CompleteShift, CancelShift
<1> QED
  BY <1>2, <1>5
     DEF Next, ShiftStep, RegisterEquipment, SubmitClaim,
         ApproveCrossStationClaim, BorrowEquipment, ReturnEquipment,
         CancelClaim, ChangeWeather, vars

\* A claim keeps its shift, and a new one has a shift that is approved by then.
LEMMA StepFollowsApproval ==
    ASSUME IInv, ClaimsFollowApproval, [Next]_vars
    PROVE  ClaimsFollowApproval'
<1> DEFINE Live(s) == /\ s \in DOMAIN shifts
                      /\ shifts[s] \notin {"draft", "submitted"}
<1>1. \A c \in DOMAIN claims : claims[c] \in EquipmentClaim
  BY IInvParts DEF Custody, Types
<1>2. \A c \in DOMAIN claims' :
         \/ c \in DOMAIN claims /\ claims'[c].shift = claims[c].shift
         \/ Live(claims'[c].shift)
  <2>1. CASE Placing
    <3>1. PICK id \in ClaimID, claim \in ClaimRequest :
              /\ Placed(id, claim)
              /\ id \notin DOMAIN claims => Live(claim.shift)
              /\ id \in DOMAIN claims => claim.shift = claims[id].shift
      BY <2>1 DEF Placing
    <3>2. /\ DOMAIN claims' = DOMAIN claims \cup {id}
          /\ claims'[id].shift = claim.shift
      BY <3>1 DEF Placed, SameClaim
    <3>3. \A c \in DOMAIN claims :
             c # id => claims'[c].shift = claims[c].shift
      BY <1>1, <3>1 DEF Placed, Preempted, EquipmentClaim
    <3> HIDE DEF Live
    <3> QED
      BY <3>1, <3>2, <3>3
  <2>2. CASE HandingOut
    BY <1>1, <2>2 DEF HandingOut, EquipmentClaim
  <2>3. CASE GivingUp
    <3>1. PICK id \in DOMAIN claims, status \in {"returned", "cancelled"} :
              Freed(id, status)
      BY <2>3 DEF GivingUp
    <3>2. /\ DOMAIN claims' = DOMAIN claims
          /\ claims'[id].shift = claims[id].shift
      BY <1>1, <3>1 DEF Freed, EquipmentClaim
    <3>3. \A c \in DOMAIN claims :
             c # id => claims'[c].shift = claims[c].shift
      BY <1>1, <3>1 DEF Freed, Promoted, EquipmentClaim
    <3> QED
      BY <3>2, <3>3
  <2>4. CASE Withdrawing
    BY <1>1, <2>4 DEF Withdrawing, EquipmentClaim
  <2>5. CASE Bystander
    BY <2>5 DEF Bystander
  <2> QED
    BY <2>1, <2>2, <2>3, <2>4, <2>5, StepKinds
<1>3. \A c \in DOMAIN claims' : Live(claims'[c].shift)
  BY <1>2 DEF ClaimsFollowApproval
<1> QED
  BY <1>3, ApprovalLasts DEF ClaimsFollowApproval

\* A claim exists only for a shift that was approved at some time.
THEOREM ClaimsAreOfApproved == Spec => []ClaimsFollowApproval
<1>1. Init => ClaimsFollowApproval
  BY DEF Init, StoreInit, ClaimsFollowApproval
<1> QED
  BY <1>1, Invariance, StepFollowsApproval, PTL DEF Spec
=============================================================================
