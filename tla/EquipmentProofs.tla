--------------------------- MODULE EquipmentProofs ---------------------------
(***************************************************************************)
(* Theorems of EquipmentService, for every value of its constants.         *)
(*                                                                         *)
(* The custody invariant is stated over a pair of tables, so that a lemma  *)
(* about an operation of the store can be used on the intermediate tables  *)
(* a call of the service passes on.                                        *)
(***************************************************************************)
EXTENDS EquipmentService, TLAPS

Types(items, table) ==
    /\ DOMAIN items \subseteq EquipmentID
    /\ items \in [DOMAIN items -> Equipment]
    /\ DOMAIN table \subseteq ClaimID
    /\ table \in [DOMAIN table -> EquipmentClaim]

Unique(table) ==
    \A c, d \in DOMAIN table :
        /\ table[c].item = table[d].item
        /\ IsActive(table[c].status)
        /\ IsActive(table[d].status)
        => c = d

ClaimCustody(items, table) ==
    \A c \in DOMAIN table :
        LET claim == table[c]
            item  == items[claim.item]
        IN  /\ claim.item \in DOMAIN items
            /\ IsActive(claim.status) => /\ item.status = claim.status
                                        /\ item.lockedBy = claim.shift
            /\ claim.status = "borrowed" => item.heldBy = OfficerOf(claim)

ItemCustody(items) ==
    \A e \in DOMAIN items :
        /\ items[e].heldBy # None => items[e].status = "borrowed"
        /\ items[e].lockedBy # None => items[e].status \in {"locked", "borrowed"}

\* The inductive invariant of the two tables.
Custody(items, table) ==
    /\ Types(items, table)
    /\ Unique(table)
    /\ ClaimCustody(items, table)
    /\ ItemCustody(items)

\* No claim locks or has borrowed item e.
Unheld(table, e) ==
    \A d \in DOMAIN table : table[d].item = e => ~IsActive(table[d].status)

\* What the services hand to TryLockEquipment: a claim that may lack a status.
ClaimRequest ==
    [shift : ShiftID, item : DOMAIN equipment, status : ClaimStatus \cup {None},
     submittedAt : Nat, approved : BOOLEAN]

-----------------------------------------------------------------------------
(***************************************************************************)
(* The operations of the store.                                            *)
(***************************************************************************)

\* A claim takes the lock of an item no claim holds: the lock of Seize over a
\* table that was rid of the item's holder.
LEMMA SeizeKeepsCustody ==
    ASSUME NEW table, NEW id \in ClaimID,
           NEW claim \in ClaimRequest,
           Custody(equipment, table),
           Unheld(table, claim.item),
           equipment[claim.item].heldBy = None,
           Seize(table, id, claim)
    PROVE  Custody(equipment', claims')
<1> DEFINE locked == [claim EXCEPT !.status = "locked"]
<1>1. /\ locked \in EquipmentClaim
      /\ locked.status = "locked"
      /\ locked.item = claim.item
      /\ locked.shift = claim.shift
  BY DEF ClaimRequest, EquipmentClaim, ClaimStatus, Custody, Types
<1>2. claims' = Put(table, id, locked)
  BY DEF Seize
<1>3. claims' = [k \in DOMAIN table \cup {id} |->
                    IF k = id THEN locked ELSE table[k]]
  BY <1>2 DEF Put
<1>4. /\ DOMAIN claims' = DOMAIN table \cup {id}
      /\ claims'[id] = locked
      /\ \A k \in DOMAIN table : k # id => claims'[k] = table[k]
  BY <1>3
<1>5. /\ DOMAIN equipment' = DOMAIN equipment
      /\ equipment'[claim.item] \in Equipment
      /\ equipment'[claim.item].status = "locked"
      /\ equipment'[claim.item].lockedBy = claim.shift
      /\ equipment'[claim.item].heldBy = None
      /\ \A e \in DOMAIN equipment :
            e # claim.item => equipment'[e] = equipment[e]
  <2>1. equipment[claim.item] \in Equipment
    BY DEF Custody, Types, ClaimRequest
  <2>2. LET locked_item == LockedFor(equipment[claim.item], claim.shift)
        IN  /\ locked_item \in Equipment
            /\ locked_item.status = "locked"
            /\ locked_item.lockedBy = claim.shift
            /\ locked_item.heldBy = None
    BY <2>1 DEF LockedFor, Equipment, EquipmentStatus, ClaimRequest
  <2> QED
    BY <2>2 DEF Seize, Custody, Types, ClaimRequest
<1>6. Types(equipment', claims')
  <2>1. equipment' \in [DOMAIN equipment -> Equipment]
    BY <1>5 DEF Seize, Custody, Types, Equipment, EquipmentStatus
  <2>2. claims' \in [DOMAIN claims' -> EquipmentClaim]
    BY <1>1, <1>3 DEF Custody, Types
  <2> QED
    BY <2>1, <2>2, <1>4, <1>5 DEF Custody, Types
<1>7. Unique(claims')
  <2> SUFFICES ASSUME NEW c \in DOMAIN claims', NEW d \in DOMAIN claims', c # d,
                      claims'[c].item = claims'[d].item,
                      IsActive(claims'[c].status), IsActive(claims'[d].status)
               PROVE  FALSE
    BY DEF Unique
  <2>1. CASE c = id
    <3>1. d \in DOMAIN table /\ claims'[d] = table[d] /\ table[d].item = claim.item
      BY <1>1, <1>4, <2>1
    <3> QED
      BY <3>1 DEF Unheld
  <2>2. CASE d = id
    <3>1. c \in DOMAIN table /\ claims'[c] = table[c] /\ table[c].item = claim.item
      BY <1>1, <1>4, <2>2
    <3> QED
      BY <3>1 DEF Unheld
  <2>3. CASE c # id /\ d # id
    BY <1>4, <2>3 DEF Unique, Custody
  <2> QED
    BY <2>1, <2>2, <2>3
<1>8. ClaimCustody(equipment', claims')
  BY <1>1, <1>4, <1>5 DEF ClaimCustody, Custody, IsActive, Unheld, ClaimRequest
<1>9. ItemCustody(equipment')
  BY <1>5 DEF ItemCustody, Custody
<1> QED
  BY <1>6, <1>7, <1>8, <1>9 DEF Custody

\* Queueing a claim, new or stored before, takes no custody.
LEMMA EnqueueKeepsCustody ==
    ASSUME NEW id \in ClaimID, NEW claim \in ClaimRequest,
           Custody(equipment, claims),
           Enqueue(id, claim)
    PROVE  Custody(equipment', claims')
<1> DEFINE queued == [claim EXCEPT !.status = "queued"]
<1>1. /\ queued \in EquipmentClaim
      /\ queued.status = "queued"
      /\ queued.item \in DOMAIN equipment
  BY DEF ClaimRequest, EquipmentClaim, ClaimStatus, Custody, Types
<1>2. claims' = [k \in DOMAIN claims \cup {id} |->
                    IF k = id THEN queued ELSE claims[k]]
  BY DEF Enqueue, Put
<1>3. /\ DOMAIN claims' = DOMAIN claims \cup {id}
      /\ claims'[id] = queued
      /\ \A k \in DOMAIN claims : k # id => claims'[k] = claims[k]
  BY <1>2
<1>4. equipment' = equipment
  BY DEF Enqueue
<1>5. Types(equipment', claims')
  <2>1. claims' \in [DOMAIN claims' -> EquipmentClaim]
    BY <1>1, <1>2 DEF Custody, Types
  <2> QED
    BY <2>1, <1>3, <1>4 DEF Custody, Types
<1>6. Unique(claims')
  BY <1>1, <1>3 DEF Unique, Custody, IsActive
<1>7. ClaimCustody(equipment', claims')
  BY <1>1, <1>3, <1>4 DEF ClaimCustody, Custody, IsActive
<1> QED
  BY <1>4, <1>5, <1>6, <1>7 DEF Custody

\* A claim that gives up what it holds, for the queue or for good.
LEMMA DropKeepsCustody ==
    ASSUME NEW items, NEW table, NEW c \in DOMAIN table,
           NEW status \in ClaimStatus, ~IsActive(status),
           Custody(items, table)
    PROVE  /\ Custody(items, [table EXCEPT ![c].status = status])
           /\ IsActive(table[c].status) =>
                Unheld([table EXCEPT ![c].status = status], table[c].item)
<1> DEFINE after == [table EXCEPT ![c].status = status]
<1>1. /\ DOMAIN after = DOMAIN table
      /\ after[c] \in EquipmentClaim
      /\ after[c].status = status
      /\ after[c].item = table[c].item
      /\ \A k \in DOMAIN table : k # c => after[k] = table[k]
  BY DEF Custody, Types, EquipmentClaim
<1>2. Types(items, after)
  BY <1>1 DEF Custody, Types
<1>3. Unique(after)
  BY <1>1 DEF Unique, Custody
<1>4. ClaimCustody(items, after)
  BY <1>1 DEF ClaimCustody, Custody, IsActive
<1>5. IsActive(table[c].status) => Unheld(after, table[c].item)
  BY <1>1 DEF Unheld, Unique, Custody
<1> QED
  BY <1>2, <1>3, <1>4, <1>5 DEF Custody

\* An item no claim holds may be cleared, to the depot or to maintenance.
LEMMA ClearKeepsCustody ==
    ASSUME NEW items, NEW table, NEW e \in DOMAIN items,
           NEW status \in {"available", "maintenance"},
           Custody(items, table), Unheld(table, e)
    PROVE  Custody([items EXCEPT ![e] = Cleared(status)], table)
<1> DEFINE after == [items EXCEPT ![e] = Cleared(status)]
<1>1. /\ DOMAIN after = DOMAIN items
      /\ after[e] = Cleared(status)
      /\ \A k \in DOMAIN items : k # e => after[k] = items[k]
  BY DEF Custody, Types
<1>2. Cleared(status) \in Equipment
  BY DEF Cleared, Equipment, EquipmentStatus
<1>3. Types(after, table)
  BY <1>1, <1>2 DEF Custody, Types
<1>4. ClaimCustody(after, table)
  BY <1>1 DEF ClaimCustody, Custody, Unheld, IsActive
<1>5. ItemCustody(after)
  BY <1>1 DEF ItemCustody, Custody, Cleared
<1> QED
  BY <1>3, <1>4, <1>5 DEF Custody

\* An item nobody has been handed names no holder, and one that is neither
\* locked nor borrowed is held by no claim.
LEMMA FreeItemUnheld ==
    ASSUME NEW items, NEW table, NEW e \in DOMAIN items, Custody(items, table)
    PROVE  /\ items[e].status # "borrowed" => items[e].heldBy = None
           /\ items[e].status \in {"available", "maintenance"} => Unheld(table, e)
<1>1. items[e].status # "borrowed" => items[e].heldBy = None
  BY DEF Custody, ItemCustody
<1>2. ASSUME items[e].status \in {"available", "maintenance"}
      PROVE  Unheld(table, e)
  BY <1>2 DEF Custody, ClaimCustody, Unheld, IsActive
<1> QED
  BY <1>1, <1>2

\* The allocation of store.TryLockEquipment, preemption included.
LEMMA TryLockKeepsCustody ==
    ASSUME NEW id \in ClaimID, NEW claim \in ClaimRequest,
           Custody(equipment, claims),
           TryLockEquipment(id, claim)
    PROVE  Custody(equipment', claims')
<1> DEFINE e == claim.item
<1>1. e \in DOMAIN equipment
  BY DEF TryLockEquipment
<1>2. CASE /\ \/ equipment[e].status \in {"available", "maintenance"}
              \/ equipment[e].status = "locked" /\ LockHolders(e) = {}
           /\ Seize(claims, id, claim)
  <2>1. Unheld(claims, e)
    <3>1. CASE equipment[e].status \in {"available", "maintenance"}
      BY <3>1, <1>1, FreeItemUnheld
    <3>2. CASE equipment[e].status = "locked" /\ LockHolders(e) = {}
      BY <3>2 DEF Unheld, LockHolders, ClaimsOn, Custody, ClaimCustody, IsActive
    <3> QED
      BY <1>2, <3>1, <3>2
  <2>2. equipment[e].heldBy = None
    BY <1>1, <1>2, FreeItemUnheld
  <2> QED
    BY <1>2, <2>1, <2>2, SeizeKeepsCustody
<1>3. CASE /\ equipment[e].status = "locked"
           /\ \E h \in LockHolders(e) :
                 \/ /\ Beats(claim, claims[h])
                    /\ Seize([claims EXCEPT ![h].status = "queued"], id, claim)
                 \/ /\ ~Beats(claim, claims[h])
                    /\ Enqueue(id, claim)
  <2>1. PICK h \in LockHolders(e) :
                 \/ Seize([claims EXCEPT ![h].status = "queued"], id, claim)
                 \/ Enqueue(id, claim)
    BY <1>3
  <2>2. /\ h \in DOMAIN claims
        /\ claims[h].item = e
        /\ IsActive(claims[h].status)
    BY DEF LockHolders, ClaimsOn, IsActive
  <2>3. CASE Seize([claims EXCEPT ![h].status = "queued"], id, claim)
    <3> DEFINE rest == [claims EXCEPT ![h].status = "queued"]
    <3>1. Custody(equipment, rest) /\ Unheld(rest, e)
      <4>1. "queued" \in ClaimStatus /\ ~IsActive("queued")
        BY DEF ClaimStatus, IsActive
      <4> QED
        BY <2>2, <4>1, DropKeepsCustody
    <3>2. equipment[e].heldBy = None
      BY <1>1, <1>3, FreeItemUnheld
    <3> HIDE DEF rest
    <3>3. Seize(rest, id, claim)
      BY <2>3 DEF rest
    <3> QED
      BY <3>1, <3>2, <3>3, SeizeKeepsCustody
  <2>4. CASE Enqueue(id, claim)
    BY <2>4, EnqueueKeepsCustody
  <2> QED
    BY <2>1, <2>3, <2>4
<1>4. CASE equipment[e].status = "borrowed" /\ Enqueue(id, claim)
  BY <1>4, EnqueueKeepsCustody
<1> QED
  BY <1>2, <1>3, <1>4 DEF TryLockEquipment

\* The promotion of store.PromoteNextQueued, from the tables a call passes on.
LEMMA PromoteKeepsCustody ==
    ASSUME NEW items, NEW table, NEW e,
           Custody(items, table),
           PromoteNextQueued(items, table, e)
    PROVE  Custody(equipment', claims')
<1>1. CASE equipment' = items /\ claims' = table
  BY <1>1
<1>2. ASSUME e \in DOMAIN items, items[e].status = "available",
             NEW best \in QueuedClaimsForEquipment(table, e),
             equipment' = [items EXCEPT ![e] = LockedFor(@, table[best].shift)],
             claims' = [table EXCEPT ![best].status = "locked"]
      PROVE  Custody(equipment', claims')
  <2>1. /\ best \in DOMAIN table
        /\ table[best] \in EquipmentClaim
        /\ table[best].item = e
        /\ table[best].status = "queued"
    BY DEF QueuedClaimsForEquipment, ClaimsOn, Custody, Types
  <2>2. Unheld(table, e) /\ items[e].heldBy = None
    BY <1>2, FreeItemUnheld
  <2>3. /\ DOMAIN equipment' = DOMAIN items
        /\ equipment'[e] \in Equipment
        /\ equipment'[e].status = "locked"
        /\ equipment'[e].lockedBy = table[best].shift
        /\ equipment'[e].heldBy = None
        /\ \A k \in DOMAIN items : k # e => equipment'[k] = items[k]
    <3>1. items[e] \in Equipment /\ table[best].shift \in ShiftID
      BY <1>2, <2>1 DEF Custody, Types, EquipmentClaim
    <3>2. LET item == LockedFor(items[e], table[best].shift)
          IN  /\ item \in Equipment
              /\ item.status = "locked"
              /\ item.lockedBy = table[best].shift
              /\ item.heldBy = None
      BY <2>2, <3>1 DEF LockedFor, Equipment, EquipmentStatus
    <3> QED
      BY <1>2, <3>2 DEF Custody, Types
  <2>4. /\ DOMAIN claims' = DOMAIN table
        /\ claims'[best] \in EquipmentClaim
        /\ claims'[best].status = "locked"
        /\ claims'[best].item = e
        /\ claims'[best].shift = table[best].shift
        /\ \A k \in DOMAIN table : k # best => claims'[k] = table[k]
    BY <1>2, <2>1 DEF Custody, Types, EquipmentClaim, ClaimStatus
  <2>5. Types(equipment', claims')
    BY <1>2, <2>3, <2>4 DEF Custody, Types
  <2>6. Unique(claims')
    BY <2>1, <2>2, <2>4 DEF Custody, Unique, Unheld
  <2>7. ClaimCustody(equipment', claims')
    <3> SUFFICES ASSUME NEW c \in DOMAIN table
                 PROVE  /\ claims'[c].item \in DOMAIN items
                        /\ IsActive(claims'[c].status) =>
                             LET item == equipment'[claims'[c].item]
                             IN  /\ item.status = claims'[c].status
                                 /\ item.lockedBy = claims'[c].shift
                                 /\ claims'[c].status = "borrowed" =>
                                      item.heldBy = OfficerOf(claims'[c])
      BY <2>3, <2>4 DEF ClaimCustody, IsActive
    <3>1. CASE c = best
      BY <3>1, <1>2, <2>3, <2>4
    <3>2. CASE c # best /\ table[c].item = e
      BY <3>2, <1>2, <2>2, <2>4 DEF Unheld
    <3>3. CASE c # best /\ table[c].item # e
      BY <3>3, <2>3, <2>4 DEF Custody, ClaimCustody
    <3> QED
      BY <3>1, <3>2, <3>3
  <2>8. ItemCustody(equipment')
    BY <2>3 DEF Custody, ItemCustody
  <2> QED
    BY <2>5, <2>6, <2>7, <2>8 DEF Custody
<1> QED
  BY <1>1, <1>2 DEF PromoteNextQueued

-----------------------------------------------------------------------------
(***************************************************************************)
(* The calls of the service.                                               *)
(***************************************************************************)
\* A new item is in the depot and nobody holds it: no claim names it yet.
LEMMA RegisterKeepsCustody ==
    ASSUME Custody(equipment, claims),
           NEW e \in EquipmentID, RegisterEquipment(e)
    PROVE  Custody(equipment', claims')
<1>1. /\ DOMAIN equipment' = DOMAIN equipment \cup {e}
      /\ e \notin DOMAIN equipment
      /\ equipment'[e] = Cleared("available")
      /\ \A k \in DOMAIN equipment : equipment'[k] = equipment[k]
      /\ claims' = claims
  BY DEF RegisterEquipment, Put
<1>2. equipment' = [k \in DOMAIN equipment \cup {e} |->
                      IF k = e THEN Cleared("available") ELSE equipment[k]]
  BY DEF RegisterEquipment, Put
<1>3. Cleared("available") \in Equipment
  BY DEF Cleared, Equipment, EquipmentStatus
<1>4. Types(equipment', claims')
  BY <1>1, <1>2, <1>3 DEF Custody, Types
<1>5. Unique(claims')
  BY <1>1 DEF Custody
<1>6. ClaimCustody(equipment', claims')
  BY <1>1 DEF Custody, ClaimCustody
<1>7. ItemCustody(equipment')
  BY <1>1 DEF Custody, ItemCustody, Cleared
<1> QED
  BY <1>4, <1>5, <1>6, <1>7 DEF Custody

\* A submission takes a lock, preempts or queues; a cross-station one queues.
LEMMA SubmitKeepsCustody ==
    ASSUME ShiftTypeOK, Custody(equipment, claims),
           NEW id \in ClaimID, NEW officer \in Officer,
           NEW s \in ShiftID, NEW e \in EquipmentID,
           SubmitClaim(id, officer, s, e)
    PROVE  Custody(equipment', claims')
<1>1. NewClaim(s, e) \in ClaimRequest
  BY DEF NewClaim, ClaimRequest, SubmitClaim, MayClaim, ShiftTypeOK
<1>2. \/ Enqueue(id, NewClaim(s, e))
      \/ TryLockEquipment(id, NewClaim(s, e))
  BY DEF SubmitClaim
<1> QED
  BY <1>1, <1>2, EnqueueKeepsCustody, TryLockKeepsCustody

\* An approval places the claim anew, whatever its status was.
LEMMA ApproveKeepsCustody ==
    ASSUME Custody(equipment, claims),
           NEW id \in ClaimID, ApproveCrossStationClaim(id)
    PROVE  Custody(equipment', claims')
<1> DEFINE claim == [claims[id] EXCEPT !.approved = TRUE]
<1>1. claims[id] \in EquipmentClaim /\ claims[id].item \in DOMAIN equipment
  BY DEF ApproveCrossStationClaim, Custody, Types, ClaimCustody
<1>2. claim \in ClaimRequest
  BY <1>1 DEF EquipmentClaim, ClaimRequest
<1>3. TryLockEquipment(id, claim)
  BY DEF ApproveCrossStationClaim
<1> QED
  BY <1>2, <1>3, TryLockKeepsCustody

\* Handing out moves the claim and its item together.
LEMMA BorrowKeepsCustody ==
    ASSUME Custody(equipment, claims),
           NEW id \in ClaimID, BorrowEquipment(id)
    PROVE  Custody(equipment', claims')
<1> DEFINE e == claims[id].item
<1>1. /\ id \in DOMAIN claims
      /\ claims[id] \in EquipmentClaim
      /\ claims[id].status = "locked"
      /\ e \in DOMAIN equipment
      /\ equipment[e] \in Equipment
      /\ equipment[e].lockedBy = claims[id].shift
      /\ OfficerOf(claims[id]) \in Officer
  BY DomainAssumption
     DEF BorrowEquipment, CanBorrow, Custody, Types, ClaimCustody, IsActive,
         OfficerOf, EquipmentClaim
<1>2. /\ DOMAIN equipment' = DOMAIN equipment
      /\ equipment'[e] \in Equipment
      /\ equipment'[e].status = "borrowed"
      /\ equipment'[e].lockedBy = claims[id].shift
      /\ equipment'[e].heldBy = OfficerOf(claims[id])
      /\ \A k \in DOMAIN equipment : k # e => equipment'[k] = equipment[k]
  BY <1>1 DEF BorrowEquipment, Custody, Types, Equipment, EquipmentStatus
<1>3. /\ DOMAIN claims' = DOMAIN claims
      /\ claims'[id] \in EquipmentClaim
      /\ claims'[id].status = "borrowed"
      /\ claims'[id].item = e
      /\ claims'[id].shift = claims[id].shift
      /\ \A k \in DOMAIN claims : k # id => claims'[k] = claims[k]
  BY <1>1 DEF BorrowEquipment, Custody, Types, EquipmentClaim, ClaimStatus
<1>4. Types(equipment', claims')
  BY <1>2, <1>3, <1>1 DEF Custody, Types, BorrowEquipment
<1>5. Unique(claims')
  BY <1>1, <1>3 DEF Custody, Unique, IsActive
<1>6. ClaimCustody(equipment', claims')
  <2> SUFFICES ASSUME NEW c \in DOMAIN claims
               PROVE  /\ claims'[c].item \in DOMAIN equipment
                      /\ IsActive(claims'[c].status) =>
                           LET item == equipment'[claims'[c].item]
                           IN  /\ item.status = claims'[c].status
                               /\ item.lockedBy = claims'[c].shift
                               /\ claims'[c].status = "borrowed" =>
                                    item.heldBy = OfficerOf(claims'[c])
    BY <1>2, <1>3 DEF ClaimCustody, IsActive
  <2>1. CASE c = id
    BY <2>1, <1>1, <1>2, <1>3 DEF OfficerOf
  <2>2. CASE c # id /\ claims[c].item = e
    BY <2>2, <1>1, <1>3 DEF Custody, Unique, IsActive
  <2>3. CASE c # id /\ claims[c].item # e
    BY <2>3, <1>2, <1>3 DEF Custody, ClaimCustody
  <2> QED
    BY <2>1, <2>2, <2>3
<1>7. ItemCustody(equipment')
  BY <1>2 DEF Custody, ItemCustody
<1> QED
  BY <1>4, <1>5, <1>6, <1>7 DEF Custody

\* A return ends the claim, clears the item and promotes the queue.
LEMMA ReturnKeepsCustody ==
    ASSUME Custody(equipment, claims),
           NEW id \in ClaimID, NEW loss \in BOOLEAN, ReturnEquipment(id, loss)
    PROVE  Custody(equipment', claims')
<1> DEFINE e      == claims[id].item
           table  == [claims EXCEPT ![id].status = "returned"]
           status == IF loss THEN "maintenance" ELSE "available"
           items  == [equipment EXCEPT ![e] = Cleared(status)]
<1>1. /\ id \in DOMAIN claims
      /\ IsActive(claims[id].status)
      /\ e \in DOMAIN equipment
  BY DEF ReturnEquipment, CanReturn, IsActive, Custody, ClaimCustody
<1>2. PromoteNextQueued(items, table, e)
  BY <1>1 DEF ReturnEquipment
<1>3. Custody(equipment, table) /\ Unheld(table, e)
  <2>1. "returned" \in ClaimStatus /\ ~IsActive("returned")
    BY DEF ClaimStatus, IsActive
  <2> QED
    BY <1>1, <2>1, DropKeepsCustody
<1> HIDE DEF table
<1>4. Custody(items, table)
  BY <1>1, <1>3, ClearKeepsCustody
<1> HIDE DEF items
<1> QED
  BY <1>2, <1>4, PromoteKeepsCustody

\* A cancellation ends the claim; one that held the lock passes it on.
LEMMA CancelKeepsCustody ==
    ASSUME Custody(equipment, claims),
           NEW id \in ClaimID, CancelClaim(id)
    PROVE  Custody(equipment', claims')
<1> DEFINE e     == claims[id].item
           table == [claims EXCEPT ![id].status = "cancelled"]
           items == [equipment EXCEPT ![e] = Cleared("available")]
<1>1. id \in DOMAIN claims /\ e \in DOMAIN equipment
  BY DEF CancelClaim, Custody, ClaimCustody
<1>2. \/ claims[id].status = "locked" /\ PromoteNextQueued(items, table, e)
      \/ claims' = table /\ equipment' = equipment
  BY <1>1 DEF CancelClaim, Released
<1>3. /\ Custody(equipment, table)
      /\ claims[id].status = "locked" => Unheld(table, e)
  <2>1. /\ "cancelled" \in ClaimStatus /\ ~IsActive("cancelled")
        /\ IsActive("locked")
    BY DEF ClaimStatus, IsActive
  <2> QED
    BY <1>1, <2>1, DropKeepsCustody
<1> HIDE DEF table
<1>4. claims[id].status = "locked" => Custody(items, table)
  BY <1>1, <1>3, ClearKeepsCustody
<1> HIDE DEF items
<1> QED
  BY <1>2, <1>3, <1>4, PromoteKeepsCustody

-----------------------------------------------------------------------------
(***************************************************************************)
(* The inductive invariant and the safety theorems.                        *)
(***************************************************************************)
IInv == TypeOK /\ UniqueHolder /\ CustodyAgrees

\* The invariant is the types of the rest and the custody of the two tables.
LEMMA IInvParts ==
    /\ IInv <=> /\ ShiftTypeOK
                /\ weather \in [Station -> WeatherReport]
                /\ Custody(equipment, claims)
    /\ IInv' <=> /\ ShiftTypeOK'
                 /\ (weather \in [Station -> WeatherReport])'
                 /\ Custody(equipment', claims')
BY DEF IInv, TypeOK, StoreTypeOK, UniqueHolder, CustodyAgrees,
       Custody, Types, Unique, ClaimCustody, ItemCustody

\* The shift workflow and the clock stay within their types.
LEMMA ShiftTypes ==
    ASSUME ShiftTypeOK, ShiftNext
    PROVE  ShiftTypeOK'
<1>1. ASSUME NEW station \in Station, NEW accepted \in SUBSET ShiftID,
             GenerateWeeklyShifts(station, accepted)
      PROVE  ShiftTypeOK'
  BY <1>1 DEF GenerateWeeklyShifts, ShiftTypeOK, ShiftStatus
<1>2. ASSUME NEW s \in ShiftID, NEW target \in ShiftStatus, MoveShift(s, target)
      PROVE  ShiftTypeOK'
  BY <1>2 DEF MoveShift, ShiftTypeOK
<1>3. CASE ActivateDueShifts
  BY <1>3 DEF ActivateDueShifts, ShiftTypeOK, ShiftStatus
<1>4. CASE Tick
  BY <1>4 DEF Tick, ShiftTypeOK
<1> QED
  BY <1>1, <1>2, <1>3, <1>4
     DEF ShiftNext, SubmitShift, ApproveShift, CompleteShift, CancelShift,
         ShiftStatus

\* The empty tables of a started server satisfy the invariant.
LEMMA InitEstablishesIInv == Init => IInv
<1> SUFFICES ASSUME Init PROVE IInv
  OBVIOUS
<1>1. ShiftTypeOK
  BY DEF Init, ShiftInit, ShiftTypeOK
<1>2. Custody(equipment, claims)
  BY DEF Init, StoreInit, Custody, Types, Unique, ClaimCustody, ItemCustody
<1> QED
  BY <1>1, <1>2, IInvParts DEF Init

\* No call of the service, shift operation or change of the weather breaks it.
LEMMA StepKeepsIInv ==
    ASSUME IInv, [Next]_vars
    PROVE  IInv'
<1> USE DEF shiftVars, storeVars
<1>1. /\ ShiftTypeOK
      /\ weather \in [Station -> WeatherReport]
      /\ Custody(equipment, claims)
  BY IInvParts
<1>2. CASE ShiftStep
  <2>1. ShiftTypeOK'
    BY <1>1, <1>2, ShiftTypes DEF ShiftStep
  <2> QED
    BY <1>1, <1>2, <2>1, IInvParts DEF ShiftStep
<1>3. ASSUME NEW e \in EquipmentID, RegisterEquipment(e)
      PROVE  IInv'
  BY <1>1, <1>3, RegisterKeepsCustody, IInvParts
     DEF RegisterEquipment, ShiftTypeOK
<1>4. ASSUME NEW id \in ClaimID, NEW officer \in Officer,
             NEW s \in ShiftID, NEW e \in EquipmentID,
             SubmitClaim(id, officer, s, e)
      PROVE  IInv'
  <2>1. Custody(equipment', claims')
    BY <1>1, <1>4, SubmitKeepsCustody
  <2> QED
    BY <1>1, <1>4, <2>1, IInvParts DEF SubmitClaim, ShiftTypeOK
<1>5. ASSUME NEW id \in ClaimID, ApproveCrossStationClaim(id)
      PROVE  IInv'
  BY <1>1, <1>5, ApproveKeepsCustody, IInvParts
     DEF ApproveCrossStationClaim, ShiftTypeOK
<1>6. ASSUME NEW id \in ClaimID, BorrowEquipment(id)
      PROVE  IInv'
  BY <1>1, <1>6, BorrowKeepsCustody, IInvParts DEF BorrowEquipment, ShiftTypeOK
<1>7. ASSUME NEW id \in ClaimID, NEW loss \in BOOLEAN, ReturnEquipment(id, loss)
      PROVE  IInv'
  BY <1>1, <1>7, ReturnKeepsCustody, IInvParts DEF ReturnEquipment, ShiftTypeOK
<1>8. ASSUME NEW id \in ClaimID, CancelClaim(id)
      PROVE  IInv'
  BY <1>1, <1>8, CancelKeepsCustody, IInvParts DEF CancelClaim, ShiftTypeOK
<1>9. ASSUME NEW station \in Station, NEW report \in WeatherReport,
             ChangeWeather(station, report)
      PROVE  IInv'
  BY <1>1, <1>9, IInvParts DEF ChangeWeather, ShiftTypeOK
<1>10. CASE UNCHANGED vars
  BY <1>1, <1>10, IInvParts DEF vars, ShiftTypeOK
<1> QED
  BY <1>2, <1>3, <1>4, <1>5, <1>6, <1>7, <1>8, <1>9, <1>10 DEF Next

\* Types, the unique holder and the agreement of the tables hold together.
THEOREM Invariance == Spec => []IInv
BY InitEstablishesIInv, StepKeepsIInv, PTL DEF Spec

\* Every reachable state is well typed.
THEOREM TypeCorrectness == Spec => []TypeOK
BY Invariance, PTL DEF IInv

\* At most one claim holds an item in every reachable state.
THEOREM HolderIsUnique == Spec => []UniqueHolder
BY Invariance, PTL DEF IInv

\* The claim table and the equipment table agree on who holds what.
THEOREM TablesAgree == Spec => []CustodyAgrees
BY Invariance, PTL DEF IInv

-----------------------------------------------------------------------------
(***************************************************************************)
(* The standby queue.                                                      *)
(***************************************************************************)
Served(items, table, e) ==
    \A c \in DOMAIN table :
        /\ table[c].item = e
        /\ table[c].status = "queued"
        /\ items[e].status = "available"
        => CrossStation(table[c]) /\ ~table[c].approved

\* The queues of all items are served.
LEMMA StandbyParts ==
    ASSUME Custody(equipment, claims), Custody(equipment', claims')
    PROVE  /\ StandbyServed <=>
                \A e \in DOMAIN equipment : Served(equipment, claims, e)
           /\ StandbyServed' <=>
                \A e \in DOMAIN equipment' : Served(equipment', claims', e)
BY DEF StandbyServed, Served, Custody, ClaimCustody

\* A queued claim waits for an item that is taken or lacks its approval.
LEMMA EnqueueServes ==
    ASSUME Custody(equipment, claims),
           \A k \in DOMAIN equipment : Served(equipment, claims, k),
           NEW id \in ClaimID, NEW claim \in ClaimRequest, Enqueue(id, claim),
           equipment[claim.item].status = "available" =>
                CrossStation(claim) /\ ~claim.approved
    PROVE  \A k \in DOMAIN equipment' : Served(equipment', claims', k)
<1> DEFINE queued == [claim EXCEPT !.status = "queued"]
<1>1. /\ queued.item = claim.item
      /\ queued.shift = claim.shift
      /\ queued.approved = claim.approved
  BY DEF ClaimRequest
<1>2. /\ equipment' = equipment
      /\ DOMAIN claims' = DOMAIN claims \cup {id}
      /\ claims'[id] = queued
      /\ \A k \in DOMAIN claims : k # id => claims'[k] = claims[k]
  BY DEF Enqueue, Put
<1>3. CrossStation(queued) <=> CrossStation(claim)
  BY <1>1 DEF CrossStation
<1> HIDE DEF queued
<1> SUFFICES ASSUME NEW k \in DOMAIN equipment, NEW c \in DOMAIN claims',
                    claims'[c].item = k, claims'[c].status = "queued",
                    equipment[k].status = "available"
             PROVE  CrossStation(claims'[c]) /\ ~claims'[c].approved
  BY <1>2 DEF Served
<1>4. CASE c = id
  BY <1>1, <1>2, <1>3, <1>4
<1>5. CASE c # id
  BY <1>2, <1>5 DEF Served
<1> QED
  BY <1>4, <1>5

\* A lock taken leaves every other item and its queue as they were.
LEMMA SeizeServes ==
    ASSUME NEW table, NEW id \in ClaimID, NEW claim \in ClaimRequest,
           Custody(equipment, table),
           \A k \in DOMAIN equipment :
                k # claim.item => Served(equipment, table, k),
           Seize(table, id, claim)
    PROVE  \A k \in DOMAIN equipment' : Served(equipment', claims', k)
<1> DEFINE locked == [claim EXCEPT !.status = "locked"]
<1>1. locked.status = "locked"
  BY DEF ClaimRequest
<1>2. /\ DOMAIN claims' = DOMAIN table \cup {id}
      /\ claims'[id] = locked
      /\ \A k \in DOMAIN table : k # id => claims'[k] = table[k]
  BY DEF Seize, Put
<1>3. /\ DOMAIN equipment' = DOMAIN equipment
      /\ equipment'[claim.item].status = "locked"
      /\ \A k \in DOMAIN equipment :
            k # claim.item => equipment'[k] = equipment[k]
  BY DEF Seize, LockedFor, Custody, Types, ClaimRequest, Equipment
<1> HIDE DEF locked
<1> SUFFICES ASSUME NEW k \in DOMAIN equipment, NEW c \in DOMAIN claims',
                    claims'[c].item = k, claims'[c].status = "queued",
                    equipment'[k].status = "available"
             PROVE  CrossStation(claims'[c]) /\ ~claims'[c].approved
  BY <1>3 DEF Served
<1>4. c # id /\ k # claim.item
  BY <1>1, <1>2, <1>3
<1> QED
  BY <1>2, <1>3, <1>4 DEF Served

\* Either way TryLockEquipment leaves no claim waiting for a free item.
LEMMA TryLockServes ==
    ASSUME Custody(equipment, claims),
           \A k \in DOMAIN equipment : Served(equipment, claims, k),
           NEW id \in ClaimID, NEW claim \in ClaimRequest,
           TryLockEquipment(id, claim)
    PROVE  \A k \in DOMAIN equipment' : Served(equipment', claims', k)
<1>1. CASE Seize(claims, id, claim)
  BY <1>1, SeizeServes
<1>2. ASSUME NEW h \in LockHolders(claim.item),
             Seize([claims EXCEPT ![h].status = "queued"], id, claim)
      PROVE  \A k \in DOMAIN equipment' : Served(equipment', claims', k)
  <2> DEFINE rest == [claims EXCEPT ![h].status = "queued"]
  <2>1. /\ h \in DOMAIN claims
        /\ claims[h].item = claim.item
        /\ claims[h] \in EquipmentClaim
    BY DEF LockHolders, ClaimsOn, Custody, Types
  <2>2. Custody(equipment, rest)
    <3>1. "queued" \in ClaimStatus /\ ~IsActive("queued")
      BY DEF ClaimStatus, IsActive
    <3> QED
      BY <2>1, <3>1, DropKeepsCustody
  <2>3. /\ DOMAIN rest = DOMAIN claims
        /\ rest[h].item = claim.item
        /\ \A k \in DOMAIN claims : k # h => rest[k] = claims[k]
    BY <2>1 DEF EquipmentClaim
  <2>4. \A k \in DOMAIN equipment :
            k # claim.item => Served(equipment, rest, k)
    BY <2>3 DEF Served
  <2>5. Seize(rest, id, claim)
    BY <1>2
  <2> HIDE DEF rest
  <2> QED
    BY <2>2, <2>4, <2>5, SeizeServes
<1>3. CASE equipment[claim.item].status # "available" /\ Enqueue(id, claim)
  BY <1>3, EnqueueServes
<1> QED
  BY <1>1, <1>2, <1>3 DEF TryLockEquipment

\* A promotion serves the item it was called for and keeps to that item.
LEMMA PromoteServes ==
    ASSUME NEW items, NEW table, NEW e \in DOMAIN items,
           Custody(items, table),
           \A k \in DOMAIN items : k # e => Served(items, table, k),
           PromoteNextQueued(items, table, e)
    PROVE  \A k \in DOMAIN equipment' : Served(equipment', claims', k)
<1>1. CASE /\ items[e].status # "available"
              \/ QueuedClaimsForEquipment(table, e) = {}
           /\ equipment' = items
           /\ claims' = table
  BY <1>1 DEF QueuedClaimsForEquipment, ClaimsOn, Served
<1>2. ASSUME NEW best \in QueuedClaimsForEquipment(table, e),
             equipment' = [items EXCEPT ![e] = LockedFor(@, table[best].shift)],
             claims' = [table EXCEPT ![best].status = "locked"]
      PROVE  \A k \in DOMAIN equipment' : Served(equipment', claims', k)
  <2>1. /\ best \in DOMAIN table
        /\ table[best] \in EquipmentClaim
        /\ items[e] \in Equipment
    BY DEF QueuedClaimsForEquipment, ClaimsOn, Custody, Types
  <2>2. /\ DOMAIN equipment' = DOMAIN items
        /\ equipment'[e].status = "locked"
        /\ \A k \in DOMAIN items : k # e => equipment'[k] = items[k]
    BY <1>2, <2>1 DEF LockedFor, Custody, Types, Equipment
  <2>3. /\ DOMAIN claims' = DOMAIN table
        /\ claims'[best].status = "locked"
        /\ \A k \in DOMAIN table : k # best => claims'[k] = table[k]
    BY <1>2, <2>1 DEF Custody, Types, EquipmentClaim
  <2> QED
    BY <2>2, <2>3 DEF Served
<1> QED
  BY <1>1, <1>2 DEF PromoteNextQueued

\* Every step of the service leaves the standby queues served.
LEMMA StepServes ==
    ASSUME IInv, IInv', StandbyServed, [Next]_vars
    PROVE  StandbyServed'
<1>1. Custody(equipment, claims) /\ Custody(equipment', claims') /\ ShiftTypeOK
  BY IInvParts
<1>2. \A k \in DOMAIN equipment : Served(equipment, claims, k)
  BY <1>1, StandbyParts
<1> DEFINE Goal == \A k \in DOMAIN equipment' : Served(equipment', claims', k)
<1> SUFFICES Goal
  BY <1>1, StandbyParts
<1>3. CASE equipment' = equipment /\ claims' = claims
  BY <1>2, <1>3
<1>4. ASSUME NEW e \in EquipmentID, RegisterEquipment(e)
      PROVE  Goal
  <2>1. /\ claims' = claims
        /\ DOMAIN equipment' = DOMAIN equipment \cup {e}
        /\ e \notin DOMAIN equipment
        /\ \A k \in DOMAIN equipment : equipment'[k] = equipment[k]
    BY <1>4 DEF RegisterEquipment, Put
  <2> QED
    BY <1>1, <1>2, <2>1 DEF Served, Custody, ClaimCustody
<1>5. ASSUME NEW id \in ClaimID, NEW officer \in Officer,
             NEW s \in ShiftID, NEW e \in EquipmentID,
             SubmitClaim(id, officer, s, e)
      PROVE  Goal
  <2>1. NewClaim(s, e) \in ClaimRequest
    BY <1>1, <1>5 DEF NewClaim, ClaimRequest, SubmitClaim, MayClaim, ShiftTypeOK
  <2>2. CASE CrossStation(NewClaim(s, e)) /\ Enqueue(id, NewClaim(s, e))
    <3>1. ~NewClaim(s, e).approved
      BY DEF NewClaim
    <3> QED
      BY <1>1, <1>2, <2>1, <2>2, <3>1, EnqueueServes
  <2>3. CASE TryLockEquipment(id, NewClaim(s, e))
    BY <1>1, <1>2, <2>1, <2>3, TryLockServes
  <2> QED
    BY <1>5, <2>2, <2>3 DEF SubmitClaim
<1>6. ASSUME NEW id \in ClaimID, ApproveCrossStationClaim(id)
      PROVE  Goal
  <2> DEFINE claim == [claims[id] EXCEPT !.approved = TRUE]
  <2>1. claims[id] \in EquipmentClaim /\ claims[id].item \in DOMAIN equipment
    BY <1>1, <1>6 DEF ApproveCrossStationClaim, Custody, Types, ClaimCustody
  <2>2. claim \in ClaimRequest
    BY <2>1 DEF EquipmentClaim, ClaimRequest
  <2>3. TryLockEquipment(id, claim)
    BY <1>6 DEF ApproveCrossStationClaim
  <2> QED
    BY <1>1, <1>2, <2>2, <2>3, TryLockServes
<1>7. ASSUME NEW id \in ClaimID, BorrowEquipment(id)
      PROVE  Goal
  <2>1. /\ id \in DOMAIN claims
        /\ claims[id] \in EquipmentClaim
        /\ claims[id].item \in DOMAIN equipment
        /\ equipment[claims[id].item] \in Equipment
    BY <1>1, <1>7 DEF BorrowEquipment, Custody, Types, ClaimCustody
  <2>2. /\ DOMAIN equipment' = DOMAIN equipment
        /\ equipment'[claims[id].item].status = "borrowed"
        /\ \A k \in DOMAIN equipment :
              k # claims[id].item => equipment'[k] = equipment[k]
    BY <1>7, <2>1 DEF BorrowEquipment, Equipment
  <2>3. /\ DOMAIN claims' = DOMAIN claims
        /\ claims'[id].status = "borrowed"
        /\ \A c \in DOMAIN claims : c # id => claims'[c] = claims[c]
    BY <1>7, <2>1 DEF BorrowEquipment, EquipmentClaim
  <2> QED
    BY <1>2, <2>2, <2>3 DEF Served
<1>8. ASSUME NEW id \in ClaimID, NEW loss \in BOOLEAN, ReturnEquipment(id, loss)
      PROVE  Goal
  <2> DEFINE e      == claims[id].item
             table  == [claims EXCEPT ![id].status = "returned"]
             status == IF loss THEN "maintenance" ELSE "available"
             items  == [equipment EXCEPT ![e] = Cleared(status)]
  <2>1. /\ id \in DOMAIN claims
        /\ claims[id] \in EquipmentClaim
        /\ IsActive(claims[id].status)
        /\ e \in DOMAIN equipment
    BY <1>1, <1>8
       DEF ReturnEquipment, CanReturn, IsActive, Custody, ClaimCustody, Types
  <2>2. PromoteNextQueued(items, table, e)
    BY <1>8, <2>1 DEF ReturnEquipment
  <2>3. Custody(items, table)
    <3>1. "returned" \in ClaimStatus /\ ~IsActive("returned")
      BY DEF ClaimStatus, IsActive
    <3>2. Custody(equipment, table) /\ Unheld(table, e)
      BY <1>1, <2>1, <3>1, DropKeepsCustody
    <3> HIDE DEF table
    <3> QED
      BY <2>1, <3>2, ClearKeepsCustody
  <2>4. /\ DOMAIN table = DOMAIN claims
        /\ table[id].status = "returned"
        /\ \A c \in DOMAIN claims : c # id => table[c] = claims[c]
        /\ DOMAIN items = DOMAIN equipment
        /\ \A k \in DOMAIN equipment : k # e => items[k] = equipment[k]
    BY <2>1 DEF EquipmentClaim
  <2> HIDE DEF table, items
  <2>5. \A k \in DOMAIN items : k # e => Served(items, table, k)
    BY <1>2, <2>4 DEF Served
  <2> QED
    BY <2>1, <2>2, <2>3, <2>4, <2>5, PromoteServes
<1>9. ASSUME NEW id \in ClaimID, CancelClaim(id)
      PROVE  Goal
  <2> DEFINE e     == claims[id].item
             table == [claims EXCEPT ![id].status = "cancelled"]
             items == [equipment EXCEPT ![e] = Cleared("available")]
  <2>1. /\ id \in DOMAIN claims
        /\ claims[id] \in EquipmentClaim
        /\ e \in DOMAIN equipment
    BY <1>1, <1>9 DEF CancelClaim, Custody, ClaimCustody, Types
  <2>2. /\ DOMAIN table = DOMAIN claims
        /\ table[id].status = "cancelled"
        /\ \A c \in DOMAIN claims : c # id => table[c] = claims[c]
        /\ DOMAIN items = DOMAIN equipment
        /\ \A k \in DOMAIN equipment : k # e => items[k] = equipment[k]
    BY <2>1 DEF EquipmentClaim
  <2>3. CASE claims[id].status = "locked" /\ PromoteNextQueued(items, table, e)
    <3>1. Custody(items, table)
      <4>1. "cancelled" \in ClaimStatus /\ ~IsActive("cancelled") /\ IsActive("locked")
        BY DEF ClaimStatus, IsActive
      <4>2. Custody(equipment, table) /\ Unheld(table, e)
        BY <1>1, <2>1, <2>3, <4>1, DropKeepsCustody
      <4> HIDE DEF table
      <4> QED
        BY <2>1, <4>2, ClearKeepsCustody
    <3> HIDE DEF table, items
    <3>2. \A k \in DOMAIN items : k # e => Served(items, table, k)
      BY <1>2, <2>2 DEF Served
    <3> QED
      BY <2>1, <2>2, <2>3, <3>1, <3>2, PromoteServes
  <2>4. CASE claims' = table /\ equipment' = equipment
    <3> HIDE DEF table, items
    <3> QED
      BY <1>2, <2>2, <2>4 DEF Served
  <2> QED
    BY <1>9, <2>1, <2>3, <2>4 DEF CancelClaim, Released
<1>10. CASE ShiftStep
  BY <1>3, <1>10 DEF ShiftStep, storeVars
<1>11. ASSUME NEW station \in Station, NEW report \in WeatherReport,
              ChangeWeather(station, report)
       PROVE  Goal
  BY <1>3, <1>11 DEF ChangeWeather, storeVars
<1>12. CASE UNCHANGED vars
  BY <1>3, <1>12 DEF vars
<1> HIDE DEF Goal
<1> QED
  BY <1>4, <1>5, <1>6, <1>7, <1>8, <1>9, <1>10, <1>11, <1>12 DEF Next

\* No claim that may take an item waits while the item is free.
THEOREM QueueIsServed == Spec => []StandbyServed
<1>1. Init => StandbyServed
  BY DEF Init, StoreInit, StandbyServed
<1> QED
  BY <1>1, Invariance, StepServes, PTL DEF Spec
=============================================================================
