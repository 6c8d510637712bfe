------------------------- MODULE EquipmentDeskProofs -------------------------
(***************************************************************************)
(* EquipmentService implements ItemDesk: every call moves one item by one  *)
(* step of the desk, or none.                                              *)
(***************************************************************************)
EXTENDS EquipmentStepProofs

HolderSet(table, e) ==
    {c \in DOMAIN table : table[c].item = e /\ IsActive(table[c].status)}

-----------------------------------------------------------------------------
(***************************************************************************)
(* The desk's view of the two tables.                                      *)
(***************************************************************************)

\* The refinement mapping is made of the holder sets.
LEMMA HoldersView ==
    /\ Holders = [e \in EquipmentID |-> HolderSet(claims, e)]
    /\ Holders' = [e \in EquipmentID |-> HolderSet(claims', e)]
BY DEF Holders, HolderSet

\* A step that changes the holders of at most one item is an update at that item.
LEMMA HoldersOfOthers ==
    ASSUME NEW e \in EquipmentID, NEW next,
           HolderSet(claims', e) = next,
           \A k \in EquipmentID : k # e => HolderSet(claims', k) = HolderSet(claims, k)
    PROVE  Holders' = [Holders EXCEPT ![e] = next]
BY HoldersView

\* One claim holds an item, or none.
LEMMA OneInHolderSet ==
    ASSUME NEW table, NEW c \in DOMAIN table, Unique(table), IsActive(table[c].status)
    PROVE  HolderSet(table, table[c].item) = {c}
BY DEF HolderSet, Unique

\* A claim that takes an item has the item locked.
LEMMA HolderLocks ==
    ASSUME NEW items, NEW table, NEW c \in DOMAIN table, Custody(items, table),
           IsActive(table[c].status)
    PROVE  /\ table[c].item \in DOMAIN items
           /\ items[table[c].item].status = table[c].status
BY DEF Custody, ClaimCustody

\* No item disappears, and a new one is in the depot.
LEMMA ItemsStay ==
    ASSUME IInv, [Next]_vars
    PROVE  /\ DOMAIN equipment \subseteq DOMAIN equipment'
           /\ \A e \in DOMAIN equipment' :
                e \notin DOMAIN equipment => equipment'[e].status = "available"
<1>1. Custody(equipment, claims) /\ ShiftTypeOK
  BY IInvParts
<1>2. CASE DOMAIN equipment' = DOMAIN equipment
  BY <1>2
<1>3. ASSUME NEW e \in EquipmentID, RegisterEquipment(e)
      PROVE  /\ DOMAIN equipment \subseteq DOMAIN equipment'
             /\ \A k \in DOMAIN equipment' :
                  k \notin DOMAIN equipment => equipment'[k].status = "available"
  BY <1>3 DEF RegisterEquipment, Put, Cleared
<1>4. ASSUME NEW id \in ClaimID, NEW claim,
             Enqueue(id, claim) \/ TryLockEquipment(id, claim)
      PROVE  DOMAIN equipment' = DOMAIN equipment
  BY <1>4 DEF Enqueue, TryLockEquipment, Seize
<1>5. ASSUME NEW id \in ClaimID, BorrowEquipment(id)
      PROVE  DOMAIN equipment' = DOMAIN equipment
  BY <1>5 DEF BorrowEquipment
<1>6. ASSUME NEW items, DOMAIN items = DOMAIN equipment, NEW table, NEW e,
             PromoteNextQueued(items, table, e)
      PROVE  DOMAIN equipment' = DOMAIN equipment
  BY <1>6 DEF PromoteNextQueued
<1>7. ASSUME NEW id \in ClaimID, NEW loss \in BOOLEAN, ReturnEquipment(id, loss)
      PROVE  DOMAIN equipment' = DOMAIN equipment
  <2> DEFINE items == [equipment EXCEPT ![claims[id].item] =
                          Cleared(IF loss THEN "maintenance" ELSE "available")]
             table == [claims EXCEPT ![id].status = "returned"]
  <2>1. \/ PromoteNextQueued(items, table, claims[id].item)
        \/ equipment' = equipment
    BY <1>7 DEF ReturnEquipment
  <2>2. DOMAIN items = DOMAIN equipment
    OBVIOUS
  <2> HIDE DEF items, table
  <2> QED
    BY <1>6, <2>1, <2>2
<1>8. ASSUME NEW id \in ClaimID, CancelClaim(id)
      PROVE  DOMAIN equipment' = DOMAIN equipment
  <2> DEFINE items == Released(claims[id].item)
             table == [claims EXCEPT ![id].status = "cancelled"]
  <2>1. \/ PromoteNextQueued(items, table, claims[id].item)
        \/ equipment' = equipment
    BY <1>8 DEF CancelClaim
  <2>2. DOMAIN items = DOMAIN equipment
    BY DEF Released
  <2> HIDE DEF items, table
  <2> QED
    BY <1>6, <2>1, <2>2
<1>9. ASSUME NEW id \in ClaimID, NEW officer \in Officer,
             NEW s \in ShiftID, NEW e \in EquipmentID,
             SubmitClaim(id, officer, s, e)
      PROVE  DOMAIN equipment' = DOMAIN equipment
  BY <1>4, <1>9 DEF SubmitClaim
<1>10. ASSUME NEW id \in ClaimID, ApproveCrossStationClaim(id)
       PROVE  DOMAIN equipment' = DOMAIN equipment
  BY <1>4, <1>10 DEF ApproveCrossStationClaim
<1>11. CASE equipment' = equipment
  BY <1>2, <1>11
<1> QED
  BY <1>2, <1>3, <1>5, <1>7, <1>8, <1>9, <1>10, <1>11
     DEF Next, ShiftStep, ChangeWeather, storeVars, vars

-----------------------------------------------------------------------------
(***************************************************************************)
(* The kinds of steps of the service, as the desk sees them.               *)
(***************************************************************************)
DeskStep == [Desk!DeskNext]_(Desk!deskVars)

\* A step at one item that leaves the others alone.
LEMMA StepAtItem ==
    ASSUME NEW e \in EquipmentID,
           \/ \E c \in ClaimID : Desk!Take(e, c)
           \/ Desk!Leave(e)
           \/ Desk!HandOut(e)
           \/ Desk!TakeBack(e)
           \/ Desk!Strand(e)
    PROVE  DeskStep
BY DEF DeskStep, Desk!DeskNext

\* Which items are out changes with the items' records only.
LEMMA HandedOutBy ==
    ASSUME IInv, [Next]_vars, NEW e \in DOMAIN equipment,
           \A k \in DOMAIN equipment : k # e => equipment'[k] = equipment[k]
    PROVE  /\ equipment'[e].status = "borrowed" => HandedOut' = HandedOut \cup {e}
           /\ equipment'[e].status # "borrowed" => HandedOut' = HandedOut \ {e}
BY ItemsStay DEF HandedOut

\* Records that stay as they are keep the items in or out.
LEMMA HandedOutStill ==
    ASSUME IInv, [Next]_vars,
           \A k \in DOMAIN equipment : equipment'[k] = equipment[k]
    PROVE  HandedOut' = HandedOut
BY ItemsStay DEF HandedOut

\* A new or newly approved claim takes the lock, joins the queue, or gives up the
\* item it holds when its approval puts it into the queue.
LEMMA PlacingAtDesk ==
    ASSUME IInv, IInv', [Next]_vars, Placing
    PROVE  DeskStep
<1>1. Custody(equipment, claims) /\ Custody(equipment', claims')
  BY IInvParts
<1>2. PICK id \in ClaimID, claim \in ClaimRequest :
          /\ Placed(id, claim)
          /\ id \in DOMAIN claims => claim.item = claims[id].item
  BY DEF Placing
<1> DEFINE e == claim.item
<1>3. /\ e \in DOMAIN equipment
      /\ e \in EquipmentID
      /\ id \in DOMAIN claims'
      /\ claims'[id].item = e
  BY <1>1, <1>2 DEF ClaimRequest, Placed, SameClaim, Custody, Types
<1>4. /\ DOMAIN claims' = DOMAIN claims \cup {id}
      /\ \A c \in DOMAIN claims : c # id =>
            \/ claims'[c] = claims[c]
            \/ /\ claims[c].item = e
               /\ claims'[c].item = e
  <2>1. \A c \in DOMAIN claims : claims[c] \in EquipmentClaim
    BY <1>1 DEF Custody, Types
  <2> QED
    BY <1>2, <2>1 DEF Placed, Preempted, EquipmentClaim
<1> HIDE DEF e
<1>5. \A k \in EquipmentID : k # e => HolderSet(claims', k) = HolderSet(claims, k)
  BY <1>2, <1>3, <1>4 DEF HolderSet, e
<1>6. CASE claims'[id].status = "locked"
  <2>1. HolderSet(claims', e) = {id}
    BY <1>1, <1>3, <1>6, OneInHolderSet DEF Custody, IsActive
  <2>2. equipment'[e].status = "locked"
    <3>1. id \in DOMAIN claims' /\ IsActive(claims'[id].status)
      BY <1>3, <1>6 DEF IsActive
    <3>2. equipment'[claims'[id].item].status = claims'[id].status
      BY <1>1, <3>1, HolderLocks
    <3> QED
      BY <1>3, <1>6, <3>2
  <2>3. \A k \in DOMAIN equipment :
           equipment[k].status = "borrowed" \/ k # e =>
              equipment'[k] = equipment[k]
    BY <1>2 DEF Placed, e
  <2>4. HandedOut' = HandedOut /\ e \notin HandedOut
    BY <1>3, <2>2, <2>3, HandedOutBy DEF HandedOut
  <2>5. Holders' = [Holders EXCEPT ![e] = {id}]
    BY <1>3, <1>5, <2>1, HoldersOfOthers
  <2>6. Desk!Take(e, id)
    BY <2>4, <2>5 DEF Desk!Take
  <2> QED
    BY <1>3, <2>6, StepAtItem
<1>7. CASE claims'[id].status = "queued"
  <2>1. equipment' = equipment
    BY <1>2, <1>7 DEF Placed
  <2>2. HandedOut' = HandedOut
    BY <2>1 DEF HandedOut
  <2>3. \A c \in DOMAIN claims : c # id => claims'[c] = claims[c]
    BY <1>2, <1>7 DEF Placed, Preempted
  <2>4. HolderSet(claims', e) = HolderSet(claims, e) \ {id}
    BY <1>3, <1>4, <1>7, <2>3 DEF HolderSet, IsActive
  <2>5. CASE id \in HolderSet(claims, e)
    <3>1. HolderSet(claims, e) = {id}
      BY <1>1, <2>5, OneInHolderSet DEF Custody, HolderSet
    <3>2. Holders' = [Holders EXCEPT ![e] = {}]
      BY <1>3, <1>5, <2>4, <3>1, HoldersOfOthers
    <3>3. Holders[e] # {}
      BY <1>3, <3>1, HoldersView
    <3>4. Desk!Leave(e) \/ Desk!Strand(e)
      BY <2>2, <3>2, <3>3 DEF Desk!Leave, Desk!Strand
    <3> QED
      BY <1>3, <3>4, StepAtItem
  <2>6. CASE id \notin HolderSet(claims, e)
    <3>1. \A k \in EquipmentID : HolderSet(claims', k) = HolderSet(claims, k)
      BY <1>5, <2>4, <2>6
    <3>2. Holders' = Holders
      BY <3>1, HoldersView
    <3> QED
      BY <2>2, <3>2 DEF DeskStep, Desk!deskVars
  <2> QED
    BY <2>5, <2>6
<1> QED
  BY <1>2, <1>6, <1>7 DEF Placed

\* An item goes out with the claim that has it locked.
LEMMA HandingOutAtDesk ==
    ASSUME IInv, IInv', [Next]_vars, HandingOut
    PROVE  DeskStep
<1>1. Custody(equipment, claims) /\ Custody(equipment', claims')
  BY IInvParts
<1>2. PICK id \in DOMAIN claims :
          /\ claims[id].status = "locked"
          /\ claims' = [claims EXCEPT ![id].status = "borrowed"]
          /\ equipment[claims[id].item].status = "locked"
          /\ \A k \in DOMAIN equipment :
                k # claims[id].item => equipment'[k] = equipment[k]
  BY DEF HandingOut
<1> DEFINE e == claims[id].item
<1>3. /\ claims[id] \in EquipmentClaim
      /\ e \in DOMAIN equipment
      /\ e \in EquipmentID
  BY <1>1 DEF Custody, Types, ClaimCustody, EquipmentClaim
<1>4. /\ DOMAIN claims' = DOMAIN claims
      /\ claims'[id].item = e
      /\ claims'[id].status = "borrowed"
      /\ \A c \in DOMAIN claims : c # id => claims'[c] = claims[c]
  BY <1>2, <1>3 DEF EquipmentClaim
<1>5. \A k \in EquipmentID : HolderSet(claims', k) = HolderSet(claims, k)
  BY <1>2, <1>4 DEF HolderSet, IsActive
<1>6. Holders' = Holders
  BY <1>5, HoldersView
<1>7. equipment'[e].status = "borrowed"
  BY <1>1, <1>4, HolderLocks DEF IsActive
<1>8. HandedOut' = HandedOut \cup {e} /\ e \notin HandedOut
  BY <1>2, <1>3, <1>7, HandedOutBy DEF HandedOut
<1>9. Holders[e] # {}
  BY <1>2, <1>3, HoldersView DEF HolderSet, IsActive
<1>10. Desk!HandOut(e)
  BY <1>6, <1>8, <1>9 DEF Desk!HandOut
<1> QED
  BY <1>3, <1>10, StepAtItem

\* The holder returns the item, or cancels its lock, and the queue may follow.
LEMMA GivingUpAtDesk ==
    ASSUME IInv, IInv', [Next]_vars, GivingUp
    PROVE  DeskStep
<1>1. Custody(equipment, claims) /\ Custody(equipment', claims')
  BY IInvParts
<1>2. PICK id \in DOMAIN claims, status \in {"returned", "cancelled"} :
          /\ Freed(id, status)
          /\ IsActive(claims[id].status)
          /\ \/ claims[id].status = "borrowed"
             \/ equipment[claims[id].item].status = "locked"
  BY DEF GivingUp, IsActive
<1> DEFINE e == claims[id].item
<1>3. /\ claims[id] \in EquipmentClaim
      /\ e \in DOMAIN equipment
      /\ e \in EquipmentID
      /\ \A c \in DOMAIN claims : claims[c] \in EquipmentClaim
  BY <1>1 DEF Custody, Types, ClaimCustody, EquipmentClaim
<1>4. /\ DOMAIN claims' = DOMAIN claims
      /\ claims'[id].item = e
      /\ ~IsActive(claims'[id].status)
      /\ \A c \in DOMAIN claims : c # id =>
            \/ claims'[c] = claims[c]
            \/ claims[c].item = e /\ claims'[c].item = e
      /\ equipment'[e].status # "borrowed"
      /\ \A k \in DOMAIN equipment : k # e => equipment'[k] = equipment[k]
  BY <1>2, <1>3 DEF Freed, Promoted, QueuedClaimsForEquipment, ClaimsOn,
                    EquipmentClaim, IsActive
<1>5. Holders[e] = {id}
  BY <1>1, <1>2, <1>3, OneInHolderSet, HoldersView DEF Custody
<1> HIDE DEF e
<1>6. \A k \in EquipmentID : k # e => HolderSet(claims', k) = HolderSet(claims, k)
  BY <1>2, <1>3, <1>4 DEF HolderSet, e
<1>7. HolderSet(claims', e) \in {{}} \cup {{c} : c \in ClaimID \ {id}}
  <2>1. CASE HolderSet(claims', e) = {}
    BY <2>1
  <2>2. ASSUME NEW c \in HolderSet(claims', e)
        PROVE  HolderSet(claims', e) = {c} /\ c \in ClaimID \ {id}
    BY <1>1, <1>4, <2>2, OneInHolderSet DEF HolderSet, Custody, Types
  <2> QED
    BY <2>1, <2>2
<1> DEFINE next == HolderSet(claims', e)
<1>8. Holders' = [Holders EXCEPT ![e] = next]
  BY <1>3, <1>6, HoldersOfOthers
<1>9. HandedOut' = HandedOut \ {e}
  BY <1>3, <1>4, HandedOutBy
<1>10. CASE e \in HandedOut
  <2>1. Desk!TakeBack(e)
    BY <1>5, <1>7, <1>8, <1>9, <1>10 DEF Desk!TakeBack
  <2> QED
    BY <1>3, <2>1, StepAtItem
<1>11. CASE e \notin HandedOut
  <2>1. HandedOut' = HandedOut
    BY <1>9, <1>11
  <2>2. Desk!Leave(e) \/ \E c \in ClaimID : Desk!Take(e, c)
    BY <1>7, <1>8, <1>11, <2>1 DEF Desk!Leave, Desk!Take
  <2> QED
    BY <1>3, <2>2, StepAtItem
<1> QED
  BY <1>10, <1>11

\* A cancelled claim that held the item leaves it where it is, out for good when
\* it was handed out.
LEMMA WithdrawingAtDesk ==
    ASSUME IInv, IInv', [Next]_vars, Withdrawing
    PROVE  DeskStep
<1>1. Custody(equipment, claims)
  BY IInvParts
<1>2. PICK id \in DOMAIN claims :
          claims' = [claims EXCEPT ![id].status = "cancelled"]
  BY DEF Withdrawing
<1> DEFINE e == claims[id].item
<1>3. /\ claims[id] \in EquipmentClaim
      /\ e \in EquipmentID
  BY <1>1 DEF Custody, Types, ClaimCustody, EquipmentClaim
<1>4. /\ DOMAIN claims' = DOMAIN claims
      /\ ~IsActive(claims'[id].status)
      /\ \A c \in DOMAIN claims : c # id => claims'[c] = claims[c]
  BY <1>2, <1>3 DEF EquipmentClaim, IsActive
<1>5. HandedOut' = HandedOut
  BY DEF Withdrawing, HandedOut
<1> HIDE DEF e
<1>6. \A k \in EquipmentID : HolderSet(claims', k) = HolderSet(claims, k) \ {id}
  BY <1>4 DEF HolderSet
<1>7. CASE id \in HolderSet(claims, e)
  <2>1. HolderSet(claims, e) = {id}
    BY <1>1, <1>7, OneInHolderSet DEF Custody, HolderSet
  <2>2. \A k \in EquipmentID : k # e => HolderSet(claims', k) = HolderSet(claims, k)
    BY <1>6 DEF HolderSet, e
  <2>3. Holders' = [Holders EXCEPT ![e] = {}]
    BY <1>3, <1>6, <2>1, <2>2, HoldersOfOthers
  <2>4. Holders[e] # {}
    BY <1>3, <2>1, HoldersView
  <2>5. Desk!Leave(e) \/ Desk!Strand(e)
    BY <1>5, <2>3, <2>4 DEF Desk!Leave, Desk!Strand
  <2> QED
    BY <1>3, <2>5, StepAtItem
<1>8. CASE id \notin HolderSet(claims, e)
  <2>1. \A k \in EquipmentID : HolderSet(claims', k) = HolderSet(claims, k)
    BY <1>6, <1>8 DEF HolderSet, e
  <2>2. Holders' = Holders
    BY <2>1, HoldersView
  <2> QED
    BY <1>5, <2>2 DEF DeskStep, Desk!deskVars
<1> QED
  BY <1>7, <1>8

\* A step that leaves the claims and the known items alone is none of the desk's.
LEMMA BystanderAtDesk ==
    ASSUME IInv, [Next]_vars, Bystander
    PROVE  DeskStep
<1>1. Holders' = Holders
  BY DEF Bystander, Holders
<1>2. HandedOut' = HandedOut
  BY HandedOutStill DEF Bystander
<1> QED
  BY <1>1, <1>2 DEF DeskStep, Desk!deskVars

-----------------------------------------------------------------------------
(***************************************************************************)
(* The theorem.                                                            *)
(***************************************************************************)

\* The empty store is the desk before any claim.
LEMMA InitAtDesk ==
    ASSUME Init
    PROVE  Desk!DeskInit
BY DEF Init, StoreInit, Holders, HandedOut, Desk!DeskInit

\* Whatever the constants are, the service implements the desk.
THEOREM ServiceImplementsDesk == Spec => ImplementsDesk
<1>1. ASSUME IInv, IInv', [Next]_vars
      PROVE  DeskStep
  BY <1>1, StepKinds, PlacingAtDesk, HandingOutAtDesk, GivingUpAtDesk,
     WithdrawingAtDesk, BystanderAtDesk
<1> QED
  BY <1>1, InitAtDesk, Invariance, PTL
     DEF Spec, ImplementsDesk, Desk!DeskSpec, DeskStep
=============================================================================
