----------------------------- MODULE RaceProofs -----------------------------
(***************************************************************************)
(* Theorems of EquipmentRaces, for every value of its constants: any       *)
(* number of workers, items, claims and shifts, from every setup.          *)
(*                                                                         *)
(* The types hold however the calls overlap.  Custody is followed item by  *)
(* item: calls on other items touch neither its row nor its claims, and    *)
(* the program counter of the call on it says which of the two tables that *)
(* call has written already.                                               *)
(***************************************************************************)
EXTENDS EquipmentRaces, EquipmentProofs

Calls == Request \cup {Idle}

Tables ==
    /\ StoreTypeOK
    /\ \A c \in DOMAIN claims : claims[c].item \in DOMAIN equipment

\* The claim of the call is being submitted and not stored yet.
Unstored(call) == call.pc \in {"rules", "place"} /\ call.claim.status = None

\* What a call goes on with names an item and, when it is stored, a claim on it.
CallTypes(call) ==
    call.pc # "idle" =>
        /\ call.pc # "rules" => call.claim.item \in DOMAIN equipment
        /\ call.claim.status = None => call.pc \in {"rules", "place", "reread"}
        /\ ~Unstored(call) => /\ call.id \in DOMAIN claims
                              /\ claims[call.id].item = call.claim.item
        /\ call.pc \in {"borrow.equip", "return.equip"} => call.equip \in Equipment

\* The identifier of a claim that is not stored yet is one no other call has.
FreshIds ==
    \A w \in InFlight :
        Unstored(req[w]) =>
            /\ req[w].id \notin DOMAIN claims
            /\ \A v \in InFlight : req[v].id = req[w].id => v = w

\* The inductive invariant behind the types, for calls that overlap in any way.
TypeInv ==
    /\ RaceTypeOK
    /\ Tables
    /\ \A w \in Worker : CallTypes(req[w])
    /\ FreshIds

-----------------------------------------------------------------------------
(***************************************************************************)
(* Types.                                                                  *)
(***************************************************************************)

\* The program counter of a call tells whether it is one.
LEMMA CallShape ==
    ASSUME NEW call \in Calls
    PROVE  /\ call.pc \in PC \cup {"idle"}
           /\ call = Idle <=> call.pc = "idle"
           /\ call.pc # "idle" => /\ call \in Request
                                  /\ call.id \in ClaimID
                                  /\ call.claim \in Snapshot
                                  /\ call.claim.item \in EquipmentID
                                  /\ call.equip \in Equipment \cup {None}
                                  /\ call.loss \in BOOLEAN
BY DEF Calls, Idle, Request, PC, Snapshot

\* A record of a call that is to be stored under a status.
LEMMA SnapshotIsClaim ==
    ASSUME NEW claim \in Snapshot, NEW status \in ClaimStatus
    PROVE  /\ [claim EXCEPT !.status = status] \in EquipmentClaim
           /\ [claim EXCEPT !.status = status].status = status
           /\ [claim EXCEPT !.status = status].item = claim.item
           /\ [claim EXCEPT !.status = status].shift = claim.shift
           /\ [claim EXCEPT !.status = status].approved = claim.approved
BY DEF Snapshot, EquipmentClaim

\* A stored claim is what a call may read.
LEMMA ClaimIsSnapshot == EquipmentClaim \subseteq Snapshot
BY DEF Snapshot, EquipmentClaim

\* A step that stores claim id on item e touches that item and its claims only.
Writes(id, e) ==
    /\ DOMAIN equipment' = DOMAIN equipment
    /\ DOMAIN claims' = DOMAIN claims \cup {id}
    /\ claims'[id].item = e
    /\ \A k \in DOMAIN equipment : k # e => equipment'[k] = equipment[k]
    /\ \A c \in DOMAIN claims :
         c # id => /\ claims'[c].item = claims[c].item
                   /\ claims[c].item # e => claims'[c] = claims[c]

\* A claim stored over claims that keep their items.
LEMMA PutWrites ==
    ASSUME Tables, NEW table,
           DOMAIN table = DOMAIN claims,
           table \in [DOMAIN table -> EquipmentClaim],
           NEW id \in ClaimID, NEW claim \in EquipmentClaim,
           claim.item \in DOMAIN equipment,
           \A c \in DOMAIN claims :
                /\ table[c].item = claims[c].item
                /\ claims[c].item # claim.item => table[c] = claims[c],
           claims' = Put(table, id, claim),
           DOMAIN equipment' = DOMAIN equipment,
           equipment' \in [DOMAIN equipment -> Equipment],
           \A k \in DOMAIN equipment : k # claim.item => equipment'[k] = equipment[k]
    PROVE  Tables' /\ Writes(id, claim.item)
<1>1. claims' = [c \in DOMAIN claims \cup {id} |->
                    IF c = id THEN claim ELSE table[c]]
  BY DEF Put
<1>2. /\ DOMAIN claims' = DOMAIN claims \cup {id}
      /\ claims'[id] = claim
      /\ \A c \in DOMAIN claims : c # id => claims'[c] = table[c]
  BY <1>1
<1>3. claims' \in [DOMAIN claims' -> EquipmentClaim]
  BY <1>1
<1>4. Tables'
  <2>1. \A c \in DOMAIN claims' : claims'[c].item \in DOMAIN equipment
    BY <1>2 DEF Tables
  <2> QED
    BY <1>2, <1>3, <2>1 DEF Tables, StoreTypeOK
<1> QED
  BY <1>2, <1>4 DEF Writes

\* The lock or the queue of store.TryLockEquipment.
LEMMA TryLockTypes ==
    ASSUME Tables, NEW id \in ClaimID, NEW claim \in Snapshot,
           TryLockEquipment(id, claim)
    PROVE  Tables' /\ Writes(id, claim.item)
<1> DEFINE e == claim.item
<1>1. /\ e \in DOMAIN equipment
      /\ equipment[e] \in Equipment
      /\ claim.shift \in ShiftID
  BY DEF TryLockEquipment, Tables, StoreTypeOK, Snapshot
<1>2. LockedFor(equipment[e], claim.shift) \in Equipment
  BY <1>1 DEF LockedFor, Equipment, EquipmentStatus
<1>3. "locked" \in ClaimStatus /\ "queued" \in ClaimStatus
  BY DEF ClaimStatus
<1>4. CASE Enqueue(id, claim)
  <2>1. PICK queued : queued = [claim EXCEPT !.status = "queued"]
    OBVIOUS
  <2>2. queued \in EquipmentClaim /\ queued.item = e
    BY <1>3, <2>1, SnapshotIsClaim
  <2>3. claims' = Put(claims, id, queued) /\ equipment' = equipment
    BY <1>4, <2>1 DEF Enqueue
  <2>4. /\ claims \in [DOMAIN claims -> EquipmentClaim]
        /\ equipment' \in [DOMAIN equipment -> Equipment]
    BY <2>3 DEF Tables, StoreTypeOK
  <2>5. Tables' /\ Writes(id, queued.item)
    BY <1>1, <2>2, <2>3, <2>4, PutWrites
  <2> QED
    BY <2>2, <2>5
<1>5. ASSUME NEW table, Seize(table, id, claim),
             DOMAIN table = DOMAIN claims,
             table \in [DOMAIN table -> EquipmentClaim],
             \A c \in DOMAIN claims :
                /\ table[c].item = claims[c].item
                /\ claims[c].item # e => table[c] = claims[c]
      PROVE  Tables' /\ Writes(id, claim.item)
  <2>1. PICK locked : locked = [claim EXCEPT !.status = "locked"]
    OBVIOUS
  <2>2. locked \in EquipmentClaim /\ locked.item = e
    BY <1>3, <2>1, SnapshotIsClaim
  <2>3. /\ claims' = Put(table, id, locked)
        /\ equipment' = [equipment EXCEPT ![e] = LockedFor(equipment[e], claim.shift)]
    BY <1>5, <2>1 DEF Seize
  <2>4. /\ equipment' \in [DOMAIN equipment -> Equipment]
        /\ \A k \in DOMAIN equipment : k # e => equipment'[k] = equipment[k]
    BY <1>1, <1>2, <2>3 DEF Tables, StoreTypeOK
  <2>5. Tables' /\ Writes(id, locked.item)
    BY <1>1, <1>5, <2>2, <2>3, <2>4, PutWrites
  <2> QED
    BY <2>2, <2>5
<1>6. CASE Seize(claims, id, claim)
  BY <1>5, <1>6 DEF Tables, StoreTypeOK
<1>7. ASSUME NEW h \in LockHolders(e),
             Seize([claims EXCEPT ![h].status = "queued"], id, claim)
      PROVE  Tables' /\ Writes(id, claim.item)
  <2>1. PICK table : table = [claims EXCEPT ![h].status = "queued"]
    OBVIOUS
  <2>2. h \in DOMAIN claims /\ claims[h].item = e /\ claims[h] \in EquipmentClaim
    BY DEF LockHolders, ClaimsOn, Tables, StoreTypeOK
  <2>3. [claims[h] EXCEPT !.status = "queued"] \in EquipmentClaim
    BY <1>3, <2>2 DEF EquipmentClaim
  <2>4. /\ DOMAIN table = DOMAIN claims
        /\ table[h] = [claims[h] EXCEPT !.status = "queued"]
        /\ \A c \in DOMAIN claims : c # h => table[c] = claims[c]
        /\ table \in [DOMAIN table -> EquipmentClaim]
    BY <2>1, <2>2, <2>3 DEF Tables, StoreTypeOK
  <2>5. table[h].item = e
    BY <2>2, <2>4 DEF EquipmentClaim
  <2>6. Seize(table, id, claim)
    BY <1>7, <2>1
  <2>7. \A c \in DOMAIN claims :
            /\ table[c].item = claims[c].item
            /\ claims[c].item # e => table[c] = claims[c]
    BY <2>2, <2>4, <2>5
  <2> QED
    BY <1>5, <2>4, <2>6, <2>7
<1> QED
  BY <1>4, <1>6, <1>7 DEF TryLockEquipment

\* The promotion of store.PromoteNextQueued.
LEMMA PromoteTypes ==
    ASSUME Tables, NEW e, NEW id \in DOMAIN claims, claims[id].item = e,
           PromoteNextQueued(equipment, claims, e)
    PROVE  Tables' /\ Writes(id, e)
<1>1. CASE equipment' = equipment /\ claims' = claims
  BY <1>1 DEF Tables, StoreTypeOK, Writes
<1>2. ASSUME e \in DOMAIN equipment,
             NEW best \in QueuedClaimsForEquipment(claims, e),
             equipment' = [equipment EXCEPT ![e] = LockedFor(@, claims[best].shift)],
             claims' = [claims EXCEPT ![best].status = "locked"]
      PROVE  Tables' /\ Writes(id, e)
  <2>1. /\ best \in DOMAIN claims
        /\ claims[best].item = e
        /\ claims[best] \in EquipmentClaim
        /\ claims[best].shift \in ShiftID
        /\ equipment[e] \in Equipment
    BY <1>2 DEF QueuedClaimsForEquipment, ClaimsOn, Tables, StoreTypeOK, EquipmentClaim
  <2>2. LockedFor(equipment[e], claims[best].shift) \in Equipment
    BY <2>1 DEF LockedFor, Equipment, EquipmentStatus
  <2>3. PICK locked : locked = [claims[best] EXCEPT !.status = "locked"]
    OBVIOUS
  <2>4. locked \in EquipmentClaim /\ locked.item = e
    BY <2>1, <2>3 DEF EquipmentClaim, ClaimStatus
  <2>5. claims' = [c \in DOMAIN claims |-> IF c = best THEN locked ELSE claims[c]]
    BY <1>2, <2>1, <2>3 DEF Tables, StoreTypeOK
  <2>6. /\ equipment' \in [DOMAIN equipment -> Equipment]
        /\ \A k \in DOMAIN equipment : k # e => equipment'[k] = equipment[k]
        /\ DOMAIN equipment' = DOMAIN equipment
    BY <1>2, <2>1, <2>2 DEF Tables, StoreTypeOK
  <2>7. DOMAIN claims' = DOMAIN claims /\ claims' \in [DOMAIN claims -> EquipmentClaim]
    BY <2>4, <2>5 DEF Tables, StoreTypeOK
  <2>8. \A c \in DOMAIN claims : claims'[c].item = claims[c].item
    BY <2>1, <2>4, <2>5
  <2>9. Tables'
    BY <2>6, <2>7, <2>8 DEF Tables, StoreTypeOK
  <2> QED
    BY <2>1, <2>5, <2>6, <2>7, <2>8, <2>9 DEF Writes
<1> QED
  BY <1>1, <1>2 DEF PromoteNextQueued

\* What the next operation of a call reads: the call under another counter.
LEMMA NextCall ==
    ASSUME NEW call \in Calls, call.pc # "idle", NEW pc \in PC,
           NEW next, next = [call EXCEPT !.pc = pc]
    PROVE  /\ next \in Request /\ next \in Calls
           /\ next.pc = pc
           /\ next.id = call.id
           /\ next.claim = call.claim
           /\ next.equip = call.equip
           /\ next.loss = call.loss
BY CallShape DEF Calls, Request

\* The identifiers a worker may go on with: none, its own, or those of a call that
\* begins with a stored claim or a fresh identifier.
MayCarry(w, call) ==
    \/ call.pc = "idle"
    \/ /\ req[w].pc # "idle"
       /\ call.id = req[w].id
       /\ Unstored(call) => Unstored(req[w]) /\ UNCHANGED storeVars
    \/ /\ UNCHANGED storeVars
       /\ \/ call.id \in DOMAIN claims /\ ~Unstored(call)
          \/ /\ call.id \notin DOMAIN claims
             /\ \A v \in InFlight : req[v].id # call.id

\* A step of one worker keeps the types when it keeps the tables and what the
\* worker goes on with.
LEMMA CallMoves ==
    ASSUME TypeInv, NEW w \in Worker, NEW call \in Calls,
           req' = [req EXCEPT ![w] = call], CallTypes(call)', MayCarry(w, call),
           Tables',
           \/ UNCHANGED storeVars
           \/ req[w].pc # "idle" /\ Writes(req[w].id, req[w].claim.item),
           UNCHANGED outside,
           \/ before' = None
           \/ call.pc # "idle" /\ (setup.overlap # "none" => before' = None)
    PROVE  TypeInv'
<1>1. req \in [Worker -> Calls]
  BY DEF TypeInv, RaceTypeOK, Calls
<1>2. /\ req' \in [Worker -> Calls]
      /\ req'[w] = call
      /\ \A v \in Worker : v # w => req'[v] = req[v]
  BY <1>1
<1>3. /\ InFlight = {v \in Worker : req[v].pc # "idle"}
      /\ InFlight' = {v \in Worker : req'[v].pc # "idle"}
  BY <1>1, <1>2, CallShape DEF InFlight
<1>4. RaceTypeOK'
  <2>1. TypeOK'
    BY DEF TypeInv, RaceTypeOK, TypeOK, Tables, ShiftTypeOK, outside, shiftVars
  <2>2. (setup.overlap # "none" \/ InFlight = {} => before = None)'
    BY <1>2, <1>3 DEF outside
  <2>3. setup' \in Setup
    BY DEF TypeInv, RaceTypeOK, outside
  <2> QED
    BY <1>2, <2>1, <2>2, <2>3 DEF RaceTypeOK, Calls, Request, Idle, Snapshot, PC
<1>5. req[w].pc # "idle" /\ req[w].id \in DOMAIN claims
        => claims[req[w].id].item = req[w].claim.item
  BY <1>3 DEF TypeInv, CallTypes, FreshIds
<1>6. /\ DOMAIN equipment' = DOMAIN equipment
      /\ \A c \in DOMAIN claims :
            c \in DOMAIN claims' /\ claims'[c].item = claims[c].item
  BY <1>5 DEF storeVars, Writes
<1>7. ASSUME NEW v \in Worker
      PROVE  CallTypes(req[v])'
  <2>1. CASE v = w
    BY <1>2, <2>1 DEF CallTypes, Unstored
  <2>2. CASE v # w
    <3>1. CallTypes(req[v]) /\ req'[v] = req[v]
      BY <1>2, <2>2 DEF TypeInv
    <3> QED
      BY <1>6, <3>1 DEF CallTypes, Unstored
  <2> QED
    BY <2>1, <2>2
<1>8. FreshIds'
  <2>1. DOMAIN claims' \subseteq DOMAIN claims \cup
            (IF UNCHANGED storeVars THEN {} ELSE {req[w].id})
    BY DEF storeVars, Writes
  <2>2. ASSUME NEW u \in InFlight', Unstored(req'[u])
        PROVE  /\ req'[u].id \notin DOMAIN claims'
               /\ \A v \in InFlight' : req'[v].id = req'[u].id => v = u
    <3>1. CASE u = w
      <4>1. call.pc # "idle" /\ Unstored(call)
        BY <1>2, <1>3, <2>2, <3>1
      <4>2. /\ UNCHANGED storeVars
            /\ call.id \notin DOMAIN claims
            /\ \A v \in InFlight : v # w => req[v].id # call.id
        BY <1>3, <4>1 DEF MayCarry, TypeInv, FreshIds
      <4> QED
        BY <1>2, <1>3, <3>1, <4>2 DEF storeVars
    <3>2. CASE u # w
      <4>1. /\ u \in InFlight
            /\ req'[u] = req[u]
            /\ req[u].id \notin DOMAIN claims
            /\ \A v \in InFlight : v # u => req[v].id # req[u].id
        BY <1>2, <1>3, <2>2, <3>2 DEF TypeInv, FreshIds
      <4>2. req[w].pc # "idle" => req[w].id # req[u].id
        BY <1>3, <3>2, <4>1
      <4>3. req[u].id \notin DOMAIN claims'
        BY <2>1, <4>1, <4>2
      <4>4. call.pc # "idle" => call.id # req[u].id
        BY <2>2, <4>1, <4>2 DEF MayCarry
      <4> QED
        BY <1>2, <1>3, <3>2, <4>1, <4>3, <4>4
    <3> QED
      BY <3>1, <3>2
  <2> QED
    BY <2>2 DEF FreshIds, Unstored
<1> QED
  BY <1>4, <1>7, <1>8 DEF TypeInv

\* A call that begins with a claim it read, or one it built.
LEMMA BeginTypes ==
    ASSUME TypeInv, NEW w \in Worker, NEW pc \in PC, NEW id \in ClaimID,
           NEW claim \in Snapshot, NEW loss, loss \in BOOLEAN,
           Begin(w, pc, id, claim, loss),
           pc \notin {"borrow.equip", "return.equip"},
           \/ /\ pc = "rules"
              /\ claim.status = None
              /\ id \notin DOMAIN claims
              /\ \A v \in InFlight : req[v].id # id
           \/ /\ id \in DOMAIN claims
              /\ claim.item = claims[id].item
              /\ claim.status # None
    PROVE  TypeInv'
<1>1. PICK call : call = [pc |-> pc, id |-> id, claim |-> claim,
                          equip |-> None, loss |-> loss]
  OBVIOUS
<1>2. call \in Calls /\ call.pc = pc /\ call.id = id /\ call.claim = claim
  BY <1>1 DEF Calls, Request
<1>3. call.pc # "idle"
  BY <1>2, CallShape DEF PC
<1>4. UNCHANGED storeVars /\ UNCHANGED outside
  BY DEF Begin
<1>5. Tables'
  BY <1>4 DEF TypeInv, Tables, StoreTypeOK, storeVars
<1>6. CallTypes(call)'
  <2>1. pc # "rules" => claim.item \in DOMAIN equipment
    BY DEF TypeInv, Tables
  <2> QED
    BY <1>2, <1>4, <2>1 DEF CallTypes, Unstored, storeVars
<1>7. MayCarry(w, call)
  BY <1>2, <1>4 DEF MayCarry, Unstored
<1>8. /\ req' = [req EXCEPT ![w] = call]
      /\ setup.overlap # "none" => before' = None
  BY <1>1 DEF Begin
<1> QED
  BY <1>2, <1>3, <1>4, <1>5, <1>6, <1>7, <1>8, CallMoves

\* Every call begins within the types.
LEMMA StartTypes ==
    ASSUME TypeInv, NEW w \in Worker, Start(w)
    PROVE  TypeInv'
<1> USE DEF PC
<1>1. ASSUME NEW id \in DOMAIN claims
      PROVE  /\ id \in ClaimID
             /\ claims[id] \in Snapshot
             /\ claims[id].status # None
             /\ [claims[id] EXCEPT !.approved = TRUE] \in Snapshot
             /\ [claims[id] EXCEPT !.approved = TRUE].item = claims[id].item
             /\ [claims[id] EXCEPT !.approved = TRUE].status = claims[id].status
  <2>1. id \in ClaimID /\ claims[id] \in EquipmentClaim
    BY DEF TypeInv, Tables, StoreTypeOK
  <2>2. claims[id].status # None
    BY <2>1, StatusAssumption DEF EquipmentClaim
  <2>3. PICK claim : claim = claims[id]
    OBVIOUS
  <2>4. claim \in EquipmentClaim
    BY <2>1, <2>3
  <2>5. /\ claim \in Snapshot
        /\ [claim EXCEPT !.approved = TRUE] \in Snapshot
        /\ [claim EXCEPT !.approved = TRUE].item = claim.item
        /\ [claim EXCEPT !.approved = TRUE].status = claim.status
    BY <2>4 DEF EquipmentClaim, Snapshot
  <2> QED
    BY <2>1, <2>2, <2>3, <2>5
<1>2. ASSUME NEW id \in ClaimID, NEW officer \in Officer, NEW s \in ShiftID,
             NEW e \in EquipmentID, BeginSubmit(w, id, officer, s, e)
      PROVE  TypeInv'
  <2>1. NewClaim(s, e) \in Snapshot /\ NewClaim(s, e).status = None
    BY DEF NewClaim, Snapshot, TypeInv, RaceTypeOK, TypeOK, ShiftTypeOK
  <2> QED
    BY <1>2, <2>1, BeginTypes DEF BeginSubmit
<1>3. ASSUME NEW id \in ClaimID, BeginApprove(w, id)
      PROVE  TypeInv'
  BY <1>1, <1>3, BeginTypes DEF BeginApprove
<1>4. ASSUME NEW id \in ClaimID, BeginBorrow(w, id)
      PROVE  TypeInv'
  BY <1>1, <1>4, BeginTypes DEF BeginBorrow
<1>5. ASSUME NEW id \in ClaimID, NEW loss \in BOOLEAN, BeginReturn(w, id, loss)
      PROVE  TypeInv'
  <2>1. id \in DOMAIN claims /\ Begin(w, "return.save", id, claims[id], loss)
    BY <1>5 DEF BeginReturn
  <2>2. PICK claim, pc : claim = claims[id] /\ pc = "return.save"
    OBVIOUS
  <2>3. /\ id \in ClaimID /\ claim \in Snapshot
        /\ claim.status # None /\ claim.item = claims[id].item
    BY <1>1, <2>1, <2>2
  <2>4. pc \in PC \ {"borrow.equip", "return.equip"}
    BY <2>2 DEF PC
  <2>5. Begin(w, pc, id, claim, loss)
    BY <2>1, <2>2
  <2> QED
    BY <2>1, <2>3, <2>4, <2>5, BeginTypes
<1>6. ASSUME NEW id \in ClaimID, BeginCancel(w, id)
      PROVE  TypeInv'
  BY <1>1, <1>6, BeginTypes DEF BeginCancel
<1> QED
  BY <1>2, <1>3, <1>4, <1>5, <1>6 DEF Start

\* What is known of a call in flight.
LEMMA CallFacts ==
    ASSUME TypeInv, NEW w \in Worker, req[w].pc # "idle"
    PROVE  /\ req[w] \in Calls
           /\ req[w] \in Request
           /\ req[w].id \in ClaimID
           /\ req[w].claim \in Snapshot
           /\ req[w].claim.item \in EquipmentID
           /\ req[w].loss \in BOOLEAN
           /\ CallTypes(req[w])
           /\ w \in InFlight
           /\ setup.overlap # "none" => before = None
<1>1. req[w] \in Calls
  BY DEF TypeInv, RaceTypeOK, Calls
<1> QED
  BY <1>1, CallShape DEF TypeInv, RaceTypeOK, InFlight

\* An operation of the store, after which the call goes on or returns.
LEMMA OperationTypes ==
    ASSUME TypeInv, NEW w \in Worker, req[w].pc # "idle",
           Tables',
           UNCHANGED storeVars \/ Writes(req[w].id, req[w].claim.item)
    PROVE  /\ Finish(w) => TypeInv'
           /\ \A pc \in PC :
                 /\ Goto(w, pc)
                 /\ pc \notin {"rules", "borrow.equip", "return.equip"}
                 /\ req[w].claim.item \in DOMAIN equipment
                 /\ req[w].claim.status # None \/ pc = "reread"
                 /\ ~Unstored(req[w]) \/ ~UNCHANGED storeVars
                 => TypeInv'
<1>1. CASE Finish(w)
  <2>1. Idle \in Calls /\ Idle.pc = "idle"
    BY DEF Calls, Idle
  <2>2. CallTypes(Idle)' /\ MayCarry(w, Idle)
    BY <2>1 DEF CallTypes, MayCarry, Idle
  <2> QED
    BY <1>1, <2>1, <2>2, CallMoves DEF Finish
<1>2. ASSUME NEW pc \in PC,
             Goto(w, pc),
             pc \notin {"rules", "borrow.equip", "return.equip"},
             req[w].claim.item \in DOMAIN equipment,
             req[w].claim.status # None \/ pc = "reread",
             ~Unstored(req[w]) \/ ~UNCHANGED storeVars
      PROVE  TypeInv'
  <2>1. PICK call : call = [req[w] EXCEPT !.pc = pc]
    OBVIOUS
  <2>2. /\ call \in Calls
        /\ call.pc = pc
        /\ call.pc # "idle"
        /\ call.id = req[w].id
        /\ call.claim = req[w].claim
    BY <2>1, CallFacts, NextCall DEF PC
  <2>3. /\ DOMAIN equipment' = DOMAIN equipment
        /\ req[w].id \in DOMAIN claims'
        /\ claims'[req[w].id].item = req[w].claim.item
    <3>1. CASE UNCHANGED storeVars
      BY <1>2, <3>1, CallFacts DEF storeVars, CallTypes
    <3>2. CASE Writes(req[w].id, req[w].claim.item)
      BY <3>2 DEF Writes
    <3> QED
      BY <3>1, <3>2
  <2>4. CallTypes(call)'
    BY <1>2, <2>2, <2>3 DEF CallTypes, Unstored
  <2>5. MayCarry(w, call)
    BY <1>2, <2>2 DEF MayCarry, Unstored
  <2>6. req' = [req EXCEPT ![w] = call]
    BY <1>2, <2>1 DEF Goto
  <2>7. /\ UNCHANGED outside
        /\ setup.overlap # "none" => before' = None
    BY <1>2, CallFacts DEF Goto
  <2> QED
    BY <2>2, <2>4, <2>5, <2>6, <2>7, CallMoves
<1> QED
  BY <1>1, <1>2

\* A record of the call stored under a status.
LEMMA SaveClaimTypes ==
    ASSUME TypeInv, NEW w \in Worker, req[w].pc # "idle",
           req[w].claim.item \in DOMAIN equipment,
           NEW status \in ClaimStatus, SaveClaim(w, status)
    PROVE  Tables' /\ Writes(req[w].id, req[w].claim.item)
<1>1. PICK claim : claim = [req[w].claim EXCEPT !.status = status]
  OBVIOUS
<1>2. claim \in EquipmentClaim /\ claim.item = req[w].claim.item
  BY <1>1, CallFacts, SnapshotIsClaim
<1>3. claims' = Put(claims, req[w].id, claim) /\ equipment' = equipment
  BY <1>1 DEF SaveClaim
<1>4. /\ claims \in [DOMAIN claims -> EquipmentClaim]
      /\ equipment' \in [DOMAIN equipment -> Equipment]
  BY <1>3 DEF TypeInv, Tables, StoreTypeOK
<1>5. Tables' /\ Writes(req[w].id, claim.item)
  BY <1>2, <1>3, <1>4, CallFacts, PutWrites DEF TypeInv
<1> QED
  BY <1>2, <1>5

\* The item of the call rewritten.
LEMMA SaveEquipmentTypes ==
    ASSUME TypeInv, NEW w \in Worker, req[w].pc # "idle", ~Unstored(req[w]),
           req[w].claim.item \in DOMAIN equipment,
           NEW item \in Equipment,
           equipment' = [equipment EXCEPT ![req[w].claim.item] = item],
           UNCHANGED claims
    PROVE  Tables' /\ Writes(req[w].id, req[w].claim.item)
<1>1. /\ DOMAIN equipment' = DOMAIN equipment
      /\ equipment' \in [DOMAIN equipment -> Equipment]
      /\ \A k \in DOMAIN equipment :
            k # req[w].claim.item => equipment'[k] = equipment[k]
  BY DEF TypeInv, Tables, StoreTypeOK
<1>2. Tables'
  BY <1>1 DEF TypeInv, Tables, StoreTypeOK
<1>3. /\ req[w].id \in DOMAIN claims
      /\ claims[req[w].id].item = req[w].claim.item
  BY CallFacts DEF CallTypes
<1>4. DOMAIN claims = DOMAIN claims \cup {req[w].id}
  BY <1>3
<1>5. Writes(req[w].id, req[w].claim.item)
  BY <1>1, <1>3, <1>4 DEF Writes
<1> QED
  BY <1>2, <1>5

\* A read of the store that goes on with what it read.
LEMMA ReadTypes ==
    ASSUME TypeInv, NEW w \in Worker, req[w].pc # "idle",
           NEW call \in Calls, req' = [req EXCEPT ![w] = call],
           call.pc # "idle", call.id = req[w].id, CallTypes(call),
           Unstored(call) => Unstored(req[w]),
           UNCHANGED <<before, outside, storeVars>>
    PROVE  TypeInv'
<1>1. Tables'
  BY DEF storeVars, TypeInv, Tables, StoreTypeOK
<1>2. CallTypes(call)'
  BY DEF storeVars, CallTypes, Unstored
<1>3. MayCarry(w, call)
  BY DEF MayCarry
<1>4. setup.overlap # "none" => before' = None
  BY CallFacts
<1> QED
  BY <1>1, <1>2, <1>3, <1>4, CallMoves

\* The reads: the rules of a claim, the claim that won and the item of a claim.
LEMMA CheckRulesTypes ==
    ASSUME TypeInv, NEW w \in Worker, CheckRules(w)
    PROVE  TypeInv'
<1>1. /\ req[w].pc = "rules"
      /\ req[w].pc # "idle"
      /\ UNCHANGED storeVars
  BY DEF CheckRules, At
<1>2. CASE Finish(w)
  <2>1. Tables'
    BY <1>1 DEF storeVars, TypeInv, Tables, StoreTypeOK
  <2> QED
    BY <1>1, <1>2, <2>1, OperationTypes
<1>3. ASSUME RulesHold(req[w].claim, Submitting(w)),
             req' = [req EXCEPT
                       ![w].pc = "place",
                       ![w].claim.submittedAt =
                            IF Submitting(w) THEN clock ELSE @],
             UNCHANGED <<before, outside>>
      PROVE  TypeInv'
  <2>1. clock \in Nat
    BY DEF TypeInv, RaceTypeOK, TypeOK, ShiftTypeOK
  <2>2. PICK at : at = IF Submitting(w) THEN clock ELSE req[w].claim.submittedAt
    OBVIOUS
  <2>3. at \in Nat
    BY <1>1, <2>1, <2>2, CallFacts DEF Snapshot
  <2>4. PICK claim : claim = [req[w].claim EXCEPT !.submittedAt = at]
    OBVIOUS
  <2>5. /\ claim \in Snapshot
        /\ claim.item = req[w].claim.item
        /\ claim.status = req[w].claim.status
    BY <1>1, <2>3, <2>4, CallFacts DEF Snapshot
  <2>6. PICK call : call = [req[w] EXCEPT !.pc = "place", !.claim = claim]
    OBVIOUS
  <2>7. /\ call \in Calls
        /\ call.pc = "place"
        /\ call.id = req[w].id
        /\ call.claim = claim
    BY <1>1, <2>5, <2>6, CallFacts DEF Calls, Request, PC
  <2>8. req' = [req EXCEPT ![w] = call]
    BY <1>1, <1>3, <2>2, <2>4, <2>6, CallFacts DEF Request
  <2>9. CallTypes(call)
    BY <1>1, <1>3, <2>5, <2>7, CallFacts DEF CallTypes, Unstored, RulesHold
  <2>10. Unstored(call) => Unstored(req[w])
    BY <1>1, <2>5, <2>7 DEF Unstored
  <2> QED
    BY <1>1, <1>3, <2>7, <2>8, <2>9, <2>10, ReadTypes
<1> QED
  BY <1>2, <1>3 DEF CheckRules

LEMMA RereadTypes ==
    ASSUME TypeInv, NEW w \in Worker, Reread(w)
    PROVE  TypeInv'
<1>1. /\ req[w].pc = "reread"
      /\ req[w].pc # "idle"
      /\ req' = [req EXCEPT ![w].pc = "stamp", ![w].claim = claims[req[w].id]]
      /\ UNCHANGED <<before, outside, storeVars>>
  BY DEF Reread, At
<1>2. req[w].id \in DOMAIN claims
  BY <1>1, CallFacts DEF CallTypes, Unstored
<1>3. PICK claim : claim = claims[req[w].id]
  OBVIOUS
<1>4. claim \in EquipmentClaim /\ claim \in Snapshot /\ claim.item \in DOMAIN equipment
  BY <1>2, <1>3, ClaimIsSnapshot DEF TypeInv, Tables, StoreTypeOK
<1>5. claim.status # None
  BY <1>4, StatusAssumption DEF EquipmentClaim
<1>6. PICK call : call = [req[w] EXCEPT !.pc = "stamp", !.claim = claim]
  OBVIOUS
<1>7. /\ call \in Calls
      /\ call.pc = "stamp"
      /\ call.id = req[w].id
      /\ call.claim = claim
  BY <1>1, <1>4, <1>6, CallFacts DEF Calls, Request, PC
<1>8. req' = [req EXCEPT ![w] = call]
  BY <1>1, <1>3, <1>6, CallFacts DEF Request
<1>9. CallTypes(call) /\ ~Unstored(call)
  BY <1>2, <1>3, <1>4, <1>5, <1>7 DEF CallTypes, Unstored
<1> QED
  BY <1>1, <1>7, <1>8, <1>9, ReadTypes

LEMMA LoadTypes ==
    ASSUME TypeInv, NEW w \in Worker, NEW pc,
           pc \in {"borrow.equip", "return.equip"},
           req[w].pc \in {"borrow.load", "return.load"}, LoadEquipment(w, pc)
    PROVE  TypeInv'
<1>1. /\ req[w].pc # "idle"
      /\ req' = [req EXCEPT ![w].pc = pc,
                            ![w].equip = equipment[req[w].claim.item]]
      /\ UNCHANGED <<before, outside, storeVars>>
  BY DEF LoadEquipment
<1>2. /\ req[w].claim.item \in DOMAIN equipment
      /\ req[w].claim.status # None
      /\ ~Unstored(req[w])
  BY <1>1, CallFacts DEF CallTypes, Unstored
<1>3. PICK item : item = equipment[req[w].claim.item]
  OBVIOUS
<1>4. item \in Equipment
  BY <1>2, <1>3 DEF TypeInv, Tables, StoreTypeOK
<1>5. PICK call : call = [req[w] EXCEPT !.pc = pc, !.equip = item]
  OBVIOUS
<1>6. /\ call \in Calls
      /\ call.pc = pc
      /\ call.id = req[w].id
      /\ call.claim = req[w].claim
      /\ call.equip = item
  BY <1>1, <1>4, <1>5, CallFacts DEF Calls, Request, PC
<1>7. req' = [req EXCEPT ![w] = call]
  BY <1>1, <1>3, <1>5, CallFacts DEF Request
<1>8. CallTypes(call) /\ ~Unstored(call)
  BY <1>1, <1>2, <1>4, <1>6, CallFacts DEF CallTypes, Unstored
<1>9. call.pc # "idle"
  BY <1>6
<1> QED
  BY <1>1, <1>6, <1>7, <1>8, <1>9, ReadTypes

\* The lock or the queue, after which a winner goes on to its stamp.
LEMMA PlaceTypes ==
    ASSUME TypeInv, NEW w \in Worker, Place(w)
    PROVE  TypeInv'
<1>1. req[w].pc = "place" /\ req[w].pc # "idle"
  BY DEF Place, At
<1>2. /\ req[w].id \in ClaimID
      /\ req[w].claim \in Snapshot
      /\ req[w].claim.item \in DOMAIN equipment
  BY <1>1, CallFacts DEF CallTypes
<1>3. CASE Enqueue(req[w].id, req[w].claim) /\ Finish(w)
  <2>1. SaveClaim(w, "queued")
    BY <1>3 DEF Enqueue, SaveClaim
  <2>2. Tables' /\ Writes(req[w].id, req[w].claim.item)
    BY <1>1, <1>2, <2>1, SaveClaimTypes DEF ClaimStatus
  <2> QED
    BY <1>1, <1>3, <2>2, OperationTypes
<1>4. ASSUME TryLockEquipment(req[w].id, req[w].claim)
      PROVE  Tables' /\ Writes(req[w].id, req[w].claim.item)
  BY <1>2, <1>4, TryLockTypes DEF TypeInv
<1>5. CASE TryLockEquipment(req[w].id, req[w].claim) /\ Finish(w)
  BY <1>1, <1>4, <1>5, OperationTypes
<1>6. CASE TryLockEquipment(req[w].id, req[w].claim) /\ Goto(w, "reread")
  <2>1. ASSUME Unstored(req[w])
        PROVE  ~UNCHANGED storeVars
    <3>1. req[w].id \notin DOMAIN claims
      BY <1>1, <2>1, CallFacts DEF TypeInv, FreshIds
    <3>2. req[w].id \in DOMAIN claims'
      BY <1>4, <1>6 DEF Writes
    <3> QED
      BY <3>1, <3>2 DEF storeVars
  <2> QED
    BY <1>1, <1>2, <1>4, <1>6, <2>1, OperationTypes DEF PC
<1> QED
  BY <1>3, <1>5, <1>6 DEF Place

\* A record of the call stored, after which it goes on or returns.
LEMMA SaveTypes ==
    ASSUME TypeInv, NEW w \in Worker, NEW status \in ClaimStatus,
           req[w].pc \in {"stamp", "borrow.save", "return.save", "cancel.save"},
           SaveClaim(w, status),
           \/ Finish(w)
           \/ \E pc \in {"borrow.load", "return.load", "cancel.release"} : Goto(w, pc)
    PROVE  TypeInv'
<1>1. /\ req[w].pc # "idle"
      /\ req[w].claim.item \in DOMAIN equipment
      /\ req[w].claim.status # None
      /\ ~Unstored(req[w])
  BY CallFacts DEF CallTypes, Unstored
<1>2. Tables' /\ Writes(req[w].id, req[w].claim.item)
  BY <1>1, SaveClaimTypes
<1> QED
  BY <1>1, <1>2, OperationTypes DEF PC

\* The item of the call written, after which it goes on or returns.
LEMMA EquipTypes ==
    ASSUME TypeInv, NEW w \in Worker, NEW item \in Equipment,
           req[w].pc \in {"borrow.equip", "return.equip", "cancel.release"},
           equipment' = [equipment EXCEPT ![req[w].claim.item] = item],
           UNCHANGED claims,
           \/ Finish(w)
           \/ \E pc \in {"return.promote", "cancel.promote"} : Goto(w, pc)
    PROVE  TypeInv'
<1>1. /\ req[w].pc # "idle"
      /\ req[w].claim.item \in DOMAIN equipment
      /\ req[w].claim.status # None
      /\ ~Unstored(req[w])
  BY CallFacts DEF CallTypes, Unstored
<1>2. Tables' /\ Writes(req[w].id, req[w].claim.item)
  BY <1>1, SaveEquipmentTypes
<1> QED
  BY <1>1, <1>2, OperationTypes DEF PC

\* An item free of everyone is one.
LEMMA ClearedTypes ==
    \A status \in EquipmentStatus : Cleared(status) \in Equipment
BY DEF Cleared, Equipment

\* Every operation of a call keeps the types.
LEMMA ContinueTypes ==
    ASSUME TypeInv, NEW w \in Worker, Continue(w)
    PROVE  TypeInv'
<1> USE DEF At
<1>1. CASE Stamp(w)
  <2>1. req[w].pc = "stamp" /\ SaveClaim(w, req[w].claim.status) /\ Finish(w)
    BY <1>1 DEF Stamp
  <2>2. req[w].claim.status \in ClaimStatus
    BY <2>1, CallFacts DEF CallTypes, Snapshot
  <2> QED
    BY <2>1, <2>2, SaveTypes
<1>2. CASE BorrowSave(w)
  BY <1>2, SaveTypes DEF BorrowSave, ClaimStatus
<1>3. CASE ReturnSave(w)
  BY <1>3, SaveTypes DEF ReturnSave, ClaimStatus
<1>4. CASE CancelSave(w)
  BY <1>4, SaveTypes DEF CancelSave, ClaimStatus
<1>5. CASE BorrowLoad(w)
  BY <1>5, LoadTypes DEF BorrowLoad
<1>6. CASE ReturnLoad(w)
  BY <1>6, LoadTypes DEF ReturnLoad
<1>7. CASE BorrowEquip(w)
  <2>1. PICK item : item = [req[w].equip EXCEPT !.status = "borrowed",
                                                !.heldBy = OfficerOf(req[w].claim)]
    OBVIOUS
  <2>2. /\ req[w].pc = "borrow.equip"
        /\ equipment' = [equipment EXCEPT ![req[w].claim.item] = item]
        /\ UNCHANGED claims
        /\ Finish(w)
    BY <1>7, <2>1 DEF BorrowEquip, SaveEquipment
  <2>3. /\ req[w].equip \in Equipment
        /\ OfficerOf(req[w].claim) \in Officer
    BY <2>2, CallFacts, DomainAssumption DEF CallTypes, Snapshot, OfficerOf
  <2>4. item \in Equipment
    BY <2>1, <2>3 DEF Equipment, EquipmentStatus
  <2> QED
    BY <2>2, <2>4, EquipTypes
<1>8. CASE ReturnEquip(w)
  <2>1. PICK status : status = IF req[w].loss THEN "maintenance" ELSE "available"
    OBVIOUS
  <2>2. /\ req[w].pc = "return.equip"
        /\ equipment' = [equipment EXCEPT ![req[w].claim.item] = Cleared(status)]
        /\ UNCHANGED claims
        /\ Goto(w, "return.promote")
    BY <1>8, <2>1 DEF ReturnEquip, SaveEquipment
  <2>3. Cleared(status) \in Equipment
    BY <2>1, ClearedTypes DEF EquipmentStatus
  <2> QED
    BY <2>2, <2>3, EquipTypes
<1>9. CASE CancelRelease(w)
  <2>1. /\ req[w].pc = "cancel.release"
        /\ equipment' = Released(req[w].claim.item)
        /\ UNCHANGED claims
        /\ Goto(w, "cancel.promote")
    BY <1>9 DEF CancelRelease
  <2>2. req[w].claim.item \in DOMAIN equipment
    BY <2>1, CallFacts DEF CallTypes
  <2>3. equipment' = [equipment EXCEPT ![req[w].claim.item] = Cleared("available")]
    BY <2>1, <2>2 DEF Released
  <2>4. Cleared("available") \in Equipment
    BY ClearedTypes DEF EquipmentStatus
  <2> QED
    BY <2>1, <2>3, <2>4, EquipTypes
<1>10. CASE Promote(w)
  <2>1. /\ req[w].pc \in {"return.promote", "cancel.promote"}
        /\ req[w].pc # "idle"
        /\ PromoteNextQueued(equipment, claims, req[w].claim.item)
        /\ Finish(w)
    BY <1>10 DEF Promote
  <2>2. req[w].id \in DOMAIN claims /\ claims[req[w].id].item = req[w].claim.item
    BY <2>1, CallFacts DEF CallTypes, Unstored
  <2>3. Tables' /\ Writes(req[w].id, req[w].claim.item)
    BY <2>1, <2>2, PromoteTypes DEF TypeInv
  <2> QED
    BY <2>1, <2>3, OperationTypes
<1> QED
  BY <1>1, <1>2, <1>3, <1>4, <1>5, <1>6, <1>7, <1>8, <1>9, <1>10,
     CheckRulesTypes, PlaceTypes, RereadTypes DEF Continue

\* What stays within the types between the operations of the calls.
LEMMA ElsewhereTypes ==
    ASSUME TypeInv, Elsewhere
    PROVE  TypeInv'
<1>1. /\ ShiftNext
      /\ UNCHANGED storeVars
      /\ UNCHANGED <<weather, setup, req, before>>
  BY DEF Elsewhere, ShiftStep
<1>2. ShiftTypeOK'
  BY <1>1, ShiftTypes DEF TypeInv, RaceTypeOK, TypeOK
<1> QED
  BY <1>1, <1>2 DEF TypeInv, RaceTypeOK, TypeOK, Tables, StoreTypeOK, storeVars,
     CallTypes, Unstored, FreshIds, InFlight

\* A step that changes nothing.
LEMMA StutterTypes ==
    ASSUME TypeInv, UNCHANGED raceVars
    PROVE  TypeInv'
BY DEF TypeInv, RaceTypeOK, TypeOK, ShiftTypeOK, Tables, StoreTypeOK, raceVars,
   CallTypes, Unstored, FreshIds, InFlight

\* The tables of a setup and no call in flight.
LEMMA InitEstablishesTypes == RaceInit => TypeInv
<1> SUFFICES ASSUME RaceInit PROVE TypeInv
  OBVIOUS
<1>1. /\ setup \in Setup
      /\ setup.approved \subseteq ShiftID
      /\ setup.items \subseteq EquipmentID
      /\ setup.start \in Nat
  BY SetupAssumption DEF RaceInit
<1>2. Cleared("available") \in Equipment
  BY ClearedTypes DEF EquipmentStatus
<1>3. /\ DOMAIN equipment = setup.items
      /\ equipment \in [DOMAIN equipment -> Equipment]
      /\ DOMAIN claims = {}
      /\ claims \in [DOMAIN claims -> EquipmentClaim]
  BY <1>2 DEF RaceInit
<1>4. TypeOK
  <2>1. ShiftTypeOK
    BY <1>1 DEF RaceInit, ShiftTypeOK, ShiftStatus
  <2> QED
    BY <1>1, <1>3, <2>1 DEF TypeOK, StoreTypeOK, RaceInit
<1>5. \A w \in Worker : req[w] = Idle
  BY DEF RaceInit
<1>6. InFlight = {}
  BY <1>5 DEF InFlight
<1>7. RaceTypeOK
  BY <1>1, <1>4 DEF RaceTypeOK, RaceInit
<1>8. \A w \in Worker : CallTypes(req[w])
  BY <1>5 DEF CallTypes, Idle
<1> QED
  BY <1>3, <1>4, <1>6, <1>7, <1>8 DEF TypeInv, Tables, TypeOK, FreshIds

LEMMA StepKeepsTypes == TypeInv /\ [RaceNext]_raceVars => TypeInv'
BY StartTypes, ContinueTypes, ElsewhereTypes, StutterTypes DEF RaceNext

\* A call that goes on with what it read before finds its item and its claim
\* stored, and the claims that are being submitted have identifiers of their own,
\* however the calls overlap.
THEOREM CallsStayTyped == RaceSpec => []TypeInv
BY InitEstablishesTypes, StepKeepsTypes, PTL DEF RaceSpec

\* Every table and every record a call goes on with has its type, in every state
\* of calls that overlap in any way.
THEOREM RaceTypeCorrectness == RaceSpec => []RaceTypeOK
<1>1. TypeInv => RaceTypeOK
  BY DEF TypeInv
<1> QED
  BY <1>1, CallsStayTyped, PTL

-----------------------------------------------------------------------------
(***************************************************************************)
(* Custody, where no two calls in flight concern the same item.            *)
(***************************************************************************)

\* Claim c holds item e.
Holds(c, e) == claims[c].item = e /\ IsActive(claims[c].status)

\* At most one claim holds item e.
UniqueAt(e) == \A c, d \in DOMAIN claims : Holds(c, e) /\ Holds(d, e) => c = d

\* The row of item e names the claim that holds it.
AgreeAt(e) ==
    /\ UniqueAt(e)
    /\ \A c \in DOMAIN claims :
         Holds(c, e) =>
            /\ equipment[e].status = claims[c].status
            /\ equipment[e].lockedBy = claims[c].shift
            /\ claims[c].status = "borrowed" =>
                    equipment[e].heldBy = OfficerOf(claims[c])

\* No claim waits for item e while it is free, an unapproved one excepted.
ServedAt(e) ==
    e \in DOMAIN equipment /\ equipment[e].status = "available" =>
        \A c \in DOMAIN claims :
            claims[c].item = e /\ claims[c].status = "queued" =>
                CrossStation(claims[c]) /\ ~claims[c].approved

\* Item e as every call leaves it when it returns.
Settled(e) == AgreeAt(e) /\ ServedAt(e)

\* Item e under a call: settled until the call writes the claim, then with the
\* claim written and the row behind, then without the promotion.
CallInv(call) ==
    LET e == call.claim.item
    IN  /\ call.pc \in {"rules", "place", "reread", "stamp", "borrow.save",
                        "return.save", "cancel.save"} => Settled(e)
        /\ call.pc \in {"rules", "place"} /\ call.claim.status = None =>
                ~call.claim.approved
        /\ call.pc \in {"stamp", "borrow.save", "return.save", "cancel.save"} =>
                claims[call.id] = call.claim
        /\ call.pc = "borrow.save" => call.claim.status = "locked"
        /\ call.pc = "return.save" => call.claim.status = "borrowed"
        /\ call.pc \in {"borrow.load", "borrow.equip"} =>
                /\ claims[call.id] = [call.claim EXCEPT !.status = "borrowed"]
                /\ UniqueAt(e)
        /\ call.pc = "borrow.load" => equipment[e].lockedBy = call.claim.shift
        /\ call.pc = "borrow.equip" => call.equip.lockedBy = call.claim.shift
        /\ call.pc \in {"return.load", "return.equip", "cancel.release"} =>
                Unheld(claims, e)
        /\ call.pc \in {"return.promote", "cancel.promote"} => AgreeAt(e)

\* Every item is settled or under one call that accounts for what it lacks.
SeparateCustody ==
    /\ \A e \in EquipmentID : ~Busy(e) => Settled(e)
    /\ \A w \in InFlight : CallInv(req[w])
    /\ \A v, w \in InFlight : req[v].claim.item = req[w].claim.item => v = w

\* The inductive invariant of calls that do not meet on an item.
SeparateInv ==
    /\ TypeInv
    /\ setup.overlap # "any" => SeparateCustody

\* The item of a stored claim is the one its call names.
LEMMA OwnItem ==
    ASSUME TypeInv, NEW w \in Worker, req[w].pc # "idle", req[w].id \in DOMAIN claims
    PROVE  claims[req[w].id].item = req[w].claim.item
BY CallFacts DEF TypeInv, CallTypes, FreshIds

\* The calls in flight, by their program counters.
LEMMA InFlightIs ==
    ASSUME TypeInv
    PROVE  InFlight = {v \in Worker : req[v].pc # "idle"}
<1>1. \A v \in Worker : req[v] \in Calls
  BY DEF TypeInv, RaceTypeOK, Calls
<1> QED
  BY <1>1, CallShape DEF InFlight

\* A step that touches item e leaves every other item and its claims as they are.
LEMMA Frame ==
    ASSUME Tables, NEW id, NEW e, Writes(id, e),
           id \in DOMAIN claims => claims[id].item = e,
           NEW k, k # e
    PROVE  /\ \A c \in DOMAIN claims' :
                claims'[c].item = k => c \in DOMAIN claims /\ claims'[c] = claims[c]
           /\ \A c \in DOMAIN claims :
                claims[c].item = k => c \in DOMAIN claims' /\ claims'[c] = claims[c]
           /\ k \in DOMAIN equipment' <=> k \in DOMAIN equipment
           /\ k \in DOMAIN equipment => equipment'[k] = equipment[k]
           /\ \A c \in DOMAIN claims : claims[c].item \in DOMAIN equipment
<1>1. \A c \in DOMAIN claims' :
        claims'[c].item = k => c \in DOMAIN claims /\ claims'[c] = claims[c]
  BY DEF Writes
<1>2. \A c \in DOMAIN claims :
        claims[c].item = k => c \in DOMAIN claims' /\ claims'[c] = claims[c]
  BY DEF Writes
<1> QED
  BY <1>1, <1>2 DEF Writes, Tables

LEMMA FrameSettled ==
    ASSUME Tables, NEW id, NEW e, Writes(id, e),
           id \in DOMAIN claims => claims[id].item = e,
           NEW k, k # e
    PROVE  /\ UniqueAt(k) => UniqueAt(k)'
           /\ AgreeAt(k) => AgreeAt(k)'
           /\ Settled(k) => Settled(k)'
           /\ Unheld(claims, k) => Unheld(claims', k)
<1>1. ASSUME UniqueAt(k)
      PROVE  UniqueAt(k)'
  BY <1>1, Frame DEF UniqueAt, Holds
<1>2. ASSUME AgreeAt(k)
      PROVE  AgreeAt(k)'
  <2>1. UniqueAt(k)'
    BY <1>1, <1>2 DEF AgreeAt
  <2>2. ASSUME NEW c \in DOMAIN claims', Holds(c, k)'
        PROVE  /\ equipment'[k].status = claims'[c].status
               /\ equipment'[k].lockedBy = claims'[c].shift
               /\ claims'[c].status = "borrowed" =>
                    equipment'[k].heldBy = OfficerOf(claims'[c])
    BY <1>2, <2>2, Frame DEF AgreeAt, Holds
  <2> QED
    BY <2>1, <2>2 DEF AgreeAt
<1>3. ASSUME ServedAt(k)
      PROVE  ServedAt(k)'
  BY <1>3, Frame DEF ServedAt
<1>4. ASSUME Unheld(claims, k)
      PROVE  Unheld(claims', k)
  BY <1>4, Frame DEF Unheld
<1> QED
  BY <1>1, <1>2, <1>3, <1>4 DEF Settled

\* A call on another item stays where it is.
LEMMA FrameCall ==
    ASSUME TypeInv, NEW w \in Worker, req[w].pc # "idle",
           Writes(req[w].id, req[w].claim.item),
           NEW v \in Worker, req[v].pc # "idle",
           req[v].claim.item # req[w].claim.item,
           NEW call, call = req[v], CallInv(call)
    PROVE  CallInv(call)'
<1>1. PICK id, e, k : id = req[w].id /\ e = req[w].claim.item /\ k = call.claim.item
  OBVIOUS
<1>2. /\ Tables
      /\ Writes(id, e)
      /\ id \in DOMAIN claims => claims[id].item = e
      /\ k # e
  BY <1>1, OwnItem DEF TypeInv
<1>3. /\ UniqueAt(k) => UniqueAt(k)'
      /\ AgreeAt(k) => AgreeAt(k)'
      /\ Settled(k) => Settled(k)'
      /\ Unheld(claims, k) => Unheld(claims', k)
  BY <1>2, FrameSettled
<1>4. CallTypes(call)
  BY CallFacts
<1>5. call.pc \in {"stamp", "borrow.save", "return.save", "cancel.save",
                   "borrow.load", "borrow.equip"} =>
        claims'[call.id] = claims[call.id]
  BY <1>1, <1>2, <1>4, Frame DEF CallTypes, Unstored
<1>6. call.pc = "borrow.load" => equipment'[k] = equipment[k]
  BY <1>1, <1>2, <1>4, Frame DEF CallTypes
<1> QED
  BY <1>1, <1>3, <1>5, <1>6 DEF CallInv

\* What a step that writes neither table leaves.
LEMMA FrameTables ==
    ASSUME UNCHANGED storeVars
    PROVE  /\ \A k : Settled(k) <=> Settled(k)'
           /\ \A k : AgreeAt(k) <=> AgreeAt(k)'
           /\ \A call : CallInv(call) <=> CallInv(call)'
BY DEF storeVars, Settled, AgreeAt, ServedAt, UniqueAt, Holds, CallInv, Unheld

\* An operation of a call, which accounts for its item after it.
LEMMA CallSettles ==
    ASSUME TypeInv, TypeInv', SeparateCustody,
           NEW w \in Worker, NEW e, req[w].pc # "idle", e = req[w].claim.item,
           UNCHANGED storeVars \/ Writes(req[w].id, e),
           NEW call, req' = [req EXCEPT ![w] = call],
           \/ call.pc = "idle" /\ Settled(e)'
           \/ call.pc # "idle" /\ call.claim.item = e /\ CallInv(call)'
    PROVE  SeparateCustody'
<1>1. /\ req'[w] = call
      /\ \A v \in Worker : v # w => req'[v] = req[v]
  BY DEF TypeInv, RaceTypeOK
<1>2. /\ InFlight = {v \in Worker : req[v].pc # "idle"}
      /\ InFlight' = {v \in Worker : req'[v].pc # "idle"}
  <2>1. \A v \in Worker : req'[v] \in Calls
    BY DEF TypeInv, RaceTypeOK, Calls, Request, Snapshot, Idle
  <2>2. InFlight' = {v \in Worker : req'[v].pc # "idle"}
    BY <2>1, CallShape DEF InFlight, Idle
  <2> QED
    BY <2>2, InFlightIs
<1>3. w \in InFlight
  BY <1>2
<1>4. ASSUME NEW v \in InFlight', v # w
      PROVE  v \in InFlight /\ req'[v] = req[v] /\ req[v].claim.item # e
  BY <1>1, <1>2, <1>3, <1>4 DEF SeparateCustody
<1>5. ASSUME NEW k \in EquipmentID, ~Busy(k)'
      PROVE  Settled(k)'
  <2>1. CASE k = e
    <3>1. call.pc = "idle"
      BY <1>1, <1>2, <1>5, <2>1 DEF Busy
    <3> QED
      BY <2>1, <3>1
  <2>2. CASE k # e
    <3>1. ~Busy(k)
      BY <1>1, <1>2, <1>5, <2>2 DEF Busy
    <3>2. Settled(k)
      BY <3>1 DEF SeparateCustody
    <3>3. CASE UNCHANGED storeVars
      BY <3>2, <3>3, FrameTables
    <3>4. CASE Writes(req[w].id, e)
      <4>1. PICK id : id = req[w].id
        OBVIOUS
      <4>2. id \in DOMAIN claims => claims[id].item = e
        BY <4>1, OwnItem
      <4> QED
        BY <2>2, <3>2, <3>4, <4>1, <4>2, FrameSettled DEF TypeInv
    <3> QED
      BY <3>3, <3>4
  <2> QED
    BY <2>1, <2>2
<1>6. ASSUME NEW v \in InFlight'
      PROVE  CallInv(req[v])'
  <2>1. CASE v = w
    <3>1. call.pc # "idle"
      BY <1>1, <1>2, <1>6, <2>1
    <3> QED
      BY <1>1, <2>1, <3>1 DEF CallInv
  <2>2. CASE v # w
    <3>1. PICK other : other = req[v]
      OBVIOUS
    <3>2. /\ v \in Worker
          /\ req[v].pc # "idle"
          /\ req'[v] = other
          /\ other.claim.item # e
          /\ CallInv(other)
      BY <1>2, <1>4, <2>2, <3>1 DEF SeparateCustody, CallInv
    <3>3. CallInv(other)'
      BY <3>1, <3>2, FrameCall, FrameTables
    <3> QED
      BY <3>2, <3>3 DEF CallInv
  <2> QED
    BY <2>1, <2>2
<1>7. ASSUME NEW u \in InFlight', NEW v \in InFlight',
             req'[u].claim.item = req'[v].claim.item
      PROVE  u = v
  <2>1. CASE u # w /\ v # w
    BY <1>4, <1>7, <2>1 DEF SeparateCustody
  <2>2. ASSUME NEW x \in InFlight', x = w
        PROVE  req'[x].claim.item = e
    BY <1>1, <1>2, <2>2
  <2> QED
    BY <1>4, <1>7, <2>1, <2>2
<1> QED
  BY <1>5, <1>6, <1>7 DEF SeparateCustody

-----------------------------------------------------------------------------
(***************************************************************************)
(* The operations of the store on a settled item.                          *)
(***************************************************************************)

\* A claim takes the lock of an item that table leaves without a holder.
LEMMA SeizeSettles ==
    ASSUME Tables, NEW id \in ClaimID, NEW claim \in Snapshot, NEW table,
           DOMAIN table = DOMAIN claims,
           claim.item \in DOMAIN equipment,
           \A c \in DOMAIN table :
                c # id /\ table[c].item = claim.item => ~IsActive(table[c].status),
           Seize(table, id, claim)
    PROVE  Settled(claim.item)'
<1>1. PICK e : e = claim.item
  OBVIOUS
<1>2. PICK locked : locked = [claim EXCEPT !.status = "locked"]
  OBVIOUS
<1>3. /\ locked.status = "locked"
      /\ locked.item = e
      /\ locked.shift = claim.shift
  BY <1>1, <1>2, SnapshotIsClaim DEF ClaimStatus
<1>4. claims' = [c \in DOMAIN table \cup {id} |-> IF c = id THEN locked ELSE table[c]]
  BY <1>2 DEF Seize, Put
<1>5. /\ DOMAIN claims' = DOMAIN table \cup {id}
      /\ claims'[id] = locked
      /\ \A c \in DOMAIN table : c # id => claims'[c] = table[c]
  BY <1>4
<1>6. equipment[e] \in Equipment
  BY <1>1 DEF Tables, StoreTypeOK
<1>7. equipment'[e].status = "locked" /\ equipment'[e].lockedBy = claim.shift
  BY <1>1, <1>6 DEF Seize, LockedFor, Equipment
<1>8. \A c \in DOMAIN claims' : Holds(c, e)' => c = id
  BY <1>1, <1>5 DEF Holds
<1>9. UniqueAt(e)'
  BY <1>8 DEF UniqueAt
<1>10. AgreeAt(e)'
  BY <1>3, <1>5, <1>7, <1>8, <1>9 DEF AgreeAt
<1>11. ServedAt(e)'
  BY <1>7 DEF ServedAt
<1> QED
  BY <1>1, <1>10, <1>11 DEF Settled

\* A claim joins the queue of an item that is taken, or lacks its approval.
LEMMA EnqueueSettles ==
    ASSUME Tables, NEW id \in ClaimID, NEW claim \in Snapshot,
           Settled(claim.item),
           \/ equipment[claim.item].status # "available"
           \/ CrossStation(claim) /\ ~claim.approved,
           Enqueue(id, claim)
    PROVE  Settled(claim.item)'
<1>1. PICK e : e = claim.item
  OBVIOUS
<1>2. PICK queued : queued = [claim EXCEPT !.status = "queued"]
  OBVIOUS
<1>3. /\ queued.status = "queued"
      /\ queued.item = e
      /\ queued.shift = claim.shift
      /\ queued.approved = claim.approved
  BY <1>1, <1>2, SnapshotIsClaim DEF ClaimStatus
<1>4. claims' = [c \in DOMAIN claims \cup {id} |->
                    IF c = id THEN queued ELSE claims[c]]
  BY <1>2 DEF Enqueue, Put
<1>5. /\ DOMAIN claims' = DOMAIN claims \cup {id}
      /\ claims'[id] = queued
      /\ \A c \in DOMAIN claims : c # id => claims'[c] = claims[c]
      /\ equipment' = equipment
  BY <1>4 DEF Enqueue
<1>6. \A c \in DOMAIN claims' :
        Holds(c, e)' => c \in DOMAIN claims /\ Holds(c, e) /\ claims'[c] = claims[c]
  BY <1>3, <1>5 DEF Holds, IsActive
<1>7. AgreeAt(e)'
  <2>1. UniqueAt(e)'
    BY <1>1, <1>6 DEF Settled, AgreeAt, UniqueAt
  <2> QED
    BY <1>1, <1>5, <1>6, <2>1 DEF Settled, AgreeAt
<1>8. ServedAt(e)'
  <2>1. CrossStation(queued) <=> CrossStation(claim)
    BY <1>1, <1>3 DEF CrossStation
  <2> QED
    BY <1>1, <1>3, <1>5, <2>1 DEF Settled, ServedAt
<1> QED
  BY <1>1, <1>7, <1>8 DEF Settled

\* Lock, preemption and queue of TryLockEquipment.
LEMMA TryLockSettles ==
    ASSUME Tables, NEW id \in ClaimID, NEW claim \in Snapshot,
           Settled(claim.item), TryLockEquipment(id, claim)
    PROVE  Settled(claim.item)'
<1>1. PICK e : e = claim.item
  OBVIOUS
<1>2. e \in DOMAIN equipment
  BY <1>1 DEF TryLockEquipment
<1>3. \A c \in DOMAIN claims : Holds(c, e) => equipment[e].status = claims[c].status
  BY <1>1 DEF Settled, AgreeAt
<1>4. CASE /\ \/ equipment[e].status \in {"available", "maintenance"}
              \/ equipment[e].status = "locked" /\ LockHolders(e) = {}
           /\ Seize(claims, id, claim)
  <2>1. \A c \in DOMAIN claims : ~Holds(c, e)
    BY <1>3, <1>4 DEF Holds, IsActive, LockHolders, ClaimsOn
  <2> QED
    BY <1>1, <1>2, <1>4, <2>1, SeizeSettles DEF Holds
<1>5. ASSUME NEW h \in LockHolders(e),
             Seize([claims EXCEPT ![h].status = "queued"], id, claim)
      PROVE  Settled(claim.item)'
  <2>1. PICK table : table = [claims EXCEPT ![h].status = "queued"]
    OBVIOUS
  <2>2. h \in DOMAIN claims /\ Holds(h, e) /\ claims[h] \in EquipmentClaim
    BY DEF LockHolders, ClaimsOn, Holds, IsActive, Tables, StoreTypeOK
  <2>3. /\ DOMAIN table = DOMAIN claims
        /\ table[h].status = "queued"
        /\ \A c \in DOMAIN claims : c # h => table[c] = claims[c]
    BY <2>1, <2>2 DEF Tables, StoreTypeOK, EquipmentClaim
  <2>4. \A c \in DOMAIN table : c # h /\ table[c].item = e => ~IsActive(table[c].status)
    BY <1>1, <2>2, <2>3 DEF Settled, AgreeAt, UniqueAt, Holds
  <2>5. ~IsActive(table[h].status)
    BY <2>3 DEF IsActive
  <2> QED
    BY <1>1, <1>2, <1>5, <2>1, <2>3, <2>4, <2>5, SeizeSettles
<1>6. CASE equipment[e].status \in {"locked", "borrowed"} /\ Enqueue(id, claim)
  BY <1>1, <1>6, EnqueueSettles
<1> QED
  BY <1>1, <1>4, <1>5, <1>6 DEF TryLockEquipment

\* The promotion settles an item on which the tables agree.
LEMMA PromoteSettles ==
    ASSUME Tables, NEW e, AgreeAt(e), PromoteNextQueued(equipment, claims, e)
    PROVE  Settled(e)'
<1>1. CASE /\ \/ e \notin DOMAIN equipment
              \/ equipment[e].status # "available"
              \/ QueuedClaimsForEquipment(claims, e) = {}
           /\ equipment' = equipment
           /\ claims' = claims
  <2>1. AgreeAt(e)'
    BY <1>1 DEF AgreeAt, UniqueAt, Holds
  <2>2. ServedAt(e)'
    BY <1>1 DEF ServedAt, QueuedClaimsForEquipment, ClaimsOn
  <2> QED
    BY <2>1, <2>2 DEF Settled
<1>2. ASSUME e \in DOMAIN equipment,
             equipment[e].status = "available",
             NEW best \in QueuedClaimsForEquipment(claims, e),
             equipment' = [equipment EXCEPT ![e] = LockedFor(@, claims[best].shift)],
             claims' = [claims EXCEPT ![best].status = "locked"]
      PROVE  Settled(e)'
  <2>1. /\ best \in DOMAIN claims
        /\ claims[best].item = e
        /\ claims[best] \in EquipmentClaim
        /\ equipment[e] \in Equipment
    BY <1>2 DEF QueuedClaimsForEquipment, ClaimsOn, Tables, StoreTypeOK
  <2>2. equipment'[e].status = "locked" /\ equipment'[e].lockedBy = claims[best].shift
    BY <1>2, <2>1 DEF LockedFor, Equipment
  <2>3. /\ DOMAIN claims' = DOMAIN claims
        /\ claims'[best].status = "locked"
        /\ claims'[best].shift = claims[best].shift
        /\ \A c \in DOMAIN claims : c # best => claims'[c] = claims[c]
    BY <1>2, <2>1 DEF Tables, StoreTypeOK, EquipmentClaim
  <2>4. \A c \in DOMAIN claims' : Holds(c, e)' => c = best
    BY <1>2, <2>3 DEF AgreeAt, Holds, IsActive
  <2>5. UniqueAt(e)'
    BY <2>4 DEF UniqueAt
  <2>6. AgreeAt(e)'
    BY <2>2, <2>3, <2>4, <2>5 DEF AgreeAt
  <2>7. ServedAt(e)'
    BY <2>2 DEF ServedAt
  <2> QED
    BY <2>6, <2>7 DEF Settled
<1> QED
  BY <1>1, <1>2 DEF PromoteNextQueued

\* An item no claim holds agrees with its claims, whatever its row says.
LEMMA UnheldAgrees ==
    ASSUME NEW e, Unheld(claims', e)
    PROVE  AgreeAt(e)'
BY DEF Unheld, AgreeAt, UniqueAt, Holds

-----------------------------------------------------------------------------
(***************************************************************************)
(* The operations of the calls.                                            *)
(***************************************************************************)

\* The call returns and leaves its item settled.
LEMMA FinishSettles ==
    ASSUME TypeInv, TypeInv', SeparateCustody, NEW w \in Worker, req[w].pc # "idle",
           NEW e, e = req[w].claim.item,
           UNCHANGED storeVars \/ Writes(req[w].id, e),
           Finish(w), Settled(e)'
    PROVE  SeparateCustody'
<1>1. PICK call : call = Idle
  OBVIOUS
<1>2. call.pc = "idle" /\ req' = [req EXCEPT ![w] = call]
  BY <1>1 DEF Idle, Finish
<1> QED
  BY <1>2, CallSettles

\* The call goes on.
LEMMA GotoSettles ==
    ASSUME TypeInv, TypeInv', SeparateCustody, NEW w \in Worker, req[w].pc # "idle",
           UNCHANGED storeVars \/ Writes(req[w].id, req[w].claim.item),
           NEW pc \in PC, Goto(w, pc),
           NEW call, call = [req[w] EXCEPT !.pc = pc], CallInv(call)'
    PROVE  SeparateCustody'
<1>1. PICK e : e = req[w].claim.item
  OBVIOUS
<1>2. /\ call.pc # "idle"
      /\ call.claim.item = e
  BY <1>1, CallFacts, NextCall DEF PC
<1>3. req' = [req EXCEPT ![w] = call]
  BY DEF Goto
<1> QED
  BY <1>1, <1>2, <1>3, CallSettles

\* What the invariant says of the call of a worker.
LEMMA CallHolds ==
    ASSUME TypeInv, SeparateCustody, NEW w \in Worker, req[w].pc # "idle",
           NEW call, call = req[w]
    PROVE  CallInv(call)
BY InFlightIs DEF SeparateCustody

\* The claim a call stores over the one it read.
LEMMA SaveClaimEffect ==
    ASSUME TypeInv, NEW w \in Worker, NEW status \in ClaimStatus,
           NEW call, call = req[w],
           call.pc \in {"stamp", "borrow.save", "return.save", "cancel.save"},
           SaveClaim(w, status)
    PROVE  /\ call.id \in DOMAIN claims
           /\ DOMAIN claims' = DOMAIN claims
           /\ claims'[call.id] = [call.claim EXCEPT !.status = status]
           /\ \A c \in DOMAIN claims : c # call.id => claims'[c] = claims[c]
           /\ equipment' = equipment
           /\ Writes(call.id, call.claim.item)
<1>1. /\ req[w].pc # "idle"
      /\ call.claim \in Snapshot
      /\ call.id \in DOMAIN claims
      /\ req[w].claim.item \in DOMAIN equipment
  BY CallFacts DEF CallTypes, Unstored
<1>2. PICK claim : claim = [call.claim EXCEPT !.status = status]
  OBVIOUS
<1>3. claims' = [c \in DOMAIN claims \cup {call.id} |->
                    IF c = call.id THEN claim ELSE claims[c]]
  BY <1>2 DEF SaveClaim, Put
<1>4. Writes(call.id, call.claim.item)
  BY <1>1, SaveClaimTypes
<1> QED
  BY <1>1, <1>2, <1>3, <1>4 DEF SaveClaim

\* A call begins on an item no other call is about.
LEMMA BeginSettles ==
    ASSUME TypeInv, TypeInv', setup.overlap # "any", SeparateCustody,
           NEW w \in Worker, NEW pc, NEW id, NEW claim, NEW loss,
           Begin(w, pc, id, claim, loss),
           claim.item \in EquipmentID,
           pc \in {"rules", "borrow.save", "return.save", "cancel.save"},
           pc = "rules" /\ claim.status = None => ~claim.approved,
           pc # "rules" => claims[id] = claim,
           pc = "borrow.save" => claim.status = "locked",
           pc = "return.save" => claim.status = "borrowed"
    PROVE  SeparateCustody'
<1>1. PICK call : call = [pc |-> pc, id |-> id, claim |-> claim,
                          equip |-> None, loss |-> loss]
  OBVIOUS
<1>2. /\ req' = [req EXCEPT ![w] = call]
      /\ UNCHANGED storeVars
      /\ req[w] = Idle
      /\ MayStart(claim.item)
  BY <1>1 DEF Begin
<1>3. ~Busy(claim.item)
  BY <1>2, SetupAssumption DEF MayStart, Busy, TypeInv, RaceTypeOK
<1>4. Settled(claim.item)
  BY <1>3 DEF SeparateCustody
<1>5. CallInv(call)
  BY <1>1, <1>4 DEF CallInv
<1>6. CallInv(call)'
  BY <1>2, <1>5, FrameTables
<1>7. /\ req'[w] = call
      /\ \A v \in Worker : v # w => req'[v] = req[v]
      /\ w \notin InFlight
  BY <1>2 DEF TypeInv, RaceTypeOK, InFlight
<1>8. call # Idle
  BY <1>1 DEF Idle
<1>9. InFlight' = InFlight \cup {w}
  BY <1>7, <1>8 DEF InFlight, Idle
<1>10. \A x \in InFlight : x \in Worker /\ x # w
  BY <1>7 DEF InFlight
<1>11. ASSUME NEW k \in EquipmentID, ~Busy(k)'
       PROVE  Settled(k)'
  <2>1. ~Busy(k)
    BY <1>7, <1>9, <1>10, <1>11 DEF Busy
  <2>2. Settled(k)
    BY <2>1 DEF SeparateCustody
  <2> QED
    BY <1>2, <2>2, FrameTables
<1>12. ASSUME NEW v \in InFlight'
       PROVE  CallInv(req[v])'
  <2>1. PICK other : other = req'[v]
    OBVIOUS
  <2>2. CASE v = w
    BY <1>6, <1>7, <2>2 DEF CallInv
  <2>3. CASE v # w
    <3>1. v \in InFlight /\ other = req[v]
      BY <1>7, <1>9, <1>10, <2>1, <2>3
    <3>2. CallInv(other)
      BY <3>1 DEF SeparateCustody, CallInv
    <3>3. CallInv(other)'
      BY <1>2, <3>2, FrameTables
    <3> QED
      BY <2>1, <3>3 DEF CallInv
  <2> QED
    BY <2>2, <2>3
<1>13. ASSUME NEW u \in InFlight', NEW v \in InFlight',
              req'[u].claim.item = req'[v].claim.item
       PROVE  u = v
  <2>1. \A x \in InFlight : req[x].claim.item # claim.item
    BY <1>3 DEF Busy
  <2>2. call.claim.item = claim.item
    BY <1>1
  <2>3. \A x \in InFlight' : x = w \/ (x \in InFlight /\ req'[x] = req[x])
    BY <1>7, <1>9, <1>10
  <2> QED
    BY <1>7, <1>13, <2>1, <2>2, <2>3 DEF SeparateCustody
<1> QED
  BY <1>11, <1>12, <1>13 DEF SeparateCustody

\* Every call begins with its item settled.
LEMMA StartSettles ==
    ASSUME TypeInv, TypeInv', setup.overlap # "any", SeparateCustody,
           NEW w \in Worker, Start(w)
    PROVE  SeparateCustody'
<1>1. ASSUME NEW id \in DOMAIN claims
      PROVE  /\ claims[id].item \in EquipmentID
             /\ claims[id].status # None
             /\ [claims[id] EXCEPT !.approved = TRUE].item = claims[id].item
             /\ [claims[id] EXCEPT !.approved = TRUE].status = claims[id].status
  <2>1. claims[id] \in EquipmentClaim
    BY DEF TypeInv, Tables, StoreTypeOK
  <2> QED
    BY <2>1, StatusAssumption DEF EquipmentClaim
<1>2. ASSUME NEW id \in ClaimID, NEW officer \in Officer, NEW s \in ShiftID,
             NEW e \in EquipmentID, BeginSubmit(w, id, officer, s, e)
      PROVE  SeparateCustody'
  <2>1. PICK claim : claim = NewClaim(s, e)
    OBVIOUS
  <2>2. /\ claim.item = e
        /\ claim.status = None
        /\ ~claim.approved
    BY <2>1 DEF NewClaim
  <2>3. Begin(w, "rules", id, claim, FALSE)
    BY <1>2, <2>1 DEF BeginSubmit
  <2> QED
    BY <2>2, <2>3, BeginSettles
<1>3. ASSUME NEW id \in ClaimID, BeginApprove(w, id)
      PROVE  SeparateCustody'
  BY <1>1, <1>3, BeginSettles DEF BeginApprove
<1>4. ASSUME NEW id \in ClaimID, BeginBorrow(w, id)
      PROVE  SeparateCustody'
  BY <1>1, <1>4, BeginSettles DEF BeginBorrow, CanBorrow
<1>5. ASSUME NEW id \in ClaimID, NEW loss, loss \in BOOLEAN, BeginReturn(w, id, loss)
      PROVE  SeparateCustody'
  BY <1>1, <1>5, BeginSettles DEF BeginReturn, CanReturn
<1>6. ASSUME NEW id \in ClaimID, BeginCancel(w, id)
      PROVE  SeparateCustody'
  BY <1>1, <1>6, BeginSettles DEF BeginCancel
<1> QED
  BY <1>2, <1>3, <1>4, <1>5, <1>6 DEF Start

\* The rules are checked while the item is settled, and change nothing.
LEMMA CheckRulesSettles ==
    ASSUME TypeInv, TypeInv', SeparateCustody, NEW w \in Worker, CheckRules(w)
    PROVE  SeparateCustody'
<1>1. PICK e, own : e = req[w].claim.item /\ own = req[w]
  OBVIOUS
<1>2. /\ own.pc = "rules"
      /\ req[w].pc # "idle"
      /\ UNCHANGED storeVars
  BY <1>1 DEF CheckRules, At
<1>3. CallInv(own)
  BY <1>1, <1>2, CallHolds
<1>4. Settled(e)'
  BY <1>1, <1>2, <1>3, FrameTables DEF CallInv
<1>5. CASE Finish(w)
  BY <1>1, <1>2, <1>4, <1>5, FinishSettles
<1>6. ASSUME req' = [req EXCEPT
                       ![w].pc = "place",
                       ![w].claim.submittedAt =
                            IF Submitting(w) THEN clock ELSE @]
      PROVE  SeparateCustody'
  <2>1. PICK at : at = IF Submitting(w) THEN clock ELSE own.claim.submittedAt
    OBVIOUS
  <2>2. PICK call : call = [own EXCEPT !.pc = "place", !.claim.submittedAt = at]
    OBVIOUS
  <2>3. req' = [req EXCEPT ![w] = call]
    BY <1>1, <1>2, <1>6, <2>1, <2>2, CallFacts DEF Request
  <2>4. /\ call.pc = "place"
        /\ call.claim.item = e
        /\ call.claim.status = own.claim.status
        /\ call.claim.approved = own.claim.approved
    BY <1>1, <1>2, <2>2, CallFacts DEF Request, Snapshot
  <2>5. CallInv(call)'
    BY <1>2, <1>3, <1>4, <2>4 DEF CallInv
  <2> QED
    BY <1>1, <1>2, <2>3, <2>4, <2>5, CallSettles
<1> QED
  BY <1>5, <1>6 DEF CheckRules

\* The lock, the preemption or the queue leaves the item settled.
LEMMA PlaceSettles ==
    ASSUME TypeInv, TypeInv', SeparateCustody, NEW w \in Worker, Place(w)
    PROVE  SeparateCustody'
<1>1. PICK e, own : e = req[w].claim.item /\ own = req[w]
  OBVIOUS
<1>2. /\ own.pc = "place"
      /\ req[w].pc # "idle"
  BY <1>1 DEF Place, At
<1>3. /\ CallInv(own)
      /\ own.id \in ClaimID
      /\ own.claim \in Snapshot
      /\ own.claim.item = e
      /\ Tables
      /\ e \in DOMAIN equipment
  BY <1>1, <1>2, CallHolds, CallFacts DEF TypeInv, CallTypes
<1>4. Settled(e)
  BY <1>1, <1>2, <1>3 DEF CallInv
<1>5. CASE CrossStation(own.claim) /\ Submitting(w) /\ Enqueue(own.id, own.claim)
           /\ Finish(w)
  <2>1. ~own.claim.approved
    BY <1>1, <1>2, <1>3, <1>5 DEF CallInv, Submitting
  <2>2. Settled(e)'
    BY <1>3, <1>4, <1>5, <2>1, EnqueueSettles
  <2>3. SaveClaim(w, "queued")
    BY <1>1, <1>5 DEF Enqueue, SaveClaim
  <2>4. Writes(req[w].id, req[w].claim.item)
    BY <1>1, <1>2, <1>3, <2>3, SaveClaimTypes DEF ClaimStatus
  <2> QED
    BY <1>1, <1>2, <1>5, <2>2, <2>4, FinishSettles
<1>6. CASE TryLockEquipment(own.id, own.claim)
  <2>1. Settled(e)'
    BY <1>3, <1>4, <1>6, TryLockSettles
  <2>2. Writes(own.id, e)
    BY <1>3, <1>6, TryLockTypes
  <2>3. CASE Finish(w)
    BY <1>1, <1>2, <2>1, <2>2, <2>3, FinishSettles
  <2>4. CASE Goto(w, "reread")
    <3>1. PICK call : call = [own EXCEPT !.pc = "reread"]
      OBVIOUS
    <3>2. call.pc = "reread" /\ call.claim = own.claim
      BY <1>1, <1>2, <3>1, CallFacts, NextCall DEF PC
    <3>3. CallInv(call)'
      BY <1>3, <2>1, <3>2 DEF CallInv
    <3> QED
      BY <1>1, <1>2, <2>2, <2>4, <3>1, <3>3, GotoSettles DEF PC
  <2> QED
    BY <1>1, <1>6, <2>3, <2>4 DEF Place
<1> QED
  BY <1>1, <1>5, <1>6 DEF Place

\* The winner reads its claim back, on a settled item.
LEMMA RereadSettles ==
    ASSUME TypeInv, TypeInv', SeparateCustody, NEW w \in Worker, Reread(w)
    PROVE  SeparateCustody'
<1>1. PICK e, own : e = req[w].claim.item /\ own = req[w]
  OBVIOUS
<1>2. /\ own.pc = "reread"
      /\ req[w].pc # "idle"
      /\ UNCHANGED storeVars
      /\ req' = [req EXCEPT ![w].pc = "stamp", ![w].claim = claims[req[w].id]]
  BY <1>1 DEF Reread, At
<1>3. CallInv(own) /\ CallTypes(own) /\ own \in Request
  BY <1>1, <1>2, CallHolds, CallFacts
<1>4. own.id \in DOMAIN claims /\ claims[own.id].item = e
  BY <1>1, <1>2, <1>3 DEF CallTypes, Unstored
<1>5. PICK claim : claim = claims[own.id]
  OBVIOUS
<1>6. PICK call : call = [own EXCEPT !.pc = "stamp", !.claim = claim]
  OBVIOUS
<1>7. /\ call.pc = "stamp"
      /\ call.id = own.id
      /\ call.claim = claim
      /\ call.claim.item = e
  BY <1>3, <1>4, <1>5, <1>6 DEF Request
<1>8. req' = [req EXCEPT ![w] = call]
  BY <1>1, <1>2, <1>3, <1>5, <1>6 DEF Request
<1>9. CallInv(call)
  BY <1>1, <1>2, <1>3, <1>5, <1>7 DEF CallInv
<1>10. CallInv(call)'
  BY <1>2, <1>9, FrameTables
<1> QED
  BY <1>1, <1>2, <1>7, <1>8, <1>10, CallSettles

\* The item is read as the claim of the call left it.
LEMMA LoadSettles ==
    ASSUME TypeInv, TypeInv', SeparateCustody, NEW w \in Worker,
           BorrowLoad(w) \/ ReturnLoad(w)
    PROVE  SeparateCustody'
<1>1. PICK e, own, pc :
        /\ e = req[w].claim.item
        /\ own = req[w]
        /\ pc = IF req[w].pc = "borrow.load" THEN "borrow.equip" ELSE "return.equip"
  OBVIOUS
<1>2. /\ own.pc \in {"borrow.load", "return.load"}
      /\ req[w].pc # "idle"
      /\ UNCHANGED storeVars
      /\ req' = [req EXCEPT ![w].pc = pc,
                            ![w].equip = equipment[req[w].claim.item]]
  BY <1>1 DEF BorrowLoad, ReturnLoad, At, LoadEquipment
<1>3. CallInv(own) /\ own \in Request
  BY <1>1, <1>2, CallHolds, CallFacts
<1>4. PICK item : item = equipment[e]
  OBVIOUS
<1>5. PICK call : call = [own EXCEPT !.pc = pc, !.equip = item]
  OBVIOUS
<1>6. /\ call.pc = pc
      /\ call.id = own.id
      /\ call.claim = own.claim
      /\ call.equip = item
  BY <1>3, <1>5 DEF Request
<1>7. req' = [req EXCEPT ![w] = call]
  BY <1>1, <1>2, <1>3, <1>4, <1>5 DEF Request
<1>8. CallInv(call)
  BY <1>1, <1>2, <1>3, <1>4, <1>6 DEF CallInv
<1>9. CallInv(call)' /\ call.pc # "idle" /\ call.claim.item = e
  BY <1>1, <1>2, <1>6, <1>8, FrameTables
<1> QED
  BY <1>1, <1>2, <1>7, <1>9, CallSettles

\* The stamp writes back the claim that was read: the tables stay as they are.
LEMMA StampWritesBack ==
    ASSUME TypeInv, SeparateCustody, NEW w \in Worker, Stamp(w)
    PROVE  UNCHANGED storeVars
<1>1. PICK own, status : own = req[w] /\ status = req[w].claim.status
  OBVIOUS
<1>2. /\ own.pc = "stamp"
      /\ req[w].pc # "idle"
      /\ SaveClaim(w, status)
  BY <1>1 DEF Stamp, At
<1>3. CallInv(own) /\ CallTypes(own) /\ own.claim \in Snapshot
  BY <1>1, <1>2, CallHolds, CallFacts
<1>4. status \in ClaimStatus /\ claims[own.id] = own.claim
  BY <1>1, <1>2, <1>3 DEF CallTypes, CallInv, Snapshot
<1>5. /\ own.id \in DOMAIN claims
      /\ DOMAIN claims' = DOMAIN claims
      /\ claims'[own.id] = [own.claim EXCEPT !.status = status]
      /\ \A c \in DOMAIN claims : c # own.id => claims'[c] = claims[c]
      /\ equipment' = equipment
  BY <1>1, <1>2, <1>4, SaveClaimEffect
<1>6. claims' \in [DOMAIN claims' -> EquipmentClaim]
  <2>1. claims' = Put(claims, own.id, [own.claim EXCEPT !.status = status])
    BY <1>1, <1>2 DEF SaveClaim
  <2>2. [own.claim EXCEPT !.status = status] \in EquipmentClaim
    BY <1>3, <1>4, SnapshotIsClaim
  <2> QED
    BY <2>1, <2>2 DEF Put, TypeInv, Tables, StoreTypeOK
<1>7. claims'[own.id] = claims[own.id]
  BY <1>1, <1>3, <1>4, <1>5 DEF Snapshot
<1>8. claims' = claims
  BY <1>5, <1>6, <1>7 DEF TypeInv, Tables, StoreTypeOK
<1> QED
  BY <1>5, <1>8 DEF storeVars

LEMMA StampSettles ==
    ASSUME TypeInv, TypeInv', SeparateCustody, NEW w \in Worker, Stamp(w)
    PROVE  SeparateCustody'
<1>1. PICK e, own : e = req[w].claim.item /\ own = req[w]
  OBVIOUS
<1>2. /\ own.pc = "stamp"
      /\ req[w].pc # "idle"
      /\ Finish(w)
      /\ UNCHANGED storeVars
  BY <1>1, StampWritesBack DEF Stamp, At
<1>3. Settled(e)
  BY <1>1, <1>2, CallHolds DEF CallInv
<1>4. Settled(e)'
  BY <1>2, <1>3, FrameTables
<1> QED
  BY <1>1, <1>2, <1>4, FinishSettles

\* A borrow stores the claim before the row of its item.
LEMMA BorrowSaveSettles ==
    ASSUME TypeInv, TypeInv', SeparateCustody, NEW w \in Worker, BorrowSave(w)
    PROVE  SeparateCustody'
<1>1. PICK e, own : e = req[w].claim.item /\ own = req[w]
  OBVIOUS
<1>2. /\ own.pc = "borrow.save"
      /\ req[w].pc # "idle"
      /\ SaveClaim(w, "borrowed")
      /\ Goto(w, "borrow.load")
  BY <1>1 DEF BorrowSave, At
<1>3. CallInv(own) /\ own.claim.item = e
  BY <1>1, <1>2, CallHolds
<1>4. /\ claims[own.id] = own.claim
      /\ own.claim.status = "locked"
      /\ AgreeAt(e)
  BY <1>2, <1>3 DEF CallInv, Settled
<1>5. /\ own.id \in DOMAIN claims
      /\ DOMAIN claims' = DOMAIN claims
      /\ claims'[own.id] = [own.claim EXCEPT !.status = "borrowed"]
      /\ \A c \in DOMAIN claims : c # own.id => claims'[c] = claims[c]
      /\ equipment' = equipment
      /\ Writes(own.id, own.claim.item)
  <2>1. PICK status \in ClaimStatus : status = "borrowed"
    BY DEF ClaimStatus
  <2>2. own = req[w] /\ SaveClaim(w, status)
    BY <1>1, <1>2, <2>1
  <2>3. own.pc \in {"stamp", "borrow.save", "return.save", "cancel.save"}
    BY <1>2
  <2> QED
    BY <2>1, <2>2, <2>3, SaveClaimEffect
<1>6. Holds(own.id, e)
  BY <1>3, <1>4 DEF Holds, IsActive
<1>7. equipment'[e].lockedBy = own.claim.shift
  BY <1>4, <1>5, <1>6 DEF AgreeAt
<1>8. \A c \in DOMAIN claims' : Holds(c, e)' => c = own.id
  BY <1>4, <1>5, <1>6 DEF AgreeAt, UniqueAt, Holds
<1>9. UniqueAt(e)'
  BY <1>8 DEF UniqueAt
<1>10. PICK call : call = [own EXCEPT !.pc = "borrow.load"]
  OBVIOUS
<1>11. /\ call.pc = "borrow.load"
       /\ call.id = own.id
       /\ call.claim = own.claim
  BY <1>1, <1>2, <1>10, CallFacts, NextCall DEF PC
<1>12. CallInv(call)'
  BY <1>3, <1>5, <1>7, <1>9, <1>11 DEF CallInv
<1> QED
  BY <1>1, <1>2, <1>5, <1>10, <1>12, GotoSettles DEF PC

\* The claim that held the item is stored as one that does not hold it.
LEMMA DropSettles ==
    ASSUME TypeInv, SeparateCustody, NEW w \in Worker, NEW own, own = req[w],
           own.pc \in {"return.save", "cancel.save"},
           IsActive(own.claim.status),
           NEW status \in ClaimStatus, ~IsActive(status), SaveClaim(w, status)
    PROVE  /\ Unheld(claims', own.claim.item)
           /\ Writes(own.id, own.claim.item)
<1>1. PICK e : e = own.claim.item
  OBVIOUS
<1>2. CallInv(own)
  BY CallHolds
<1>3. claims[own.id] = own.claim /\ UniqueAt(e)
  BY <1>1, <1>2 DEF CallInv, Settled, AgreeAt
<1>4. /\ own.id \in DOMAIN claims
      /\ DOMAIN claims' = DOMAIN claims
      /\ claims'[own.id].status = status
      /\ \A c \in DOMAIN claims : c # own.id => claims'[c] = claims[c]
      /\ Writes(own.id, own.claim.item)
  <2>1. /\ own.id \in DOMAIN claims
        /\ DOMAIN claims' = DOMAIN claims
        /\ claims'[own.id] = [own.claim EXCEPT !.status = status]
        /\ \A c \in DOMAIN claims : c # own.id => claims'[c] = claims[c]
        /\ Writes(own.id, own.claim.item)
    BY SaveClaimEffect
  <2>2. own.claim \in Snapshot
    BY CallFacts
  <2> QED
    BY <2>1, <2>2, SnapshotIsClaim
<1>5. Holds(own.id, e)
  BY <1>1, <1>3 DEF Holds
<1>6. \A c \in DOMAIN claims' : claims'[c].item = e => ~IsActive(claims'[c].status)
  BY <1>3, <1>4, <1>5 DEF UniqueAt, Holds
<1> QED
  BY <1>1, <1>4, <1>6 DEF Unheld

\* A return stores the claim before the row of its item.
LEMMA ReturnSaveSettles ==
    ASSUME TypeInv, TypeInv', SeparateCustody, NEW w \in Worker, ReturnSave(w)
    PROVE  SeparateCustody'
<1>1. PICK own : own = req[w]
  OBVIOUS
<1>2. /\ own.pc = "return.save"
      /\ req[w].pc # "idle"
      /\ SaveClaim(w, "returned")
      /\ Goto(w, "return.load")
  BY <1>1 DEF ReturnSave, At
<1>3. IsActive(own.claim.status)
  BY <1>1, <1>2, CallHolds DEF CallInv, IsActive
<1>4. Unheld(claims', own.claim.item) /\ Writes(own.id, own.claim.item)
  BY <1>1, <1>2, <1>3, DropSettles DEF ClaimStatus, IsActive
<1>5. PICK call : call = [own EXCEPT !.pc = "return.load"]
  OBVIOUS
<1>6. call.pc = "return.load" /\ call.claim = own.claim
  BY <1>1, <1>2, <1>5, CallFacts, NextCall DEF PC
<1>7. CallInv(call)'
  BY <1>4, <1>6 DEF CallInv
<1> QED
  BY <1>1, <1>2, <1>4, <1>5, <1>7, GotoSettles DEF PC

\* A cancellation of a lock goes on to free the item, any other one returns.
LEMMA CancelSaveSettles ==
    ASSUME TypeInv, TypeInv', SeparateCustody, NEW w \in Worker, CancelSave(w)
    PROVE  SeparateCustody'
<1>1. PICK e, own : e = req[w].claim.item /\ own = req[w]
  OBVIOUS
<1>2. /\ own.pc = "cancel.save"
      /\ req[w].pc # "idle"
      /\ SaveClaim(w, "cancelled")
  BY <1>1 DEF CancelSave, At
<1>3. CallInv(own) /\ own.claim.item = e
  BY <1>1, <1>2, CallHolds
<1>4. CASE own.claim.status = "locked" /\ Goto(w, "cancel.release")
  <2>1. Unheld(claims', e) /\ Writes(own.id, e)
    BY <1>1, <1>2, <1>3, <1>4, DropSettles DEF ClaimStatus, IsActive
  <2>2. PICK call : call = [own EXCEPT !.pc = "cancel.release"]
    OBVIOUS
  <2>3. call.pc = "cancel.release" /\ call.claim = own.claim
    BY <1>1, <1>2, <2>2, CallFacts, NextCall DEF PC
  <2>4. CallInv(call)'
    BY <1>3, <2>1, <2>3 DEF CallInv
  <2> QED
    BY <1>1, <1>2, <1>4, <2>1, <2>2, <2>4, GotoSettles DEF PC
<1>5. CASE Finish(w)
  <2>1. Settled(e)
    BY <1>2, <1>3 DEF CallInv
  <2>2. /\ own.id \in DOMAIN claims
        /\ DOMAIN claims' = DOMAIN claims
        /\ claims'[own.id] = [own.claim EXCEPT !.status = "cancelled"]
        /\ \A c \in DOMAIN claims : c # own.id => claims'[c] = claims[c]
        /\ equipment' = equipment
        /\ Writes(own.id, own.claim.item)
    <3>1. PICK status \in ClaimStatus : status = "cancelled"
      BY DEF ClaimStatus
    <3>2. own = req[w] /\ SaveClaim(w, status)
      BY <1>1, <1>2, <3>1
    <3>3. own.pc \in {"stamp", "borrow.save", "return.save", "cancel.save"}
      BY <1>2
    <3> QED
      BY <3>1, <3>2, <3>3, SaveClaimEffect
  <2>3. \A c \in DOMAIN claims' : IsActive(claims'[c].status) \/ claims'[c].status = "queued"
            => c \in DOMAIN claims /\ claims'[c] = claims[c]
    <3>1. [own.claim EXCEPT !.status = "cancelled"].status = "cancelled"
      BY <1>1, <1>2, CallFacts, SnapshotIsClaim DEF ClaimStatus
    <3> QED
      BY <2>2, <3>1 DEF IsActive
  <2>4. AgreeAt(e)'
    <3>1. UniqueAt(e)'
      BY <2>1, <2>3 DEF Settled, AgreeAt, UniqueAt, Holds
    <3> QED
      BY <2>1, <2>2, <2>3, <3>1 DEF Settled, AgreeAt, Holds
  <2>5. ServedAt(e)'
    BY <2>1, <2>2, <2>3 DEF Settled, ServedAt
  <2>6. Settled(e)'
    BY <2>4, <2>5 DEF Settled
  <2> QED
    BY <1>1, <1>2, <1>3, <1>5, <2>2, <2>6, FinishSettles
<1> QED
  BY <1>1, <1>4, <1>5 DEF CancelSave

\* A borrow ends with the row that says what the claim says.
LEMMA BorrowEquipSettles ==
    ASSUME TypeInv, TypeInv', SeparateCustody, NEW w \in Worker, BorrowEquip(w)
    PROVE  SeparateCustody'
<1>1. PICK e, own : e = req[w].claim.item /\ own = req[w]
  OBVIOUS
<1>2. /\ own.pc = "borrow.equip"
      /\ req[w].pc # "idle"
      /\ Finish(w)
      /\ UNCHANGED claims
  BY <1>1 DEF BorrowEquip, SaveEquipment, At
<1>3. /\ CallInv(own)
      /\ own.claim \in Snapshot
      /\ own.claim.item = e
      /\ e \in DOMAIN equipment
      /\ own.equip \in Equipment
      /\ own.id \in DOMAIN claims
      /\ claims[own.id].item = e
      /\ ~Unstored(req[w])
  BY <1>1, <1>2, CallHolds, CallFacts DEF CallTypes, Unstored
<1>4. PICK claim : claim = [own.claim EXCEPT !.status = "borrowed"]
  OBVIOUS
<1>5. claim.status = "borrowed" /\ claim.shift = own.claim.shift
  BY <1>3, <1>4, SnapshotIsClaim DEF ClaimStatus
<1>6. /\ claims[own.id] = claim
      /\ UniqueAt(e)
      /\ own.equip.lockedBy = claim.shift
  BY <1>2, <1>3, <1>4, <1>5 DEF CallInv
<1>7. PICK item : item = [own.equip EXCEPT !.status = "borrowed",
                                           !.heldBy = OfficerOf(own.claim)]
  OBVIOUS
<1>8. /\ item.status = "borrowed"
      /\ item.lockedBy = claim.shift
      /\ item.heldBy = OfficerOf(claim)
  BY <1>3, <1>5, <1>6, <1>7 DEF Equipment, OfficerOf
<1>9. equipment' = [equipment EXCEPT ![e] = item]
  BY <1>1, <1>7 DEF BorrowEquip, SaveEquipment
<1>10. equipment'[e] = item
  BY <1>3, <1>9
<1>11. Writes(own.id, e)
  <2>1. OfficerOf(own.claim) \in Officer
    BY <1>3, DomainAssumption DEF Snapshot, OfficerOf
  <2>2. item \in Equipment
    BY <1>3, <1>7, <2>1 DEF Equipment, EquipmentStatus
  <2> QED
    BY <1>1, <1>2, <1>3, <1>9, <2>2, SaveEquipmentTypes
<1>12. UniqueAt(e)'
  BY <1>2, <1>6 DEF UniqueAt, Holds
<1>13. ASSUME NEW c \in DOMAIN claims', Holds(c, e)'
       PROVE  claims'[c] = claim
  BY <1>2, <1>3, <1>5, <1>6, <1>13 DEF UniqueAt, Holds, IsActive
<1>14. AgreeAt(e)'
  BY <1>5, <1>8, <1>10, <1>12, <1>13 DEF AgreeAt
<1>15. Settled(e)'
  BY <1>8, <1>10, <1>14 DEF Settled, ServedAt
<1> QED
  BY <1>1, <1>2, <1>11, <1>15, FinishSettles

\* A return or a cancellation clears the row of an item no claim holds.
LEMMA ClearSettles ==
    ASSUME TypeInv, TypeInv', SeparateCustody, NEW w \in Worker, NEW own, own = req[w],
           \/ own.pc = "return.equip" /\ ReturnEquip(w)
           \/ own.pc = "cancel.release" /\ CancelRelease(w)
    PROVE  SeparateCustody'
<1>1. PICK e, pc, status :
        /\ e = own.claim.item
        /\ pc = IF own.pc = "return.equip" THEN "return.promote" ELSE "cancel.promote"
        /\ status = IF own.pc = "return.equip" /\ own.loss
                    THEN "maintenance" ELSE "available"
  OBVIOUS
<1>2. /\ CallInv(own)
      /\ CallTypes(own)
      /\ own.pc # "idle"
      /\ pc \in PC
  BY <1>1, CallHolds, CallFacts DEF PC
<1>3. /\ Unheld(claims, e)
      /\ e \in DOMAIN equipment
      /\ ~Unstored(own)
  BY <1>1, <1>2 DEF CallInv, CallTypes, Unstored
<1>4. /\ equipment' = [equipment EXCEPT ![e] = Cleared(status)]
      /\ UNCHANGED claims
      /\ Goto(w, pc)
  BY <1>1, <1>3 DEF ReturnEquip, CancelRelease, SaveEquipment, Released
<1>5. Cleared(status) \in Equipment
  BY <1>1, ClearedTypes DEF EquipmentStatus
<1>6. Writes(own.id, e)
  BY <1>1, <1>2, <1>3, <1>4, <1>5, SaveEquipmentTypes
<1>7. Unheld(claims', e)
  BY <1>3, <1>4
<1>8. AgreeAt(e)'
  BY <1>7, UnheldAgrees
<1>9. PICK call : call = [own EXCEPT !.pc = pc]
  OBVIOUS
<1>10. call.pc = pc /\ call.claim = own.claim
  BY <1>2, <1>9, CallFacts, NextCall
<1>11. CallInv(call)'
  BY <1>1, <1>8, <1>10 DEF CallInv
<1> QED
  BY <1>1, <1>2, <1>4, <1>6, <1>9, <1>11, GotoSettles

\* The promotion settles the item of the call.
LEMMA PromoteCallSettles ==
    ASSUME TypeInv, TypeInv', SeparateCustody, NEW w \in Worker, Promote(w)
    PROVE  SeparateCustody'
<1>1. PICK e, own : e = req[w].claim.item /\ own = req[w]
  OBVIOUS
<1>2. /\ own.pc \in {"return.promote", "cancel.promote"}
      /\ req[w].pc # "idle"
      /\ PromoteNextQueued(equipment, claims, e)
      /\ Finish(w)
  BY <1>1 DEF Promote, At
<1>3. /\ CallInv(own)
      /\ CallTypes(own)
      /\ own.claim.item = e
      /\ Tables
  BY <1>1, <1>2, CallHolds, CallFacts DEF TypeInv
<1>4. own.id \in DOMAIN claims /\ claims[own.id].item = e
  BY <1>2, <1>3 DEF CallTypes, Unstored
<1>5. AgreeAt(e)
  BY <1>2, <1>3 DEF CallInv
<1>6. Settled(e)'
  BY <1>2, <1>3, <1>5, PromoteSettles
<1>7. Writes(own.id, e)
  BY <1>2, <1>3, <1>4, PromoteTypes
<1> QED
  BY <1>1, <1>2, <1>6, <1>7, FinishSettles

\* Every operation of a call accounts for its item.
LEMMA ContinueSettles ==
    ASSUME TypeInv, TypeInv', SeparateCustody, NEW w \in Worker, Continue(w)
    PROVE  SeparateCustody'
<1>1. CASE ReturnEquip(w)
  BY <1>1, ClearSettles DEF ReturnEquip, At
<1>2. CASE CancelRelease(w)
  BY <1>2, ClearSettles DEF CancelRelease, At
<1> QED
  BY <1>1, <1>2, CheckRulesSettles, PlaceSettles, RereadSettles, StampSettles,
     BorrowSaveSettles, LoadSettles, BorrowEquipSettles, ReturnSaveSettles,
     CancelSaveSettles, PromoteCallSettles DEF Continue

\* What changes neither the tables nor the calls.
LEMMA RestSettles ==
    ASSUME SeparateCustody, UNCHANGED <<storeVars, req>>
    PROVE  SeparateCustody'
<1>1. InFlight' = InFlight /\ \A k : Busy(k)' <=> Busy(k)
  BY DEF InFlight, Busy
<1>2. ASSUME NEW k \in EquipmentID, ~Busy(k)'
      PROVE  Settled(k)'
  BY <1>1, <1>2, FrameTables DEF SeparateCustody
<1>3. ASSUME NEW v \in InFlight'
      PROVE  CallInv(req[v])'
  <2>1. PICK call : call = req[v]
    OBVIOUS
  <2>2. CallInv(call)
    BY <1>1, <2>1 DEF SeparateCustody, CallInv
  <2>3. CallInv(call)'
    BY <2>2, FrameTables
  <2> QED
    BY <2>1, <2>3 DEF CallInv
<1> QED
  BY <1>1, <1>2, <1>3 DEF SeparateCustody

LEMMA InitEstablishesSeparate == RaceInit => SeparateInv
<1> SUFFICES ASSUME RaceInit PROVE SeparateInv
  OBVIOUS
<1>1. TypeInv
  BY InitEstablishesTypes
<1>2. InFlight = {}
  BY DEF RaceInit, InFlight
<1>3. DOMAIN claims = {}
  BY DEF RaceInit
<1>4. \A e : Settled(e)
  BY <1>3 DEF Settled, AgreeAt, UniqueAt, ServedAt
<1> QED
  BY <1>1, <1>2, <1>4 DEF SeparateInv, SeparateCustody

\* The setup stays the one the behaviour started from.
LEMMA SetupStays ==
    ASSUME [RaceNext]_raceVars
    PROVE  setup' = setup
<1>1. CASE \E w \in Worker : Start(w)
  BY <1>1 DEF Start, BeginSubmit, BeginApprove, BeginBorrow, BeginReturn, BeginCancel,
     Begin, outside
<1>2. CASE \E w \in Worker : Continue(w)
  <2> SUFFICES ASSUME NEW w \in Worker, Continue(w) PROVE setup' = setup
    BY <1>2
  <2>1. CASE CheckRules(w) \/ Place(w) \/ Reread(w) \/ Stamp(w)
    BY <2>1 DEF CheckRules, Place, Reread, Stamp, Goto, Finish, outside
  <2>2. CASE BorrowSave(w) \/ BorrowLoad(w) \/ BorrowEquip(w)
    BY <2>2 DEF BorrowSave, BorrowLoad, BorrowEquip, LoadEquipment, Goto, Finish, outside
  <2>3. CASE ReturnSave(w) \/ ReturnLoad(w) \/ ReturnEquip(w) \/ Promote(w)
    BY <2>3 DEF ReturnSave, ReturnLoad, ReturnEquip, Promote, LoadEquipment, Goto,
       Finish, outside
  <2>4. CASE CancelSave(w) \/ CancelRelease(w)
    BY <2>4 DEF CancelSave, CancelRelease, Goto, Finish, outside
  <2> QED
    BY <2>1, <2>2, <2>3, <2>4 DEF Continue
<1>3. CASE Elsewhere \/ UNCHANGED raceVars
  BY <1>3 DEF Elsewhere, raceVars
<1> QED
  BY <1>1, <1>2, <1>3 DEF RaceNext

LEMMA StepKeepsSeparate == SeparateInv /\ [RaceNext]_raceVars => SeparateInv'
<1> SUFFICES ASSUME SeparateInv, [RaceNext]_raceVars PROVE SeparateInv'
  OBVIOUS
<1>1. TypeInv /\ TypeInv'
  BY StepKeepsTypes DEF SeparateInv
<1>2. setup' = setup
  BY SetupStays
<1>3. ASSUME setup.overlap # "any"
      PROVE  SeparateCustody'
  <2>1. SeparateCustody
    BY <1>3 DEF SeparateInv
  <2>2. CASE \E w \in Worker : Start(w)
    BY <1>1, <1>3, <2>1, <2>2, StartSettles
  <2>3. CASE \E w \in Worker : Continue(w)
    BY <1>1, <2>1, <2>3, ContinueSettles
  <2>4. CASE Elsewhere \/ UNCHANGED raceVars
    <3>1. UNCHANGED <<storeVars, req>>
      BY <2>4 DEF Elsewhere, ShiftStep, raceVars, storeVars
    <3> QED
      BY <2>1, <3>1, RestSettles
  <2> QED
    BY <2>2, <2>3, <2>4 DEF RaceNext
<1> QED
  BY <1>1, <1>2, <1>3 DEF SeparateInv

\* Where no two calls in flight concern the same item, every item is settled or
\* under the one call that accounts for what it lacks.
THEOREM CallsAccountForItems == RaceSpec => []SeparateInv
BY InitEstablishesSeparate, StepKeepsSeparate, PTL DEF RaceSpec

-----------------------------------------------------------------------------
(***************************************************************************)
(* What the invariant says of the tables.                                  *)
(***************************************************************************)

\* Whatever a call has written so far, one claim at most holds its item.
LEMMA CallKeepsUnique ==
    ASSUME NEW call \in Calls, call.pc # "idle", CallInv(call)
    PROVE  UniqueAt(call.claim.item)
<1>1. call.pc \in PC
  BY CallShape
<1> QED
  BY <1>1 DEF PC, CallInv, Settled, AgreeAt, Unheld, UniqueAt, Holds

\* No two claims ever hold the same item while calls on different items
\* interleave at their store operations: the unique owner that SubmitClaim,
\* TryLockEquipment and PromoteNextQueued keep between them.
THEOREM HoldersStayUnique == RaceSpec => [](setup.overlap # "any" => OneHolder)
<1>1. SeparateInv => (setup.overlap # "any" => OneHolder)
  <2> SUFFICES ASSUME SeparateInv, setup.overlap # "any",
                      NEW c \in DOMAIN claims, NEW d \in DOMAIN claims,
                      claims[c].item = claims[d].item,
                      IsActive(claims[c].status), IsActive(claims[d].status)
               PROVE  c = d
    BY DEF OneHolder
  <2>1. PICK e : e = claims[c].item
    OBVIOUS
  <2>2. e \in EquipmentID /\ SeparateCustody /\ TypeInv
    BY <2>1 DEF SeparateInv, TypeInv, Tables, StoreTypeOK, EquipmentClaim
  <2>3. UniqueAt(e)
    <3>1. CASE ~Busy(e)
      BY <2>2, <3>1 DEF SeparateCustody, Settled, AgreeAt
    <3>2. ASSUME NEW w \in InFlight, req[w].claim.item = e
          PROVE  UniqueAt(e)
      <4>1. req[w].pc # "idle" /\ w \in Worker
        BY <2>2, InFlightIs
      <4>2. req[w] \in Calls /\ CallInv(req[w])
        BY <2>2, <4>1, CallFacts DEF SeparateCustody
      <4> QED
        BY <3>2, <4>1, <4>2, CallKeepsUnique
    <3> QED
      BY <3>1, <3>2 DEF Busy
  <2> QED
    BY <2>1, <2>3 DEF UniqueAt, Holds
<1> QED
  BY <1>1, CallsAccountForItems, PTL

\* An item that no call is about is in the custody its claim says, however the
\* calls on other items interleave.
THEOREM CustodySettles == RaceSpec => [](setup.overlap # "any" => SettledCustody)
<1>1. SeparateInv => (setup.overlap # "any" => SettledCustody)
  <2> SUFFICES ASSUME SeparateInv, setup.overlap # "any",
                      NEW c \in DOMAIN claims,
                      IsActive(claims[c].status), ~Busy(claims[c].item)
               PROVE  /\ equipment[claims[c].item].status = claims[c].status
                      /\ equipment[claims[c].item].lockedBy = claims[c].shift
                      /\ claims[c].status = "borrowed" =>
                            equipment[claims[c].item].heldBy = OfficerOf(claims[c])
    BY DEF SettledCustody
  <2>1. claims[c].item \in EquipmentID
    BY DEF SeparateInv, TypeInv, Tables, StoreTypeOK, EquipmentClaim
  <2>2. Settled(claims[c].item)
    BY <2>1 DEF SeparateInv, SeparateCustody
  <2> QED
    BY <2>2 DEF Settled, AgreeAt, Holds
<1> QED
  BY <1>1, CallsAccountForItems, PTL

\* A claim waits for a free item only while it lacks its approval or while the
\* call that freed the item has not returned.
THEOREM StandbySettles == RaceSpec => [](setup.overlap # "any" => SettledStandby)
<1>1. SeparateInv => (setup.overlap # "any" => SettledStandby)
  <2> SUFFICES ASSUME SeparateInv, setup.overlap # "any",
                      NEW c \in DOMAIN claims,
                      claims[c].status = "queued",
                      equipment[claims[c].item].status = "available",
                      ~Busy(claims[c].item)
               PROVE  CrossStation(claims[c]) /\ ~claims[c].approved
    BY DEF SettledStandby
  <2>1. claims[c].item \in EquipmentID /\ claims[c].item \in DOMAIN equipment
    BY DEF SeparateInv, TypeInv, Tables, StoreTypeOK, EquipmentClaim
  <2>2. Settled(claims[c].item)
    BY <2>1 DEF SeparateInv, SeparateCustody
  <2> QED
    BY <2>1, <2>2 DEF Settled, ServedAt
<1> QED
  BY <1>1, CallsAccountForItems, PTL
=============================================================================
