------------------------ MODULE RaceRefinementProofs ------------------------
(***************************************************************************)
(* Calls that run alone implement the atomic service: a theorem of         *)
(* EquipmentRaces for every value of its constants.                        *)
(*                                                                         *)
(* The history variable before keeps the tables a lone call began with.    *)
(* The invariant relates the tables to them at each program counter, so    *)
(* that the operation after which the call returns completes a step of     *)
(* EquipmentService from the tables before to the tables after.            *)
(***************************************************************************)
EXTENDS RaceProofs

(***************************************************************************)
(* The effect of TryLockEquipment, as a relation between two pairs of      *)
(* tables: items and table before, newItems and newTable after.            *)
(***************************************************************************)
Seized(items, table, newItems, newTable, id, claim) ==
    /\ newItems = [items EXCEPT ![claim.item] = LockedFor(@, claim.shift)]
    /\ newTable = Put(table, id, [claim EXCEPT !.status = "locked"])

Enqueued(items, table, newItems, newTable, id, claim) ==
    /\ newTable = Put(table, id, [claim EXCEPT !.status = "queued"])
    /\ newItems = items

TryLocked(items, oldTable, newItems, newTable, id, claim) ==
    LET e       == claim.item
        holders == ClaimsOn(oldTable, e, {"locked"})
    IN  /\ e \in DOMAIN items
        /\ \/ /\ \/ items[e].status \in {"available", "maintenance"}
                 \/ items[e].status = "locked" /\ holders = {}
              /\ Seized(items, oldTable, newItems, newTable, id, claim)
           \/ /\ items[e].status = "locked"
              /\ \E h \in holders :
                   \/ /\ Beats(claim, oldTable[h])
                      /\ Seized(items, [oldTable EXCEPT ![h].status = "queued"],
                                newItems, newTable, id, claim)
                   \/ /\ ~Beats(claim, oldTable[h])
                      /\ Enqueued(items, oldTable, newItems, newTable, id, claim)
           \/ /\ items[e].status = "borrowed"
              /\ Enqueued(items, oldTable, newItems, newTable, id, claim)

(***************************************************************************)
(* What a lone call has found and done.                                    *)
(***************************************************************************)

\* A submission builds its claim, an approval goes on with a stored one.
Wanted(table, id, claim) ==
    \/ /\ claim.status = None
       /\ id \notin DOMAIN table
       /\ claim.shift \in DOMAIN shifts
       /\ shifts[claim.shift] \in {"approved", "active"}
       /\ claim = NewClaim(claim.shift, claim.item)
    \/ /\ claim.status # None
       /\ id \in DOMAIN table
       /\ CrossStation(table[id])
       /\ ~table[id].approved
       /\ claim = [table[id] EXCEPT !.approved = TRUE]

\* The rules held of the tables the call began with.
Permitted(items, table, claim) ==
    /\ claim.item \in DOMAIN items
    /\ claim.shift \in DOMAIN shifts
    /\ InLockWindow(claim.shift)
    /\ claim.status = None =>
            \A c \in DOMAIN table : ~(/\ OfficerOf(table[c]) = OfficerOf(claim)
                                      /\ TypeOf(table[c]) = TypeOf(claim)
                                      /\ table[c].status = "borrowed")
    /\ WeatherPermits(claim.shift, claim.item)

\* A claim that may take the lock at once.
Direct(claim) == ~(CrossStation(claim) /\ claim.status = None)

\* How the tables differ, at each point of a call, from the tables it began with.
CallEffect(call) ==
    LET items          == before.equipment
        table          == before.claims
        e              == call.claim.item
        stored(status) == [table EXCEPT ![call.id].status = status]
    IN  /\ table \in [DOMAIN table -> EquipmentClaim]
        /\ call.pc \in {"rules", "place"} =>
                Wanted(table, call.id, call.claim)
        /\ call.pc = "place" => Permitted(items, table, call.claim)
        /\ call.pc \in {"reread", "stamp"} =>
                \E claim \in Snapshot :
                    /\ Wanted(table, call.id, claim)
                    /\ Permitted(items, table, claim)
                    /\ Direct(claim)
                    /\ TryLocked(items, table, equipment, claims, call.id, claim)
        /\ call.pc \notin {"rules", "place", "reread", "stamp"} =>
                call.id \in DOMAIN table /\ call.claim = table[call.id]
        /\ call.pc \in {"borrow.save", "borrow.load", "borrow.equip"} =>
                call.claim.status = "locked"
        /\ call.pc \in {"return.save", "return.load", "return.equip",
                        "return.promote"} => call.claim.status = "borrowed"
        /\ call.pc = "cancel.save" => ~IsTerminal(call.claim.status)
        /\ call.pc \in {"cancel.release", "cancel.promote"} =>
                call.claim.status = "locked"
        /\ call.pc \in {"rules", "place", "borrow.save", "return.save",
                        "cancel.save"} => claims = table
        /\ call.pc \in {"borrow.load", "borrow.equip"} => claims = stored("borrowed")
        /\ call.pc \in {"return.load", "return.equip", "return.promote"} =>
                claims = stored("returned")
        /\ call.pc \in {"cancel.release", "cancel.promote"} =>
                claims = stored("cancelled")
        /\ call.pc \notin {"reread", "stamp", "return.promote", "cancel.promote"} =>
                equipment = items
        /\ call.pc = "borrow.equip" => call.equip = items[e]
        /\ call.pc = "return.promote" =>
                equipment = [items EXCEPT ![e] =
                                Cleared(IF call.loss THEN "maintenance"
                                        ELSE "available")]
        /\ call.pc = "cancel.promote" =>
                equipment = [items EXCEPT ![e] = Cleared("available")]

\* One call at a time.
Alone ==
    /\ \A v, w \in InFlight : v = w
    /\ \A w \in InFlight : CallEffect(req[w])

\* The inductive invariant of calls that run alone.
AloneInv ==
    /\ SeparateInv
    /\ setup.overlap = "none" => Alone

-----------------------------------------------------------------------------
(***************************************************************************)
(* The steps of the atomic service, from the tables before a lone call to  *)
(* the tables when it returns.                                             *)
(***************************************************************************)

\* The rules and helpers that read no table are the same in the service.
LEMMA ServiceHelpers ==
    /\ \A claim, other : Service!Beats(claim, other) <=> Beats(claim, other)
    /\ \A table, key, value : Service!Put(table, key, value) = Put(table, key, value)
    /\ \A item, s : Service!LockedFor(item, s) = LockedFor(item, s)
    /\ \A table, e, statuses :
            Service!ClaimsOn(table, e, statuses) = ClaimsOn(table, e, statuses)
    /\ \A claim : Service!CrossStation(claim) <=> CrossStation(claim)
    /\ \A claim : Service!OfficerOf(claim) = OfficerOf(claim)
    /\ \A claim : Service!TypeOf(claim) = TypeOf(claim)
    /\ \A claim : Service!CanBorrow(claim) <=> CanBorrow(claim)
    /\ \A claim : Service!CanReturn(claim) <=> CanReturn(claim)
    /\ \A status : Service!IsTerminal(status) <=> IsTerminal(status)
    /\ \A status : Service!Cleared(status) = Cleared(status)
    /\ \A s : Service!InLockWindow(s) <=> InLockWindow(s)
    /\ \A s, e : Service!WeatherPermits(s, e) <=> WeatherPermits(s, e)
    /\ \A s, e : Service!NewClaim(s, e) = NewClaim(s, e)
<1>1. /\ \A claim, other : Service!Beats(claim, other) <=> Beats(claim, other)
      /\ \A table, key, value : Service!Put(table, key, value) = Put(table, key, value)
      /\ \A item, s : Service!LockedFor(item, s) = LockedFor(item, s)
      /\ \A table, e, statuses :
            Service!ClaimsOn(table, e, statuses) = ClaimsOn(table, e, statuses)
  BY DEF Service!Beats, Beats, Service!Put, Put, Service!LockedFor, LockedFor,
         Service!ClaimsOn, ClaimsOn
<1>2. /\ \A claim : Service!CrossStation(claim) <=> CrossStation(claim)
      /\ \A claim : Service!OfficerOf(claim) = OfficerOf(claim)
      /\ \A claim : Service!TypeOf(claim) = TypeOf(claim)
      /\ \A claim : Service!CanBorrow(claim) <=> CanBorrow(claim)
      /\ \A claim : Service!CanReturn(claim) <=> CanReturn(claim)
      /\ \A status : Service!IsTerminal(status) <=> IsTerminal(status)
      /\ \A status : Service!Cleared(status) = Cleared(status)
  BY DEF Service!CrossStation, CrossStation, Service!OfficerOf, OfficerOf,
         Service!TypeOf, TypeOf, Service!CanBorrow, CanBorrow, Service!CanReturn,
         CanReturn, Service!IsTerminal, IsTerminal, Service!Cleared, Cleared
<1>3. /\ \A s : Service!InLockWindow(s) <=> InLockWindow(s)
      /\ \A s, e : Service!WeatherPermits(s, e) <=> WeatherPermits(s, e)
      /\ \A s, e : Service!NewClaim(s, e) = NewClaim(s, e)
  BY DEF Service!InLockWindow, InLockWindow, Service!WeatherPermits, WeatherPermits,
         Service!DroneFlightProhibited, DroneFlightProhibited, Service!NewClaim,
         NewClaim
<1> QED
  BY <1>1, <1>2, <1>3

LEMMA ServiceSeize ==
    ASSUME Hidden, ~Hidden', NEW items, items = before.equipment,
           NEW table, NEW id, NEW claim,
           Seized(items, table, equipment', claims', id, claim)
    PROVE  Service!Seize(table, id, claim)
<1>1. PICK locked : locked = [claim EXCEPT !.status = "locked"]
  OBVIOUS
<1>2. claims' = Service!Put(table, id, locked)
  BY <1>1, ServiceHelpers DEF Seized
<1>3. equipment' = [items EXCEPT
                        ![claim.item] = Service!LockedFor(items[claim.item], claim.shift)]
  BY ServiceHelpers DEF Seized
<1> QED
  BY <1>1, <1>2, <1>3 DEF Service!Seize

LEMMA ServiceEnqueue ==
    ASSUME Hidden, ~Hidden', NEW items, items = before.equipment,
           NEW table, table = before.claims, NEW id, NEW claim,
           Enqueued(items, table, equipment', claims', id, claim)
    PROVE  Service!Enqueue(id, claim)
<1>1. PICK queued : queued = [claim EXCEPT !.status = "queued"]
  OBVIOUS
<1>2. claims' = Service!Put(table, id, queued)
  BY <1>1, ServiceHelpers DEF Enqueued
<1>3. equipment' = items
  BY DEF Enqueued
<1> QED
  BY <1>1, <1>2, <1>3 DEF Service!Enqueue

LEMMA ServiceTryLock ==
    ASSUME Hidden, ~Hidden', NEW items, items = before.equipment,
           NEW table, table = before.claims, NEW id, NEW claim,
           TryLocked(items, table, equipment', claims', id, claim)
    PROVE  Service!TryLockEquipment(id, claim)
<1>1. PICK e : e = claim.item
  OBVIOUS
<1>2. Service!LockHolders(e) = ClaimsOn(table, e, {"locked"})
  BY ServiceHelpers DEF Service!LockHolders
<1>3. e \in DOMAIN items
  BY <1>1 DEF TryLocked
<1>4. CASE /\ \/ items[e].status \in {"available", "maintenance"}
              \/ items[e].status = "locked" /\ ClaimsOn(table, e, {"locked"}) = {}
           /\ Seized(items, table, equipment', claims', id, claim)
  <2>1. Service!Seize(table, id, claim)
    BY <1>4, ServiceSeize
  <2> QED
    BY <1>1, <1>2, <1>3, <1>4, <2>1 DEF Service!TryLockEquipment
<1>5. ASSUME items[e].status = "locked",
             NEW h \in ClaimsOn(table, e, {"locked"}),
             \/ /\ Beats(claim, table[h])
                /\ Seized(items, [table EXCEPT ![h].status = "queued"],
                          equipment', claims', id, claim)
             \/ /\ ~Beats(claim, table[h])
                /\ Enqueued(items, table, equipment', claims', id, claim)
      PROVE  Service!TryLockEquipment(id, claim)
  <2>1. PICK demoted : demoted = [table EXCEPT ![h].status = "queued"]
    OBVIOUS
  <2>2. \/ Service!Beats(claim, table[h]) /\ Service!Seize(demoted, id, claim)
        \/ ~Service!Beats(claim, table[h]) /\ Service!Enqueue(id, claim)
    BY <1>5, <2>1, ServiceHelpers, ServiceSeize, ServiceEnqueue
  <2>3. h \in Service!LockHolders(e)
    BY <1>2
  <2> QED
    BY <1>1, <1>3, <1>5, <2>1, <2>2, <2>3 DEF Service!TryLockEquipment
<1>6. CASE /\ items[e].status = "borrowed"
           /\ Enqueued(items, table, equipment', claims', id, claim)
  <2>1. Service!Enqueue(id, claim)
    BY <1>6, ServiceEnqueue
  <2> QED
    BY <1>1, <1>3, <1>6, <2>1 DEF Service!TryLockEquipment
<1> QED
  BY <1>1, <1>4, <1>5, <1>6 DEF TryLocked

LEMMA ServicePromote ==
    ASSUME ~Hidden', NEW items, NEW table, NEW e, PromoteNextQueued(items, table, e)
    PROVE  Service!PromoteNextQueued(items, table, e)
<1>1. Service!QueuedClaimsForEquipment(table, e) = QueuedClaimsForEquipment(table, e)
  BY ServiceHelpers DEF Service!QueuedClaimsForEquipment, QueuedClaimsForEquipment
<1>2. CASE /\ \/ e \notin DOMAIN items
              \/ items[e].status # "available"
              \/ QueuedClaimsForEquipment(table, e) = {}
           /\ equipment' = items
           /\ claims' = table
  BY <1>1, <1>2 DEF Service!PromoteNextQueued
<1>3. ASSUME e \in DOMAIN items, items[e].status = "available",
             NEW best \in QueuedClaimsForEquipment(table, e),
             \A other \in QueuedClaimsForEquipment(table, e) :
                ~Beats(table[other], table[best]),
             equipment' = [items EXCEPT ![e] = LockedFor(@, table[best].shift)],
             claims' = [table EXCEPT ![best].status = "locked"]
      PROVE  Service!PromoteNextQueued(items, table, e)
  <2>1. /\ best \in Service!QueuedClaimsForEquipment(table, e)
        /\ \A other \in Service!QueuedClaimsForEquipment(table, e) :
                ~Service!Beats(table[other], table[best])
    BY <1>1, <1>3, ServiceHelpers
  <2>2. equipment' = [items EXCEPT
                        ![e] = Service!LockedFor(items[e], table[best].shift)]
    BY <1>3, ServiceHelpers
  <2> QED
    BY <1>3, <2>1, <2>2 DEF Service!PromoteNextQueued
<1> QED
  BY <1>2, <1>3 DEF PromoteNextQueued

LEMMA ServiceSubmit ==
    ASSUME Hidden, ~Hidden', UNCHANGED outside,
           NEW items, items = before.equipment, NEW table, table = before.claims,
           NEW id \in ClaimID, NEW claim \in Snapshot, claim.status = None,
           Wanted(table, id, claim), Permitted(items, table, claim),
           \/ /\ CrossStation(claim)
              /\ Enqueued(items, table, equipment', claims', id, claim)
           \/ /\ ~CrossStation(claim)
              /\ TryLocked(items, table, equipment', claims', id, claim)
    PROVE  Service!Next
<1>1. PICK officer, s, e : officer = OfficerOf(claim) /\ s = claim.shift /\ e = claim.item
  OBVIOUS
<1>2. s \in ShiftID /\ e \in EquipmentID /\ officer \in Officer
  BY <1>1, DomainAssumption DEF Snapshot, OfficerOf
<1>3. /\ id \notin DOMAIN table
      /\ claim = Service!NewClaim(s, e)
      /\ s \in DOMAIN shifts
      /\ shifts[s] \in {"approved", "active"}
      /\ ShiftSpec[s].officer = officer
  BY <1>1, ServiceHelpers DEF Wanted, OfficerOf
<1>4. Service!MayClaim(officer, s, e)
  <2>1. \A c \in DOMAIN table : ~(/\ Service!OfficerOf(table[c]) = officer
                                  /\ Service!TypeOf(table[c]) = EquipmentSpec[e].type
                                  /\ table[c].status = "borrowed")
    BY <1>1, ServiceHelpers DEF Permitted, TypeOf
  <2>2. Service!OutstandingBorrowed(officer, EquipmentSpec[e].type) = {}
    BY <2>1 DEF Service!OutstandingBorrowed
  <2>3. e \in DOMAIN items /\ Service!InLockWindow(s) /\ Service!WeatherPermits(s, e)
    BY <1>1, ServiceHelpers DEF Permitted
  <2> QED
    BY <1>3, <2>2, <2>3 DEF Service!MayClaim
<1>5. \/ Service!CrossStation(claim) /\ Service!Enqueue(id, claim)
      \/ ~Service!CrossStation(claim) /\ Service!TryLockEquipment(id, claim)
  BY ServiceEnqueue, ServiceTryLock, ServiceHelpers
<1>6. UNCHANGED <<Service!shiftVars, weather>>
  BY DEF outside, shiftVars, Service!shiftVars
<1>7. Service!SubmitClaim(id, officer, s, e)
  BY <1>3, <1>4, <1>5, <1>6 DEF Service!SubmitClaim
<1> QED
  BY <1>2, <1>7 DEF Service!Next

LEMMA ServiceApprove ==
    ASSUME Hidden, ~Hidden', UNCHANGED outside,
           NEW items, items = before.equipment, NEW table, table = before.claims,
           NEW id \in ClaimID, NEW claim \in Snapshot, claim.status # None,
           table[id] \in EquipmentClaim,
           Wanted(table, id, claim), Permitted(items, table, claim),
           TryLocked(items, table, equipment', claims', id, claim)
    PROVE  Service!Next
<1>1. /\ id \in DOMAIN table
      /\ Service!CrossStation(table[id])
      /\ ~table[id].approved
      /\ claim = [table[id] EXCEPT !.approved = TRUE]
  BY ServiceHelpers DEF Wanted
<1>2. claim.shift = table[id].shift /\ claim.item = table[id].item
  BY <1>1 DEF EquipmentClaim
<1>3. /\ table[id].shift \in DOMAIN shifts
      /\ Service!InLockWindow(table[id].shift)
      /\ Service!WeatherPermits(table[id].shift, table[id].item)
  BY <1>2, ServiceHelpers DEF Permitted
<1>4. Service!TryLockEquipment(id, claim)
  BY ServiceTryLock
<1>5. UNCHANGED <<Service!shiftVars, weather>>
  BY DEF outside, shiftVars, Service!shiftVars
<1>6. Service!ApproveCrossStationClaim(id)
  BY <1>1, <1>3, <1>4, <1>5 DEF Service!ApproveCrossStationClaim
<1> QED
  BY <1>6 DEF Service!Next

LEMMA ServiceBorrow ==
    ASSUME Hidden, ~Hidden', UNCHANGED outside,
           NEW items, items = before.equipment, NEW table, table = before.claims,
           NEW id \in ClaimID, id \in DOMAIN table,
           NEW claim, claim = table[id], claim.status = "locked",
           NEW e, e = claim.item, e \in DOMAIN items,
           NEW officer, officer = OfficerOf(claim),
           NEW item, item = [items[e] EXCEPT !.status = "borrowed", !.heldBy = officer],
           equipment' = [items EXCEPT ![e] = item],
           NEW lent, lent = [table EXCEPT ![id].status = "borrowed"],
           claims' = lent
    PROVE  Service!Next
<1>1. UNCHANGED <<Service!shiftVars, weather>>
  BY DEF outside, shiftVars, Service!shiftVars
<1>2. Service!CanBorrow(claim) /\ Service!OfficerOf(claim) = OfficerOf(claim)
  BY ServiceHelpers DEF CanBorrow
<1>3. equipment' = [items EXCEPT ![e].status = "borrowed",
                                 ![e].heldBy = Service!OfficerOf(claim)]
  BY <1>2
<1>4. Service!BorrowEquipment(id)
  BY <1>1, <1>2, <1>3 DEF Service!BorrowEquipment
<1> QED
  BY <1>4 DEF Service!Next

LEMMA ServiceReturn ==
    ASSUME Hidden, ~Hidden', UNCHANGED outside,
           NEW items, items = before.equipment, NEW table, table = before.claims,
           NEW id \in ClaimID, id \in DOMAIN table,
           NEW claim, claim = table[id], claim.status = "borrowed",
           NEW e, e = claim.item, e \in DOMAIN items,
           NEW loss \in BOOLEAN,
           NEW left, left = Cleared(IF loss THEN "maintenance" ELSE "available"),
           NEW cleared, cleared = [items EXCEPT ![e] = left],
           NEW dropped, dropped = [table EXCEPT ![id].status = "returned"],
           PromoteNextQueued(cleared, dropped, e)
    PROVE  Service!Next
<1>1. UNCHANGED <<Service!shiftVars, weather>>
  BY DEF outside, shiftVars, Service!shiftVars
<1>2. Service!CanReturn(claim)
  BY ServiceHelpers DEF CanReturn
<1>3. left = Service!Cleared(IF loss THEN "maintenance" ELSE "available")
  BY ServiceHelpers
<1>4. Service!PromoteNextQueued(cleared, dropped, e)
  BY ServicePromote
<1>5. Service!ReturnEquipment(id, loss)
  BY <1>1, <1>2, <1>3, <1>4 DEF Service!ReturnEquipment
<1> QED
  BY <1>5 DEF Service!Next

LEMMA ServiceCancel ==
    ASSUME Hidden, ~Hidden', UNCHANGED outside,
           NEW items, items = before.equipment, NEW table, table = before.claims,
           NEW id \in ClaimID, id \in DOMAIN table,
           NEW claim, claim = table[id], ~IsTerminal(claim.status),
           NEW e, e = claim.item, e \in DOMAIN items,
           NEW cleared, cleared = [items EXCEPT ![e] = Cleared("available")],
           NEW dropped, dropped = [table EXCEPT ![id].status = "cancelled"],
           \/ /\ claim.status = "locked"
              /\ PromoteNextQueued(cleared, dropped, e)
           \/ /\ claim.status # "locked"
              /\ equipment' = items
              /\ claims' = dropped
    PROVE  Service!Next
<1>1. UNCHANGED <<Service!shiftVars, weather>>
  BY DEF outside, shiftVars, Service!shiftVars
<1>2. ~Service!IsTerminal(claim.status)
  BY ServiceHelpers
<1>3. Service!Released(e) = cleared
  BY ServiceHelpers DEF Service!Released
<1>4. Service!CancelClaim(id)
  <2>1. CASE claim.status = "locked"
    <3>1. Service!PromoteNextQueued(cleared, dropped, e)
      BY <2>1, ServicePromote
    <3> QED
      BY <1>1, <1>2, <1>3, <2>1, <3>1 DEF Service!CancelClaim
  <2>2. CASE claim.status # "locked"
    BY <1>1, <1>2, <2>2 DEF Service!CancelClaim
  <2> QED
    BY <2>1, <2>2
<1> QED
  BY <1>4 DEF Service!Next

\* Shift operations and the clock are the same in the service.
LEMMA ServiceShifts ==
    ASSUME ~Hidden, ~Hidden', ShiftStep
    PROVE  Service!Next
<1>1. \A s, target : Service!MoveShift(s, target) <=> MoveShift(s, target)
  BY DEF Service!MoveShift, MoveShift, Service!ShiftCanTransition, ShiftCanTransition,
         Service!ShiftEdges, ShiftEdges
<1>2. \A station, accepted :
        Service!GenerateWeeklyShifts(station, accepted)
            <=> GenerateWeeklyShifts(station, accepted)
  BY DEF Service!GenerateWeeklyShifts, GenerateWeeklyShifts
<1>3. Service!DueShifts = DueShifts
  BY DEF Service!DueShifts, DueShifts
<1>4. /\ Service!ActivateDueShifts <=> ActivateDueShifts
      /\ Service!Tick <=> Tick
  BY <1>3 DEF Service!ActivateDueShifts, ActivateDueShifts, Service!Tick, Tick
<1>5. Service!ShiftNext
  BY <1>1, <1>2, <1>4 DEF ShiftStep, ShiftNext, Service!ShiftNext,
     Service!SubmitShift, SubmitShift, Service!ApproveShift, ApproveShift,
     Service!CompleteShift, CompleteShift, Service!CancelShift, CancelShift
<1>6. UNCHANGED <<Service!storeVars, weather>>
  BY DEF ShiftStep, storeVars, Service!storeVars
<1>7. Service!ShiftStep
  BY <1>5, <1>6 DEF Service!ShiftStep
<1> QED
  BY <1>7 DEF Service!Next

-----------------------------------------------------------------------------
(***************************************************************************)
(* The operations of a lone call.                                          *)
(***************************************************************************)

\* What a step does that is a step of the service or none, and leaves the invariant.
AloneStep == Alone' /\ [Service!Next]_(Service!vars)

\* What a call found and may do rests on the shifts, the clock and the weather.
LEMMA OutsideKeeps ==
    ASSUME UNCHANGED outside
    PROVE  /\ \A table, id, claim :
                Wanted(table, id, claim)' <=> Wanted(table, id, claim)
           /\ \A items, table, claim :
                Permitted(items, table, claim)' <=> Permitted(items, table, claim)
BY DEF outside, shiftVars, Wanted, Permitted, NewClaim, InLockWindow, WeatherPermits,
       CrossStation, OfficerOf, TypeOf, DroneFlightProhibited

\* The lone call in flight.
LEMMA LoneCall ==
    ASSUME TypeInv, Alone, setup.overlap = "none",
           NEW w \in Worker, req[w].pc # "idle", NEW call, call = req[w]
    PROVE  /\ InFlight = {w}
           /\ Hidden
           /\ CallEffect(call)
BY InFlightIs DEF Alone, Hidden

\* The call goes on: nothing is seen of it yet.
LEMMA LoneGoesOn ==
    ASSUME TypeInv, TypeInv', Alone, setup.overlap = "none",
           NEW w \in Worker, req[w].pc # "idle",
           NEW call, call.pc # "idle", req' = [req EXCEPT ![w] = call],
           CallEffect(call)', UNCHANGED <<before, outside>>
    PROVE  AloneStep
<1>1. /\ req'[w] = call
      /\ \A v \in Worker : v # w => req'[v] = req[v]
  BY DEF TypeInv, RaceTypeOK
<1>2. InFlight = {w} /\ Hidden
  BY LoneCall
<1>3. InFlight' = {w}
  BY <1>1, <1>2 DEF InFlight, Idle
<1>4. Alone'
  <2>1. CallEffect(req[w])'
    BY <1>1 DEF CallEffect
  <2> QED
    BY <1>3, <2>1 DEF Alone
<1>5. Hidden'
  BY <1>3 DEF Hidden, outside
<1>6. UNCHANGED Service!vars
  BY <1>2, <1>5 DEF Service!vars, outside, shiftVars
<1> QED
  BY <1>4, <1>6 DEF AloneStep

\* The call returns: its effect is seen.
LEMMA LoneReturns ==
    ASSUME TypeInv, TypeInv', Alone, setup.overlap = "none",
           NEW w \in Worker, req[w].pc # "idle", Finish(w)
    PROVE  /\ Hidden /\ ~Hidden'
           /\ Service!Next => AloneStep
           /\ equipment' = before.equipment /\ claims' = before.claims => AloneStep
<1>1. InFlight = {w} /\ Hidden
  BY LoneCall
<1>2. InFlight' = {}
  BY <1>1 DEF Finish, InFlight, TypeInv, RaceTypeOK
<1>3. ~Hidden'
  BY <1>2 DEF Hidden
<1>4. Alone'
  BY <1>2 DEF Alone
<1>5. ASSUME equipment' = before.equipment, claims' = before.claims
      PROVE  UNCHANGED Service!vars
  BY <1>1, <1>3, <1>5 DEF Service!vars, Finish, outside, shiftVars
<1> QED
  BY <1>1, <1>3, <1>4, <1>5 DEF AloneStep

\* A call begins: what it read and the tables it began with.
LEMMA LoneBegins ==
    ASSUME TypeInv, TypeInv', setup.overlap = "none", NEW w \in Worker,
           NEW pc, NEW id, NEW claim, NEW loss, Begin(w, pc, id, claim, loss),
           NEW items, items = equipment, NEW table, table = claims,
           pc \in {"rules", "borrow.save", "return.save", "cancel.save"},
           pc = "rules" => Wanted(table, id, claim),
           pc # "rules" => id \in DOMAIN table /\ claim = table[id],
           pc = "borrow.save" => claim.status = "locked",
           pc = "return.save" => claim.status = "borrowed",
           pc = "cancel.save" => ~IsTerminal(claim.status)
    PROVE  AloneStep
<1>1. PICK call : call = [pc |-> pc, id |-> id, claim |-> claim,
                          equip |-> None, loss |-> loss]
  OBVIOUS
<1>2. /\ req' = [req EXCEPT ![w] = call]
      /\ before' = [equipment |-> items, claims |-> table]
      /\ UNCHANGED <<outside, storeVars>>
      /\ InFlight = {}
  BY <1>1 DEF Begin, MayStart
<1>3. /\ req'[w] = call
      /\ \A v \in Worker : v # w => req'[v] = req[v]
      /\ call # Idle
  BY <1>1, <1>2 DEF TypeInv, RaceTypeOK, Idle
<1>4. InFlight' = {w}
  BY <1>2, <1>3 DEF InFlight, Idle
<1>5. Wanted(table, id, claim)' <=> Wanted(table, id, claim)
  BY <1>2, OutsideKeeps
<1>6. /\ before'.equipment = items
      /\ before'.claims = table
      /\ equipment' = items
      /\ claims' = table
      /\ table \in [DOMAIN table -> EquipmentClaim]
  BY <1>2 DEF storeVars, TypeInv, Tables, StoreTypeOK
<1>7. CallEffect(call)'
  BY <1>1, <1>5, <1>6 DEF CallEffect
<1>8. Alone'
  <2>1. CallEffect(req[w])'
    BY <1>3, <1>7 DEF CallEffect
  <2> QED
    BY <1>4, <2>1 DEF Alone
<1>9. ~Hidden /\ Hidden'
  BY <1>2, <1>4 DEF Hidden, outside
<1>10. UNCHANGED Service!vars
  BY <1>2, <1>6, <1>9 DEF Service!vars, outside, shiftVars
<1> QED
  BY <1>8, <1>10 DEF AloneStep

LEMMA LoneStart ==
    ASSUME TypeInv, TypeInv', setup.overlap = "none", NEW w \in Worker, Start(w)
    PROVE  AloneStep
<1>1. PICK items, table : items = equipment /\ table = claims
  OBVIOUS
<1>2. ASSUME NEW id \in DOMAIN claims
      PROVE  claims[id] \in EquipmentClaim /\ claims[id].status # None
  <2>1. claims[id] \in EquipmentClaim
    BY DEF TypeInv, Tables, StoreTypeOK
  <2> QED
    BY <2>1, StatusAssumption DEF EquipmentClaim
<1>3. ASSUME NEW id \in ClaimID, NEW officer \in Officer, NEW s \in ShiftID,
             NEW e \in EquipmentID, BeginSubmit(w, id, officer, s, e)
      PROVE  AloneStep
  <2>1. PICK claim : claim = NewClaim(s, e)
    OBVIOUS
  <2>2. Wanted(table, id, claim)
    BY <1>1, <1>3, <2>1 DEF Wanted, NewClaim, BeginSubmit
  <2>3. Begin(w, "rules", id, claim, FALSE)
    BY <1>3, <2>1 DEF BeginSubmit
  <2> QED
    BY <1>1, <2>2, <2>3, LoneBegins
<1>4. ASSUME NEW id \in ClaimID, BeginApprove(w, id)
      PROVE  AloneStep
  <2>1. PICK claim : claim = [claims[id] EXCEPT !.approved = TRUE]
    OBVIOUS
  <2>2. claim.status # None
    BY <1>2, <1>4, <2>1 DEF BeginApprove, EquipmentClaim
  <2>3. Wanted(table, id, claim)
    BY <1>1, <1>4, <2>1, <2>2 DEF Wanted, BeginApprove
  <2>4. Begin(w, "rules", id, claim, FALSE)
    BY <1>4, <2>1 DEF BeginApprove
  <2> QED
    BY <1>1, <2>3, <2>4, LoneBegins
<1>5. ASSUME NEW id \in ClaimID, BeginBorrow(w, id)
      PROVE  AloneStep
  <2>1. PICK claim, loss : claim = claims[id] /\ loss = FALSE
    OBVIOUS
  <2>2. /\ Begin(w, "borrow.save", id, claim, loss)
        /\ id \in DOMAIN table
        /\ claim = table[id]
        /\ claim.status = "locked"
    BY <1>1, <1>5, <2>1 DEF BeginBorrow, CanBorrow
  <2> QED
    BY <1>1, <2>2, LoneBegins
<1>6. ASSUME NEW id \in ClaimID, NEW loss, loss \in BOOLEAN, BeginReturn(w, id, loss)
      PROVE  AloneStep
  <2>1. PICK claim : claim = claims[id]
    OBVIOUS
  <2>2. /\ Begin(w, "return.save", id, claim, loss)
        /\ id \in DOMAIN table
        /\ claim = table[id]
        /\ claim.status = "borrowed"
    BY <1>1, <1>6, <2>1 DEF BeginReturn, CanReturn
  <2> QED
    BY <1>1, <2>2, LoneBegins
<1>7. ASSUME NEW id \in ClaimID, BeginCancel(w, id)
      PROVE  AloneStep
  <2>1. PICK claim, loss : claim = claims[id] /\ loss = FALSE
    OBVIOUS
  <2>2. /\ Begin(w, "cancel.save", id, claim, loss)
        /\ id \in DOMAIN table
        /\ claim = table[id]
        /\ ~IsTerminal(claim.status)
    BY <1>1, <1>7, <2>1 DEF BeginCancel
  <2> QED
    BY <1>1, <2>2, LoneBegins
<1> QED
  BY <1>3, <1>4, <1>5, <1>6, <1>7 DEF Start

\* The rules are checked on the tables the call began with.
LEMMA LoneCheckRules ==
    ASSUME TypeInv, TypeInv', Alone, setup.overlap = "none",
           NEW w \in Worker, CheckRules(w)
    PROVE  AloneStep
<1>1. PICK own, items, table : /\ own = req[w]
                               /\ items = before.equipment
                               /\ table = before.claims
  OBVIOUS
<1>2. /\ own.pc = "rules"
      /\ req[w].pc # "idle"
      /\ equipment' = equipment
      /\ claims' = claims
  BY <1>1 DEF CheckRules, At, storeVars
<1>3. /\ Hidden
      /\ CallEffect(own)
      /\ own \in Request
      /\ own.claim \in Snapshot
  BY <1>1, <1>2, LoneCall, CallFacts
<1>4. /\ Wanted(table, own.id, own.claim)
      /\ claims = table
      /\ equipment = items
      /\ table \in [DOMAIN table -> EquipmentClaim]
  BY <1>1, <1>2, <1>3 DEF CallEffect
<1>5. CASE Finish(w)
  BY <1>1, <1>2, <1>4, <1>5, LoneReturns
<1>6. ASSUME RulesHold(req[w].claim, Submitting(w)),
             req' = [req EXCEPT
                       ![w].pc = "place",
                       ![w].claim.submittedAt =
                            IF Submitting(w) THEN clock ELSE @],
             UNCHANGED <<before, outside>>
      PROVE  AloneStep
  <2>1. PICK at : at = IF Submitting(w) THEN clock ELSE own.claim.submittedAt
    OBVIOUS
  <2>2. at = own.claim.submittedAt
    BY <1>1, <1>4, <2>1 DEF Wanted, NewClaim, Submitting
  <2>3. PICK call : call = [own EXCEPT !.pc = "place", !.claim.submittedAt = at]
    OBVIOUS
  <2>4. /\ call.pc = "place" /\ call.pc # "idle"
        /\ call.id = own.id
        /\ call.claim = own.claim
    BY <1>3, <2>2, <2>3 DEF Request, Snapshot
  <2>5. req' = [req EXCEPT ![w] = call]
    BY <1>1, <1>3, <1>6, <2>1, <2>3 DEF Request
  <2>6. Permitted(items, table, own.claim)
    BY <1>1, <1>4, <1>6 DEF RulesHold, Permitted, Submitting, OutstandingBorrowed
  <2>7. /\ Wanted(table, own.id, own.claim)'
        /\ Permitted(items, table, own.claim)'
    BY <1>4, <1>6, <2>6, OutsideKeeps
  <2>8. CallEffect(call)'
    BY <1>1, <1>2, <1>4, <1>6, <2>4, <2>7 DEF CallEffect
  <2> QED
    BY <1>1, <1>2, <1>6, <2>4, <2>5, <2>8, LoneGoesOn
<1> QED
  BY <1>5, <1>6 DEF CheckRules

\* The operation of the store as a relation of the tables.
LEMMA TryLockRelates ==
    ASSUME NEW items, items = equipment, NEW table, table = claims,
           NEW id, NEW claim, TryLockEquipment(id, claim)
    PROVE  TryLocked(items, table, equipment', claims', id, claim)
BY DEF TryLockEquipment, TryLocked, Seize, Seized, Enqueue, Enqueued, LockHolders

\* A submission or an approval takes effect with the tables it is seen to leave.
LEMMA LonePlaced ==
    ASSUME Hidden, ~Hidden', UNCHANGED outside,
           NEW items, items = before.equipment, NEW table, table = before.claims,
           table \in [DOMAIN table -> EquipmentClaim],
           NEW id \in ClaimID, NEW claim \in Snapshot,
           Wanted(table, id, claim), Permitted(items, table, claim), Direct(claim),
           TryLocked(items, table, equipment', claims', id, claim)
    PROVE  Service!Next
<1>1. CASE claim.status = None
  BY <1>1, ServiceSubmit DEF Direct
<1>2. CASE claim.status # None
  BY <1>2, ServiceApprove DEF Wanted
<1> QED
  BY <1>1, <1>2

LEMMA LonePlace ==
    ASSUME TypeInv, TypeInv', Alone, setup.overlap = "none",
           NEW w \in Worker, Place(w)
    PROVE  AloneStep
<1>1. PICK own, items, table, id, claim : /\ own = req[w]
                                          /\ items = before.equipment
                                          /\ table = before.claims
                                          /\ id = req[w].id
                                          /\ claim = req[w].claim
  OBVIOUS
<1>2. own.pc = "place" /\ req[w].pc # "idle"
  BY <1>1 DEF Place, At
<1>3. /\ Hidden
      /\ CallEffect(own)
      /\ own \in Request
      /\ claim \in Snapshot
      /\ id \in ClaimID
  BY <1>1, <1>2, LoneCall, CallFacts
<1>4. /\ Wanted(table, id, claim)
      /\ Permitted(items, table, claim)
      /\ claims = table
      /\ equipment = items
      /\ table \in [DOMAIN table -> EquipmentClaim]
  BY <1>1, <1>2, <1>3 DEF CallEffect
<1>5. CASE CrossStation(claim) /\ Submitting(w) /\ Enqueue(id, claim) /\ Finish(w)
  <2>1. claim.status = None /\ UNCHANGED outside /\ ~Hidden'
    BY <1>1, <1>2, <1>5, LoneReturns DEF Submitting, Finish
  <2>2. Enqueued(items, table, equipment', claims', id, claim)
    BY <1>4, <1>5 DEF Enqueue, Enqueued
  <2>3. Service!Next
    BY <1>1, <1>3, <1>4, <1>5, <2>1, <2>2, ServiceSubmit
  <2> QED
    BY <1>2, <1>5, <2>3, LoneReturns
<1>6. ASSUME ~(CrossStation(claim) /\ Submitting(w)), TryLockEquipment(id, claim)
      PROVE  /\ Direct(claim)
             /\ TryLocked(items, table, equipment', claims', id, claim)
  BY <1>1, <1>4, <1>6, TryLockRelates DEF Direct, Submitting
<1>7. CASE ~(CrossStation(claim) /\ Submitting(w)) /\ TryLockEquipment(id, claim)
           /\ Finish(w)
  <2>1. UNCHANGED outside /\ ~Hidden'
    BY <1>2, <1>7, LoneReturns DEF Finish
  <2>2. Service!Next
    BY <1>1, <1>3, <1>4, <1>6, <1>7, <2>1, LonePlaced
  <2> QED
    BY <1>2, <1>7, <2>2, LoneReturns
<1>8. CASE ~(CrossStation(claim) /\ Submitting(w)) /\ TryLockEquipment(id, claim)
           /\ Goto(w, "reread")
  <2>1. PICK call : call = [own EXCEPT !.pc = "reread"]
    OBVIOUS
  <2>2. /\ call.pc = "reread" /\ call.pc # "idle"
        /\ call.id = id
        /\ call.claim = claim
    BY <1>1, <1>3, <2>1 DEF Request
  <2>3. req' = [req EXCEPT ![w] = call] /\ UNCHANGED <<before, outside>>
    BY <1>1, <1>8, <2>1 DEF Goto
  <2>4. Wanted(table, id, claim)' /\ Permitted(items, table, claim)' /\ Direct(claim)'
    BY <1>4, <1>6, <1>8, <2>3, OutsideKeeps DEF Direct
  <2>5. CallEffect(call)'
    <3>1. before'.equipment = items /\ before'.claims = table
      BY <1>1, <2>3
    <3>2. TryLocked(items, table, equipment', claims', id, claim)
      BY <1>6, <1>8
    <3> QED
      BY <1>3, <1>4, <2>2, <2>4, <3>1, <3>2 DEF CallEffect
  <2> QED
    BY <1>2, <2>2, <2>3, <2>5, LoneGoesOn
<1> QED
  BY <1>1, <1>5, <1>7, <1>8 DEF Place

\* The winner reads its claim back.
LEMMA LoneReread ==
    ASSUME TypeInv, TypeInv', Alone, setup.overlap = "none",
           NEW w \in Worker, Reread(w)
    PROVE  AloneStep
<1>1. PICK own, items, table, read : /\ own = req[w]
                                     /\ items = before.equipment
                                     /\ table = before.claims
                                     /\ read = claims[req[w].id]
  OBVIOUS
<1>2. /\ own.pc = "reread"
      /\ req[w].pc # "idle"
      /\ req' = [req EXCEPT ![w].pc = "stamp", ![w].claim = read]
      /\ UNCHANGED <<before, outside>>
      /\ equipment' = equipment
      /\ claims' = claims
  BY <1>1 DEF Reread, At, storeVars
<1>3. CallEffect(own) /\ own \in Request
  BY <1>1, <1>2, LoneCall, CallFacts
<1>4. PICK claim \in Snapshot :
        /\ Wanted(table, own.id, claim)
        /\ Permitted(items, table, claim)
        /\ Direct(claim)
        /\ TryLocked(items, table, equipment, claims, own.id, claim)
  BY <1>1, <1>2, <1>3 DEF CallEffect
<1>5. table \in [DOMAIN table -> EquipmentClaim]
  BY <1>1, <1>3 DEF CallEffect
<1>6. PICK call : call = [own EXCEPT !.pc = "stamp", !.claim = read]
  OBVIOUS
<1>7. /\ call.pc = "stamp" /\ call.pc # "idle"
      /\ call.id = own.id
  BY <1>3, <1>6 DEF Request
<1>8. req' = [req EXCEPT ![w] = call]
  BY <1>1, <1>2, <1>3, <1>6 DEF Request
<1>9. Wanted(table, own.id, claim)' /\ Permitted(items, table, claim)'
  BY <1>2, <1>4, OutsideKeeps
<1>10. CallEffect(call)'
  BY <1>1, <1>2, <1>4, <1>5, <1>7, <1>9 DEF CallEffect, Direct
<1> QED
  BY <1>2, <1>7, <1>8, <1>10, LoneGoesOn

\* The stamp changes no table: the call has taken effect as it was placed.
LEMMA LoneStamp ==
    ASSUME TypeInv, TypeInv', SeparateCustody, Alone, setup.overlap = "none",
           NEW w \in Worker, Stamp(w)
    PROVE  AloneStep
<1>1. PICK own, items, table : /\ own = req[w]
                               /\ items = before.equipment
                               /\ table = before.claims
  OBVIOUS
<1>2. /\ own.pc = "stamp"
      /\ req[w].pc # "idle"
      /\ Finish(w)
      /\ UNCHANGED outside
      /\ equipment' = equipment
      /\ claims' = claims
  BY <1>1, StampWritesBack DEF Stamp, At, storeVars, Finish
<1>3. CallEffect(own) /\ own.id \in ClaimID /\ Hidden /\ ~Hidden'
  BY <1>1, <1>2, LoneCall, LoneReturns, CallFacts
<1>4. PICK claim \in Snapshot :
        /\ Wanted(table, own.id, claim)
        /\ Permitted(items, table, claim)
        /\ Direct(claim)
        /\ TryLocked(items, table, equipment, claims, own.id, claim)
  BY <1>1, <1>2, <1>3 DEF CallEffect
<1>5. table \in [DOMAIN table -> EquipmentClaim]
  BY <1>1, <1>3 DEF CallEffect
<1>6. TryLocked(items, table, equipment', claims', own.id, claim)
  BY <1>2, <1>4
<1>7. Service!Next
  BY <1>1, <1>2, <1>3, <1>4, <1>5, <1>6, LonePlaced
<1> QED
  BY <1>2, <1>7, LoneReturns

\* A claim that was read is stored under another status.
LEMMA LoneSave ==
    ASSUME TypeInv, Alone, setup.overlap = "none", NEW w \in Worker,
           NEW own, own = req[w], own.pc \in {"borrow.save", "return.save", "cancel.save"},
           NEW items, items = before.equipment, NEW table, table = before.claims,
           NEW status, SaveClaim(w, status)
    PROVE  /\ own.pc # "idle" /\ own.id \in DOMAIN table /\ own.claim = table[own.id]
           /\ table \in [DOMAIN table -> EquipmentClaim]
           /\ equipment = items
           /\ equipment' = items
           /\ claims' = [table EXCEPT ![own.id].status = status]
<1>1. CallEffect(own)
  BY LoneCall
<1>2. /\ own.id \in DOMAIN table
      /\ own.claim = table[own.id]
      /\ claims = table
      /\ equipment = items
      /\ table \in [DOMAIN table -> EquipmentClaim]
  BY <1>1 DEF CallEffect
<1>3. claims' = Put(table, own.id, [table[own.id] EXCEPT !.status = status])
  BY <1>2 DEF SaveClaim
<1>4. claims' = [table EXCEPT ![own.id].status = status]
  BY <1>2, <1>3 DEF Put
<1> QED
  BY <1>2, <1>4 DEF SaveClaim

LEMMA LoneBorrowSave ==
    ASSUME TypeInv, TypeInv', Alone, setup.overlap = "none",
           NEW w \in Worker, BorrowSave(w) \/ ReturnSave(w)
    PROVE  AloneStep
<1>1. PICK own, items, table, pc, status :
        /\ own = req[w]
        /\ items = before.equipment
        /\ table = before.claims
        /\ pc = IF req[w].pc = "borrow.save" THEN "borrow.load" ELSE "return.load"
        /\ status = IF req[w].pc = "borrow.save" THEN "borrowed" ELSE "returned"
  OBVIOUS
<1>2. /\ own.pc \in {"borrow.save", "return.save"}
      /\ req[w].pc # "idle"
      /\ SaveClaim(w, status)
      /\ Goto(w, pc)
  BY <1>1 DEF BorrowSave, ReturnSave, At
<1>3. /\ own.id \in DOMAIN table /\ own.claim = table[own.id]
      /\ table \in [DOMAIN table -> EquipmentClaim]
      /\ equipment' = items
      /\ claims' = [table EXCEPT ![own.id].status = status]
  BY <1>1, <1>2, LoneSave
<1>4. CallEffect(own) /\ own \in Request
  BY <1>1, <1>2, LoneCall, CallFacts
<1>5. PICK call : call = [own EXCEPT !.pc = pc]
  OBVIOUS
<1>6. /\ call.pc = pc /\ call.pc # "idle"
      /\ call.id = own.id
      /\ call.claim = own.claim
  BY <1>1, <1>4, <1>5 DEF Request
<1>7. req' = [req EXCEPT ![w] = call] /\ UNCHANGED <<before, outside>>
  BY <1>1, <1>2, <1>5 DEF Goto
<1>8. CallEffect(call)'
  BY <1>1, <1>2, <1>3, <1>4, <1>6, <1>7 DEF CallEffect
<1> QED
  BY <1>2, <1>6, <1>7, <1>8, LoneGoesOn

LEMMA LoneLoad ==
    ASSUME TypeInv, TypeInv', Alone, setup.overlap = "none",
           NEW w \in Worker, BorrowLoad(w) \/ ReturnLoad(w)
    PROVE  AloneStep
<1>1. PICK own, items, table, pc, item :
        /\ own = req[w]
        /\ items = before.equipment
        /\ table = before.claims
        /\ pc = IF req[w].pc = "borrow.load" THEN "borrow.equip" ELSE "return.equip"
        /\ item = equipment[req[w].claim.item]
  OBVIOUS
<1>2. /\ own.pc \in {"borrow.load", "return.load"}
      /\ req[w].pc # "idle"
      /\ req' = [req EXCEPT ![w].pc = pc, ![w].equip = item]
      /\ UNCHANGED <<before, outside>>
      /\ equipment' = equipment
      /\ claims' = claims
  BY <1>1 DEF BorrowLoad, ReturnLoad, At, LoadEquipment, storeVars
<1>3. CallEffect(own) /\ own \in Request
  BY <1>1, <1>2, LoneCall, CallFacts
<1>4. PICK call : call = [own EXCEPT !.pc = pc, !.equip = item]
  OBVIOUS
<1>5. /\ call.pc = pc /\ call.pc # "idle"
      /\ call.id = own.id
      /\ call.claim = own.claim
      /\ call.equip = item
  BY <1>1, <1>3, <1>4 DEF Request
<1>6. req' = [req EXCEPT ![w] = call]
  BY <1>1, <1>2, <1>3, <1>4 DEF Request
<1>7. CallEffect(call)'
  BY <1>1, <1>2, <1>3, <1>5 DEF CallEffect
<1> QED
  BY <1>2, <1>5, <1>6, <1>7, LoneGoesOn

\* The borrow takes effect with the row of its item.
LEMMA LoneBorrowEquip ==
    ASSUME TypeInv, TypeInv', Alone, setup.overlap = "none",
           NEW w \in Worker, BorrowEquip(w)
    PROVE  AloneStep
<1>1. PICK own, items, table, id, claim, e :
        /\ own = req[w]
        /\ items = before.equipment
        /\ table = before.claims
        /\ id = req[w].id
        /\ claim = req[w].claim
        /\ e = req[w].claim.item
  OBVIOUS
<1>2. /\ own.pc = "borrow.equip"
      /\ req[w].pc # "idle"
      /\ Finish(w)
      /\ UNCHANGED outside
      /\ claims' = claims
      /\ equipment' = [equipment EXCEPT
                            ![e] = [own.equip EXCEPT !.status = "borrowed",
                                                     !.heldBy = OfficerOf(claim)]]
  BY <1>1 DEF BorrowEquip, At, SaveEquipment, Finish
<1>3. CallEffect(own) /\ CallTypes(own) /\ id \in ClaimID /\ Hidden /\ ~Hidden'
  BY <1>1, <1>2, LoneCall, LoneReturns, CallFacts
<1>4. /\ id \in DOMAIN table
      /\ claim = table[id]
      /\ claim.status = "locked"
      /\ equipment = items
      /\ own.equip = items[e]
      /\ claims' = [table EXCEPT ![id].status = "borrowed"]
  BY <1>1, <1>2, <1>3 DEF CallEffect
<1>5. e \in DOMAIN items
  BY <1>1, <1>2, <1>3, <1>4 DEF CallTypes
<1>6. PICK officer : officer = OfficerOf(claim)
  OBVIOUS
<1>7. PICK item, lent :
        /\ item = [items[e] EXCEPT !.status = "borrowed", !.heldBy = officer]
        /\ lent = [table EXCEPT ![id].status = "borrowed"]
  OBVIOUS
<1>8. /\ e = claim.item
      /\ e \in DOMAIN items
      /\ equipment' = [items EXCEPT ![e] = item]
      /\ claims' = lent
  BY <1>1, <1>2, <1>4, <1>5, <1>6, <1>7
<1>9. Service!Next
  <2>1. claim.status = "locked" /\ claim = table[id] /\ id \in DOMAIN table
    BY <1>4
  <2>2. /\ Hidden /\ ~Hidden' /\ UNCHANGED outside
        /\ items = before.equipment /\ table = before.claims
        /\ id \in ClaimID
    BY <1>1, <1>2, <1>3
  <2> QED
    BY <1>6, <1>7, <1>8, <2>1, <2>2, ServiceBorrow
<1> QED
  BY <1>2, <1>9, LoneReturns

\* A return or a cancellation clears the row, and is seen with its promotion.
LEMMA LoneClear ==
    ASSUME TypeInv, TypeInv', Alone, setup.overlap = "none",
           NEW w \in Worker, NEW own, own = req[w],
           \/ own.pc = "return.equip" /\ ReturnEquip(w)
           \/ own.pc = "cancel.release" /\ CancelRelease(w)
    PROVE  AloneStep
<1>1. PICK items, table, e, pc, left :
        /\ items = before.equipment
        /\ table = before.claims
        /\ e = own.claim.item
        /\ pc = IF own.pc = "return.equip" THEN "return.promote" ELSE "cancel.promote"
        /\ left = IF own.pc = "return.equip"
                  THEN Cleared(IF own.loss THEN "maintenance" ELSE "available")
                  ELSE Cleared("available")
  OBVIOUS
<1>2. CallEffect(own) /\ CallTypes(own) /\ own \in Request
  BY LoneCall, CallFacts
<1>3. e \in DOMAIN equipment /\ equipment = items
  BY <1>1, <1>2 DEF CallTypes, CallEffect
<1>4. /\ equipment' = [items EXCEPT ![e] = left]
      /\ claims' = claims
      /\ Goto(w, pc)
  BY <1>1, <1>3 DEF ReturnEquip, CancelRelease, SaveEquipment, Released
<1>5. PICK call : call = [own EXCEPT !.pc = pc]
  OBVIOUS
<1>6. /\ call.pc = pc /\ call.pc # "idle"
      /\ call.id = own.id
      /\ call.claim = own.claim
      /\ call.loss = own.loss
  BY <1>1, <1>2, <1>5 DEF Request
<1>7. req' = [req EXCEPT ![w] = call] /\ UNCHANGED <<before, outside>>
  BY <1>4, <1>5 DEF Goto
<1>8. CallEffect(call)'
  BY <1>1, <1>2, <1>4, <1>6, <1>7, ZenonT(30) DEF CallEffect
<1> QED
  BY <1>6, <1>7, <1>8, LoneGoesOn

\* The promotion completes a return or the cancellation of a lock.
LEMMA LonePromote ==
    ASSUME TypeInv, TypeInv', Alone, setup.overlap = "none",
           NEW w \in Worker, Promote(w)
    PROVE  AloneStep
<1>1. PICK own, items, table, id, claim, e, cleared, dropped :
        /\ own = req[w]
        /\ items = before.equipment
        /\ table = before.claims
        /\ id = req[w].id
        /\ claim = req[w].claim
        /\ e = req[w].claim.item
        /\ cleared = equipment
        /\ dropped = claims
  OBVIOUS
<1>2. /\ own.pc \in {"return.promote", "cancel.promote"}
      /\ req[w].pc # "idle"
      /\ Finish(w)
      /\ UNCHANGED outside
      /\ PromoteNextQueued(cleared, dropped, e)
  <2>1. PromoteNextQueued(equipment, claims, e)
    BY <1>1 DEF Promote
  <2>2. PromoteNextQueued(cleared, dropped, e)
    BY <1>1, <2>1 DEF PromoteNextQueued, QueuedClaimsForEquipment, ClaimsOn
  <2> QED
    BY <1>1, <2>2 DEF Promote, At, Finish
<1>3. /\ CallEffect(own) /\ CallTypes(own) /\ own \in Request
      /\ id \in ClaimID /\ Hidden /\ ~Hidden'
  BY <1>1, <1>2, LoneCall, LoneReturns, CallFacts
<1>4. e \in DOMAIN equipment
  BY <1>1, <1>2, <1>3 DEF CallTypes
<1>5. id \in DOMAIN table /\ claim = table[id]
  BY <1>1, <1>2, <1>3 DEF CallEffect
<1>6. CASE own.pc = "return.promote"
  <2>1. PICK loss, left : /\ loss = own.loss
                          /\ left = Cleared(IF loss THEN "maintenance" ELSE "available")
    OBVIOUS
  <2>2. /\ claim.status = "borrowed"
        /\ cleared = [items EXCEPT ![e] = left]
        /\ dropped = [table EXCEPT ![id].status = "returned"]
        /\ loss \in BOOLEAN
    BY <1>1, <1>3, <1>6, <2>1 DEF CallEffect, Request
  <2>3. e \in DOMAIN items
    BY <1>1, <1>4, <2>2
  <2>4. Service!Next
    <3>1. e = claim.item /\ id \in ClaimID /\ Hidden /\ ~Hidden'
      BY <1>1, <1>3
    <3>2. PromoteNextQueued(cleared, dropped, e) /\ UNCHANGED outside
      BY <1>2
    <3>3. items = before.equipment /\ table = before.claims
      BY <1>1
    <3> QED
      BY <1>5, <2>1, <2>2, <2>3, <3>1, <3>2, <3>3, ServiceReturn
  <2> QED
    BY <1>2, <2>4, LoneReturns
<1>7. CASE own.pc = "cancel.promote"
  <2>1. /\ claim.status = "locked"
        /\ cleared = [items EXCEPT ![e] = Cleared("available")]
        /\ dropped = [table EXCEPT ![id].status = "cancelled"]
    BY <1>1, <1>3, <1>7 DEF CallEffect
  <2>2. e \in DOMAIN items /\ ~IsTerminal(claim.status)
    BY <1>1, <1>4, <2>1 DEF IsTerminal
  <2>3. Service!Next
    <3>1. e = claim.item /\ id \in ClaimID /\ Hidden /\ ~Hidden'
      BY <1>1, <1>3
    <3>2. PromoteNextQueued(cleared, dropped, e) /\ UNCHANGED outside
      BY <1>2
    <3>3. items = before.equipment /\ table = before.claims
      BY <1>1
    <3> QED
      BY <1>5, <2>1, <2>2, <3>1, <3>2, <3>3, ServiceCancel
  <2> QED
    BY <1>2, <2>3, LoneReturns
<1> QED
  BY <1>2, <1>6, <1>7

\* A cancellation of a lock goes on, any other one is complete.
LEMMA LoneCancelSave ==
    ASSUME TypeInv, TypeInv', Alone, setup.overlap = "none",
           NEW w \in Worker, CancelSave(w)
    PROVE  AloneStep
<1>1. PICK own, items, table, id, claim, e, status :
        /\ own = req[w]
        /\ items = before.equipment
        /\ table = before.claims
        /\ id = req[w].id
        /\ claim = req[w].claim
        /\ e = req[w].claim.item
        /\ status = "cancelled"
  OBVIOUS
<1>2. /\ own.pc = "cancel.save"
      /\ req[w].pc # "idle"
      /\ SaveClaim(w, status)
  BY <1>1 DEF CancelSave, At
<1>3. /\ id \in DOMAIN table /\ claim = table[id]
      /\ table \in [DOMAIN table -> EquipmentClaim]
      /\ equipment = items
      /\ equipment' = items
      /\ claims' = [table EXCEPT ![id].status = status]
  BY <1>1, <1>2, LoneSave
<1>4. /\ CallEffect(own) /\ CallTypes(own) /\ own \in Request /\ id \in ClaimID
      /\ Hidden
  BY <1>1, <1>2, LoneCall, CallFacts
<1>5. CASE claim.status = "locked" /\ Goto(w, "cancel.release")
  <2>1. PICK call : call = [own EXCEPT !.pc = "cancel.release"]
    OBVIOUS
  <2>2. /\ call.pc = "cancel.release" /\ call.pc # "idle"
        /\ call.id = id
        /\ call.claim = claim
    BY <1>1, <1>4, <2>1 DEF Request
  <2>3. req' = [req EXCEPT ![w] = call] /\ UNCHANGED <<before, outside>>
    BY <1>1, <1>5, <2>1 DEF Goto
  <2>4. CallEffect(call)'
    BY <1>1, <1>3, <1>5, <2>2, <2>3 DEF CallEffect
  <2> QED
    BY <1>2, <2>2, <2>3, <2>4, LoneGoesOn
<1>6. CASE claim.status # "locked" /\ Finish(w)
  <2>1. ~Hidden' /\ UNCHANGED outside
    BY <1>2, <1>6, LoneReturns DEF Finish
  <2>2. e \in DOMAIN items /\ e = claim.item
    BY <1>1, <1>2, <1>3, <1>4 DEF CallTypes
  <2>3. ~IsTerminal(claim.status)
    BY <1>1, <1>2, <1>4 DEF CallEffect
  <2>4. PICK cleared, dropped :
            /\ cleared = [items EXCEPT ![e] = Cleared("available")]
            /\ dropped = [table EXCEPT ![id].status = "cancelled"]
    OBVIOUS
  <2>5. Service!Next
    BY <1>1, <1>3, <1>4, <1>6, <2>1, <2>2, <2>3, <2>4, ServiceCancel
  <2> QED
    BY <1>2, <1>6, <2>5, LoneReturns
<1> QED
  BY <1>1, <1>5, <1>6 DEF CancelSave

-----------------------------------------------------------------------------
(***************************************************************************)
(* The refinement.                                                         *)
(***************************************************************************)

LEMMA LoneContinue ==
    ASSUME TypeInv, TypeInv', SeparateCustody, Alone, setup.overlap = "none",
           NEW w \in Worker, Continue(w)
    PROVE  AloneStep
<1>1. CASE ReturnEquip(w)
  BY <1>1, LoneClear DEF ReturnEquip, At
<1>2. CASE CancelRelease(w)
  BY <1>2, LoneClear DEF CancelRelease, At
<1> QED
  BY <1>1, <1>2, LoneCheckRules, LonePlace, LoneReread, LoneStamp, LoneBorrowSave,
     LoneLoad, LoneBorrowEquip, LoneCancelSave, LonePromote DEF Continue

\* Between calls, the service sees the tables and the shifts move.
LEMMA LoneElsewhere ==
    ASSUME TypeInv, Alone, setup.overlap = "none", Elsewhere
    PROVE  AloneStep
<1>1. /\ ShiftStep
      /\ InFlight = {}
      /\ UNCHANGED <<setup, req, before>>
  BY DEF Elsewhere
<1>2. InFlight' = {}
  BY <1>1 DEF InFlight
<1>3. ~Hidden /\ ~Hidden'
  BY <1>1, <1>2 DEF Hidden
<1>4. Service!Next
  BY <1>1, <1>3, ServiceShifts
<1>5. Alone'
  BY <1>2 DEF Alone
<1> QED
  BY <1>4, <1>5 DEF AloneStep

LEMMA LoneStutter ==
    ASSUME TypeInv, Alone, UNCHANGED raceVars
    PROVE  AloneStep
<1>1. /\ InFlight' = InFlight
      /\ Hidden' <=> Hidden
      /\ UNCHANGED outside
  BY DEF raceVars, InFlight, Hidden, outside, shiftVars
<1>2. UNCHANGED Service!vars
  BY <1>1 DEF raceVars, Service!vars
<1>3. ASSUME NEW w \in InFlight'
      PROVE  CallEffect(req[w])'
  <2>1. PICK call, items, table :
            call = req[w] /\ items = before.equipment /\ table = before.claims
    OBVIOUS
  <2>2. CallEffect(call)
    BY <1>1, <2>1 DEF Alone, CallEffect
  <2>3. /\ Wanted(table, call.id, call.claim)' <=> Wanted(table, call.id, call.claim)
        /\ Permitted(items, table, call.claim)' <=> Permitted(items, table, call.claim)
        /\ \A claim :
              /\ Wanted(table, call.id, claim)' <=> Wanted(table, call.id, claim)
              /\ Permitted(items, table, claim)' <=> Permitted(items, table, claim)
    BY <1>1, OutsideKeeps
  <2>4. UNCHANGED <<equipment, claims, before, req>>
    BY DEF raceVars
  <2>5. CallEffect(call)'
    <3>1. \A claim : Direct(claim)' <=> Direct(claim)
      BY DEF Direct, CrossStation
    <3>2. before'.equipment = items /\ before'.claims = table
      BY <2>1, <2>4
    <3> QED
      BY <2>1, <2>2, <2>3, <2>4, <3>1, <3>2 DEF CallEffect
  <2> QED
    BY <2>1, <2>4, <2>5 DEF CallEffect
<1>4. Alone'
  BY <1>1, <1>3 DEF Alone, raceVars
<1> QED
  BY <1>2, <1>4 DEF AloneStep

LEMMA InitEstablishesAlone == RaceInit => AloneInv
<1> SUFFICES ASSUME RaceInit PROVE AloneInv
  OBVIOUS
<1>1. SeparateInv
  BY InitEstablishesSeparate
<1>2. InFlight = {}
  BY DEF RaceInit, InFlight
<1> QED
  BY <1>1, <1>2 DEF AloneInv, Alone

LEMMA StepKeepsAlone ==
    ASSUME AloneInv, [RaceNext]_raceVars
    PROVE  /\ AloneInv'
           /\ setup.overlap = "none" => [Service!Next]_(Service!vars)
<1>1. SeparateInv /\ SeparateInv'
  BY StepKeepsSeparate DEF AloneInv
<1>2. TypeInv /\ TypeInv'
  BY <1>1 DEF SeparateInv
<1>3. ASSUME setup.overlap = "none"
      PROVE  AloneStep
  <2>1. Alone /\ SeparateCustody
    BY <1>1, <1>3 DEF AloneInv, SeparateInv
  <2>2. CASE \E w \in Worker : Start(w)
    BY <1>2, <1>3, <2>2, LoneStart
  <2>3. CASE \E w \in Worker : Continue(w)
    BY <1>2, <1>3, <2>1, <2>3, LoneContinue
  <2>4. CASE Elsewhere
    BY <1>2, <1>3, <2>1, <2>4, LoneElsewhere
  <2>5. CASE UNCHANGED raceVars
    BY <1>2, <2>1, <2>5, LoneStutter
  <2> QED
    BY <2>2, <2>3, <2>4, <2>5 DEF RaceNext
<1>4. setup' = setup
  BY SetupStays
<1> QED
  BY <1>1, <1>3, <1>4 DEF AloneInv, AloneStep

\* A call that runs alone implements one atomic step of EquipmentService: what is
\* seen of its store operations, when it returns, is a step of the service from the
\* tables it began with, or nothing at all when a rule refused it.
THEOREM LoneCallsImplementService == RaceSpec => ImplementsService
<1>1. AloneInv /\ [RaceNext]_raceVars =>
        AloneInv' /\ [setup.overlap = "none" => Service!Next]_(Service!vars)
  BY StepKeepsAlone
<1> QED
  BY <1>1, InitEstablishesAlone, PTL DEF RaceSpec, ImplementsService
=============================================================================
