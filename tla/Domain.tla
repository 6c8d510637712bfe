------------------------------- MODULE Domain -------------------------------
(***************************************************************************)
(* The vocabulary of internal/domain: identifiers, the immutable part of a *)
(* shift and of an equipment item, the status sets with their transition   *)
(* tables, and the pure rules the services call.                           *)
(*                                                                         *)
(* Every table of the store is a function whose DOMAIN is the set of       *)
(* identifiers saved so far, as the Go maps are.  An identifier is drawn   *)
(* from a constant set when a record is created (domain.NewID); what a     *)
(* shift or an item never changes after its creation is given by a         *)
(* constant function of that identifier, so that choosing the identifier   *)
(* of a new record is choosing its request.                                *)
(***************************************************************************)
EXTENDS Integers, FiniteSets

CONSTANTS
    ShiftID,        \* identifiers a generated shift may get
    EquipmentID,    \* identifiers a registered item may get
    ClaimID,        \* identifiers a submitted claim may get
    Officer,        \* patrol officers
    Station,        \* protection stations
    ShiftSpec,      \* [ShiftID -> [officer, station, priority, departure]]
    EquipmentSpec,  \* [EquipmentID -> [type, home]]
    WeatherReport,  \* the weather snapshots the provider may answer
    LockLeadTime,   \* clock units between the last claim and the departure
    None            \* the empty string of LockedByShiftID and HeldBy

EquipmentType == {"drone", "infrared_camera", "satellite_phone"}

WeatherSnapshot == [hasPrecipitation : BOOLEAN, windForce : Nat]

ASSUME DomainAssumption ==
    /\ ShiftSpec \in [ShiftID -> [officer : Officer, station : Station,
                                  priority : Int, departure : Nat]]
    /\ EquipmentSpec \in [EquipmentID -> [type : EquipmentType, home : Station]]
    /\ WeatherReport \subseteq WeatherSnapshot
    /\ LockLeadTime \in Nat
    /\ None \notin ShiftID
    /\ None \notin Officer

(***************************************************************************)
(* Shifts.                                                                 *)
(***************************************************************************)
ShiftStatus ==
    {"draft", "submitted", "approved", "active", "completed", "cancelled"}

ShiftEdges ==
    {<<"draft", "submitted">>,  <<"draft", "cancelled">>,
     <<"submitted", "approved">>, <<"submitted", "cancelled">>,
     <<"approved", "active">>,  <<"approved", "cancelled">>,
     <<"active", "completed">>, <<"active", "cancelled">>}

ShiftCanTransition(from, to) == <<from, to>> \in ShiftEdges

(***************************************************************************)
(* Equipment and claims.  A claim copies its officer, station, priority    *)
(* and equipment type from its shift and item, which never change them, so *)
(* they are read off the claim's shift and item.                           *)
(***************************************************************************)
EquipmentStatus == {"available", "locked", "borrowed", "maintenance"}

ClaimStatus == {"locked", "borrowed", "returned", "cancelled", "queued"}

IsTerminal(status) == status \in {"returned", "cancelled"}

IsActive(status) == status \in {"locked", "borrowed"}

Equipment == [status   : EquipmentStatus,
              lockedBy : ShiftID \cup {None},
              heldBy   : Officer \cup {None}]

EquipmentClaim == [shift       : ShiftID,
                   item        : EquipmentID,
                   status      : ClaimStatus,
                   submittedAt : Nat,
                   approved    : BOOLEAN]

OfficerOf(claim) == ShiftSpec[claim.shift].officer

TypeOf(claim) == EquipmentSpec[claim.item].type

CrossStation(claim) ==
    EquipmentSpec[claim.item].home # ShiftSpec[claim.shift].station

\* A lower number is a higher priority; an earlier submission breaks a tie.
Beats(claim, other) ==
    LET p == ShiftSpec[claim.shift].priority
        q == ShiftSpec[other.shift].priority
    IN  \/ p < q
        \/ p = q /\ claim.submittedAt < other.submittedAt

CanBorrow(claim) == claim.status = "locked"

CanReturn(claim) == claim.status = "borrowed"

DroneFlightProhibited(w) == w.hasPrecipitation \/ w.windForce >= 6

\* Writing one entry of a Go map.
Put(table, key, value) ==
    [k \in DOMAIN table \cup {key} |-> IF k = key THEN value ELSE table[k]]
=============================================================================
