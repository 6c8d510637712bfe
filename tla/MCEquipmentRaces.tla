-------------------------- MODULE MCEquipmentRaces --------------------------
(* Instances of EquipmentRaces for TLC. *)
EXTENDS EquipmentRaces, TLC

CONSTANTS c1, c2, c3, s1, s2, s3, s4, e1, e2, ann, bo, hualong, kaike, w1, w2

\* One shift of each station, and one of each that departs later; those from
\* kaike are urgent.
MCShiftSpec ==
    s1 :> [officer |-> ann, station |-> hualong, priority |-> 2, departure |-> 2]
 @@ s2 :> [officer |-> bo,  station |-> kaike,   priority |-> 1, departure |-> 2]
 @@ s3 :> [officer |-> ann, station |-> hualong, priority |-> 2, departure |-> 3]
 @@ s4 :> [officer |-> bo,  station |-> kaike,   priority |-> 1, departure |-> 3]

\* A drone of either station.
MCEquipmentSpec ==
    e1 :> [type |-> "drone", home |-> hualong]
 @@ e2 :> [type |-> "drone", home |-> kaike]

\* Calls on one item, from two units before the departures to the departures.
OneItem(overlap) ==
    [overlap |-> overlap, approved |-> {s1, s2}, items |-> {e1}, start |-> 0]

\* Calls on two items, at the last instant the window is open.
TwoItems ==
    [overlap |-> "items", approved |-> {s3, s4}, items |-> {e1, e2}, start |-> 2]

MCSeparateCalls == {OneItem("none"), TwoItems}

MCAnyCalls == {OneItem("any")}

Calm == [hasPrecipitation |-> FALSE, windForce |-> 5]

MCWeather == {Calm}

RaceSymmetry == Permutations(ClaimID) \cup Permutations(Worker)
=============================================================================
