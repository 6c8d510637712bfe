------------------------- MODULE MCEquipmentService -------------------------
(* Instances of EquipmentService for TLC. *)
EXTENDS EquipmentService, TLC

CONSTANTS c1, c2, c3, s1, s2, e1, ann, bo, hualong, kaike

\* A shift of the item's home station and an urgent one of another station, whose
\* claims are cross-station.
MCShiftSpec ==
    s1 :> [officer |-> ann, station |-> hualong, priority |-> 2, departure |-> 3]
 @@ s2 :> [officer |-> bo,  station |-> kaike,   priority |-> 1, departure |-> 2]

MCEquipmentSpec ==
    e1 :> [type |-> "drone", home |-> hualong]

Calm == [hasPrecipitation |-> FALSE, windForce |-> 5]
Gale == [hasPrecipitation |-> FALSE, windForce |-> 6]
Rain == [hasPrecipitation |-> TRUE,  windForce |-> 0]

MCWeather == {Calm, Gale}

ClaimSymmetry == Permutations(ClaimID)
=============================================================================
