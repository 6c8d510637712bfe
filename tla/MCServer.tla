------------------------------ MODULE MCServer ------------------------------
(* Instances of Server for TLC. *)
EXTENDS Server

CONSTANTS s1, s2, ann, hualong, w1, w2

\* Two shifts of one station, the first of which departs earlier.
MCShiftSpec ==
    [s \in ShiftID |-> [officer |-> ann, station |-> hualong, priority |-> 2,
                        departure |-> IF s = s1 THEN 0 ELSE 1]]

MCNoEquipment == [e \in {} |-> None]
=============================================================================
