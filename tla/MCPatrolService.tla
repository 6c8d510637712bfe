-------------------------- MODULE MCPatrolService --------------------------
(* Instances of PatrolService for TLC. *)
EXTENDS PatrolService

CONSTANTS r1, r2, r3, k1, k2, k3, w1, w2

\* A record made before the device came online, one without a timestamp, and an
\* invalid one made in between.
MCRecordSpec ==
    [r \in Record |->
        CASE r = r1 -> [key |-> k1, at |-> -1,     valid |-> TRUE]
          [] r = r2 -> [key |-> k2, at |-> NoTime, valid |-> TRUE]
          [] r = r3 -> [key |-> k3, at |-> 0,      valid |-> FALSE]]

MCCheckIns == 1 .. 4
=============================================================================
