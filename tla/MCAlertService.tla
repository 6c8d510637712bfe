--------------------------- MODULE MCAlertService ---------------------------
(* Instances of AlertService for TLC. *)
EXTENDS AlertService, TLC

CONSTANTS r1, r2, r3, k1, k2, k3, w1, w2

\* A record stamped by the device before it came online, one without a stamp,
\* and one the service rejects.
MCReportSpec ==
    [r \in Report |->
        CASE r = r1 -> [key |-> k1, at |-> -1,     valid |-> TRUE]
          [] r = r2 -> [key |-> k2, at |-> NoTime, valid |-> TRUE]
          [] r = r3 -> [key |-> k3, at |-> 0,      valid |-> FALSE]]

MCTwoAlerts == 1 .. 2

WorkerSymmetry == Permutations(Worker)
=============================================================================
