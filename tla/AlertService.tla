---------------------------- MODULE AlertService ----------------------------
(***************************************************************************)
(* app.AlertService over the alert table of store.MemoryStore: reporting   *)
(* with idempotency keys, the replay of offline batches, the dispatcher's  *)
(* workflow and the escalation sweep of the background scheduler.          *)
(*                                                                         *)
(* A step is one operation of the store: requests run on goroutines of     *)
(* their own, the scheduler on another, and each goes on with the record   *)
(* it read before.  overlapped tells the behaviours in which calls have    *)
(* run one at a time so far from the others.                               *)
(***************************************************************************)
EXTENDS Integers, FiniteSets, Sequences

CONSTANTS
    Report,     \* records the devices may send
    Key,        \* idempotency keys
    ReportSpec, \* [Report -> [key, at, valid]]; at is the device timestamp
    NoTime,     \* the zero timestamp, replaced by the time of receipt
    AlertID,    \* identifiers a stored alert may get
    Worker,     \* goroutines that serve requests
    Deadline,   \* EscalationDeadline, in clock units
    MaxTime,    \* bound: the clock stops there
    MaxBatch    \* bound: records in one batch

ASSUME AlertAssumption ==
    /\ ReportSpec \in [Report -> [key : Key, at : Int \cup {NoTime},
                                  valid : BOOLEAN]]
    /\ NoTime \notin Int
    /\ Deadline \in Nat
    /\ MaxTime \in Nat
    /\ MaxBatch \in Nat \ {0}

VARIABLES
    alerts,     \* alert table: identifier -> Alert
    idemAlert,  \* index: idempotency key -> identifier
    clock,
    req,        \* what each worker is doing
    sweep,      \* what the scheduler's goroutine is doing
    acked,      \* history: records for which ReportAlert returned an alert
    overlapped  \* history: has a call begun while another was in flight?

vars == <<alerts, idemAlert, clock, req, sweep, acked, overlapped>>

table == <<alerts, idemAlert>>

AlertStatus == {"reported", "signed", "dispatched", "in_progress",
                "resolved", "closed", "escalated"}

OpenEdges ==
    {<<"reported", "signed">>, <<"reported", "escalated">>,
     <<"escalated", "signed">>, <<"signed", "dispatched">>,
     <<"dispatched", "in_progress">>, <<"in_progress", "resolved">>}

CloseEdges == {<<status, "closed">> : status \in AlertStatus \ {"closed"}}

\* Variant with a bug: an escalated alert is dispatched without a signature.
EdgesSkippingSignature ==
    OpenEdges \cup CloseEdges \cup {<<"escalated", "dispatched">>}

\* Variant with a bug: a signed alert that is not dispatched yet is escalated.
EdgesEscalatingSigned ==
    OpenEdges \cup CloseEdges \cup {<<"signed", "escalated">>}

AlertEdges == OpenEdges \cup CloseEdges

CanTransition(alert, target) == <<alert.status, target>> \in AlertEdges

\* signed stands for SignedBy and SignedAt.  The other stamps of the workflow
\* are written and never read.
Alert == [key : Key, reportedAt : Int, status : AlertStatus, signed : BOOLEAN]

\* Variant with a bug: the deadline itself is not overdue.
NeedsEscalationLate(alert) ==
    alert.status = "reported" /\ clock - alert.reportedAt > Deadline

NeedsEscalation(alert) ==
    alert.status = "reported" /\ clock - alert.reportedAt >= Deadline

Idle == [pc |-> "idle"]

ReportCall ==
    [pc : {"lookup"}, todo : Seq(Report)] \cup
    [pc : {"save"}, todo : Seq(Report), at : Int]

WorkflowCall == [pc : {"update"}, id : AlertID, alert : Alert,
                 target : AlertStatus]

SweepState == {Idle} \cup [pc : {"next"}, todo : SUBSET AlertID]
    \cup [pc : {"update"}, todo : SUBSET AlertID, id : AlertID, alert : Alert]

TypeOK ==
    /\ DOMAIN alerts \subseteq AlertID
    /\ alerts \in [DOMAIN alerts -> Alert]
    /\ DOMAIN idemAlert \subseteq Key
    /\ idemAlert \in [DOMAIN idemAlert -> AlertID]
    /\ clock \in 0 .. MaxTime
    /\ req \in [Worker -> {Idle} \cup ReportCall \cup WorkflowCall]
    /\ sweep \in SweepState
    /\ acked \subseteq Report
    /\ overlapped \in BOOLEAN

Init ==
    /\ alerts = [id \in {} |-> NoTime]
    /\ idemAlert = [key \in {} |-> NoTime]
    /\ clock = 0
    /\ req = [w \in Worker |-> Idle]
    /\ sweep = Idle
    /\ acked = {}
    /\ overlapped = FALSE

InFlight == {w \in Worker : req[w] # Idle}

Quiet == InFlight = {} /\ sweep = Idle

Begin == overlapped' = (overlapped \/ ~Quiet)

Put(f, key, value) ==
    [k \in DOMAIN f \cup {key} |-> IF k = key THEN value ELSE f[k]]

\* Variant with a bug: the index is not written.
SaveAlertUnindexed(id, alert) ==
    /\ alerts' = Put(alerts, id, alert)
    /\ UNCHANGED idemAlert

\* Every save of an alert writes its index entry too.
SaveAlert(id, alert) ==
    /\ alerts' = Put(alerts, id, alert)
    /\ idemAlert' = Put(idemAlert, alert.key, id)

(***************************************************************************)
(* Reporting.  A single report is a batch of one.                          *)
(***************************************************************************)
DeviceTime(r) == IF ReportSpec[r].at = NoTime THEN clock ELSE ReportSpec[r].at

\* The orders a stable sort by device time may give, whatever order the device
\* sent the batch in.
ReplayOrders(batch) ==
    {order \in [1 .. Cardinality(batch) -> batch] :
        /\ \A i, j \in DOMAIN order : order[i] = order[j] => i = j
        /\ \A i, j \in DOMAIN order :
              i < j => DeviceTime(order[i]) <= DeviceTime(order[j])}

ReportAlertBatch(w, batch) ==
    /\ req[w] = Idle
    /\ Begin
    /\ batch # {}
    /\ IsFiniteSet(batch)
    /\ Cardinality(batch) <= MaxBatch
    /\ \E order \in ReplayOrders(batch) :
          req' = [req EXCEPT ![w] = [pc |-> "lookup", todo |-> order]]
    /\ UNCHANGED <<table, clock, sweep, acked>>

\* The record was stored, now or before: go on with the next one.
Answer(w) ==
    /\ acked' = acked \cup {Head(req[w].todo)}
    /\ req' = [req EXCEPT ![w] =
                 IF Len(req[w].todo) = 1 THEN Idle
                 ELSE [pc |-> "lookup", todo |-> Tail(req[w].todo)]]

FreshID == CHOOSE id \in AlertID : id \notin DOMAIN alerts

\* The lookup found nothing: the record is stored in a later step.
GoSave(w, at) ==
    req' = [req EXCEPT ![w] = [pc |-> "save", todo |-> req[w].todo, at |-> at]]

\* Variant with a bug: the index is not consulted.
LookupNothing(w) ==
    /\ req[w].pc = "lookup"
    /\ LET r == Head(req[w].todo)
       IN  \/ /\ ~ReportSpec[r].valid
              /\ req' = [req EXCEPT ![w] = Idle]
           \/ /\ ReportSpec[r].valid
              /\ GoSave(w, DeviceTime(r))
    /\ UNCHANGED <<table, clock, sweep, acked, overlapped>>

\* Variant with a bug: a missing device time stays the zero time.
LookupKeepsZeroTime(w) ==
    /\ req[w].pc = "lookup"
    /\ LET r == Head(req[w].todo)
       IN  /\ ReportSpec[r].valid
           /\ \/ ReportSpec[r].key \in DOMAIN idemAlert /\ Answer(w)
              \/ /\ ReportSpec[r].key \notin DOMAIN idemAlert
                 /\ GoSave(w, ReportSpec[r].at)
                 /\ UNCHANGED acked
    /\ UNCHANGED <<table, clock, sweep, overlapped>>

\* Variant with a bug: the key is taken in the index before the alert is stored.
LookupReservesKey(w) ==
    /\ req[w].pc = "lookup"
    /\ AlertID \ DOMAIN alerts # {}
    /\ LET r == Head(req[w].todo)
       IN  /\ ReportSpec[r].valid
           /\ \/ /\ ReportSpec[r].key \in DOMAIN idemAlert
                 /\ Answer(w)
                 /\ UNCHANGED idemAlert
              \/ /\ ReportSpec[r].key \notin DOMAIN idemAlert
                 /\ GoSave(w, DeviceTime(r))
                 /\ idemAlert' = Put(idemAlert, ReportSpec[r].key, FreshID)
                 /\ UNCHANGED acked
    /\ UNCHANGED <<alerts, clock, sweep, overlapped>>

\* An invalid record ends the batch; a known key answers with the stored alert.
LookupKey(w) ==
    /\ req[w].pc = "lookup"
    /\ LET r == Head(req[w].todo)
       IN  \/ /\ ~ReportSpec[r].valid
              /\ req' = [req EXCEPT ![w] = Idle]
              /\ UNCHANGED acked
           \/ /\ ReportSpec[r].valid
              /\ ReportSpec[r].key \in DOMAIN idemAlert
              /\ Answer(w)
           \/ /\ ReportSpec[r].valid
              /\ ReportSpec[r].key \notin DOMAIN idemAlert
              /\ GoSave(w, DeviceTime(r))
              /\ UNCHANGED acked
    /\ UNCHANGED <<table, clock, sweep, overlapped>>

SaveReport(w) ==
    /\ req[w].pc = "save"
    /\ AlertID \ DOMAIN alerts # {}
    /\ SaveAlert(FreshID, [key |-> ReportSpec[Head(req[w].todo)].key,
                           reportedAt |-> req[w].at,
                           status |-> "reported", signed |-> FALSE])
    /\ Answer(w)
    /\ UNCHANGED <<clock, sweep, overlapped>>

(***************************************************************************)
(* The workflow: each operation reads the alert, checks the edge and saves *)
(* the whole record in a later step.                                       *)
(***************************************************************************)
\* Variant with a bug: the edge is not checked.
ReadUnchecked(w, id, target) ==
    /\ req[w] = Idle
    /\ Begin
    /\ id \in DOMAIN alerts
    /\ req' = [req EXCEPT ![w] = [pc |-> "update", id |-> id,
                                  alert |-> alerts[id], target |-> target]]
    /\ UNCHANGED <<table, clock, sweep, acked>>

ReadForUpdate(w, id, target) ==
    /\ req[w] = Idle
    /\ Begin
    /\ id \in DOMAIN alerts
    /\ CanTransition(alerts[id], target)
    /\ req' = [req EXCEPT ![w] = [pc |-> "update", id |-> id,
                                  alert |-> alerts[id], target |-> target]]
    /\ UNCHANGED <<table, clock, sweep, acked>>

SignAlert(w, id) == ReadForUpdate(w, id, "signed")

DispatchAlert(w, id) == ReadForUpdate(w, id, "dispatched")

StartProgress(w, id) == ReadForUpdate(w, id, "in_progress")

ResolveAlert(w, id) == ReadForUpdate(w, id, "resolved")

CloseAlert(w, id) == ReadForUpdate(w, id, "closed")

\* Escalation by hand; an alert that is no longer reported is left alone.
EscalateAlert(w, id) == ReadForUpdate(w, id, "escalated")

Moved(alert, target) ==
    [alert EXCEPT !.status = target, !.signed = @ \/ target = "signed"]

SaveUpdate(w) ==
    /\ req[w].pc = "update"
    /\ SaveAlert(req[w].id, Moved(req[w].alert, req[w].target))
    /\ req' = [req EXCEPT ![w] = Idle]
    /\ UNCHANGED <<clock, sweep, acked, overlapped>>

(***************************************************************************)
(* The scheduler's sweep: list the overdue alerts, then read and save each *)
(* of them, in the order the map gave them.                                *)
(***************************************************************************)
Overdue == {id \in DOMAIN alerts : NeedsEscalation(alerts[id])}

EscalateOverdue ==
    /\ sweep = Idle
    /\ Begin
    /\ Overdue # {}
    /\ sweep' = [pc |-> "next", todo |-> Overdue]
    /\ UNCHANGED <<table, clock, req, acked>>

SweepRead ==
    /\ sweep.pc = "next"
    /\ \/ /\ sweep.todo = {}
          /\ sweep' = Idle
       \/ \E id \in sweep.todo :
            LET rest == sweep.todo \ {id}
            IN  sweep' = IF CanTransition(alerts[id], "escalated")
                         THEN [pc |-> "update", todo |-> rest, id |-> id,
                               alert |-> alerts[id]]
                         ELSE [pc |-> "next", todo |-> rest]
    /\ UNCHANGED <<table, clock, req, acked, overlapped>>

SweepSave ==
    /\ sweep.pc = "update"
    /\ SaveAlert(sweep.id, Moved(sweep.alert, "escalated"))
    /\ sweep' = [pc |-> "next", todo |-> sweep.todo]
    /\ UNCHANGED <<clock, req, acked, overlapped>>

Tick ==
    /\ clock < MaxTime
    /\ clock' = clock + 1
    /\ UNCHANGED <<table, req, sweep, acked, overlapped>>

Workflow(w, id) ==
    \/ SignAlert(w, id)
    \/ DispatchAlert(w, id)
    \/ StartProgress(w, id)
    \/ ResolveAlert(w, id)
    \/ CloseAlert(w, id)
    \/ EscalateAlert(w, id)

Continue(w) == LookupKey(w) \/ SaveReport(w) \/ SaveUpdate(w)

Sweep == EscalateOverdue \/ SweepRead \/ SweepSave

Next ==
    \/ \E w \in Worker, batch \in SUBSET Report : ReportAlertBatch(w, batch)
    \/ \E w \in Worker, id \in AlertID : Workflow(w, id)
    \/ \E w \in Worker : Continue(w)
    \/ Sweep
    \/ Tick

Spec == Init /\ [][Next]_vars

\* The runtime runs every goroutine, the ticker keeps firing, and time passes.
FairSpec ==
    /\ Spec
    /\ \A w \in Worker : WF_vars(Continue(w))
    /\ WF_vars(Sweep)
    /\ WF_vars(Tick)

(***************************************************************************)
(* What holds however the calls overlap.                                   *)
(***************************************************************************)

\* The index names, for every key, a stored alert that carries the key, and no
\* stored alert is missing from it by its key.
IndexSound ==
    /\ \A key \in DOMAIN idemAlert :
          /\ idemAlert[key] \in DOMAIN alerts
          /\ alerts[idemAlert[key]].key = key
    /\ \A id \in DOMAIN alerts : alerts[id].key \in DOMAIN idemAlert

\* A record the service answered for is stored for good: an alert carries its
\* key, whatever later batches, retries and updates do.
NoReportLost ==
    \A r \in acked : \E id \in DOMAIN alerts : alerts[id].key = ReportSpec[r].key

\* An alert that is being worked on, or was resolved, carries the signature of
\* the dispatcher, even when updates overwrite each other.
WorkIsSigned ==
    \A id \in DOMAIN alerts :
        alerts[id].status \in {"dispatched", "in_progress", "resolved"} =>
            alerts[id].signed

AwaitsSignature(id) == id \in DOMAIN alerts /\ alerts[id].status = "reported"

\* No alert stays unsigned past the deadline: it is signed, closed or escalated
\* in the end (for alerts whose deadline falls within the bound of the clock).
OverdueHandled ==
    \A id \in AlertID :
        (AwaitsSignature(id) /\ alerts[id].reportedAt + Deadline <= MaxTime)
        ~> ~AwaitsSignature(id)

(***************************************************************************)
(* What holds while calls do not overlap, and breaks when they do.         *)
(***************************************************************************)

\* Replaying a record never counts it twice, as long as requests are served one
\* at a time; the sweep may run meanwhile.
OneAlertPerKey ==
    \A a, b \in DOMAIN alerts : alerts[a].key = alerts[b].key => a = b

\* As long as no two calls have overlapped, a status changes along the edges of
\* the workflow only; closed is final.
FollowsWorkflow ==
    [][~overlapped' =>
          \A id \in DOMAIN alerts :
              \/ alerts'[id].status = alerts[id].status
              \/ CanTransition(alerts[id], alerts'[id].status)]_vars

\* As long as no two calls have overlapped, the dispatcher's signature is never
\* undone, and a signed alert is never escalated.
SignatureStands ==
    [][~overlapped' =>
          \A id \in DOMAIN alerts :
              alerts[id].signed => /\ alerts'[id].signed
                                   /\ alerts'[id].status # "escalated"]_vars
=============================================================================
