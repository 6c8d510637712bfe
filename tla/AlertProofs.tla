----------------------------- MODULE AlertProofs -----------------------------
(***************************************************************************)
(* Theorems of AlertService, for every value of its constants: any number  *)
(* of workers, records, keys and alerts, any deadline.                     *)
(*                                                                         *)
(* The invariant says of every call in flight what it may still rely on    *)
(* when it saves: the alert it read is stored under the same identifier    *)
(* with the same key, and the record it will write over it is stamped as   *)
(* its status asks, although the stored one may have moved on.             *)
(***************************************************************************)
EXTENDS AlertService, FiniteSetTheorems, SequenceTheorems, TLAPS

\* The signature an alert carries in each status, read or stored.
Stamped(alert) ==
    /\ alert.status \in {"signed", "dispatched", "in_progress", "resolved"} =>
            alert.signed
    /\ alert.status \in {"reported", "escalated"} => ~alert.signed

\* What a call that read alert under id, to move it to target, relies on.
Held(id, alert, target) ==
    /\ id \in DOMAIN alerts
    /\ alerts[id].key = alert.key
    /\ Stamped(alert)
    /\ CanTransition(alert, target)

TableTypes ==
    /\ DOMAIN alerts \subseteq AlertID
    /\ alerts \in [DOMAIN alerts -> Alert]
    /\ DOMAIN idemAlert \subseteq Key
    /\ idemAlert \in [DOMAIN idemAlert -> AlertID]

TableInv ==
    /\ TableTypes
    /\ IndexSound
    /\ \A id \in DOMAIN alerts : Stamped(alerts[id])

RequestInv(w) ==
    /\ req[w].pc \in {"lookup", "save"} => req[w].todo # <<>>
    /\ req[w].pc = "update" => Held(req[w].id, req[w].alert, req[w].target)

SweepInv ==
    /\ sweep.pc \in {"next", "update"} => sweep.todo \subseteq DOMAIN alerts
    /\ sweep.pc = "update" => Held(sweep.id, sweep.alert, "escalated")

\* The inductive invariant.
IInv ==
    /\ TypeOK
    /\ TableInv
    /\ \A w \in Worker : RequestInv(w)
    /\ SweepInv
    /\ NoReportLost

-----------------------------------------------------------------------------
(***************************************************************************)
(* The shapes of a call, and the edges of the workflow.                    *)
(***************************************************************************)

\* The program counter of a request tells which fields it has.
LEMMA RequestShape ==
    ASSUME TypeOK, NEW w \in Worker
    PROVE  /\ req[w].pc \in {"idle", "lookup", "save", "update"}
           /\ req[w] = Idle <=> req[w].pc = "idle"
           /\ req[w].pc \in {"lookup", "save"} => req[w].todo \in Seq(Report)
           /\ req[w].pc = "save" => req[w].at \in Int
           /\ req[w].pc = "update" => /\ req[w].id \in AlertID
                                      /\ req[w].alert \in Alert
                                      /\ req[w].target \in AlertStatus
BY DEF TypeOK, Idle, ReportCall, WorkflowCall

\* The program counter of the sweep tells which fields it has.
LEMMA SweepShape ==
    ASSUME TypeOK
    PROVE  /\ sweep.pc \in {"idle", "next", "update"}
           /\ sweep = Idle <=> sweep.pc = "idle"
           /\ sweep.pc \in {"next", "update"} => sweep.todo \subseteq AlertID
           /\ sweep.pc = "update" => sweep.id \in AlertID /\ sweep.alert \in Alert
BY DEF TypeOK, Idle, SweepState

\* A move along an edge keeps the key and stamps the alert as its new status
\* asks; nothing moves to reported.
LEMMA MoveStamps ==
    ASSUME NEW alert \in Alert, NEW target \in AlertStatus,
           Stamped(alert), CanTransition(alert, target)
    PROVE  /\ Moved(alert, target) \in Alert
           /\ Moved(alert, target).key = alert.key
           /\ Moved(alert, target).status = target
           /\ alert.signed => Moved(alert, target).signed /\ target # "escalated"
           /\ Stamped(Moved(alert, target))
<1>1. /\ Moved(alert, target) \in Alert
      /\ Moved(alert, target).key = alert.key
      /\ Moved(alert, target).status = target
      /\ Moved(alert, target).signed = (alert.signed \/ target = "signed")
  BY DEF Moved, Alert
<1>2. /\ target \in {"dispatched", "in_progress", "resolved"} => alert.signed
      /\ target # "reported"
      /\ target = "escalated" => alert.status = "reported"
  BY DEF CanTransition, AlertEdges, OpenEdges, CloseEdges, Stamped, Alert
<1> QED
  BY <1>1, <1>2 DEF Stamped

-----------------------------------------------------------------------------
(***************************************************************************)
(* Saving an alert.                                                        *)
(***************************************************************************)

\* A save of a new alert, or of one that keeps its key, keeps the tables sound
\* and the key of every alert stored before.
LEMMA SaveKeepsTable ==
    ASSUME TableInv, NEW id \in AlertID, NEW alert \in Alert, Stamped(alert),
           id \in DOMAIN alerts => alerts[id].key = alert.key,
           SaveAlert(id, alert)
    PROVE  /\ TableInv'
           /\ DOMAIN alerts' = DOMAIN alerts \cup {id}
           /\ alerts'[id] = alert
           /\ \A k \in DOMAIN alerts : alerts'[k].key = alerts[k].key
           /\ \A k \in DOMAIN alerts : k # id => alerts'[k] = alerts[k]
           /\ DOMAIN idemAlert' = DOMAIN idemAlert \cup {alert.key}
<1>1. /\ alerts' = [k \in DOMAIN alerts \cup {id} |->
                        IF k = id THEN alert ELSE alerts[k]]
      /\ idemAlert' = [k \in DOMAIN idemAlert \cup {alert.key} |->
                        IF k = alert.key THEN id ELSE idemAlert[k]]
  BY DEF SaveAlert, Put
<1>2. /\ DOMAIN alerts' = DOMAIN alerts \cup {id}
      /\ alerts'[id] = alert
      /\ \A k \in DOMAIN alerts : k # id => alerts'[k] = alerts[k]
      /\ \A k \in DOMAIN alerts : alerts'[k].key = alerts[k].key
  BY <1>1
<1>3. /\ DOMAIN idemAlert' = DOMAIN idemAlert \cup {alert.key}
      /\ idemAlert'[alert.key] = id
      /\ \A k \in DOMAIN idemAlert : k # alert.key => idemAlert'[k] = idemAlert[k]
  BY <1>1
<1>4. TableTypes'
  <2>1. alert.key \in Key
    BY DEF Alert
  <2>2. alerts' \in [DOMAIN alerts' -> Alert]
    BY <1>1, <1>2 DEF TableInv, TableTypes
  <2>3. idemAlert' \in [DOMAIN idemAlert' -> AlertID]
    BY <1>1, <1>3 DEF TableInv, TableTypes
  <2> QED
    BY <1>2, <1>3, <2>1, <2>2, <2>3 DEF TableInv, TableTypes
<1>5. IndexSound'
  BY <1>2, <1>3 DEF TableInv, IndexSound
<1>6. \A k \in DOMAIN alerts' : Stamped(alerts'[k])
  BY <1>2 DEF TableInv
<1> QED
  BY <1>2, <1>3, <1>4, <1>5, <1>6 DEF TableInv, Stamped

\* What the other calls hold outlives a step that forgets no alert and no key.
LEMMA HoldsOutlive ==
    ASSUME DOMAIN alerts \subseteq DOMAIN alerts',
           \A k \in DOMAIN alerts : alerts'[k].key = alerts[k].key
    PROVE  /\ \A id, alert, target : Held(id, alert, target) => Held(id, alert, target)'
           /\ NoReportLost /\ acked' = acked => NoReportLost'
BY DEF Held, NoReportLost, CanTransition, Stamped

Calls == {Idle} \cup ReportCall \cup WorkflowCall

\* A step of one worker that forgets nothing keeps the invariant, when what the
\* worker goes on with does.
LEMMA OneRequestMoves ==
    ASSUME IInv, NEW w \in Worker, NEW call \in Calls,
           req' = [req EXCEPT ![w] = call],
           call.pc \in {"lookup", "save"} => call.todo # <<>>,
           call.pc = "update" => Held(call.id, call.alert, call.target)',
           TableInv', NoReportLost',
           DOMAIN alerts \subseteq DOMAIN alerts',
           \A k \in DOMAIN alerts : alerts'[k].key = alerts[k].key,
           acked' \subseteq Report, overlapped' \in BOOLEAN,
           UNCHANGED <<clock, sweep>>
    PROVE  IInv'
<1>1. req \in [Worker -> Calls]
  BY DEF IInv, TypeOK, Calls
<1>2. /\ req' \in [Worker -> Calls]
      /\ req'[w] = call
      /\ \A v \in Worker : v # w => req'[v] = req[v]
  BY <1>1
<1>3. TypeOK'
  BY <1>2 DEF IInv, TypeOK, TableInv, TableTypes, Calls, Alert, Idle, ReportCall,
              WorkflowCall, SweepState
<1>4. ASSUME NEW v \in Worker
      PROVE  RequestInv(v)'
  <2>1. CASE v = w
    BY <1>2, <2>1 DEF RequestInv
  <2>2. CASE v # w
    <3>1. RequestInv(v) /\ req'[v] = req[v]
      BY <1>2, <2>2 DEF IInv
    <3>2. Held(req[v].id, req[v].alert, req[v].target) =>
              Held(req[v].id, req[v].alert, req[v].target)'
      BY <3>1, HoldsOutlive DEF Held, Stamped, CanTransition
    <3> QED
      BY <3>1, <3>2 DEF RequestInv, Held, Stamped, CanTransition
  <2> QED
    BY <2>1, <2>2
<1>5. SweepInv'
  BY DEF IInv, SweepInv, Held, Stamped, CanTransition
<1> QED
  BY <1>3, <1>4, <1>5 DEF IInv

-----------------------------------------------------------------------------
(***************************************************************************)
(* The steps of a worker.                                                  *)
(***************************************************************************)

\* The rest of a batch after one more record was answered.
Rest(w) == IF Len(req[w].todo) = 1 THEN Idle
           ELSE [pc |-> "lookup", todo |-> Tail(req[w].todo)]

\* A sequence that is not empty has a first element, and a rest unless it is one.
LEMMA HeadAndTail ==
    ASSUME NEW S, NEW todo \in Seq(S), todo # <<>>
    PROVE  /\ Head(todo) \in S
           /\ Tail(todo) \in Seq(S)
           /\ Len(todo) # 1 => Tail(todo) # <<>>
<1>1. Head(todo) \in S /\ Tail(todo) \in Seq(S) /\ Len(Tail(todo)) = Len(todo) - 1
  BY HeadTailProperties
<1>2. Len(todo) \in Nat /\ Len(<<>>) = 0
  BY LenProperties, EmptySeq
<1>3. Tail(todo) = <<>> => Len(Tail(todo)) = 0
  BY <1>2, Zenon
<1>4. Len(todo) # 1 => Len(Tail(todo)) # 0
  BY <1>1, <1>2
<1> QED
  BY <1>1, <1>3, <1>4, Zenon

\* A batch has a first record and a rest, empty or not.
LEMMA BatchGoesOn ==
    ASSUME IInv, NEW w \in Worker, req[w].pc \in {"lookup", "save"}
    PROVE  /\ Head(req[w].todo) \in Report
           /\ Rest(w) \in Calls
           /\ Rest(w).pc = "idle" \/ (Rest(w).pc = "lookup" /\ Rest(w).todo # <<>>)
<1>1. req[w].todo \in Seq(Report) /\ req[w].todo # <<>>
  BY RequestShape DEF IInv, RequestInv
<1>2. /\ Head(req[w].todo) \in Report
      /\ Tail(req[w].todo) \in Seq(Report)
      /\ Len(req[w].todo) # 1 => Tail(req[w].todo) # <<>>
  BY <1>1, HeadAndTail
<1>3. CASE Len(req[w].todo) = 1
  BY <1>2, <1>3 DEF Rest, Calls, Idle
<1>4. CASE Len(req[w].todo) # 1
  <2> DEFINE rest == [pc |-> "lookup", todo |-> Tail(req[w].todo)]
  <2>1. rest \in ReportCall /\ rest.pc = "lookup" /\ rest.todo # <<>>
    BY <1>2, <1>4 DEF ReportCall
  <2>2. Rest(w) = rest
    BY <1>4 DEF Rest
  <2> HIDE DEF rest
  <2> QED
    BY <1>2, <2>1, <2>2 DEF Calls
<1> QED
  BY <1>3, <1>4

\* Every order a batch is replayed in is a sequence of its records.
LEMMA OrdersAreSequences ==
    ASSUME NEW batch \in SUBSET Report, batch # {}, IsFiniteSet(batch),
           NEW order \in ReplayOrders(batch)
    PROVE  order \in Seq(Report) /\ order # <<>>
<1>1. Cardinality(batch) \in Nat /\ Cardinality(batch) # 0
  BY FS_CardinalityType, FS_EmptySet
<1>2. order \in [1 .. Cardinality(batch) -> batch]
  BY DEF ReplayOrders
<1> QED
  BY <1>1, <1>2

\* The time a report carries is that of the device or of its receipt.
LEMMA DeviceTimeType ==
    ASSUME TypeOK, NEW r \in Report
    PROVE  DeviceTime(r) \in Int /\ ReportSpec[r].key \in Key
BY AlertAssumption DEF TypeOK, DeviceTime

\* A batch that arrives.
LEMMA ReportKeepsIInv ==
    ASSUME IInv, NEW w \in Worker, NEW batch \in SUBSET Report,
           ReportAlertBatch(w, batch)
    PROVE  IInv'
<1>1. PICK order \in ReplayOrders(batch) :
            req' = [req EXCEPT ![w] = [pc |-> "lookup", todo |-> order]]
  BY DEF ReportAlertBatch
<1> DEFINE call == [pc |-> "lookup", todo |-> order]
<1>2. call \in Calls /\ call.pc = "lookup" /\ call.todo # <<>>
  BY OrdersAreSequences DEF ReportAlertBatch, Calls, ReportCall
<1>3. UNCHANGED <<table, clock, sweep, acked>> /\ overlapped' \in BOOLEAN
  BY DEF ReportAlertBatch, Begin, IInv, TypeOK
<1>4. TableInv' /\ NoReportLost' /\ acked' \subseteq Report
  BY <1>3 DEF IInv, TypeOK, TableInv, TableTypes, IndexSound, NoReportLost, table
<1> HIDE DEF call
<1>5. req' = [req EXCEPT ![w] = call]
  BY <1>1 DEF call
<1> QED
  BY <1>2, <1>3, <1>4, <1>5, OneRequestMoves DEF table

\* The lookup of the key of the next record.
LEMMA LookupKeepsIInv ==
    ASSUME IInv, NEW w \in Worker, LookupKey(w)
    PROVE  IInv'
<1> DEFINE r == Head(req[w].todo)
<1>1. req[w].pc = "lookup" /\ r \in Report
  BY BatchGoesOn DEF LookupKey
<1>2. UNCHANGED <<table, clock, sweep, overlapped>>
  BY DEF LookupKey
<1>3. TableInv' /\ overlapped' \in BOOLEAN
  BY <1>2 DEF IInv, TypeOK, TableInv, TableTypes, IndexSound, table
<1>4. CASE /\ req' = [req EXCEPT ![w] = Idle]
           /\ UNCHANGED acked
  <2>1. Idle \in Calls /\ Idle.pc = "idle"
    BY DEF Calls, Idle
  <2>2. NoReportLost' /\ acked' \subseteq Report
    BY <1>2, <1>4 DEF IInv, TypeOK, NoReportLost, table
  <2> QED
    BY <1>2, <1>3, <1>4, <2>1, <2>2, OneRequestMoves DEF table
<1>5. CASE ReportSpec[r].key \in DOMAIN idemAlert /\ Answer(w)
  <2>1. req' = [req EXCEPT ![w] = Rest(w)] /\ acked' = acked \cup {r}
    BY <1>5 DEF Answer, Rest
  <2>2. \E id \in DOMAIN alerts : alerts[id].key = ReportSpec[r].key
    BY <1>5 DEF IInv, TableInv, IndexSound
  <2>3. NoReportLost' /\ acked' \subseteq Report
    BY <1>1, <1>2, <2>1, <2>2 DEF IInv, TypeOK, NoReportLost, table
  <2> QED
    BY <1>1, <1>2, <1>3, <2>1, <2>3, BatchGoesOn, OneRequestMoves DEF table
<1>6. CASE GoSave(w, DeviceTime(r)) /\ UNCHANGED acked
  <2> DEFINE call == [pc |-> "save", todo |-> req[w].todo, at |-> DeviceTime(r)]
  <2>1. call \in Calls /\ call.pc = "save" /\ call.todo # <<>>
    BY <1>1, RequestShape, DeviceTimeType DEF IInv, RequestInv, Calls, ReportCall
  <2>2. NoReportLost' /\ acked' \subseteq Report
    BY <1>2, <1>6 DEF IInv, TypeOK, NoReportLost, table
  <2>3. req' = [req EXCEPT ![w] = call]
    BY <1>6 DEF GoSave
  <2> HIDE DEF call
  <2> QED
    BY <1>2, <1>3, <2>1, <2>2, <2>3, OneRequestMoves DEF table
<1> QED
  BY <1>4, <1>5, <1>6 DEF LookupKey

\* A fresh identifier is one no alert has.
LEMMA FreshIsNew ==
    ASSUME AlertID \ DOMAIN alerts # {}
    PROVE  FreshID \in AlertID /\ FreshID \notin DOMAIN alerts
BY DEF FreshID

\* The save of a new alert.
LEMMA SaveReportKeepsIInv ==
    ASSUME IInv, NEW w \in Worker, SaveReport(w)
    PROVE  IInv'
<1> DEFINE r == Head(req[w].todo)
           alert == [key |-> ReportSpec[r].key, reportedAt |-> req[w].at,
                     status |-> "reported", signed |-> FALSE]
<1>1. req[w].pc = "save" /\ r \in Report
  BY BatchGoesOn DEF SaveReport
<1>2. /\ alert \in Alert
      /\ alert.key = ReportSpec[r].key
      /\ Stamped(alert)
  BY <1>1, RequestShape, DeviceTimeType DEF IInv, Alert, AlertStatus, Stamped
<1>3. FreshID \in AlertID /\ FreshID \notin DOMAIN alerts
  BY FreshIsNew DEF SaveReport
<1>4. SaveAlert(FreshID, alert)
  BY DEF SaveReport
<1>5. /\ req' = [req EXCEPT ![w] = Rest(w)]
      /\ acked' = acked \cup {r}
      /\ UNCHANGED <<clock, sweep, overlapped>>
  BY DEF SaveReport, Answer, Rest
<1> HIDE DEF alert
<1>6. /\ TableInv'
      /\ DOMAIN alerts' = DOMAIN alerts \cup {FreshID}
      /\ alerts'[FreshID] = alert
      /\ \A k \in DOMAIN alerts : alerts'[k].key = alerts[k].key
  BY <1>2, <1>3, <1>4, SaveKeepsTable DEF IInv
<1>7. NoReportLost' /\ acked' \subseteq Report /\ overlapped' \in BOOLEAN
  BY <1>1, <1>2, <1>5, <1>6 DEF IInv, TypeOK, NoReportLost
<1> QED
  BY <1>1, <1>5, <1>6, <1>7, BatchGoesOn, OneRequestMoves

\* The read that starts an update.
LEMMA ReadKeepsIInv ==
    ASSUME IInv, NEW w \in Worker, NEW id \in AlertID,
           NEW target \in AlertStatus, ReadForUpdate(w, id, target)
    PROVE  IInv'
<1>1. id \in DOMAIN alerts /\ alerts[id] \in Alert /\ Stamped(alerts[id])
  BY DEF ReadForUpdate, IInv, TableInv, TableTypes
<1>2. PICK call \in Calls :
            call = [pc |-> "update", id |-> id, alert |-> alerts[id],
                    target |-> target]
  BY <1>1 DEF Calls, WorkflowCall
<1>3. /\ call.pc = "update"
      /\ call.id = id
      /\ call.alert = alerts[id]
      /\ call.target = target
  BY <1>2
<1>4. /\ UNCHANGED <<table, clock, sweep, acked>>
      /\ overlapped' \in BOOLEAN
      /\ req' = [req EXCEPT ![w] = call]
  BY <1>2 DEF ReadForUpdate, Begin, IInv, TypeOK
<1>5. Held(call.id, call.alert, call.target)'
  BY <1>1, <1>3, <1>4 DEF Held, ReadForUpdate, table, CanTransition, Stamped
<1>6. TableInv' /\ NoReportLost' /\ acked' \subseteq Report
  BY <1>4 DEF IInv, TypeOK, TableInv, TableTypes, IndexSound, NoReportLost, table
<1> QED
  BY <1>3, <1>4, <1>5, <1>6, OneRequestMoves DEF table

\* The save that ends an update.
LEMMA SaveUpdateKeepsIInv ==
    ASSUME IInv, NEW w \in Worker, SaveUpdate(w)
    PROVE  IInv'
<1> DEFINE id == req[w].id
           moved == Moved(req[w].alert, req[w].target)
<1>1. /\ id \in AlertID
      /\ req[w].alert \in Alert
      /\ req[w].target \in AlertStatus
      /\ Held(id, req[w].alert, req[w].target)
  BY RequestShape DEF SaveUpdate, IInv, RequestInv
<1>2. moved \in Alert /\ Stamped(moved) /\ alerts[id].key = moved.key
  BY <1>1, MoveStamps DEF Held
<1>3. SaveAlert(id, moved) /\ UNCHANGED <<clock, sweep, acked, overlapped>>
  BY DEF SaveUpdate
<1>4. req' = [req EXCEPT ![w] = Idle] /\ Idle \in Calls /\ Idle.pc = "idle"
  BY DEF SaveUpdate, Calls, Idle
<1> HIDE DEF moved, id
<1>5. /\ TableInv'
      /\ DOMAIN alerts \subseteq DOMAIN alerts'
      /\ \A k \in DOMAIN alerts : alerts'[k].key = alerts[k].key
  BY <1>1, <1>2, <1>3, SaveKeepsTable DEF IInv
<1>6. NoReportLost' /\ acked' \subseteq Report /\ overlapped' \in BOOLEAN
  BY <1>3, <1>5, HoldsOutlive DEF IInv, TypeOK
<1> QED
  BY <1>3, <1>4, <1>5, <1>6, OneRequestMoves

-----------------------------------------------------------------------------
(***************************************************************************)
(* The steps of the sweep, and the invariant.                              *)
(***************************************************************************)

\* A step of the sweep that forgets nothing keeps the invariant, when what it
\* goes on with does.
LEMMA SweepMoves ==
    ASSUME IInv, SweepInv', TableInv', sweep' \in SweepState,
           DOMAIN alerts \subseteq DOMAIN alerts',
           \A k \in DOMAIN alerts : alerts'[k].key = alerts[k].key,
           overlapped' \in BOOLEAN,
           UNCHANGED <<clock, req, acked>>
    PROVE  IInv'
<1>1. TypeOK'
  BY DEF IInv, TypeOK, TableInv, TableTypes, Alert, Idle, ReportCall,
         WorkflowCall, SweepState
<1>2. ASSUME NEW v \in Worker
      PROVE  RequestInv(v)'
  <2>1. RequestInv(v) /\ req'[v] = req[v]
    BY DEF IInv
  <2>2. Held(req[v].id, req[v].alert, req[v].target) =>
            Held(req[v].id, req[v].alert, req[v].target)'
    BY <2>1, HoldsOutlive DEF Held, Stamped, CanTransition
  <2> QED
    BY <2>1, <2>2 DEF RequestInv, Held, Stamped, CanTransition
<1>3. NoReportLost'
  BY HoldsOutlive DEF IInv
<1> QED
  BY <1>1, <1>2, <1>3 DEF IInv

\* The sweep lists what is overdue, reads one alert of its list, and saves it.
LEMMA SweepKeepsIInv ==
    ASSUME IInv, Sweep
    PROVE  IInv'
<1>1. CASE EscalateOverdue
  <2>1. UNCHANGED <<table, clock, req, acked>> /\ overlapped' \in BOOLEAN
    BY <1>1 DEF EscalateOverdue, Begin, IInv, TypeOK
  <2>2. /\ sweep'.pc = "next"
        /\ sweep'.todo \subseteq DOMAIN alerts
        /\ sweep' \in SweepState
    BY <1>1 DEF EscalateOverdue, Overdue, SweepState, IInv, TypeOK
  <2>3. SweepInv' /\ TableInv'
    BY <2>1, <2>2 DEF SweepInv, IInv, TableInv, TableTypes, IndexSound, table
  <2> QED
    BY <2>1, <2>2, <2>3, SweepMoves DEF table
<1>2. CASE SweepRead
  <2>1. UNCHANGED <<table, clock, req, acked, overlapped>> /\ overlapped' \in BOOLEAN
    BY <1>2 DEF SweepRead, IInv, TypeOK
  <2>2. TableInv'
    BY <2>1 DEF IInv, TableInv, TableTypes, IndexSound, table
  <2>3. sweep.todo \subseteq DOMAIN alerts /\ DOMAIN alerts \subseteq AlertID
    BY <1>2 DEF SweepRead, IInv, TypeOK, SweepInv
  <2>4. sweep' \in SweepState /\ SweepInv'
    <3>1. CASE sweep' = Idle
      BY <2>1, <3>1 DEF Idle, SweepState, SweepInv
    <3>2. ASSUME NEW id \in sweep.todo,
                 sweep' = [pc |-> "next", todo |-> sweep.todo \ {id}]
          PROVE  sweep' \in SweepState /\ SweepInv'
      BY <2>1, <2>3, <3>2 DEF SweepState, SweepInv, table
    <3>3. ASSUME NEW id \in sweep.todo,
                 CanTransition(alerts[id], "escalated"),
                 sweep' = [pc |-> "update", todo |-> sweep.todo \ {id}, id |-> id,
                           alert |-> alerts[id]]
          PROVE  sweep' \in SweepState /\ SweepInv'
      <4>1. id \in DOMAIN alerts /\ alerts[id] \in Alert /\ Stamped(alerts[id])
        BY <2>3 DEF IInv, TableInv, TableTypes
      <4>2. sweep' \in SweepState
        BY <2>3, <3>3, <4>1 DEF SweepState
      <4> QED
        BY <2>1, <2>3, <3>3, <4>1, <4>2
           DEF SweepInv, Held, Stamped, CanTransition, table
    <3> QED
      BY <1>2, <3>1, <3>2, <3>3 DEF SweepRead
  <2> QED
    BY <2>1, <2>2, <2>4, SweepMoves DEF table
<1>3. CASE SweepSave
  <2> DEFINE id == sweep.id
             moved == Moved(sweep.alert, "escalated")
  <2>1. /\ id \in AlertID
        /\ sweep.alert \in Alert
        /\ Held(id, sweep.alert, "escalated")
        /\ sweep.todo \subseteq DOMAIN alerts
        /\ sweep.todo \subseteq AlertID
    BY <1>3, SweepShape DEF SweepSave, IInv, SweepInv
  <2>2. moved \in Alert /\ Stamped(moved) /\ alerts[id].key = moved.key
    BY <2>1, MoveStamps DEF Held, AlertStatus
  <2>3. SaveAlert(id, moved) /\ UNCHANGED <<clock, req, acked, overlapped>>
    BY <1>3 DEF SweepSave
  <2>4. sweep' = [pc |-> "next", todo |-> sweep.todo]
    BY <1>3 DEF SweepSave
  <2> HIDE DEF moved, id
  <2>5. /\ TableInv'
        /\ DOMAIN alerts \subseteq DOMAIN alerts'
        /\ \A k \in DOMAIN alerts : alerts'[k].key = alerts[k].key
    BY <2>1, <2>2, <2>3, SaveKeepsTable DEF IInv
  <2>6. sweep' \in SweepState /\ SweepInv'
    BY <2>1, <2>4, <2>5 DEF SweepState, SweepInv
  <2> QED
    BY <2>3, <2>5, <2>6, SweepMoves DEF IInv, TypeOK
<1> QED
  BY <1>1, <1>2, <1>3 DEF Sweep

\* The invariant holds in the empty service.
LEMMA InitEstablishesIInv == Init => IInv
<1> SUFFICES ASSUME Init PROVE IInv
  OBVIOUS
<1>1. DOMAIN alerts = {} /\ DOMAIN idemAlert = {} /\ acked = {}
  BY DEF Init
<1>2. TypeOK
  <2>1. alerts \in [DOMAIN alerts -> Alert]
    BY DEF Init
  <2>2. idemAlert \in [DOMAIN idemAlert -> AlertID]
    BY DEF Init
  <2>3. clock \in 0 .. MaxTime
    BY AlertAssumption DEF Init
  <2>4. req \in [Worker -> {Idle} \cup ReportCall \cup WorkflowCall]
    BY DEF Init
  <2>5. sweep \in SweepState
    BY DEF Init, SweepState
  <2>6. overlapped \in BOOLEAN
    BY DEF Init
  <2> QED
    BY <1>1, <2>1, <2>2, <2>3, <2>4, <2>5, <2>6 DEF TypeOK
<1>3. TableInv /\ NoReportLost
  BY <1>1, <1>2 DEF TypeOK, TableInv, TableTypes, IndexSound, NoReportLost
<1>4. SweepInv /\ \A w \in Worker : RequestInv(w)
  BY DEF Init, Idle, SweepInv, RequestInv
<1> QED
  BY <1>2, <1>3, <1>4 DEF IInv

\* Every step keeps it: a step of a worker, of the sweep or of the clock.
LEMMA StepKeepsIInv == IInv /\ [Next]_vars => IInv'
<1> SUFFICES ASSUME IInv, [Next]_vars PROVE IInv'
  OBVIOUS
<1>1. ASSUME NEW w \in Worker, NEW batch \in SUBSET Report,
             ReportAlertBatch(w, batch)
      PROVE  IInv'
  BY <1>1, ReportKeepsIInv
<1>2. ASSUME NEW w \in Worker, NEW id \in AlertID, Workflow(w, id)
      PROVE  IInv'
  BY <1>2, ReadKeepsIInv
     DEF Workflow, SignAlert, DispatchAlert, StartProgress, ResolveAlert,
         CloseAlert, EscalateAlert, AlertStatus
<1>3. ASSUME NEW w \in Worker, Continue(w)
      PROVE  IInv'
  BY <1>3, LookupKeepsIInv, SaveReportKeepsIInv, SaveUpdateKeepsIInv DEF Continue
<1>4. CASE Sweep
  BY <1>4, SweepKeepsIInv
<1>5. CASE Tick
  <2>1. clock' \in 0 .. MaxTime
    BY <1>5, AlertAssumption DEF Tick, IInv, TypeOK
  <2> QED
    BY <1>5, <2>1 DEF Tick, table, IInv, TypeOK, TableInv, TableTypes, IndexSound,
                      NoReportLost, SweepInv, RequestInv, Held, Stamped,
                      CanTransition, Alert, ReportCall, WorkflowCall, SweepState
<1>6. CASE UNCHANGED vars
  BY <1>6 DEF vars, IInv, TypeOK, TableInv, TableTypes, IndexSound, NoReportLost,
              SweepInv, RequestInv, Held, Stamped, CanTransition, Alert,
              ReportCall, WorkflowCall, SweepState
<1> QED
  BY <1>1, <1>2, <1>3, <1>4, <1>5, <1>6 DEF Next

\* The tables stay sound and every call in flight can rely on what it read.
THEOREM Invariance == Spec => []IInv
BY InitEstablishesIInv, StepKeepsIInv, PTL DEF Spec

\* Every reachable state is well typed.
THEOREM TypeCorrectness == Spec => []TypeOK
BY Invariance, PTL DEF IInv

\* The idempotency index leads to a stored alert with the key, and misses no key
\* of a stored alert, however the calls interleave.
THEOREM IndexIsSound == Spec => []IndexSound
BY Invariance, PTL DEF IInv, TableInv

\* A record the service answered for stays stored.
THEOREM ReportsAreKept == Spec => []NoReportLost
BY Invariance, PTL DEF IInv

\* Whatever older records are written over it, an alert that is being worked on
\* carries the dispatcher's signature.
THEOREM WorkCarriesSignature == Spec => []WorkIsSigned
<1>1. IInv => WorkIsSigned
  BY DEF IInv, TableInv, Stamped, WorkIsSigned
<1> QED
  BY <1>1, Invariance, PTL

-----------------------------------------------------------------------------
(***************************************************************************)
(* Calls that have not overlapped.                                         *)
(***************************************************************************)

\* As long as no two calls have overlapped there is at most one, and what it has
\* read is what is stored.
Serial ==
    ~overlapped =>
        /\ \A v, w \in InFlight : v = w
        /\ sweep # Idle => InFlight = {}
        /\ \A w \in Worker :
              req[w].pc = "update" => alerts[req[w].id] = req[w].alert
        /\ sweep.pc = "update" => alerts[sweep.id] = sweep.alert

\* What a step does to an alert stored before: nothing, or one edge.
EdgeStep ==
    \A id \in DOMAIN alerts :
        \/ alerts'[id] = alerts[id]
        \/ \E target \in AlertStatus :
              /\ CanTransition(alerts[id], target)
              /\ alerts'[id] = Moved(alerts[id], target)

\* A call that begins alone starts from what is stored.
LEMMA BeginSerial ==
    ASSUME IInv, Serial, Begin, UNCHANGED alerts,
           \/ /\ \E w \in Worker, call \in Calls :
                    /\ req' = [req EXCEPT ![w] = call]
                    /\ call.pc = "update" => alerts[call.id] = call.alert
              /\ UNCHANGED sweep
           \/ /\ UNCHANGED req
              /\ sweep'.pc # "update"
    PROVE  Serial'
<1> SUFFICES ASSUME ~overlapped'
             PROVE  /\ \A v, w \in InFlight' : v = w
                    /\ sweep' # Idle => InFlight' = {}
                    /\ \A w \in Worker :
                          req'[w].pc = "update" => alerts'[req'[w].id] = req'[w].alert
                    /\ sweep'.pc = "update" => alerts'[sweep'.id] = sweep'.alert
  BY DEF Serial, InFlight, Idle
<1>1. InFlight = {} /\ sweep = Idle
  BY DEF Begin, Quiet
<1>2. \A w \in Worker : req[w] = Idle /\ req[w].pc = "idle"
  BY <1>1 DEF InFlight, Idle
<1>3. CASE /\ UNCHANGED req
           /\ sweep'.pc # "update"
  BY <1>1, <1>2, <1>3 DEF InFlight
<1>4. ASSUME NEW w \in Worker, NEW call \in Calls,
             req' = [req EXCEPT ![w] = call],
             call.pc = "update" => alerts[call.id] = call.alert,
             UNCHANGED sweep
      PROVE  /\ \A v, u \in InFlight' : v = u
             /\ sweep' # Idle => InFlight' = {}
             /\ \A v \in Worker :
                   req'[v].pc = "update" => alerts'[req'[v].id] = req'[v].alert
             /\ sweep'.pc = "update" => alerts'[sweep'.id] = sweep'.alert
  <2>1. /\ req'[w] = call
        /\ \A v \in Worker : v # w => req'[v] = Idle /\ req'[v].pc = "idle"
    BY <1>2, <1>4 DEF IInv, TypeOK
  <2>2. sweep' = Idle /\ sweep'.pc = "idle"
    BY <1>1, <1>4 DEF Idle
  <2> QED
    BY <1>4, <2>1, <2>2 DEF InFlight
<1> QED
  BY <1>3, <1>4

\* A call that goes on alone, to save nothing that it has not just read.
LEMMA ContinueSerial ==
    ASSUME IInv, Serial, NEW w \in Worker, NEW call \in Calls,
           req[w].pc # "idle",
           req' = [req EXCEPT ![w] = call], call.pc # "update",
           UNCHANGED <<sweep, overlapped>>
    PROVE  Serial'
<1> SUFFICES ASSUME ~overlapped'
             PROVE  /\ \A v, u \in InFlight' : v = u
                    /\ sweep' # Idle => InFlight' = {}
                    /\ \A v \in Worker :
                          req'[v].pc = "update" => alerts'[req'[v].id] = req'[v].alert
                    /\ sweep'.pc = "update" => alerts'[sweep'.id] = sweep'.alert
  BY DEF Serial, InFlight, Idle
<1>1. w \in InFlight
  BY RequestShape DEF InFlight, IInv
<1>2. sweep = Idle /\ \A v \in Worker : v # w => req[v] = Idle /\ req[v].pc = "idle"
  BY <1>1 DEF Serial, InFlight, Idle
<1>3. /\ req'[w] = call
      /\ \A v \in Worker : v # w => req'[v] = Idle /\ req'[v].pc = "idle"
  BY <1>2 DEF IInv, TypeOK
<1>4. sweep' = Idle /\ sweep'.pc = "idle"
  BY <1>2 DEF Idle
<1> QED
  BY <1>3, <1>4 DEF InFlight

\* The sweep that goes on alone.
LEMMA SweepSerial ==
    ASSUME IInv, Serial, sweep.pc # "idle",
           UNCHANGED <<req, overlapped>>,
           sweep'.pc = "update" => alerts'[sweep'.id] = sweep'.alert
    PROVE  Serial'
<1>1. sweep # Idle
  BY DEF Idle
<1>2. ~overlapped => InFlight = {} /\ \A w \in Worker : req[w].pc = "idle"
  BY <1>1 DEF Serial, InFlight, Idle
<1> QED
  BY <1>2 DEF Serial, InFlight, Idle

\* A save by a call that has run alone since it read moves the stored alert.
LEMMA SaveMoves ==
    ASSUME IInv, NEW id, NEW alert \in Alert, NEW target \in AlertStatus,
           Held(id, alert, target), alerts[id] = alert,
           SaveAlert(id, Moved(alert, target))
    PROVE  EdgeStep
<1>1. /\ alerts'[id] = Moved(alerts[id], target)
      /\ \A k \in DOMAIN alerts : k # id => alerts'[k] = alerts[k]
  BY DEF SaveAlert, Put, Held
<1> QED
  BY <1>1 DEF EdgeStep, Held

\* Every step keeps calls that have not overlapped serial, and moves the stored
\* alerts along the edges of the workflow.
LEMMA SerialStep ==
    ASSUME IInv, Serial, [Next]_vars
    PROVE  /\ Serial'
           /\ ~overlapped' => ~overlapped
           /\ ~overlapped => EdgeStep
<1>1. ASSUME NEW w \in Worker, NEW batch \in SUBSET Report,
             ReportAlertBatch(w, batch)
      PROVE  Serial' /\ (~overlapped' => ~overlapped) /\ EdgeStep
  <2>1. PICK order \in ReplayOrders(batch) :
              req' = [req EXCEPT ![w] = [pc |-> "lookup", todo |-> order]]
    BY <1>1 DEF ReportAlertBatch
  <2>2. PICK call \in Calls :
              /\ call.pc = "lookup"
              /\ req' = [req EXCEPT ![w] = call]
    BY <1>1, <2>1, OrdersAreSequences DEF ReportAlertBatch, Calls, ReportCall
  <2>3. Begin /\ UNCHANGED <<table, sweep>>
    BY <1>1 DEF ReportAlertBatch
  <2> QED
    BY <2>2, <2>3, BeginSerial DEF Begin, table, EdgeStep
<1>2. ASSUME NEW w \in Worker, NEW id \in AlertID, NEW target \in AlertStatus,
             ReadForUpdate(w, id, target)
      PROVE  Serial' /\ (~overlapped' => ~overlapped) /\ EdgeStep
  <2>1. id \in DOMAIN alerts /\ alerts[id] \in Alert
    BY <1>2 DEF ReadForUpdate, IInv, TableInv, TableTypes
  <2>2. PICK call \in Calls :
              /\ alerts[call.id] = call.alert
              /\ req' = [req EXCEPT ![w] = call]
    BY <1>2, <2>1 DEF ReadForUpdate, Calls, WorkflowCall
  <2>3. Begin /\ UNCHANGED <<table, sweep>>
    BY <1>2 DEF ReadForUpdate
  <2> QED
    BY <2>2, <2>3, BeginSerial DEF Begin, table, EdgeStep
<1>3. ASSUME NEW w \in Worker, LookupKey(w)
      PROVE  Serial' /\ (~overlapped' => ~overlapped) /\ EdgeStep
  <2>1. /\ UNCHANGED <<table, sweep, overlapped>>
        /\ req[w].pc = "lookup"
        /\ Head(req[w].todo) \in Report
    BY <1>3, BatchGoesOn DEF LookupKey
  <2>2. PICK call \in Calls :
              /\ call.pc # "update"
              /\ req' = [req EXCEPT ![w] = call]
    <3>1. CASE req' = [req EXCEPT ![w] = Idle]
      BY <3>1 DEF Calls, Idle
    <3>2. CASE Answer(w)
      BY <2>1, <3>2, BatchGoesOn DEF Answer, Rest
    <3>3. CASE GoSave(w, DeviceTime(Head(req[w].todo)))
      BY <2>1, <3>3, RequestShape, DeviceTimeType DEF GoSave, Calls, ReportCall, IInv
    <3> QED
      BY <1>3, <3>1, <3>2, <3>3 DEF LookupKey
  <2> QED
    BY <2>1, <2>2, ContinueSerial DEF table, EdgeStep
<1>4. ASSUME NEW w \in Worker, SaveReport(w)
      PROVE  Serial' /\ (~overlapped' => ~overlapped) /\ EdgeStep
  <2>1. /\ UNCHANGED <<sweep, overlapped>>
        /\ req[w].pc = "save"
        /\ req' = [req EXCEPT ![w] = Rest(w)]
    BY <1>4 DEF SaveReport, Answer, Rest
  <2>2. Serial'
    BY <2>1, BatchGoesOn, ContinueSerial
  <2>3. EdgeStep
    BY <1>4, FreshIsNew DEF SaveReport, SaveAlert, Put, EdgeStep
  <2> QED
    BY <2>1, <2>2, <2>3
<1>5. ASSUME NEW w \in Worker, SaveUpdate(w)
      PROVE  /\ Serial'
             /\ ~overlapped' => ~overlapped
             /\ ~overlapped => EdgeStep
  <2>1. /\ UNCHANGED <<sweep, overlapped>>
        /\ req[w].pc = "update"
        /\ req' = [req EXCEPT ![w] = Idle]
        /\ Idle \in Calls /\ Idle.pc = "idle"
    BY <1>5 DEF SaveUpdate, Calls, Idle
  <2>2. Serial'
    BY <2>1, ContinueSerial
  <2>3. ~overlapped => alerts[req[w].id] = req[w].alert
    BY <2>1 DEF Serial
  <2>4. ~overlapped => EdgeStep
    BY <1>5, <2>1, <2>3, RequestShape, SaveMoves DEF SaveUpdate, IInv, RequestInv
  <2> QED
    BY <2>1, <2>2, <2>4
<1>6. CASE EscalateOverdue
  <2>1. Begin /\ UNCHANGED <<table, req>> /\ sweep'.pc = "next"
    BY <1>6 DEF EscalateOverdue
  <2> QED
    BY <2>1, BeginSerial DEF Begin, table, EdgeStep
<1>7. CASE SweepRead
  <2>1. sweep.pc = "next" /\ UNCHANGED <<table, req, overlapped>>
    BY <1>7 DEF SweepRead
  <2>2. sweep'.pc = "update" => alerts[sweep'.id] = sweep'.alert
    BY <1>7 DEF SweepRead, Idle
  <2> QED
    BY <2>1, <2>2, SweepSerial DEF table, EdgeStep
<1>8. CASE SweepSave
  <2>1. /\ sweep.pc = "update"
        /\ sweep'.pc = "next"
        /\ UNCHANGED <<req, overlapped>>
    BY <1>8 DEF SweepSave
  <2>2. ~overlapped => alerts[sweep.id] = sweep.alert
    BY <2>1 DEF Serial
  <2>3. ~overlapped => EdgeStep
    BY <1>8, <2>1, <2>2, SweepShape, SaveMoves
       DEF SweepSave, IInv, SweepInv, AlertStatus
  <2> QED
    BY <2>1, <2>3, SweepSerial
<1>9. CASE Tick \/ UNCHANGED vars
  BY <1>9 DEF Tick, vars, table, Serial, InFlight, Idle, EdgeStep
<1> QED
  BY <1>1, <1>2, <1>3, <1>4, <1>5, <1>6, <1>7, <1>8, <1>9
     DEF Next, Workflow, SignAlert, DispatchAlert, StartProgress, ResolveAlert,
         CloseAlert, EscalateAlert, AlertStatus, Continue, Sweep

\* Calls are serial until two overlap.
LEMMA SerialInvariance == Spec => [](IInv /\ Serial)
<1>1. Init => Serial
  BY DEF Init, Serial, InFlight, Idle
<1>2. IInv /\ Serial /\ [Next]_vars => Serial'
  BY SerialStep
<1> QED
  BY <1>1, <1>2, InitEstablishesIInv, StepKeepsIInv, PTL DEF Spec

\* The two rules of the workflow, as formulas about a step.
WorkflowStep ==
    ~overlapped' =>
        \A id \in DOMAIN alerts :
            \/ alerts'[id].status = alerts[id].status
            \/ CanTransition(alerts[id], alerts'[id].status)

SignatureStep ==
    ~overlapped' =>
        \A id \in DOMAIN alerts :
            alerts[id].signed => /\ alerts'[id].signed
                                 /\ alerts'[id].status # "escalated"

\* One edge of the workflow keeps both rules.
LEMMA EdgesKeepRules ==
    ASSUME IInv, Serial, [Next]_vars
    PROVE  WorkflowStep /\ SignatureStep
<1> SUFFICES ASSUME ~overlapped', NEW id \in DOMAIN alerts
             PROVE  /\ \/ alerts'[id].status = alerts[id].status
                       \/ CanTransition(alerts[id], alerts'[id].status)
                    /\ alerts[id].signed => /\ alerts'[id].signed
                                            /\ alerts'[id].status # "escalated"
  BY DEF WorkflowStep, SignatureStep
<1>1. EdgeStep
  BY SerialStep
<1>2. alerts[id] \in Alert /\ Stamped(alerts[id])
  BY DEF IInv, TableInv, TableTypes
<1>3. CASE alerts'[id] = alerts[id]
  BY <1>2, <1>3 DEF Stamped
<1>4. ASSUME NEW target \in AlertStatus,
             CanTransition(alerts[id], target),
             alerts'[id] = Moved(alerts[id], target)
      PROVE  /\ CanTransition(alerts[id], alerts'[id].status)
             /\ alerts[id].signed => /\ alerts'[id].signed
                                     /\ alerts'[id].status # "escalated"
  BY <1>2, <1>4, MoveStamps
<1> QED
  BY <1>1, <1>3, <1>4 DEF EdgeStep

\* Calls that do not overlap move an alert along the workflow only.
THEOREM WorkflowIsFollowed == Spec => FollowsWorkflow
<1>1. IInv /\ Serial /\ [Next]_vars => [WorkflowStep]_vars
  BY EdgesKeepRules
<1>2. [][WorkflowStep]_vars => FollowsWorkflow
  BY DEF WorkflowStep, FollowsWorkflow
<1> QED
  BY <1>1, <1>2, SerialInvariance, PTL DEF Spec

\* Calls that do not overlap never undo the dispatcher's signature.
THEOREM SignatureIsFinal == Spec => SignatureStands
<1>1. IInv /\ Serial /\ [Next]_vars => [SignatureStep]_vars
  BY EdgesKeepRules
<1>2. [][SignatureStep]_vars => SignatureStands
  BY DEF SignatureStep, SignatureStands
<1> QED
  BY <1>1, <1>2, SerialInvariance, PTL DEF Spec

-----------------------------------------------------------------------------
(***************************************************************************)
(* Requests that are served one at a time.                                 *)
(***************************************************************************)

\* Between the lookup of a key and the save, nobody stores the key.
KeyStaysFree ==
    \A w \in Worker :
        req[w].pc = "save" =>
            ReportSpec[Head(req[w].todo)].key \notin DOMAIN idemAlert

\* A save under an identifier that keeps its key adds no key and no alert.
LEMMA ResaveAddsNothing ==
    ASSUME TableInv, OneAlertPerKey,
           NEW id \in DOMAIN alerts, NEW alert \in Alert, Stamped(alert),
           alerts[id].key = alert.key, SaveAlert(id, alert)
    PROVE  OneAlertPerKey' /\ DOMAIN idemAlert' = DOMAIN idemAlert
<1>1. id \in AlertID
  BY DEF TableInv, TableTypes
<1>2. /\ DOMAIN alerts' = DOMAIN alerts
      /\ \A k \in DOMAIN alerts : alerts'[k].key = alerts[k].key
      /\ DOMAIN idemAlert' = DOMAIN idemAlert \cup {alert.key}
  <2>1. /\ DOMAIN alerts' = DOMAIN alerts \cup {id}
        /\ \A k \in DOMAIN alerts : alerts'[k].key = alerts[k].key
        /\ DOMAIN idemAlert' = DOMAIN idemAlert \cup {alert.key}
    BY <1>1, SaveKeepsTable
  <2> QED
    BY <2>1
<1>3. alert.key \in DOMAIN idemAlert
  BY DEF TableInv, IndexSound
<1> QED
  BY <1>2, <1>3 DEF OneAlertPerKey

\* A save under a key the index does not know adds the only alert with the key.
LEMMA FirstSaveIsAlone ==
    ASSUME TableInv, OneAlertPerKey,
           NEW id \in AlertID, id \notin DOMAIN alerts,
           NEW alert \in Alert, Stamped(alert),
           alert.key \notin DOMAIN idemAlert, SaveAlert(id, alert)
    PROVE  OneAlertPerKey'
<1>1. /\ DOMAIN alerts' = DOMAIN alerts \cup {id}
      /\ alerts'[id] = alert
      /\ \A k \in DOMAIN alerts : alerts'[k] = alerts[k]
  BY SaveKeepsTable
<1>2. \A k \in DOMAIN alerts : alerts[k].key # alert.key
  BY DEF TableInv, IndexSound
<1> QED
  BY <1>1, <1>2 DEF OneAlertPerKey

\* A step while at most one request is in flight, beside the sweep or not.
LEMMA OneRequestStep ==
    ASSUME \A v, w \in Worker : req[v].pc # "idle" /\ req[w].pc # "idle" => v = w,
           IInv, OneAlertPerKey, KeyStaysFree, [Next]_vars
    PROVE  OneAlertPerKey' /\ KeyStaysFree'
<1>1. ASSUME UNCHANGED table,
             \/ UNCHANGED req
             \/ \E w \in Worker, call \in Calls : /\ req' = [req EXCEPT ![w] = call]
                                                 /\ call.pc # "save"
      PROVE  OneAlertPerKey' /\ KeyStaysFree'
  BY <1>1 DEF OneAlertPerKey, KeyStaysFree, table, IInv, TypeOK
<1>2. ASSUME NEW w \in Worker, NEW batch \in SUBSET Report,
             ReportAlertBatch(w, batch)
      PROVE  OneAlertPerKey' /\ KeyStaysFree'
  <2>1. PICK order \in ReplayOrders(batch) :
              req' = [req EXCEPT ![w] = [pc |-> "lookup", todo |-> order]]
    BY <1>2 DEF ReportAlertBatch
  <2>2. [pc |-> "lookup", todo |-> order] \in Calls
    BY <1>2, OrdersAreSequences DEF ReportAlertBatch, Calls, ReportCall
  <2> QED
    BY <1>1, <1>2, <2>1, <2>2 DEF ReportAlertBatch
<1>3. ASSUME NEW w \in Worker, NEW id \in AlertID, NEW target \in AlertStatus,
             ReadForUpdate(w, id, target)
      PROVE  OneAlertPerKey' /\ KeyStaysFree'
  <2>1. alerts[id] \in Alert
    BY <1>3 DEF ReadForUpdate, IInv, TableInv, TableTypes
  <2> DEFINE call == [pc |-> "update", id |-> id, alert |-> alerts[id],
                      target |-> target]
  <2>2. call \in Calls /\ call.pc # "save"
    BY <2>1 DEF Calls, WorkflowCall
  <2>3. req' = [req EXCEPT ![w] = call]
    BY <1>3 DEF ReadForUpdate
  <2> HIDE DEF call
  <2> QED
    BY <1>1, <1>3, <2>2, <2>3 DEF ReadForUpdate
<1>4. ASSUME NEW w \in Worker, LookupKey(w)
      PROVE  OneAlertPerKey' /\ KeyStaysFree'
  <2> DEFINE r == Head(req[w].todo)
  <2>1. UNCHANGED table /\ req[w].pc = "lookup"
    BY <1>4 DEF LookupKey
  <2>2. CASE req' = [req EXCEPT ![w] = Idle]
    <3>1. Idle \in Calls /\ Idle.pc # "save"
      BY DEF Calls, Idle
    <3> QED
      BY <1>1, <2>1, <2>2, <3>1
  <2>3. CASE Answer(w)
    <3>1. req' = [req EXCEPT ![w] = Rest(w)]
      BY <2>3 DEF Answer, Rest
    <3>2. Rest(w) \in Calls /\ Rest(w).pc # "save"
      BY <2>1, BatchGoesOn
    <3> QED
      BY <1>1, <2>1, <3>1, <3>2
  <2>4. CASE GoSave(w, DeviceTime(r)) /\ ReportSpec[r].key \notin DOMAIN idemAlert
    <3>1. \A v \in Worker : req'[v].pc = "save" => req'[v].todo = req[w].todo
      <4>1. \A v \in Worker : v # w => req[v].pc = "idle" /\ req'[v] = req[v]
        BY <2>1, <2>4 DEF GoSave, IInv, TypeOK
      <4>2. req'[w].todo = req[w].todo
        BY <2>4 DEF GoSave, IInv, TypeOK
      <4> QED
        BY <4>1, <4>2
    <3> QED
      BY <2>1, <2>4, <3>1 DEF OneAlertPerKey, KeyStaysFree, table
  <2> QED
    BY <1>4, <2>2, <2>3, <2>4 DEF LookupKey
<1>5. ASSUME NEW w \in Worker, SaveReport(w)
      PROVE  OneAlertPerKey' /\ KeyStaysFree'
  <2> DEFINE r == Head(req[w].todo)
             alert == [key |-> ReportSpec[r].key, reportedAt |-> req[w].at,
                       status |-> "reported", signed |-> FALSE]
  <2>1. req[w].pc = "save" /\ r \in Report
    BY <1>5, BatchGoesOn DEF SaveReport
  <2>2. /\ alert \in Alert
        /\ alert.key = ReportSpec[r].key
        /\ Stamped(alert)
    BY <2>1, RequestShape, DeviceTimeType DEF IInv, Alert, AlertStatus, Stamped
  <2>3. /\ FreshID \in AlertID
        /\ FreshID \notin DOMAIN alerts
        /\ SaveAlert(FreshID, alert)
        /\ req' = [req EXCEPT ![w] = Rest(w)]
    BY <1>5, FreshIsNew DEF SaveReport, Answer, Rest
  <2> HIDE DEF alert
  <2>4. OneAlertPerKey'
    BY <2>1, <2>2, <2>3, FirstSaveIsAlone DEF IInv, KeyStaysFree
  <2>5. \A v \in Worker : req'[v].pc # "save"
    BY <2>1, <2>3, BatchGoesOn DEF IInv, TypeOK
  <2> QED
    BY <2>4, <2>5 DEF KeyStaysFree
<1>6. ASSUME NEW w \in Worker, SaveUpdate(w)
      PROVE  OneAlertPerKey' /\ KeyStaysFree'
  <2> DEFINE moved == Moved(req[w].alert, req[w].target)
  <2>1. /\ req[w].alert \in Alert
        /\ req[w].target \in AlertStatus
        /\ Held(req[w].id, req[w].alert, req[w].target)
    BY <1>6, RequestShape DEF SaveUpdate, IInv, RequestInv
  <2>2. /\ req[w].id \in DOMAIN alerts
        /\ moved \in Alert
        /\ Stamped(moved)
        /\ alerts[req[w].id].key = moved.key
    BY <2>1, MoveStamps DEF Held
  <2>3. SaveAlert(req[w].id, moved) /\ req' = [req EXCEPT ![w] = Idle]
    BY <1>6 DEF SaveUpdate
  <2> HIDE DEF moved
  <2>4. OneAlertPerKey'
    BY <2>2, <2>3, ResaveAddsNothing DEF IInv
  <2>5. \A v \in Worker : req'[v].pc # "save"
    BY <1>6, <2>3 DEF SaveUpdate, IInv, TypeOK, Idle
  <2> QED
    BY <2>4, <2>5 DEF KeyStaysFree
<1>7. CASE EscalateOverdue \/ SweepRead
  BY <1>1, <1>7 DEF EscalateOverdue, SweepRead
<1>8. CASE SweepSave
  <2> DEFINE moved == Moved(sweep.alert, "escalated")
  <2>1. sweep.alert \in Alert /\ Held(sweep.id, sweep.alert, "escalated")
    BY <1>8, SweepShape DEF SweepSave, IInv, SweepInv
  <2>2. /\ sweep.id \in DOMAIN alerts
        /\ moved \in Alert
        /\ Stamped(moved)
        /\ alerts[sweep.id].key = moved.key
    BY <2>1, MoveStamps DEF Held, AlertStatus
  <2>3. SaveAlert(sweep.id, moved) /\ UNCHANGED req
    BY <1>8 DEF SweepSave
  <2> HIDE DEF moved
  <2>4. OneAlertPerKey' /\ DOMAIN idemAlert' = DOMAIN idemAlert
    BY <2>2, <2>3, ResaveAddsNothing DEF IInv
  <2> QED
    BY <2>3, <2>4 DEF KeyStaysFree
<1>9. CASE Tick \/ UNCHANGED vars
  BY <1>1, <1>9 DEF Tick, vars, table
<1> QED
  BY <1>2, <1>3, <1>4, <1>5, <1>6, <1>7, <1>8, <1>9
     DEF Next, Workflow, SignAlert, DispatchAlert, StartProgress, ResolveAlert,
         CloseAlert, EscalateAlert, AlertStatus, Continue, Sweep

\* While one worker serves all requests, no record is counted twice, whatever
\* the sweep saves meanwhile.  (With more workers it may be.)
THEOREM OneWorkerCountsOnce ==
    ASSUME \A v, w \in Worker : v = w
    PROVE  Spec => []OneAlertPerKey
<1>1. Init => OneAlertPerKey /\ KeyStaysFree
  BY DEF Init, OneAlertPerKey, KeyStaysFree, Idle
<1>2. IInv /\ OneAlertPerKey /\ KeyStaysFree /\ [Next]_vars =>
          OneAlertPerKey' /\ KeyStaysFree'
  BY OneRequestStep
<1> QED
  BY <1>1, <1>2, Invariance, PTL DEF Spec

\* With any number of workers, no record is counted twice as long as no call has
\* overlapped another.
THEOREM LoneCallsCountOnce == Spec => [](~overlapped => OneAlertPerKey)
<1> DEFINE Once == ~overlapped => OneAlertPerKey /\ KeyStaysFree
<1>1. Init => Once
  BY DEF Init, OneAlertPerKey, KeyStaysFree, Idle
<1>2. IInv /\ Serial /\ Once /\ [Next]_vars => Once'
  <2> SUFFICES ASSUME IInv, Serial, Once, [Next]_vars, ~overlapped'
               PROVE  OneAlertPerKey' /\ KeyStaysFree'
    OBVIOUS
  <2>1. ~overlapped
    BY SerialStep
  <2>2. \A v, w \in Worker : req[v].pc # "idle" /\ req[w].pc # "idle" => v = w
    BY <2>1 DEF Serial, InFlight, Idle
  <2> QED
    BY <2>1, <2>2, OneRequestStep
<1>3. Once => (~overlapped => OneAlertPerKey)
  OBVIOUS
<1> QED
  BY <1>1, <1>2, <1>3, Invariance, SerialInvariance, PTL DEF Spec
=============================================================================
