---------------------------- MODULE ServerProofs ----------------------------
(***************************************************************************)
(* Theorems of Server, for every value of its constants: any number of     *)
(* shifts and workers, however their requests interleave with the sweep of *)
(* the scheduler, and however the process starts and stops around them.    *)
(*                                                                         *)
(* The invariant has two parts.  Every record of a shift, stored or carried*)
(* by a call that will write it back, is one that may be stored.  And where*)
(* main and the goroutine of the signal are tells how the loop stands.     *)
(***************************************************************************)
EXTENDS Server, TLAPS

Calls == {Idle} \cup Request

Sweeps == {Idle} \cup SweepState

\* A record that may be stored for a shift: it is signed once it is approved, and
\* it does not start ahead of its departure.
Sound(s, record) ==
    /\ record.status \in {"approved", "active", "completed"} => record.signed
    /\ record.status \in {"active", "completed"} => ShiftSpec[s].departure <= clock

\* A request saves a sound record of a stored shift, along an edge of the workflow.
CallInv(call) ==
    call.pc = "save" =>
        /\ call.id \in DOMAIN shifts
        /\ ShiftCanTransition(call.record.status, call.target)
        /\ Sound(call.id, Moved(call.record, call.target))

\* The sweep has listed stored shifts that are due, and activates approved ones.
SweepInv ==
    /\ sweep # Idle =>
          \A s \in sweep.todo : /\ s \in DOMAIN shifts
                                /\ ShiftSpec[s].departure <= clock
    /\ sweep.pc = "save" =>
          /\ sweep.id \in DOMAIN shifts
          /\ ShiftCanTransition(sweep.record.status, "active")
          /\ Sound(sweep.id, Moved(sweep.record, "active"))

TableInv ==
    /\ ShiftTypeOK
    /\ signed \subseteq DOMAIN shifts
    /\ \A s \in DOMAIN shifts : Sound(s, Stored(s))

ShiftInv ==
    /\ CallTypeOK
    /\ TableInv
    /\ \A w \in Worker : CallInv(req[w])
    /\ SweepInv

\* Where main and the goroutine of the signal are tells how the loop stands.
ProcessInv ==
    /\ loop # "running" => sweep = Idle
    /\ loop = "unborn" <=> main \in {"spawn", "start", "launch"}
    /\ ctx = "none" <=> main \in {"spawn", "start"}
    /\ ctx = "cancelled" => sig \notin {"none", "notify", "wait", "stop"}
    /\ sig = "join" /\ ~early => loop # "unborn"
    /\ StopReturned /\ ~early => loop = "exited"

ProcessTypes ==
    /\ SchedTypeOK
    /\ main \in {"spawn", "start", "launch", "assign", "listen", "serve"}
    /\ sig \in {"none", "notify", "wait", "stop", "join", "close", "drain",
                "done", "gave up"}
    /\ inShutdown \in BOOLEAN
    /\ signalled \in BOOLEAN
    /\ early \in BOOLEAN
    /\ exit \in {"no", "ok", "error", "killed"}

\* The inductive invariant.
IInv == ShiftInv /\ ProcessTypes /\ ProcessInv

-----------------------------------------------------------------------------
(***************************************************************************)
(* The calls on shifts.                                                    *)
(***************************************************************************)

\* The program counter of a request tells which fields it has.
LEMMA CallShape ==
    ASSUME NEW call \in Calls
    PROVE  /\ call.pc \in {"idle", "generate", "save"}
           /\ call = Idle <=> call.pc = "idle"
           /\ call.pc = "generate" => /\ call.todo \in (SUBSET ShiftID) \ {{}}
                                      /\ call.now \in Nat
           /\ call.pc = "save" => /\ call.id \in ShiftID
                                  /\ call.record \in ShiftRecord
                                  /\ call.target \in ShiftStatus
BY DEF Calls, Idle, Request

\* So does that of the sweep.
LEMMA SweepShape ==
    ASSUME NEW state \in Sweeps
    PROVE  /\ state.pc \in {"idle", "next", "save"}
           /\ state = Idle <=> state.pc = "idle"
           /\ state # Idle => state.todo \in SUBSET ShiftID
           /\ state.pc = "save" => /\ state.id \in ShiftID
                                   /\ state.record \in ShiftRecord
BY DEF Sweeps, Idle, SweepState

\* A record read from the table is a record of a shift.
LEMMA StoredType ==
    ASSUME CallTypeOK, NEW s \in DOMAIN shifts
    PROVE  /\ s \in ShiftID
           /\ Stored(s) \in ShiftRecord
           /\ Stored(s).status = shifts[s]
           /\ Stored(s).signed <=> s \in signed
<1>1. s \in ShiftID /\ shifts[s] \in ShiftStatus
  BY DEF CallTypeOK, ShiftTypeOK
<1>2. PICK b \in BOOLEAN : b <=> s \in signed
  OBVIOUS
<1>3. Stored(s) = [status |-> shifts[s], signed |-> b]
  BY <1>2, Zenon DEF Stored
<1>4. Stored(s) \in ShiftRecord
  BY <1>1, <1>2, <1>3 DEF ShiftRecord
<1>5. Stored(s).status = shifts[s] /\ Stored(s).signed = b
  BY <1>3
<1> QED
  BY <1>1, <1>2, <1>4, <1>5

\* A call moves a record along an edge.
LEMMA MovedType ==
    ASSUME NEW record \in ShiftRecord, NEW target \in ShiftStatus
    PROVE  /\ Moved(record, target) \in ShiftRecord
           /\ Moved(record, target).status = target
           /\ Moved(record, target).signed <=> record.signed \/ target = "approved"
BY DEF Moved, ShiftRecord

\* A record that moves along an edge stays sound, unless the move starts the shift.
LEMMA EdgeKeepsSound ==
    ASSUME NEW s, NEW record \in ShiftRecord, NEW target \in ShiftStatus,
           Sound(s, record), ShiftCanTransition(record.status, target),
           target = "active" => ShiftSpec[s].departure <= clock
    PROVE  Sound(s, Moved(record, target))
<1>1. target = "active" => record.status = "approved"
  BY DEF ShiftCanTransition, ShiftEdges
<1>2. target = "completed" => record.status = "active"
  BY DEF ShiftCanTransition, ShiftEdges
<1>3. target \in {"active", "completed"} => record.signed
  BY <1>1, <1>2 DEF Sound
<1>4. target \in {"active", "completed"} => ShiftSpec[s].departure <= clock
  BY <1>2 DEF Sound
<1> QED
  BY <1>3, <1>4, MovedType, Zenon DEF Sound

\* Saving a sound record keeps the table typed and sound.
LEMMA SaveKeepsTable ==
    ASSUME TableInv,
           NEW id \in ShiftID, NEW record \in ShiftRecord,
           Sound(id, record), SaveShift(id, record), UNCHANGED clock
    PROVE  /\ DOMAIN shifts' = DOMAIN shifts \cup {id}
           /\ shifts'[id] = record.status
           /\ \A s \in DOMAIN shifts : s # id => shifts'[s] = shifts[s]
           /\ TableInv'
<1>1. /\ shifts' = [s \in DOMAIN shifts \cup {id} |->
                       IF s = id THEN record.status ELSE shifts[s]]
      /\ record.status \in ShiftStatus
  BY DEF SaveShift, Put, ShiftRecord
<1>2. /\ DOMAIN shifts' = DOMAIN shifts \cup {id}
      /\ shifts'[id] = record.status
      /\ \A s \in DOMAIN shifts : s # id => shifts'[s] = shifts[s]
  BY <1>1
<1>3. ShiftTypeOK'
  BY <1>1 DEF TableInv, ShiftTypeOK
<1>4. /\ signed' \subseteq DOMAIN shifts'
      /\ id \in signed' <=> record.signed
      /\ \A s : s # id => (s \in signed' <=> s \in signed)
  BY <1>2 DEF TableInv, SaveShift
<1>5. ASSUME NEW s \in DOMAIN shifts'
      PROVE  Sound(s, Stored(s))'
  <2>1. CASE s = id
    BY <1>2, <1>4, <2>1 DEF Sound, Stored
  <2>2. CASE s # id
    <3>1. /\ s \in DOMAIN shifts
          /\ shifts'[s] = shifts[s]
          /\ s \in signed' <=> s \in signed
      BY <1>2, <1>4, <2>2
    <3>2. Sound(s, Stored(s))
      BY <3>1 DEF TableInv
    <3> QED
      BY <3>1, <3>2 DEF Sound, Stored
  <2> QED
    BY <2>1, <2>2
<1> QED
  BY <1>2, <1>3, <1>4, <1>5 DEF TableInv

\* A step keeps what the calls carry when no stored shift disappears and the clock
\* does not run backwards.
LEMMA CarriedStays ==
    ASSUME ShiftInv, DOMAIN shifts \subseteq DOMAIN shifts',
           clock' \in Nat, clock <= clock'
    PROVE  /\ \A call \in Calls : CallInv(call) => CallInv(call)'
           /\ UNCHANGED sweep => SweepInv'
<1>1. ASSUME NEW s \in ShiftID, NEW record, Sound(s, record)
      PROVE  Sound(s, record)'
  <2>1. ShiftSpec[s].departure \in Nat /\ clock \in Nat
    BY DomainAssumption DEF ShiftInv, CallTypeOK, ShiftTypeOK
  <2>2. ShiftSpec[s].departure <= clock => ShiftSpec[s].departure <= clock'
    BY <2>1
  <2> QED
    BY <1>1, <2>2, Zenon DEF Sound
<1>2. ASSUME NEW call \in Calls, CallInv(call)
      PROVE  CallInv(call)'
  <2> SUFFICES ASSUME call.pc = "save" PROVE CallInv(call)'
    BY DEF CallInv
  <2>1. call.id \in ShiftID
    BY CallShape
  <2>2. Sound(call.id, Moved(call.record, call.target))'
    <3>1. PICK record : record = Moved(call.record, call.target)
      OBVIOUS
    <3>2. Sound(call.id, record)'
      BY <1>1, <1>2, <2>1, <3>1 DEF CallInv
    <3> QED
      BY <3>1, <3>2 DEF Moved
  <2> QED
    BY <1>2, <2>2 DEF CallInv
<1>3. ASSUME UNCHANGED sweep
      PROVE  SweepInv'
  <2>1. sweep \in Sweeps
    BY DEF ShiftInv, CallTypeOK, Sweeps
  <2>2. ASSUME sweep # Idle, NEW s \in sweep.todo
        PROVE  s \in DOMAIN shifts' /\ ShiftSpec[s].departure <= clock'
    <3>1. s \in ShiftID /\ s \in DOMAIN shifts /\ ShiftSpec[s].departure <= clock
      BY <2>1, <2>2, SweepShape DEF ShiftInv, SweepInv
    <3>2. ShiftSpec[s].departure \in Nat /\ clock \in Nat
      BY <3>1, DomainAssumption DEF ShiftInv, CallTypeOK, ShiftTypeOK
    <3> QED
      BY <3>1, <3>2
  <2>3. ASSUME sweep.pc = "save"
        PROVE  /\ sweep.id \in DOMAIN shifts'
               /\ ShiftCanTransition(sweep.record.status, "active")
               /\ Sound(sweep.id, Moved(sweep.record, "active"))'
    <3>1. PICK id, record : id = sweep.id /\ record = Moved(sweep.record, "active")
      OBVIOUS
    <3>2. /\ id \in ShiftID
          /\ id \in DOMAIN shifts
          /\ ShiftCanTransition(sweep.record.status, "active")
          /\ Sound(id, record)
      BY <2>1, <2>3, <3>1, SweepShape DEF ShiftInv, SweepInv
    <3>3. Sound(id, record)'
      BY <1>1, <3>2
    <3> QED
      BY <1>3, <3>1, <3>2, <3>3 DEF Moved
  <2> QED
    BY <1>3, <2>2, <2>3 DEF SweepInv
<1> QED
  BY <1>2, <1>3

\* A step that leaves the table alone keeps it sound.
LEMMA TableStays ==
    ASSUME ShiftInv, UNCHANGED <<shiftVars, signed>>
    PROVE  /\ TableInv'
           /\ DOMAIN shifts \subseteq DOMAIN shifts'
           /\ clock' \in Nat
           /\ clock <= clock'
<1>1. shifts' = shifts /\ clock' = clock /\ signed' = signed
  BY DEF shiftVars
<1>2. TableInv'
  BY <1>1 DEF ShiftInv, TableInv, ShiftTypeOK, Sound, Stored
<1> QED
  BY <1>1, <1>2 DEF ShiftInv, CallTypeOK, ShiftTypeOK

\* A step of one worker keeps the invariant when it keeps the table sound and
\* when what the worker goes on with may be saved.
LEMMA RequestMoves ==
    ASSUME ShiftInv, NEW w \in Worker, NEW call \in Calls,
           req' = [req EXCEPT ![w] = call], CallInv(call)',
           TableInv', DOMAIN shifts \subseteq DOMAIN shifts',
           clock' \in Nat, clock <= clock',
           UNCHANGED sweep, overlapped' \in BOOLEAN
    PROVE  ShiftInv'
<1>1. req \in [Worker -> Calls] /\ sweep \in Sweeps
  BY DEF ShiftInv, CallTypeOK, Calls, Sweeps
<1>2. /\ req' \in [Worker -> Calls]
      /\ req'[w] = call
      /\ \A v \in Worker : v # w => req'[v] = req[v]
  BY <1>1
<1>3. CallTypeOK'
  BY <1>1, <1>2 DEF CallTypeOK, TableInv, Calls, Sweeps,
     Idle, Request, ShiftRecord, SweepState
<1>4. SweepInv'
  BY CarriedStays
<1>5. ASSUME NEW v \in Worker
      PROVE  CallInv(req[v])'
  <2>1. CASE v = w
    BY <1>2, <2>1 DEF CallInv
  <2>2. CASE v # w
    <3>1. PICK other : other = req[v]
      OBVIOUS
    <3>2. other \in Calls /\ CallInv(other) /\ req'[v] = other
      BY <1>1, <1>2, <2>2, <3>1 DEF ShiftInv
    <3>3. CallInv(other)'
      BY <3>2, CarriedStays
    <3> QED
      BY <3>2, <3>3 DEF CallInv
  <2> QED
    BY <2>1, <2>2
<1> QED
  BY <1>3, <1>4, <1>5 DEF ShiftInv

\* A call that begins.
LEMMA BeginType ==
    ASSUME Begin
    PROVE  overlapped' \in BOOLEAN
BY DEF Begin

\* A generation that begins.
LEMMA GenerateKeepsInv ==
    ASSUME ShiftInv, NEW w \in Worker, NEW station \in Station,
           NEW batch \in SUBSET ShiftID, GenerateShifts(w, station, batch)
    PROVE  ShiftInv'
<1>1. PICK call : call = [pc |-> "generate", todo |-> batch, now |-> clock]
  OBVIOUS
<1>2. call \in Calls
  BY <1>1 DEF Calls, Request, GenerateShifts, ShiftInv, CallTypeOK, ShiftTypeOK
<1>3. CallInv(call)'
  BY <1>1 DEF CallInv
<1> QED
  BY <1>1, <1>2, <1>3, BeginType, TableStays, RequestMoves DEF GenerateShifts

\* A draft that is saved.
LEMMA DraftKeepsInv ==
    ASSUME ShiftInv, NEW w \in Worker, SaveDraft(w)
    PROVE  ShiftInv'
<1>1. /\ req[w].pc = "generate"
      /\ req[w] \in Calls
      /\ UNCHANGED <<clock, sweep, overlapped>>
  BY DEF SaveDraft, ShiftInv, CallTypeOK, Calls
<1>2. PICK s \in req[w].todo :
          /\ SaveShift(s, [status |-> "draft", signed |-> FALSE])
          /\ req' = [req EXCEPT ![w] = IF req[w].todo \ {s} = {} THEN Idle
                                       ELSE [@ EXCEPT !.todo = req[w].todo \ {s}]]
  BY DEF SaveDraft
<1>3. PICK record : record = [status |-> "draft", signed |-> FALSE]
  OBVIOUS
<1>4. s \in ShiftID /\ record \in ShiftRecord /\ Sound(s, record)
  BY <1>1, <1>3, CallShape DEF ShiftRecord, ShiftStatus, Sound
<1>5. TableInv' /\ DOMAIN shifts \subseteq DOMAIN shifts'
  BY <1>1, <1>2, <1>3, <1>4, SaveKeepsTable DEF ShiftInv
<1>6. PICK call : call = IF req[w].todo \ {s} = {} THEN Idle
                         ELSE [req[w] EXCEPT !.todo = req[w].todo \ {s}]
  OBVIOUS
<1>7. call \in Calls /\ call.pc # "save"
  BY <1>1, <1>6, CallShape DEF Calls, Request, Idle
<1>8. req' = [req EXCEPT ![w] = call]
  BY <1>2, <1>6
<1>9. CallInv(call)' /\ overlapped' \in BOOLEAN /\ clock' \in Nat /\ clock <= clock'
  BY <1>1, <1>7 DEF CallInv, ShiftInv, CallTypeOK, ShiftTypeOK
<1> QED
  BY <1>1, <1>5, <1>7, <1>8, <1>9, RequestMoves

\* A generation that is aborted.
LEMMA AbortKeepsInv ==
    ASSUME ShiftInv, NEW w \in Worker, AbortGeneration(w)
    PROVE  ShiftInv'
<1>1. Idle \in Calls /\ Idle.pc # "save"
  BY DEF Calls, Idle
<1>2. CallInv(Idle)' /\ overlapped' \in BOOLEAN
  BY <1>1 DEF CallInv, Idle, AbortGeneration, ShiftInv, CallTypeOK
<1> QED
  BY <1>1, <1>2, TableStays, RequestMoves DEF AbortGeneration

\* An update that reads its shift.
LEMMA UpdateKeepsInv ==
    ASSUME ShiftInv, NEW w \in Worker, NEW s \in ShiftID, UpdateShift(w, s)
    PROVE  ShiftInv'
<1>1. PICK target \in {"submitted", "approved", "completed", "cancelled"} :
          ReadShift(w, s, target)
  BY DEF UpdateShift
<1>2. /\ s \in DOMAIN shifts
      /\ ShiftCanTransition(shifts[s], target)
      /\ UNCHANGED <<shiftVars, signed, sweep>>
      /\ target \in ShiftStatus
  BY <1>1 DEF ReadShift, ShiftStatus
<1>3. PICK record : record = Stored(s)
  OBVIOUS
<1>4. record \in ShiftRecord /\ record.status = shifts[s] /\ Sound(s, record)
  BY <1>2, <1>3, StoredType DEF ShiftInv, TableInv
<1>5. PICK call : call = [pc |-> "save", id |-> s, record |-> record,
                          target |-> target]
  OBVIOUS
<1>6. call \in Calls
  BY <1>2, <1>4, <1>5 DEF Calls, Request
<1>7. CallInv(call)
  <2>1. Sound(s, Moved(record, target))
    BY <1>2, <1>4, EdgeKeepsSound
  <2> QED
    BY <1>2, <1>4, <1>5, <2>1 DEF CallInv
<1>8. CallInv(call)'
  BY <1>2, <1>6, <1>7, TableStays, CarriedStays
<1>9. req' = [req EXCEPT ![w] = call] /\ overlapped' \in BOOLEAN
  BY <1>1, <1>3, <1>5, BeginType DEF ReadShift
<1> QED
  BY <1>2, <1>6, <1>8, <1>9, TableStays, RequestMoves

\* An update that saves.
LEMMA SaveUpdateKeepsInv ==
    ASSUME ShiftInv, NEW w \in Worker, SaveUpdate(w)
    PROVE  ShiftInv'
<1>1. /\ req[w].pc = "save"
      /\ req[w] \in Calls
      /\ CallInv(req[w])
      /\ UNCHANGED <<clock, sweep, overlapped>>
  BY DEF SaveUpdate, ShiftInv, CallTypeOK, Calls
<1>2. PICK id, record : /\ id = req[w].id
                        /\ record = Moved(req[w].record, req[w].target)
  OBVIOUS
<1>3. id \in ShiftID /\ record \in ShiftRecord /\ Sound(id, record)
  BY <1>1, <1>2, CallShape, MovedType DEF CallInv
<1>4. SaveShift(id, record)
  BY <1>2 DEF SaveUpdate
<1>5. TableInv' /\ DOMAIN shifts \subseteq DOMAIN shifts'
  BY <1>1, <1>3, <1>4, SaveKeepsTable DEF ShiftInv
<1>6. Idle \in Calls /\ CallInv(Idle)'
  BY DEF Calls, Idle, CallInv
<1>7. overlapped' \in BOOLEAN /\ clock' \in Nat /\ clock <= clock'
  BY <1>1 DEF ShiftInv, CallTypeOK, ShiftTypeOK
<1> QED
  BY <1>1, <1>5, <1>6, <1>7, RequestMoves DEF SaveUpdate

\* A step of the sweep keeps the invariant when it keeps the table sound and when
\* what the sweep goes on with may be saved.
LEMMA SweepMoves ==
    ASSUME ShiftInv, TableInv', DOMAIN shifts \subseteq DOMAIN shifts',
           clock' \in Nat, clock <= clock', UNCHANGED req,
           overlapped' \in BOOLEAN, sweep' \in Sweeps, SweepInv'
    PROVE  ShiftInv'
<1>1. req \in [Worker -> Calls]
  BY DEF ShiftInv, CallTypeOK, Calls
<1>2. CallTypeOK'
  BY DEF ShiftInv, CallTypeOK, TableInv, Calls, Sweeps,
     Idle, Request, ShiftRecord, SweepState
<1>3. ASSUME NEW w \in Worker
      PROVE  CallInv(req[w])'
  <2>1. PICK call : call = req[w]
    OBVIOUS
  <2>2. call \in Calls /\ CallInv(call)
    BY <1>1, <2>1 DEF ShiftInv
  <2>3. CallInv(call)'
    BY <2>2, CarriedStays
  <2> QED
    BY <2>1, <2>3 DEF CallInv
<1> QED
  BY <1>2, <1>3 DEF ShiftInv

\* The list of the due shifts.
LEMMA ListKeepsInv == ShiftInv /\ ListDueShifts => ShiftInv'
<1> SUFFICES ASSUME ShiftInv, ListDueShifts PROVE ShiftInv'
  OBVIOUS
<1>1. /\ sweep' = [pc |-> "next", todo |-> DueShifts]
      /\ UNCHANGED <<shiftVars, signed, req>>
      /\ overlapped' \in BOOLEAN
  BY BeginType DEF ListDueShifts
<1>2. \A s \in DueShifts : /\ s \in ShiftID
                           /\ s \in DOMAIN shifts
                           /\ ShiftSpec[s].departure <= clock
  BY DEF DueShifts, ShiftInv, CallTypeOK, ShiftTypeOK
<1>3. sweep' \in Sweeps
  BY <1>1, <1>2 DEF Sweeps, SweepState
<1>4. SweepInv'
  BY <1>1, <1>2 DEF SweepInv, shiftVars
<1> QED
  BY <1>1, <1>3, <1>4, TableStays, SweepMoves

\* The next shift of the sweep is read, or skipped.
LEMMA ReadDueKeepsInv == ShiftInv /\ ReadDueShift => ShiftInv'
<1> SUFFICES ASSUME ShiftInv, ReadDueShift PROVE ShiftInv'
  OBVIOUS
<1>1. /\ sweep.pc = "next"
      /\ sweep # Idle
      /\ sweep \in Sweeps
      /\ sweep.todo \in SUBSET ShiftID
      /\ UNCHANGED <<shiftVars, signed, req>>
      /\ overlapped' \in BOOLEAN
  BY SweepShape DEF ReadDueShift, ShiftInv, CallTypeOK, Sweeps, Idle
<1>2. \A s \in sweep.todo : /\ s \in DOMAIN shifts
                            /\ ShiftSpec[s].departure <= clock
  BY <1>1 DEF ShiftInv, SweepInv
<1>3. CASE sweep' = Idle
  <2>1. sweep' \in Sweeps /\ SweepInv'
    BY <1>3 DEF Sweeps, SweepInv, Idle
  <2> QED
    BY <1>1, <2>1, TableStays, SweepMoves
<1>4. CASE sweep' # Idle
  <2>1. PICK s \in sweep.todo :
          sweep' = IF ShiftCanTransition(shifts[s], "active")
                   THEN [pc |-> "save", todo |-> sweep.todo \ {s}, id |-> s,
                         record |-> Stored(s)]
                   ELSE [pc |-> "next", todo |-> sweep.todo \ {s}]
    BY <1>4 DEF ReadDueShift
  <2>2. PICK record : record = Stored(s)
    OBVIOUS
  <2>3. /\ record \in ShiftRecord
        /\ record.status = shifts[s]
        /\ Sound(s, record)
        /\ s \in ShiftID
    BY <1>2, <2>1, <2>2, StoredType DEF ShiftInv, TableInv
  <2>4. shifts' = shifts /\ clock' = clock
    BY <1>1 DEF shiftVars
  <2>5. CASE sweep' = [pc |-> "next", todo |-> sweep.todo \ {s}]
    <3>1. sweep' \in Sweeps /\ SweepInv'
      BY <1>1, <1>2, <2>4, <2>5 DEF Sweeps, SweepState, SweepInv
    <3> QED
      BY <1>1, <3>1, TableStays, SweepMoves
  <2>6. CASE /\ ShiftCanTransition(shifts[s], "active")
             /\ sweep' = [pc |-> "save", todo |-> sweep.todo \ {s}, id |-> s,
                          record |-> record]
    <3>1. Sound(s, Moved(record, "active"))
      BY <1>2, <2>3, <2>6, EdgeKeepsSound DEF ShiftStatus
    <3>2. sweep' \in Sweeps
      BY <1>1, <2>3, <2>6 DEF Sweeps, SweepState
    <3>3. /\ sweep'.pc = "save"
          /\ sweep'.todo = sweep.todo \ {s}
          /\ sweep'.id = s
          /\ sweep'.record = record
      BY <2>6
    <3>4. Sound(sweep.id, Moved(sweep.record, "active"))'
      BY <2>4, <3>1, <3>3 DEF Sound, Moved
    <3>5. SweepInv'
      BY <1>2, <2>1, <2>3, <2>4, <2>6, <3>3, <3>4 DEF SweepInv
    <3> QED
      BY <1>1, <3>2, <3>5, TableStays, SweepMoves
  <2> QED
    BY <2>1, <2>2, <2>5, <2>6
<1> QED
  BY <1>3, <1>4

\* A shift that is activated.
LEMMA ActivateKeepsInv == ShiftInv /\ ActivateShift => ShiftInv'
<1> SUFFICES ASSUME ShiftInv, ActivateShift PROVE ShiftInv'
  OBVIOUS
<1>1. /\ sweep.pc = "save"
      /\ sweep # Idle
      /\ sweep \in Sweeps
      /\ sweep' = [pc |-> "next", todo |-> sweep.todo]
      /\ UNCHANGED <<clock, req, overlapped>>
  BY DEF ActivateShift, ShiftInv, CallTypeOK, Sweeps, Idle
<1>2. PICK id, record : id = sweep.id /\ record = Moved(sweep.record, "active")
  OBVIOUS
<1>3. id \in ShiftID /\ record \in ShiftRecord /\ Sound(id, record)
  BY <1>1, <1>2, SweepShape, MovedType DEF ShiftInv, SweepInv, ShiftStatus
<1>4. SaveShift(id, record)
  BY <1>2 DEF ActivateShift
<1>5. TableInv' /\ DOMAIN shifts \subseteq DOMAIN shifts'
  BY <1>1, <1>3, <1>4, SaveKeepsTable DEF ShiftInv
<1>6. sweep' \in Sweeps
  BY <1>1, SweepShape DEF Sweeps, SweepState
<1>7. SweepInv'
  BY <1>1, <1>5 DEF ShiftInv, SweepInv
<1>8. overlapped' \in BOOLEAN /\ clock' \in Nat /\ clock <= clock'
  BY <1>1 DEF ShiftInv, CallTypeOK, ShiftTypeOK
<1> QED
  BY <1>1, <1>5, <1>6, <1>7, <1>8, SweepMoves

\* Time passes.
LEMMA TimeKeepsInv == ShiftInv /\ Tick /\ UNCHANGED callVars => ShiftInv'
<1> SUFFICES ASSUME ShiftInv, Tick, UNCHANGED callVars PROVE ShiftInv'
  OBVIOUS
<1>1. /\ clock \in Nat
      /\ clock' = clock + 1
      /\ shifts' = shifts
      /\ UNCHANGED <<signed, req, sweep, overlapped>>
  BY DEF Tick, callVars, ShiftInv, CallTypeOK, ShiftTypeOK
<1>2. clock' \in Nat /\ clock <= clock'
  BY <1>1
<1>3. ASSUME NEW s \in DOMAIN shifts
      PROVE  Sound(s, Stored(s))'
  <2>1. s \in ShiftID /\ Sound(s, Stored(s))
    BY DEF ShiftInv, TableInv, ShiftTypeOK
  <2>2. ShiftSpec[s].departure <= clock => ShiftSpec[s].departure <= clock'
    BY <1>1, <2>1, DomainAssumption
  <2>3. Stored(s)' = Stored(s)
    BY <1>1 DEF Stored
  <2> QED
    BY <2>1, <2>2, <2>3, Zenon DEF Sound
<1>4. TableInv'
  BY <1>1, <1>2, <1>3 DEF ShiftInv, TableInv, ShiftTypeOK
<1>5. sweep' \in Sweeps /\ overlapped' \in BOOLEAN
  BY <1>1 DEF ShiftInv, CallTypeOK, Sweeps
<1>6. SweepInv'
  BY <1>1, <1>2, CarriedStays
<1> QED
  BY <1>1, <1>2, <1>4, <1>5, <1>6, SweepMoves

\* A step that touches neither the calls nor what they work on.
LEMMA ServiceStays == ShiftInv /\ UNCHANGED service => ShiftInv'
<1> SUFFICES ASSUME ShiftInv, UNCHANGED service PROVE ShiftInv'
  OBVIOUS
<1>1. UNCHANGED <<shiftVars, signed, req, sweep, overlapped>>
  BY DEF service, callVars
<1>2. sweep' \in Sweeps /\ overlapped' \in BOOLEAN
  BY <1>1 DEF ShiftInv, CallTypeOK, Sweeps
<1>3. SweepInv'
  BY <1>1, TableStays, CarriedStays
<1> QED
  BY <1>1, <1>2, <1>3, TableStays, SweepMoves

-----------------------------------------------------------------------------
(***************************************************************************)
(* The process.                                                            *)
(***************************************************************************)

\* What a step of the process does to the calls on shifts.
ServiceStep ==
    \/ UNCHANGED service
    \/ \E w \in Worker :
        /\ Start(w) \/ Continue(w)
        /\ UNCHANGED sweep
    \/ ListDueShifts \/ SweepStep
    \/ Tick /\ UNCHANGED callVars

\* Every step of the process is one of the calls, of the sweep or of the clock, or
\* leaves the shifts alone.
LEMMA EveryStepServes == [Next]_vars => ServiceStep
<1> SUFFICES ASSUME [Next]_vars PROVE ServiceStep
  OBVIOUS
<1>1. CASE MainStep
  BY <1>1 DEF ServiceStep, MainStep, SpawnSignalHandler, StartScheduler, LaunchLoop,
     AssignServer, ListenAndServe, MainReturns
<1>2. CASE SignalStep
  BY <1>2 DEF ServiceStep, SignalStep, Notify, ReceiveSignal, StopScheduler,
     JoinLoop, CloseListener, Drain
<1>3. CASE LoopStep
  BY <1>3 DEF ServiceStep, LoopStep, LoopEnds, LoopExit, LoopTick, LoopSweep, service
<1>4. ASSUME NEW w \in Worker, Accept(w) \/ Serve(w)
      PROVE  ServiceStep
  <2>1. CASE Accept(w)
    BY <2>1 DEF Accept, Start, GenerateShifts, UpdateShift, ReadShift, ServiceStep
  <2>2. CASE Serve(w)
    BY <2>2 DEF Serve, Continue, SaveDraft, AbortGeneration, SaveUpdate, ServiceStep
  <2> QED
    BY <1>4, <2>1, <2>2
<1>5. CASE Signal
  BY <1>5 DEF Signal, ServiceStep
<1>6. CASE Time
  BY <1>6 DEF Time, ServiceStep
<1>7. CASE UNCHANGED vars
  BY <1>7 DEF vars, service, ServiceStep
<1> QED
  BY <1>1, <1>2, <1>3, <1>4, <1>5, <1>6, <1>7 DEF Next

\* Every step keeps the calls and the table in order.
LEMMA StepKeepsShiftInv == ShiftInv /\ ServiceStep => ShiftInv'
<1> SUFFICES ASSUME ShiftInv, ServiceStep PROVE ShiftInv'
  OBVIOUS
<1>1. ASSUME NEW w \in Worker, Start(w)
      PROVE  ShiftInv'
  BY <1>1, GenerateKeepsInv, UpdateKeepsInv DEF Start
<1>2. ASSUME NEW w \in Worker, Continue(w)
      PROVE  ShiftInv'
  BY <1>2, DraftKeepsInv, AbortKeepsInv, SaveUpdateKeepsInv DEF Continue
<1> QED
  BY <1>1, <1>2, ListKeepsInv, ReadDueKeepsInv, ActivateKeepsInv, TimeKeepsInv,
     ServiceStays DEF ServiceStep, SweepStep

\* A step that moves neither main nor the loop nor the goroutine of the signal.
LEMMA ProcessStays ==
    ASSUME ProcessTypes, ProcessInv, UNCHANGED <<schedVars, serverVars>>,
           loop # "running" => sweep' = Idle
    PROVE  ProcessTypes' /\ ProcessInv'
BY ZenonT(30) DEF ProcessTypes, ProcessInv, SchedTypeOK, StopReturned, schedVars,
       serverVars

\* The steps of main.
LEMMA MainKeepsProcess ==
    ASSUME ProcessTypes, ProcessInv, MainStep
    PROVE  ProcessTypes' /\ ProcessInv'
<1>1. UNCHANGED sweep
  BY DEF MainStep, SpawnSignalHandler, StartScheduler, LaunchLoop, AssignServer,
     ListenAndServe, MainReturns, service, callVars
<1>2. CASE SpawnSignalHandler
  BY <1>1, <1>2, ZenonT(30) DEF SpawnSignalHandler, ProcessTypes, ProcessInv, SchedTypeOK,
     StopReturned, schedVars
<1>3. CASE StartScheduler
  BY <1>1, <1>3, ZenonT(30) DEF StartScheduler, Started, Arm, ProcessTypes, ProcessInv,
     SchedTypeOK, StopReturned, schedVars
<1>4. CASE LaunchLoop
  BY <1>1, <1>4, ZenonT(30) DEF LaunchLoop, Launch, ProcessTypes, ProcessInv, SchedTypeOK,
     StopReturned, schedVars
<1>5. CASE AssignServer
  BY <1>1, <1>5, ZenonT(30) DEF AssignServer, ProcessTypes, ProcessInv, SchedTypeOK,
     StopReturned, schedVars
<1>6. CASE ListenAndServe
  BY <1>1, <1>6, ZenonT(30) DEF ListenAndServe, ProcessTypes, ProcessInv, SchedTypeOK,
     StopReturned, schedVars
<1>7. CASE MainReturns
  BY <1>1, <1>7, ZenonT(30) DEF MainReturns, ProcessTypes, ProcessInv, SchedTypeOK,
     StopReturned, schedVars
<1> QED
  BY <1>2, <1>3, <1>4, <1>5, <1>6, <1>7 DEF MainStep

\* The steps of the goroutine of the signal.
LEMMA SignalKeepsProcess ==
    ASSUME ProcessTypes, ProcessInv, SignalStep
    PROVE  ProcessTypes' /\ ProcessInv'
<1>1. UNCHANGED sweep
  BY DEF SignalStep, Notify, ReceiveSignal, StopScheduler, JoinLoop, CloseListener,
     Drain, service, callVars
<1>2. CASE Notify \/ ReceiveSignal
  BY <1>1, <1>2, ZenonT(30) DEF Notify, ReceiveSignal, ProcessTypes, ProcessInv, SchedTypeOK,
     StopReturned, schedVars
<1>3. CASE StopScheduler
  BY <1>1, <1>3, ZenonT(30) DEF StopScheduler, Started, Cancel, ProcessTypes, ProcessInv,
     SchedTypeOK, StopReturned, schedVars
<1>4. CASE JoinLoop
  BY <1>1, <1>4, ZenonT(30) DEF JoinLoop, Joined, ProcessTypes, ProcessInv, SchedTypeOK,
     StopReturned, schedVars
<1>5. CASE CloseListener
  <2>1. PICK seen \in BOOLEAN : /\ inShutdown' = seen
                                /\ sig' = IF seen THEN "drain" ELSE "done"
    BY <1>5 DEF CloseListener, SeenServer, ProcessTypes
  <2> QED
    BY <1>1, <1>5, <2>1 DEF CloseListener, ProcessTypes, ProcessInv, SchedTypeOK,
       StopReturned, schedVars
<1>6. CASE Drain
  BY <1>1, <1>6, ZenonT(30) DEF Drain, ProcessTypes, ProcessInv, SchedTypeOK, StopReturned,
     schedVars
<1> QED
  BY <1>2, <1>3, <1>4, <1>5, <1>6 DEF SignalStep

\* Every step of the process keeps the account of the loop.
LEMMA StepKeepsProcess ==
    ASSUME ShiftInv, ProcessTypes, ProcessInv, [Next]_vars
    PROVE  ProcessTypes' /\ ProcessInv'
<1>1. CASE LoopEnds
  BY <1>1 DEF LoopEnds, LoopExit, Selecting, callVars, serverVars, ProcessTypes,
     ProcessInv, SchedTypeOK, StopReturned
<1>2. CASE Running /\ LoopTick /\ UNCHANGED serverVars
  BY <1>2, ProcessStays DEF LoopTick, Selecting
<1>3. CASE Running /\ LoopSweep /\ UNCHANGED serverVars
  <2>1. sweep # Idle
    BY <1>3 DEF LoopSweep, SweepStep, ReadDueShift, ActivateShift, Idle
  <2> QED
    BY <1>3, <2>1, ProcessStays DEF LoopSweep, ProcessInv
<1>4. ASSUME NEW w \in Worker, Accept(w) \/ Serve(w)
      PROVE  ProcessTypes' /\ ProcessInv'
  <2>1. UNCHANGED sweep
    BY <1>4 DEF Accept, Start, GenerateShifts, UpdateShift, ReadShift, Serve,
       Continue, SaveDraft, AbortGeneration, SaveUpdate
  <2> QED
    BY <1>4, <2>1, ProcessStays DEF Accept, Serve, ProcessInv
<1>5. CASE Signal
  BY <1>5 DEF Signal, service, callVars, schedVars, ProcessTypes, ProcessInv,
     SchedTypeOK, StopReturned
<1>6. CASE Time \/ UNCHANGED vars
  BY <1>6, ProcessStays DEF Time, vars, callVars, ProcessInv
<1> QED
  BY <1>1, <1>2, <1>3, <1>4, <1>5, <1>6, MainKeepsProcess, SignalKeepsProcess
     DEF Next, LoopStep

\* The process starts in order.
LEMMA InitEstablishesIInv == Init => IInv
<1> SUFFICES ASSUME Init PROVE IInv
  OBVIOUS
<1>1. ShiftInv
  BY DEF Init, CallInit, ShiftInit, ShiftInv, CallTypeOK, TableInv, ShiftTypeOK,
     CallInv, SweepInv, Idle
<1>2. ProcessTypes /\ ProcessInv
  BY DEF Init, SchedInit, CallInit, ProcessTypes, SchedTypeOK, ProcessInv,
     StopReturned
<1> QED
  BY <1>1, <1>2 DEF IInv

\* Every record that is stored or will be written back may be stored, and the
\* loop stands as main and the goroutine of the signal say.
THEOREM Invariance == Spec => []IInv
<1>1. IInv /\ [Next]_vars => IInv'
  BY EveryStepServes, StepKeepsShiftInv, StepKeepsProcess DEF IInv
<1> QED
  BY <1>1, InitEstablishesIInv, PTL DEF Spec

\* Every reachable state is well typed.
THEOREM TypeCorrectness == Spec => []TypeOK
<1>1. IInv => TypeOK
  BY DEF IInv, ShiftInv, ProcessTypes, TypeOK
<1> QED
  BY <1>1, Invariance, PTL

\* No shift starts ahead of its departure, although the sweep and the requests
\* write back records they read before.
THEOREM ShiftsStartInTime == Spec => []StartsInTime
<1>1. IInv => StartsInTime
  BY StoredType DEF IInv, ShiftInv, TableInv, Sound, StartsInTime
<1> QED
  BY <1>1, Invariance, PTL

\* A shift that is approved, active or completed is stored with the name of the
\* chief who approved it.
THEOREM ApprovalsAreSigned == Spec => []ApprovalIsSigned
<1>1. IInv => ApprovalIsSigned
  BY StoredType DEF IInv, ShiftInv, TableInv, Sound, ApprovalIsSigned
<1> QED
  BY <1>1, Invariance, PTL

\* Once Stop has returned no sweep runs and none begins, unless Stop came before
\* the loop was counted.
THEOREM StopEndsSweeps == Spec => []NoSweepAfterStop
<1>1. IInv => NoSweepAfterStop
  BY DEF IInv, ProcessInv, NoSweepAfterStop
<1> QED
  BY <1>1, Invariance, PTL

-----------------------------------------------------------------------------
(***************************************************************************)
(* Calls that have not overlapped.                                         *)
(***************************************************************************)

\* What a call carries is what is stored: an update its record, a generation
\* identifiers that are still free.
Current(call) ==
    /\ call.pc = "save" => call.record = Stored(call.id)
    /\ call.pc = "generate" => call.todo \cap DOMAIN shifts = {}

\* As long as no two calls have overlapped one call is in flight, and what it
\* carries is current.
Serial ==
    ~overlapped =>
        /\ \A v, w \in InFlight : v = w
        /\ sweep # Idle => InFlight = {}
        /\ \A w \in Worker : Current(req[w])
        /\ sweep.pc = "save" => sweep.record = Stored(sweep.id)

\* Nothing but the call of w is in flight.
Alone(w) == sweep = Idle /\ InFlight \subseteq {w}

\* The status of every shift stays or moves along an edge of the workflow.
Follows ==
    \A s \in DOMAIN shifts :
        shifts'[s] = shifts[s] \/ ShiftCanTransition(shifts[s], shifts'[s])

\* A call that begins without overlapping begins alone.
LEMMA BeginsAlone ==
    ASSUME Begin, ~overlapped'
    PROVE  ~overlapped /\ InFlight = {} /\ sweep = Idle
BY Zenon DEF Begin

\* A call that goes on without having overlapped is alone.
LEMMA GoesOnAlone ==
    ASSUME Serial, ~overlapped, NEW w \in Worker, req[w] # Idle
    PROVE  Alone(w) /\ Current(req[w])
BY DEF Serial, Alone, InFlight

\* A step of one worker that is alone leaves one call in flight.
LEMMA SerialRequest ==
    ASSUME ShiftInv, NEW w \in Worker, NEW call \in Calls,
           req' = [req EXCEPT ![w] = call], UNCHANGED sweep,
           ~overlapped' => Alone(w) /\ Current(call)'
    PROVE  Serial'
<1> SUFFICES ASSUME ~overlapped'
             PROVE  /\ \A v, u \in InFlight' : v = u
                    /\ sweep' = Idle
                    /\ \A v \in Worker : Current(req[v])'
  BY DEF Serial, Idle
<1>1. /\ req'[w] = call
      /\ \A v \in Worker : v # w => req'[v] = req[v] /\ req[v] = Idle
  BY DEF ShiftInv, CallTypeOK, Alone, InFlight
<1>2. \A v \in InFlight' : v = w
  BY <1>1 DEF InFlight
<1>3. ASSUME NEW v \in Worker
      PROVE  Current(req[v])'
  <2>1. CASE v = w
    BY <1>1, <2>1 DEF Current
  <2>2. CASE v # w
    BY <1>1, <2>2 DEF Current, Idle
  <2> QED
    BY <2>1, <2>2
<1> QED
  BY <1>2, <1>3 DEF Alone

\* A step of the sweep that is alone leaves it alone.
LEMMA SerialSweep ==
    ASSUME ShiftInv, UNCHANGED req, ~overlapped' => InFlight = {},
           ~overlapped' /\ sweep'.pc = "save"
                => (sweep.record = Stored(sweep.id))'
    PROVE  Serial'
<1> SUFFICES ASSUME ~overlapped' PROVE Serial'
  BY DEF Serial
<1>1. InFlight' = {} /\ InFlight = {}
  BY DEF InFlight
<1>2. \A v \in Worker : req'[v].pc = "idle"
  BY <1>1 DEF InFlight, Idle
<1> QED
  BY <1>1, <1>2 DEF Serial, Current

\* A save along an edge from what is stored, or of a new shift, follows the
\* workflow.
LEMMA SaveFollows ==
    ASSUME ShiftInv, NEW id \in ShiftID, NEW record \in ShiftRecord,
           Sound(id, record), SaveShift(id, record), UNCHANGED clock,
           id \in DOMAIN shifts => ShiftCanTransition(shifts[id], record.status)
    PROVE  Follows
<1>1. /\ shifts'[id] = record.status
      /\ \A s \in DOMAIN shifts : s # id => shifts'[s] = shifts[s]
  BY SaveKeepsTable DEF ShiftInv
<1> QED
  BY <1>1 DEF Follows

\* A call that begins.
LEMMA StartIsSerial ==
    ASSUME ShiftInv, Serial, NEW w \in Worker, Start(w)
    PROVE  Serial' /\ Follows
<1>1. UNCHANGED <<shifts, signed, sweep>> /\ Begin
  BY DEF Start, GenerateShifts, UpdateShift, ReadShift, shiftVars
<1>2. Follows
  BY <1>1 DEF Follows
<1>3. ~overlapped' => Alone(w)
  BY <1>1, BeginsAlone DEF Alone
<1>4. ASSUME NEW station \in Station, NEW batch \in SUBSET ShiftID,
             GenerateShifts(w, station, batch)
      PROVE  Serial'
  <2>1. PICK call : call = [pc |-> "generate", todo |-> batch, now |-> clock]
    OBVIOUS
  <2>2. call \in Calls
    BY <1>4, <2>1 DEF Calls, Request, GenerateShifts, ShiftInv, CallTypeOK, ShiftTypeOK
  <2>3. Current(call)'
    BY <1>1, <1>4, <2>1 DEF Current, GenerateShifts
  <2> QED
    BY <1>1, <1>3, <1>4, <2>1, <2>2, <2>3, SerialRequest DEF GenerateShifts
<1>5. ASSUME NEW s \in ShiftID, UpdateShift(w, s)
      PROVE  Serial'
  <2>1. PICK target \in {"submitted", "approved", "completed", "cancelled"} :
            ReadShift(w, s, target)
    BY <1>5 DEF UpdateShift
  <2>2. PICK call : call = [pc |-> "save", id |-> s, record |-> Stored(s),
                            target |-> target]
    OBVIOUS
  <2>3. s \in DOMAIN shifts /\ target \in ShiftStatus
    BY <2>1 DEF ReadShift, ShiftStatus
  <2>4. call \in Calls
    BY <2>2, <2>3, StoredType DEF Calls, Request, ShiftInv
  <2>5. Current(call)'
    BY <1>1, <2>2 DEF Current, Stored
  <2> QED
    BY <1>1, <1>3, <2>1, <2>2, <2>4, <2>5, SerialRequest DEF ReadShift
<1> QED
  BY <1>2, <1>4, <1>5 DEF Start

\* A call that goes on.
LEMMA ContinueIsSerial ==
    ASSUME ShiftInv, Serial, NEW w \in Worker, Continue(w)
    PROVE  Serial' /\ (~overlapped' => Follows)
<1>1. /\ req[w] # Idle
      /\ req[w] \in Calls
      /\ CallInv(req[w])
      /\ UNCHANGED <<clock, sweep, overlapped>>
  BY DEF Continue, SaveDraft, AbortGeneration, SaveUpdate, Idle, ShiftInv,
     CallTypeOK, Calls, shiftVars
<1>2. ~overlapped' => Alone(w) /\ Current(req[w])
  BY <1>1, GoesOnAlone
<1>3. Idle \in Calls /\ Current(Idle)'
  BY DEF Calls, Idle, Current
<1>4. CASE SaveDraft(w)
  <2>1. req[w].pc = "generate" /\ req[w].todo \in SUBSET ShiftID
    BY <1>1, <1>4, CallShape DEF SaveDraft
  <2>2. PICK s \in req[w].todo :
          /\ SaveShift(s, [status |-> "draft", signed |-> FALSE])
          /\ req' = [req EXCEPT ![w] = IF req[w].todo \ {s} = {} THEN Idle
                                       ELSE [@ EXCEPT !.todo = req[w].todo \ {s}]]
    BY <1>4 DEF SaveDraft
  <2>3. PICK record : record = [status |-> "draft", signed |-> FALSE]
    OBVIOUS
  <2>4. s \in ShiftID /\ record \in ShiftRecord /\ Sound(s, record)
    BY <2>1, <2>3 DEF ShiftRecord, ShiftStatus, Sound
  <2>5. DOMAIN shifts' = DOMAIN shifts \cup {s}
    BY <1>1, <2>2, <2>3, <2>4, SaveKeepsTable DEF ShiftInv
  <2>6. PICK call : call = IF req[w].todo \ {s} = {} THEN Idle
                           ELSE [req[w] EXCEPT !.todo = req[w].todo \ {s}]
    OBVIOUS
  <2>7. /\ call \in Calls
        /\ call.pc # "save"
        /\ call.pc = "generate" => call.todo = req[w].todo \ {s}
    BY <1>1, <2>1, <2>6, CallShape DEF Calls, Request, Idle
  <2>8. ~overlapped' => Current(call)'
    BY <1>2, <2>1, <2>5, <2>7 DEF Current
  <2>9. req' = [req EXCEPT ![w] = call]
    BY <2>2, <2>6
  <2>10. ~overlapped' => Follows
    BY <1>1, <1>2, <2>1, <2>2, <2>3, <2>4, SaveFollows DEF Current
  <2> QED
    BY <1>1, <1>2, <2>7, <2>8, <2>9, <2>10, SerialRequest
<1>5. CASE AbortGeneration(w)
  <2>1. Follows
    BY <1>5 DEF AbortGeneration, shiftVars, Follows
  <2> QED
    BY <1>1, <1>2, <1>3, <1>5, <2>1, SerialRequest DEF AbortGeneration
<1>6. CASE SaveUpdate(w)
  <2>1. PICK id, record, target :
          /\ id = req[w].id
          /\ target = req[w].target
          /\ record = Moved(req[w].record, target)
    OBVIOUS
  <2>2. /\ id \in ShiftID
        /\ record \in ShiftRecord
        /\ record.status = target
        /\ Sound(id, record)
        /\ id \in DOMAIN shifts
        /\ ShiftCanTransition(req[w].record.status, target)
    BY <1>1, <1>6, <2>1, CallShape, MovedType DEF SaveUpdate, CallInv
  <2>3. ~overlapped' => req[w].record.status = shifts[id]
    BY <1>2, <1>6, <2>1 DEF SaveUpdate, Current, Stored
  <2>4. ~overlapped' => Follows
    BY <1>1, <1>6, <2>1, <2>2, <2>3, SaveFollows DEF SaveUpdate
  <2> QED
    BY <1>1, <1>2, <1>3, <1>6, <2>4, SerialRequest DEF SaveUpdate
<1> QED
  BY <1>4, <1>5, <1>6 DEF Continue

\* The sweep.
LEMMA SweepIsSerial ==
    ASSUME ShiftInv, Serial, ListDueShifts \/ SweepStep
    PROVE  Serial' /\ (~overlapped' => Follows)
<1>1. CASE ListDueShifts
  <2>1. Follows
    BY <1>1 DEF ListDueShifts, shiftVars, Follows
  <2>2. ~overlapped' => InFlight = {}
    BY <1>1, BeginsAlone DEF ListDueShifts
  <2>3. sweep'.pc # "save"
    BY <1>1 DEF ListDueShifts
  <2> QED
    BY <1>1, <2>1, <2>2, <2>3, SerialSweep DEF ListDueShifts
<1>2. CASE ReadDueShift
  <2>1. Follows
    BY <1>2 DEF ReadDueShift, shiftVars, Follows
  <2>2. ~overlapped' => InFlight = {}
    BY <1>2 DEF ReadDueShift, Serial, Idle
  <2>3. sweep'.pc = "save" => (sweep.record = Stored(sweep.id))'
    <3>1. shifts' = shifts /\ signed' = signed
      BY <1>2 DEF ReadDueShift, shiftVars
    <3>2. ASSUME sweep'.pc = "save"
          PROVE  sweep'.record = Stored(sweep'.id)
      BY <1>2, <3>2 DEF ReadDueShift, Idle
    <3> QED
      BY <3>1, <3>2 DEF Stored
  <2> QED
    BY <1>2, <2>1, <2>2, <2>3, SerialSweep DEF ReadDueShift
<1>3. CASE ActivateShift
  <2>1. /\ sweep.pc = "save"
        /\ sweep # Idle
        /\ sweep \in Sweeps
        /\ UNCHANGED <<clock, req, overlapped>>
    BY <1>3 DEF ActivateShift, Idle, ShiftInv, CallTypeOK, Sweeps
  <2>2. PICK id, record : id = sweep.id /\ record = Moved(sweep.record, "active")
    OBVIOUS
  <2>3. /\ id \in ShiftID
        /\ record \in ShiftRecord
        /\ record.status = "active"
        /\ Sound(id, record)
        /\ ShiftCanTransition(sweep.record.status, "active")
    BY <2>1, <2>2, SweepShape, MovedType DEF ShiftInv, SweepInv, ShiftStatus
  <2>4. ~overlapped' => InFlight = {} /\ sweep.record.status = shifts[id]
    BY <2>1, <2>2 DEF Serial, Stored
  <2>5. ~overlapped' => Follows
    BY <1>3, <2>1, <2>2, <2>3, <2>4, SaveFollows DEF ActivateShift
  <2>6. sweep'.pc # "save"
    BY <1>3 DEF ActivateShift
  <2> QED
    BY <2>1, <2>4, <2>5, <2>6, SerialSweep
<1> QED
  BY <1>1, <1>2, <1>3 DEF SweepStep

\* Every step of calls that have not overlapped follows the workflow.
LEMMA StepFollowsWorkflow ==
    ASSUME ShiftInv, Serial, ServiceStep
    PROVE  Serial' /\ (~overlapped' => Follows)
<1>1. CASE UNCHANGED service \/ (Tick /\ UNCHANGED callVars)
  <2>1. UNCHANGED <<shifts, signed, req, sweep, overlapped>>
    BY <1>1 DEF service, shiftVars, callVars, Tick
  <2> QED
    BY <2>1 DEF Serial, Follows, InFlight, Current, Stored
<1>2. CASE \E w \in Worker : Start(w) \/ Continue(w)
  BY <1>2, StartIsSerial, ContinueIsSerial
<1>3. CASE ListDueShifts \/ SweepStep
  BY <1>3, SweepIsSerial
<1> QED
  BY <1>1, <1>2, <1>3 DEF ServiceStep

\* As long as no two calls have overlapped, a status changes along the edges of
\* the workflow only.
THEOREM WorkflowIsFollowed == Spec => ShiftsFollowWorkflow
<1>1. Init => Serial
  BY DEF Init, CallInit, ShiftInit, Serial, InFlight, Current, Idle
<1>2. IInv /\ Serial /\ [Next]_vars => Serial' /\ (~overlapped' => Follows)
  BY EveryStepServes, StepFollowsWorkflow DEF IInv
<1>3. IInv /\ Serial /\ [Next]_vars
        => [~overlapped' =>
              \A s \in DOMAIN shifts :
                  shifts'[s] = shifts[s] \/ ShiftCanTransition(shifts[s], shifts'[s])
           ]_<<shifts, overlapped>>
  BY <1>2 DEF Follows
<1> QED
  BY <1>1, <1>2, <1>3, Invariance, PTL DEF Spec, ShiftsFollowWorkflow
=============================================================================
