---------------------------- MODULE PatrolProofs ----------------------------
(***************************************************************************)
(* Theorems of PatrolService, for every value of its constants: any number *)
(* of records, batches of any size, any number of workers.                 *)
(*                                                                         *)
(* The invariant follows each record of a batch through the request: it is *)
(* still to do, or it is stored.  What the device may forget was done.     *)
(***************************************************************************)
EXTENDS PatrolService, FunctionTheorems, FiniteSetTheorems, SequenceTheorems,
        TLAPS

IsToDo(r, todo) == \E i \in 1 .. Len(todo) : todo[i] = r

\* The records that carry a device time come in its order.
ByDeviceTime(todo) ==
    \A i, j \in 1 .. Len(todo) :
        /\ i < j
        /\ RecordSpec[todo[i]].at # NoTime
        /\ RecordSpec[todo[j]].at # NoTime
        => RecordSpec[todo[i]].at <= RecordSpec[todo[j]].at

TableTypes ==
    /\ DOMAIN checkIns \subseteq CheckInID
    /\ checkIns \in [DOMAIN checkIns -> CheckIn]
    /\ DOMAIN idemCheckIn \subseteq Key
    /\ idemCheckIn \in [DOMAIN idemCheckIn -> DOMAIN checkIns]

\* A key of the index leads to the check-in of its record, and no check-in is
\* missing from the index by its key.
TableInv ==
    /\ TableTypes
    /\ \A r \in Record : RecordSpec[r].key \in DOMAIN idemCheckIn => IsStored(r)
    /\ \A id \in DOMAIN checkIns : checkIns[id].key \in DOMAIN idemCheckIn

\* A request, or what a worker goes on with, accounts for its whole batch.
CallInv(call) ==
    /\ call.pc \in {"lookup", "save"} =>
          /\ \A r \in call.batch : IsToDo(r, call.todo) \/ IsStored(r)
          /\ ByDeviceTime(call.todo)
    /\ call.pc = "answer" /\ call.ok => \A r \in call.batch : IsStored(r)

\* The inductive invariant.
IInv ==
    /\ TypeOK
    /\ TableInv
    /\ \A w \in Worker : CallInv(req[w])
    /\ NothingForgotten

Calls == {Idle} \cup Request

-----------------------------------------------------------------------------
(***************************************************************************)
(* Sequences of records.                                                   *)
(***************************************************************************)

\* Every order a batch is replayed in is a sequence of its records, all of them,
\* by device time.
LEMMA OrdersAreSequences ==
    ASSUME NEW batch \in SUBSET Record, batch # {}, IsFiniteSet(batch),
           NEW order \in ReplayOrders(batch)
    PROVE  /\ order \in Seq(Record) \ {<<>>}
           /\ \A r \in batch : IsToDo(r, order)
           /\ ByDeviceTime(order)
<1> DEFINE n == Cardinality(batch)
<1>1. n \in Nat /\ n # 0
  BY FS_CardinalityType, FS_EmptySet
<1> HIDE DEF n
<1>2. /\ order \in [1 .. n -> batch]
      /\ \A i, j \in 1 .. n : i # j => order[i] # order[j]
      /\ \A i, j \in 1 .. n : i < j => SortTime(order[i]) <= SortTime(order[j])
  BY DEF ReplayOrders, SetToSeqs, n
<1>3. /\ order \in Seq(Record)
      /\ order # <<>>
      /\ Len(order) = n
  BY <1>1, <1>2
<1>4. order \in Surjection(1 .. n, batch)
  <2>1. order \in Injection(1 .. n, batch)
    BY <1>2, Fun_IsInj
  <2>2. Cardinality(1 .. n) = n
    BY <1>1, FS_Interval
  <2> QED
    BY <2>1, <2>2, FS_Injection DEF n
<1>5. \A r \in batch : IsToDo(r, order)
  BY <1>3, <1>4, Fun_SurjectionProperties DEF IsToDo
<1>6. ByDeviceTime(order)
  BY <1>2, <1>3 DEF ByDeviceTime, SortTime
<1> QED
  BY <1>3, <1>5, <1>6

\* A sequence that is not empty is its first element and the rest.
LEMMA FirstAndRest ==
    ASSUME NEW todo \in Seq(Record) \ {<<>>}
    PROVE  /\ Head(todo) \in Record
           /\ IsToDo(Head(todo), todo)
           /\ Tail(todo) \in Seq(Record)
           /\ Len(todo) # 1 => Tail(todo) # <<>>
           /\ Len(todo) = 1 => \A r : IsToDo(r, todo) => r = Head(todo)
           /\ \A r : IsToDo(r, todo) => r = Head(todo) \/ IsToDo(r, Tail(todo))
           /\ ByDeviceTime(todo) => ByDeviceTime(Tail(todo))
<1>1. /\ todo \in Seq(Record)
      /\ Head(todo) \in Record
      /\ Tail(todo) \in Seq(Record)
      /\ Len(Tail(todo)) = Len(todo) - 1
      /\ \A i \in 1 .. Len(Tail(todo)) : Tail(todo)[i] = todo[i + 1]
  BY HeadTailProperties
<1>2. Len(todo) \in Nat \ {0} /\ Len(<<>>) = 0 /\ Head(todo) = todo[1]
  BY <1>1, LenProperties, EmptySeq
<1>3. Len(todo) # 1 => Tail(todo) # <<>>
  <2>1. Tail(todo) = <<>> => Len(Tail(todo)) = 0
    BY <1>2, Zenon
  <2>2. Len(todo) # 1 => Len(Tail(todo)) # 0
    BY <1>1, <1>2
  <2> QED
    BY <2>1, <2>2, Zenon
<1>4. \A r : IsToDo(r, todo) => r = Head(todo) \/ IsToDo(r, Tail(todo))
  <2> SUFFICES ASSUME NEW i \in 1 .. Len(todo), i # 1
               PROVE  \E j \in 1 .. Len(Tail(todo)) : Tail(todo)[j] = todo[i]
    BY <1>2 DEF IsToDo
  <2>1. i - 1 \in 1 .. Len(Tail(todo)) /\ (i - 1) + 1 = i
    BY <1>1, <1>2
  <2> QED
    BY <1>1, <2>1
<1>5. Len(todo) = 1 => \A r : IsToDo(r, todo) => r = Head(todo)
  BY <1>2 DEF IsToDo
<1>6. IsToDo(Head(todo), todo)
  BY <1>2 DEF IsToDo
<1>7. ByDeviceTime(todo) => ByDeviceTime(Tail(todo))
  <2> SUFFICES ASSUME ByDeviceTime(todo),
                      NEW i \in 1 .. Len(Tail(todo)),
                      NEW j \in 1 .. Len(Tail(todo)), i < j,
                      RecordSpec[Tail(todo)[i]].at # NoTime,
                      RecordSpec[Tail(todo)[j]].at # NoTime
               PROVE  RecordSpec[Tail(todo)[i]].at <= RecordSpec[Tail(todo)[j]].at
    BY DEF ByDeviceTime
  <2>1. /\ i + 1 \in 1 .. Len(todo)
        /\ j + 1 \in 1 .. Len(todo)
        /\ i + 1 < j + 1
    BY <1>1, <1>2
  <2> QED
    BY <1>1, <2>1 DEF ByDeviceTime
<1> QED
  BY <1>1, <1>3, <1>4, <1>5, <1>6, <1>7

-----------------------------------------------------------------------------
(***************************************************************************)
(* The step of one worker.                                                 *)
(***************************************************************************)

\* The program counter of a request tells which fields it has.
LEMMA RequestShape ==
    ASSUME NEW call \in Calls
    PROVE  /\ call.pc \in {"idle", "lookup", "save", "answer"}
           /\ call = Idle <=> call.pc = "idle"
           /\ call.pc # "idle" => call.batch \in Batch
           /\ call.pc \in {"lookup", "save"} => call.todo \in Seq(Record) \ {<<>>}
           /\ call.pc = "save" => call.now \in 0 .. MaxTime
           /\ call.pc = "answer" => call.ok \in BOOLEAN
BY DEF Calls, Idle, Request

\* A record stays stored through a step that keeps every stored record.
Keeps == \A r \in Record : IsStored(r) => IsStored(r)'

\* A step of one worker keeps the invariant when it keeps what is stored and
\* when what the worker goes on with accounts for its batch.
LEMMA OneRequestMoves ==
    ASSUME IInv, NEW w \in Worker, NEW call \in Calls,
           req' = [req EXCEPT ![w] = call], CallInv(call)',
           TableInv', Keeps, NothingForgotten',
           pending' \subseteq Record, overlapped' \in BOOLEAN,
           UNCHANGED clock
    PROVE  IInv'
<1>1. req \in [Worker -> Calls]
  BY DEF IInv, TypeOK, Calls
<1>2. /\ req' \in [Worker -> Calls]
      /\ req'[w] = call
      /\ \A v \in Worker : v # w => req'[v] = req[v]
  BY <1>1
<1>3. TypeOK'
  BY <1>2 DEF IInv, TypeOK, TableInv, TableTypes, Calls, CheckIn, Idle, Request, Batch
<1>4. ASSUME NEW v \in Worker
      PROVE  CallInv(req[v])'
  <2>1. CASE v = w
    BY <1>2, <2>1 DEF CallInv
  <2>2. CASE v # w
    <3>1. CallInv(req[v]) /\ req'[v] = req[v] /\ req[v] \in Calls
      BY <1>1, <1>2, <2>2 DEF IInv
    <3>2. req[v].pc # "idle" => req[v].batch \subseteq Record
      BY <3>1, RequestShape DEF Batch
    <3> QED
      BY <3>1, <3>2, RequestShape DEF CallInv, Keeps
  <2> QED
    BY <2>1, <2>2
<1> QED
  BY <1>3, <1>4 DEF IInv

\* A step that leaves the tables alone keeps what they hold.
LEMMA SameTable ==
    ASSUME IInv, UNCHANGED table
    PROVE  /\ TableInv' /\ Keeps
           /\ pending' = pending => NothingForgotten'
           /\ \A r : IsStored(r)' <=> IsStored(r)
BY DEF IInv, TableInv, TableTypes, Keeps, NothingForgotten, IsStored, StoredAs, table

\* What a worker does next when the first record of its batch is stored.
Onward(w) ==
    IF Len(req[w].todo) = 1 THEN Answered(w, TRUE)
    ELSE [pc |-> "lookup", batch |-> req[w].batch, todo |-> Tail(req[w].todo)]

\* The batch is accounted for when its first record is stored by the step.
LEMMA BatchGoesOn ==
    ASSUME IInv, NEW w \in Worker, NEW call, call = Onward(w),
           req[w].pc \in {"lookup", "save"},
           NEW first, first = Head(req[w].todo),
           Keeps, IsStored(first)'
    PROVE  call \in Calls /\ CallInv(call)'
<1> DEFINE todo  == req[w].todo
           batch == req[w].batch
<1>1. req[w] \in Calls /\ CallInv(req[w])
  BY DEF IInv, TypeOK, Calls
<1>2. todo \in Seq(Record) \ {<<>>} /\ batch \subseteq Record /\ batch \in Batch
  BY <1>1, RequestShape DEF Batch
<1>3. \A r \in batch : IsToDo(r, todo) \/ IsStored(r)'
  BY <1>1, <1>2 DEF CallInv, Keeps
<1>4. ByDeviceTime(todo)
  BY <1>1 DEF CallInv
<1>5. /\ Len(todo) = 1 => \A r : IsToDo(r, todo) => r = first
      /\ \A r : IsToDo(r, todo) => r = first \/ IsToDo(r, Tail(todo))
  BY <1>2, FirstAndRest
<1> HIDE DEF todo, batch
<1>6. CASE Len(todo) = 1
  <2>1. call = [pc |-> "answer", batch |-> batch, ok |-> TRUE]
    BY <1>6 DEF Onward, Answered, todo, batch
  <2>2. \A r \in batch : IsStored(r)'
    BY <1>3, <1>6, <1>5
  <2> QED
    BY <1>2, <2>1, <2>2 DEF Calls, Request, CallInv
<1>7. CASE Len(todo) # 1
  <2>1. call = [pc |-> "lookup", batch |-> batch, todo |-> Tail(todo)]
    BY <1>7 DEF Onward, todo, batch
  <2>2. Tail(todo) \in Seq(Record) \ {<<>>} /\ ByDeviceTime(Tail(todo))
    BY <1>2, <1>4, <1>7, FirstAndRest
  <2>3. \A r \in batch : IsToDo(r, Tail(todo)) \/ IsStored(r)'
    BY <1>3, <1>5
  <2>4. call \in Calls
    BY <1>2, <2>1, <2>2 DEF Calls, Request
  <2> QED
    BY <2>1, <2>2, <2>3, <2>4 DEF CallInv
<1> QED
  BY <1>6, <1>7

\* A batch that arrives.
LEMMA SendKeepsIInv ==
    ASSUME IInv, NEW w \in Worker, NEW batch \in Batch, Send(w, batch)
    PROVE  IInv'
<1>1. PICK order \in ReplayOrders(batch) :
            req' = [req EXCEPT ![w] = [pc |-> "lookup", batch |-> batch,
                                       todo |-> order]]
  BY DEF Send, CheckInBatch
<1>2. PICK call : call = [pc |-> "lookup", batch |-> batch, todo |-> order]
  OBVIOUS
<1>3. /\ order \in Seq(Record) \ {<<>>}
      /\ \A r \in batch : IsToDo(r, order)
      /\ ByDeviceTime(order)
  BY OrdersAreSequences DEF Send, Batch
<1>4. call \in Calls
  BY <1>2, <1>3 DEF Calls, Request
<1>5. CallInv(call)'
  BY <1>2, <1>3 DEF CallInv
<1>6. UNCHANGED <<table, clock, pending>> /\ overlapped' \in BOOLEAN
  BY DEF Send, CheckInBatch, IInv, TypeOK
<1>7. pending' \subseteq Record
  BY <1>6 DEF IInv, TypeOK
<1> QED
  BY <1>1, <1>2, <1>4, <1>5, <1>6, <1>7, SameTable, OneRequestMoves

\* The worker gives up its batch, or is done with it, and answers.
LEMMA AnswerKeepsIInv ==
    ASSUME IInv, NEW w \in Worker, req[w].pc = "lookup",
           req' = [req EXCEPT ![w] = Answered(w, FALSE)],
           UNCHANGED <<table, clock, pending, overlapped>>
    PROVE  IInv'
<1>1. PICK call : call = [pc |-> "answer", batch |-> req[w].batch, ok |-> FALSE]
  OBVIOUS
<1>2. req[w].batch \in Batch
  BY RequestShape DEF IInv, TypeOK, Calls
<1>3. call \in Calls /\ CallInv(call)'
  BY <1>1, <1>2 DEF Calls, Request, CallInv
<1>4. pending' \subseteq Record /\ overlapped' \in BOOLEAN
  BY DEF IInv, TypeOK
<1> QED
  BY <1>1, <1>3, <1>4, SameTable, OneRequestMoves DEF Answered

\* The lookup of the key of the next record.
LEMMA LookupKeepsIInv ==
    ASSUME IInv, NEW w \in Worker, LookupKey(w)
    PROVE  IInv'
<1>1. PICK first : first = Head(req[w].todo)
  OBVIOUS
<1>2. /\ req[w].pc = "lookup"
      /\ req[w] \in Calls
      /\ req[w].todo \in Seq(Record) \ {<<>>}
      /\ req[w].batch \in Batch
      /\ CallInv(req[w])
  BY RequestShape DEF LookupKey, IInv, TypeOK, Calls
<1>3. first \in Record
  BY <1>1, <1>2, FirstAndRest
<1>4. /\ UNCHANGED <<table, clock, pending, overlapped>>
      /\ pending' \subseteq Record
      /\ overlapped' \in BOOLEAN
  BY DEF LookupKey, IInv, TypeOK
<1>5. CASE req' = [req EXCEPT ![w] = Answered(w, FALSE)]
  BY <1>2, <1>4, <1>5, AnswerKeepsIInv
<1>6. CASE RecordSpec[first].key \in DOMAIN idemCheckIn /\ Advance(w)
  <2>1. IsStored(first)'
    BY <1>3, <1>4, <1>6, SameTable DEF IInv, TableInv
  <2>2. PICK call : call = Onward(w)
    OBVIOUS
  <2>3. call \in Calls /\ CallInv(call)'
    BY <1>1, <1>2, <1>4, <2>1, <2>2, SameTable, BatchGoesOn
  <2>4. req' = [req EXCEPT ![w] = call]
    BY <1>6, <2>2 DEF Advance, Onward
  <2> QED
    BY <1>4, <2>3, <2>4, SameTable, OneRequestMoves
<1>7. CASE GoSave(w)
  <2>1. PICK call : call = [pc |-> "save", batch |-> req[w].batch,
                            todo |-> req[w].todo, now |-> clock]
    OBVIOUS
  <2>2. call \in Calls
    BY <1>2, <2>1 DEF Calls, Request, IInv, TypeOK
  <2>3. CallInv(call)'
    <3>1. /\ \A r \in req[w].batch : IsToDo(r, req[w].todo) \/ IsStored(r)
          /\ ByDeviceTime(req[w].todo)
      BY <1>2 DEF CallInv
    <3>2. /\ call.pc = "save"
          /\ call.batch = req[w].batch
          /\ call.todo = req[w].todo
      BY <2>1
    <3>3. \A r \in call.batch : IsToDo(r, call.todo) \/ IsStored(r)'
      BY <1>4, <3>1, <3>2, SameTable
    <3> QED
      BY <3>1, <3>2, <3>3 DEF CallInv
  <2>4. req' = [req EXCEPT ![w] = call]
    BY <1>7, <2>1 DEF GoSave
  <2> QED
    BY <1>4, <2>2, <2>3, <2>4, SameTable, OneRequestMoves
<1> QED
  BY <1>1, <1>5, <1>6, <1>7 DEF LookupKey

\* A new check-in under a fresh identifier stores its record and keeps the others.
LEMMA SaveStores ==
    ASSUME IInv, NEW r \in Record, NEW now \in 0 .. MaxTime,
           CheckInID \ DOMAIN checkIns # {},
           checkIns' = Put(checkIns, FreshID, NewCheckIn(r, now)),
           idemCheckIn' = Put(idemCheckIn, RecordSpec[r].key, FreshID)
    PROVE  /\ TableInv'
           /\ Keeps
           /\ IsStored(r)'
           /\ DOMAIN checkIns' = DOMAIN checkIns \cup {FreshID}
           /\ FreshID \notin DOMAIN checkIns
           /\ checkIns'[FreshID].key = RecordSpec[r].key
           /\ \A id \in DOMAIN checkIns : checkIns'[id] = checkIns[id]
<1> DEFINE id  == FreshID
           key == RecordSpec[r].key
           new == NewCheckIn(r, now)
<1>1. id \in CheckInID /\ id \notin DOMAIN checkIns
  BY DEF FreshID
<1>2. /\ key \in Key
      /\ RecordSpec[r].at \in Int \cup {NoTime}
  BY PatrolAssumption
<1>3. /\ new \in CheckIn
      /\ new.key = key
      /\ RecordSpec[r].at # NoTime => new.at = RecordSpec[r].at
  BY <1>2, PatrolAssumption DEF NewCheckIn, CheckIn
<1> HIDE DEF id, new
<1>4. /\ checkIns' = [k \in DOMAIN checkIns \cup {id} |->
                          IF k = id THEN new ELSE checkIns[k]]
      /\ idemCheckIn' = [k \in DOMAIN idemCheckIn \cup {key} |->
                          IF k = key THEN id ELSE idemCheckIn[k]]
  BY DEF Put, id, new
<1>5. /\ DOMAIN checkIns' = DOMAIN checkIns \cup {id}
      /\ checkIns'[id] = new
      /\ \A k \in DOMAIN checkIns : checkIns'[k] = checkIns[k]
      /\ DOMAIN idemCheckIn' = DOMAIN idemCheckIn \cup {key}
      /\ idemCheckIn'[key] = id
      /\ \A k \in DOMAIN idemCheckIn : k # key => idemCheckIn'[k] = idemCheckIn[k]
  BY <1>1, <1>4
<1>6. TableTypes'
  <2>1. checkIns' \in [DOMAIN checkIns' -> CheckIn]
    BY <1>3, <1>4, <1>5 DEF IInv, TableInv, TableTypes
  <2>2. idemCheckIn' \in [DOMAIN idemCheckIn' -> DOMAIN checkIns']
    BY <1>4, <1>5 DEF IInv, TableInv, TableTypes
  <2>3. CheckIn' = CheckIn
    BY DEF CheckIn
  <2> QED
    BY <1>1, <1>2, <1>5, <2>1, <2>2, <2>3 DEF IInv, TableInv, TableTypes
<1>7. IsStored(r)'
  BY <1>3, <1>5 DEF IsStored, StoredAs
<1>8. ASSUME NEW q \in Record, IsStored(q)
      PROVE  IsStored(q)'
  <2>1. CASE q = r
    BY <1>7, <2>1
  <2>2. CASE q # r
    <3>1. RecordSpec[q].key # key
      BY <2>2, PatrolAssumption
    <3>2. idemCheckIn[RecordSpec[q].key] \in DOMAIN checkIns
      BY <1>8 DEF IsStored, IInv, TableInv, TableTypes
    <3> QED
      BY <1>5, <1>8, <3>1, <3>2 DEF IsStored, StoredAs
  <2> QED
    BY <2>1, <2>2
<1>9. ASSUME NEW q \in Record, RecordSpec[q].key \in DOMAIN idemCheckIn'
      PROVE  IsStored(q)'
  <2>1. q = r \/ RecordSpec[q].key \in DOMAIN idemCheckIn
    BY <1>5, <1>9, PatrolAssumption
  <2> QED
    BY <1>7, <1>8, <2>1 DEF IInv, TableInv
<1>10. \A k \in DOMAIN checkIns' : checkIns'[k].key \in DOMAIN idemCheckIn'
  BY <1>3, <1>5 DEF IInv, TableInv
<1> QED
  BY <1>1, <1>3, <1>5, <1>6, <1>7, <1>8, <1>9, <1>10 DEF TableInv, Keeps, id

\* The save of a new check-in.
LEMMA SaveKeepsIInv ==
    ASSUME IInv, NEW w \in Worker, SaveCheckIn(w)
    PROVE  IInv'
<1>1. PICK first : first = Head(req[w].todo)
  OBVIOUS
<1>2. /\ req[w].pc = "save"
      /\ req[w].now \in 0 .. MaxTime
      /\ req[w].todo \in Seq(Record) \ {<<>>}
  BY RequestShape DEF SaveCheckIn, IInv, TypeOK, Calls
<1>3. first \in Record
  BY <1>1, <1>2, FirstAndRest
<1>4. TableInv' /\ Keeps /\ IsStored(first)'
  BY <1>1, <1>2, <1>3, SaveStores DEF SaveCheckIn
<1>5. PICK call : call = Onward(w)
  OBVIOUS
<1>6. call \in Calls /\ CallInv(call)'
  BY <1>1, <1>2, <1>4, <1>5, BatchGoesOn
<1>7. req' = [req EXCEPT ![w] = call]
  BY <1>5 DEF SaveCheckIn, Advance, Onward
<1>8. /\ NothingForgotten'
      /\ pending' \subseteq Record
      /\ overlapped' \in BOOLEAN
      /\ UNCHANGED clock
  BY <1>4 DEF SaveCheckIn, IInv, TypeOK, NothingForgotten, Keeps
<1> QED
  BY <1>4, <1>6, <1>7, <1>8, OneRequestMoves

\* The answer is received, and the device forgets what succeeded, or it is lost.
LEMMA AnswerEnds ==
    ASSUME IInv, NEW w \in Worker, Receive(w) \/ LoseAnswer(w)
    PROVE  IInv'
<1>1. /\ req[w].pc = "answer"
      /\ req' = [req EXCEPT ![w] = Idle]
      /\ UNCHANGED <<table, clock, overlapped>>
      /\ \/ UNCHANGED pending
         \/ req[w].ok /\ pending' = pending \ req[w].batch
  BY DEF Receive, LoseAnswer
<1>2. /\ CallInv(req[w])
      /\ req[w].batch \subseteq Record
  BY <1>1, RequestShape DEF IInv, TypeOK, Calls, Batch
<1>3. Idle \in Calls /\ CallInv(Idle)'
  BY DEF Calls, Idle, CallInv
<1>4. NothingForgotten'
  BY <1>1, <1>2, SameTable DEF CallInv, NothingForgotten, IInv
<1>5. pending' \subseteq Record /\ overlapped' \in BOOLEAN
  BY <1>1 DEF IInv, TypeOK
<1> QED
  BY <1>1, <1>3, <1>4, <1>5, SameTable, OneRequestMoves

-----------------------------------------------------------------------------
(***************************************************************************)
(* The invariant and what follows from it.                                 *)
(***************************************************************************)

\* The invariant holds in the initial state, where the device holds everything.
LEMMA InitEstablishesIInv == Init => IInv
<1> SUFFICES ASSUME Init PROVE IInv
  OBVIOUS
<1>1. DOMAIN checkIns = {} /\ DOMAIN idemCheckIn = {}
  BY DEF Init
<1>2. checkIns \in [DOMAIN checkIns -> CheckIn]
  BY DEF Init
<1>3. idemCheckIn \in [DOMAIN idemCheckIn -> DOMAIN checkIns]
  BY DEF Init
<1>4. clock \in 0 .. MaxTime
  BY PatrolAssumption DEF Init
<1>5. req \in [Worker -> {Idle} \cup Request]
  BY DEF Init
<1>6. overlapped \in BOOLEAN
  BY DEF Init
<1>7. TypeOK
  BY <1>1, <1>2, <1>3, <1>4, <1>5, <1>6 DEF Init, TypeOK
<1>8. TableInv /\ NothingForgotten
  BY <1>1, <1>2, <1>3 DEF Init, TableInv, TableTypes, NothingForgotten
<1>9. \A w \in Worker : CallInv(req[w])
  BY DEF Init, Idle, CallInv
<1> QED
  BY <1>7, <1>8, <1>9 DEF IInv

\* A step that changes neither the tables nor what is held nor the requests.
LEMMA NothingMoves ==
    ASSUME IInv, UNCHANGED <<table, pending, req, overlapped>>,
           clock' \in 0 .. MaxTime
    PROVE  IInv'
<1>1. TableInv' /\ NothingForgotten'
  BY SameTable
<1>2. TypeOK'
  BY DEF IInv, TypeOK, table, CheckIn, Request, Batch
<1>3. ASSUME NEW w \in Worker
      PROVE  CallInv(req[w])'
  BY <1>3, SameTable DEF IInv, CallInv
<1> QED
  BY <1>1, <1>2, <1>3 DEF IInv

\* Every step keeps the invariant.
LEMMA StepKeepsIInv == IInv /\ [Next]_vars => IInv'
<1> SUFFICES ASSUME IInv, [Next]_vars PROVE IInv'
  OBVIOUS
<1>1. ASSUME NEW w \in Worker, NEW batch \in Batch, Send(w, batch)
      PROVE  IInv'
  BY <1>1, SendKeepsIInv
<1>2. ASSUME NEW w \in Worker, Continue(w)
      PROVE  IInv'
  BY <1>2, LookupKeepsIInv, SaveKeepsIInv DEF Continue
<1>3. ASSUME NEW w \in Worker, Receive(w) \/ LoseAnswer(w)
      PROVE  IInv'
  BY <1>3, AnswerEnds
<1>4. CASE Tick
  <2>1. clock' \in 0 .. MaxTime
    BY <1>4, PatrolAssumption DEF Tick, IInv, TypeOK
  <2> QED
    BY <1>4, <2>1, NothingMoves DEF Tick
<1>5. CASE UNCHANGED vars
  BY <1>5, NothingMoves DEF vars, table, IInv, TypeOK
<1> QED
  BY <1>1, <1>2, <1>3, <1>4, <1>5 DEF Next

\* Every request accounts for its batch, and what was forgotten is stored.
THEOREM Invariance == Spec => []IInv
BY InitEstablishesIInv, StepKeepsIInv, PTL DEF Spec

\* Every reachable state is well typed.
THEOREM TypeCorrectness == Spec => []TypeOK
BY Invariance, PTL DEF IInv

\* What the device has forgotten is stored, with the time the device recorded,
\* however often it sent it and whichever answers were lost.
THEOREM NothingIsForgotten == Spec => []NothingForgotten
BY Invariance, PTL DEF IInv

\* A request that has come to a record has stored every older one of its batch.
LEMMA OlderIsStored == IInv => ReplayedByDeviceTime
<1> SUFFICES ASSUME IInv, NEW w \in InFlight, NEW q \in req[w].batch,
                    NEW r, r = Head(req[w].todo),
                    RecordSpec[q].at # NoTime,
                    RecordSpec[r].at # NoTime,
                    RecordSpec[q].at < RecordSpec[r].at
             PROVE  IsStored(q)
  BY DEF ReplayedByDeviceTime
<1> DEFINE todo == req[w].todo
<1>1. /\ req[w] \in Calls
      /\ req[w].pc \in {"lookup", "save"}
      /\ CallInv(req[w])
  BY RequestShape DEF InFlight, IInv, TypeOK, Calls
<1>2. todo \in Seq(Record) \ {<<>>} /\ q \in Record
  BY <1>1, RequestShape DEF Batch
<1>3. r \in Record /\ r = todo[1] /\ Len(todo) \in Nat \ {0}
  BY <1>2, HeadTailProperties, LenProperties, EmptySeq
<1>4. RecordSpec[q].at \in Int /\ RecordSpec[r].at \in Int
  BY <1>2, <1>3, PatrolAssumption
<1>5. ~IsToDo(q, todo)
  <2> SUFFICES ASSUME NEW i \in 1 .. Len(todo), todo[i] = q
               PROVE  FALSE
    BY DEF IsToDo
  <2>1. CASE i = 1
    BY <1>3, <1>4, <2>1
  <2>2. CASE i # 1
    <3>1. 1 \in 1 .. Len(todo) /\ 1 < i
      BY <1>3, <2>2
    <3>2. RecordSpec[r].at <= RecordSpec[q].at
      BY <1>1, <1>3, <3>1 DEF CallInv, ByDeviceTime
    <3> QED
      BY <1>4, <3>2
  <2> QED
    BY <2>1, <2>2
<1> QED
  BY <1>1, <1>5 DEF CallInv

\* Records are replayed by device time.
THEOREM ReplayIsOrdered == Spec => []ReplayedByDeviceTime
BY Invariance, OlderIsStored, PTL

-----------------------------------------------------------------------------
(***************************************************************************)
(* Requests that have not overlapped.                                      *)
(***************************************************************************)

\* As long as no two requests have overlapped at most one is being served, and
\* the key it has looked up is still unknown when it saves.
Serial ==
    ~overlapped =>
        /\ \A v, w \in InFlight : v = w
        /\ \A w \in Worker :
              req[w].pc = "save" =>
                  RecordSpec[Head(req[w].todo)].key \notin DOMAIN idemCheckIn

\* A step of one worker that saves nothing, of the only request if it is served.
LEMMA SerialMove ==
    ASSUME IInv, Serial, CountedOnce, NEW w \in Worker, NEW call \in Calls,
           req' = [req EXCEPT ![w] = call], UNCHANGED table,
           \/ overlapped' = (overlapped \/ InFlight # {})
           \/ /\ UNCHANGED overlapped
              /\ w \in InFlight \/ call.pc = "idle",
           call.pc = "save" =>
               RecordSpec[Head(call.todo)].key \notin DOMAIN idemCheckIn
    PROVE  Serial' /\ CountedOnce'
<1>1. /\ req'[w] = call
      /\ \A v \in Worker : v # w => req'[v] = req[v]
  BY DEF IInv, TypeOK
<1>2. overlapped \in BOOLEAN
  BY DEF IInv, TypeOK
<1>3. CountedOnce'
  BY <1>2 DEF CountedOnce, table
<1>4. ASSUME ~overlapped'
      PROVE  \A v, u \in InFlight' : v = u
  <2>1. call.pc = "idle" => w \notin InFlight'
    BY <1>1, RequestShape DEF InFlight
  <2>2. InFlight' \subseteq InFlight \cup {w}
    BY <1>1 DEF InFlight
  <2>3. ~overlapped /\ (InFlight = {} \/ w \in InFlight \/ call.pc = "idle")
    <3>1. CASE overlapped' = (overlapped \/ InFlight # {})
      BY <1>4, <3>1, Zenon
    <3>2. CASE UNCHANGED overlapped /\ (w \in InFlight \/ call.pc = "idle")
      BY <1>4, <3>2, Zenon
    <3> QED
      BY <3>1, <3>2
  <2> QED
    BY <2>1, <2>2, <2>3 DEF Serial
<1>5. ASSUME ~overlapped', NEW v \in Worker, req'[v].pc = "save"
      PROVE  RecordSpec[Head(req'[v].todo)].key \notin DOMAIN idemCheckIn'
  <2>1. ~overlapped /\ idemCheckIn' = idemCheckIn
    BY <1>2, <1>5 DEF table
  <2> QED
    BY <1>1, <1>5, <2>1 DEF Serial
<1> QED
  BY <1>3, <1>4, <1>5 DEF Serial

\* Every step keeps requests that have not overlapped serial and counts a record
\* once.
LEMMA SerialStep ==
    ASSUME IInv, Serial, CountedOnce, [Next]_vars
    PROVE  Serial' /\ CountedOnce'
<1>1. ASSUME NEW w \in Worker, NEW batch \in Batch, Send(w, batch)
      PROVE  Serial' /\ CountedOnce'
  <2>1. PICK order \in ReplayOrders(batch) :
              req' = [req EXCEPT ![w] = [pc |-> "lookup", batch |-> batch,
                                         todo |-> order]]
    BY <1>1 DEF Send, CheckInBatch
  <2> DEFINE call == [pc |-> "lookup", batch |-> batch, todo |-> order]
  <2>2. call \in Calls /\ call.pc = "lookup"
    BY <1>1, OrdersAreSequences DEF Send, Batch, Calls, Request
  <2> HIDE DEF call
  <2>3. req' = [req EXCEPT ![w] = call]
    BY <2>1 DEF call
  <2> QED
    BY <1>1, <2>2, <2>3, SerialMove DEF Send, CheckInBatch
<1>2. ASSUME NEW w \in Worker, LookupKey(w)
      PROVE  Serial' /\ CountedOnce'
  <2>1. /\ req[w].pc = "lookup"
        /\ w \in InFlight
        /\ req[w].todo \in Seq(Record) \ {<<>>}
        /\ req[w].batch \in Batch
        /\ UNCHANGED <<table, overlapped>>
    BY <1>2, RequestShape DEF LookupKey, InFlight, IInv, TypeOK, Calls, Idle
  <2>2. ASSUME NEW call \in Calls, req' = [req EXCEPT ![w] = call],
               call.pc = "save" =>
                   RecordSpec[Head(call.todo)].key \notin DOMAIN idemCheckIn
        PROVE  Serial' /\ CountedOnce'
    BY <2>1, <2>2, SerialMove
  <2>3. CASE req' = [req EXCEPT ![w] = Answered(w, FALSE)]
    <3>1. Answered(w, FALSE) \in Calls /\ Answered(w, FALSE).pc # "save"
      BY <2>1 DEF Answered, Calls, Request
    <3> QED
      BY <2>2, <2>3, <3>1
  <2>4. CASE Advance(w)
    <3>1. req' = [req EXCEPT ![w] = Onward(w)]
      BY <2>4 DEF Advance, Onward
    <3>2. Onward(w) \in Calls /\ Onward(w).pc # "save"
      BY <2>1, FirstAndRest DEF Onward, Answered, Calls, Request
    <3> QED
      BY <2>2, <3>1, <3>2
  <2>5. CASE GoSave(w) /\ RecordSpec[Head(req[w].todo)].key \notin DOMAIN idemCheckIn
    <3> DEFINE call == [pc |-> "save", batch |-> req[w].batch,
                        todo |-> req[w].todo, now |-> clock]
    <3>1. call \in Calls /\ call.todo = req[w].todo
      BY <2>1 DEF Calls, Request, IInv, TypeOK
    <3>2. req' = [req EXCEPT ![w] = call]
      BY <2>5 DEF GoSave
    <3> HIDE DEF call
    <3> QED
      BY <2>2, <2>5, <3>1, <3>2
  <2> QED
    BY <1>2, <2>3, <2>4, <2>5 DEF LookupKey
<1>3. ASSUME NEW w \in Worker, SaveCheckIn(w)
      PROVE  Serial' /\ CountedOnce'
  <2>1. PICK first : first = Head(req[w].todo)
    OBVIOUS
  <2>2. /\ req[w].pc = "save"
        /\ w \in InFlight
        /\ req[w].now \in 0 .. MaxTime
        /\ req[w].todo \in Seq(Record) \ {<<>>}
        /\ req[w].batch \in Batch
        /\ UNCHANGED overlapped
    BY <1>3, RequestShape DEF SaveCheckIn, InFlight, IInv, TypeOK, Calls, Idle
  <2>3. first \in Record
    BY <2>1, <2>2, FirstAndRest
  <2>4. /\ DOMAIN checkIns' = DOMAIN checkIns \cup {FreshID}
        /\ FreshID \notin DOMAIN checkIns
        /\ checkIns'[FreshID].key = RecordSpec[first].key
        /\ \A id \in DOMAIN checkIns : checkIns'[id] = checkIns[id]
    BY <1>3, <2>1, <2>2, <2>3, SaveStores DEF SaveCheckIn
  <2>5. /\ req'[w] = Onward(w)
        /\ \A v \in Worker : v # w => req'[v] = req[v]
    BY <1>3 DEF SaveCheckIn, Advance, Onward, IInv, TypeOK
  <2>6. Onward(w).pc # "save"
    BY DEF Onward, Answered
  <2> SUFFICES ASSUME ~overlapped
               PROVE  /\ \A v, u \in InFlight' : v = u
                      /\ \A v \in Worker : req'[v].pc # "save"
                      /\ CountedOnce'
    BY <2>2 DEF Serial, CountedOnce
  <2>7. \A v \in Worker : v # w => v \notin InFlight /\ v \notin InFlight'
    BY <2>2, <2>5 DEF Serial, InFlight
  <2>8. \A v \in Worker : v # w => req[v].pc \in {"idle", "answer"}
    BY <2>7, RequestShape DEF InFlight, IInv, TypeOK, Calls, Idle
  <2>9. \A id \in DOMAIN checkIns : checkIns[id].key # RecordSpec[first].key
    BY <2>1, <2>2 DEF Serial, IInv, TableInv
  <2>10. CountedOnce'
    BY <2>4, <2>9 DEF CountedOnce
  <2> QED
    BY <2>5, <2>6, <2>7, <2>8, <2>10 DEF InFlight
<1>4. ASSUME NEW w \in Worker, Receive(w) \/ LoseAnswer(w)
      PROVE  Serial' /\ CountedOnce'
  <2>1. Idle \in Calls /\ Idle.pc = "idle"
    BY DEF Calls, Idle
  <2> QED
    BY <1>4, <2>1, SerialMove DEF Receive, LoseAnswer
<1>5. CASE Tick \/ UNCHANGED vars
  BY <1>5 DEF Tick, vars, table, Serial, CountedOnce, InFlight
<1> QED
  BY <1>1, <1>2, <1>3, <1>4, <1>5 DEF Next, Continue

\* Requests that do not overlap count no record twice, although the device sends
\* records again and answers are lost.
THEOREM RecordsCountOnce == Spec => []CountedOnce
<1>1. Init => Serial /\ CountedOnce
  BY DEF Init, Serial, CountedOnce, InFlight, Idle
<1>2. IInv /\ Serial /\ CountedOnce /\ [Next]_vars => Serial' /\ CountedOnce'
  BY SerialStep
<1> QED
  BY <1>1, <1>2, Invariance, PTL DEF Spec
=============================================================================
