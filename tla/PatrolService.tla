--------------------------- MODULE PatrolService ---------------------------
(***************************************************************************)
(* The replay of check-ins: a device that was offline and holds records,   *)
(* the handlers of internal/httpapi, app.PatrolService and the check-in    *)
(* table of store.MemoryStore.                                             *)
(*                                                                         *)
(* The device is not part of the repository.  It sends any of the records  *)
(* it holds, alone or in a batch, and forgets those of a request that was  *)
(* answered with success; an answer may be lost, and the device may send   *)
(* again while an earlier request is still being served.  The service is   *)
(* modelled at the granularity of store operations.                        *)
(***************************************************************************)
EXTENDS Integers, FiniteSets, Sequences, SequencesExt

CONSTANTS
    Record,     \* check-ins the device has recorded
    Key,        \* idempotency keys
    RecordSpec, \* [Record -> [key, at, valid]]; at is the device timestamp
    NoTime,     \* the zero timestamp, replaced by the time of receipt
    CheckInID,  \* identifiers a stored check-in may get
    Worker,     \* goroutines that serve requests
    MaxTime,    \* bound: the clock stops there
    MaxBatch    \* bound: records in one batch

ASSUME PatrolAssumption ==
    /\ RecordSpec \in [Record -> [key : Key, at : Int \cup {NoTime},
                                  valid : BOOLEAN]]
    /\ \A q, r \in Record : RecordSpec[q].key = RecordSpec[r].key => q = r
    /\ NoTime \notin Int
    /\ MaxTime \in Nat
    /\ MaxBatch \in Nat \ {0}

VARIABLES
    checkIns,    \* check-in table: identifier -> CheckIn
    idemCheckIn, \* index: idempotency key -> identifier
    clock,
    pending,     \* the records the device still holds
    req,         \* what each worker is doing
    overlapped   \* history: has a call begun while another was in flight?

vars == <<checkIns, idemCheckIn, clock, pending, req, overlapped>>

table == <<checkIns, idemCheckIn>>

CheckIn == [key : Key, at : Int, receivedAt : 0 .. MaxTime]

Idle == [pc |-> "idle"]

Batch == SUBSET Record

Request ==
    [pc : {"lookup"}, batch : Batch, todo : Seq(Record) \ {<<>>}] \cup
    [pc : {"save"}, batch : Batch, todo : Seq(Record) \ {<<>>}, now : 0 .. MaxTime]
    \cup [pc : {"answer"}, batch : Batch, ok : BOOLEAN]

TypeOK ==
    /\ DOMAIN checkIns \subseteq CheckInID
    /\ checkIns \in [DOMAIN checkIns -> CheckIn]
    /\ DOMAIN idemCheckIn \subseteq Key
    /\ idemCheckIn \in [DOMAIN idemCheckIn -> DOMAIN checkIns]
    /\ clock \in 0 .. MaxTime
    /\ pending \subseteq Record
    /\ req \in [Worker -> {Idle} \cup Request]
    /\ overlapped \in BOOLEAN

Init ==
    /\ checkIns = [id \in {} |-> NoTime]
    /\ idemCheckIn = [key \in {} |-> NoTime]
    /\ clock = 0
    /\ pending = Record
    /\ req = [w \in Worker |-> Idle]
    /\ overlapped = FALSE

InFlight == {w \in Worker : req[w] # Idle /\ req[w].pc # "answer"}

Put(f, key, value) ==
    [k \in DOMAIN f \cup {key} |-> IF k = key THEN value ELSE f[k]]

(***************************************************************************)
(* A request arrives.  A single check-in is a batch of one.                *)
(***************************************************************************)
\* What the sort compares: a record without a timestamp counts as of now.
SortTime(r) == IF RecordSpec[r].at = NoTime THEN clock ELSE RecordSpec[r].at

\* Variant with a bug: the batch is replayed in the order it was sent in.
UnsortedOrders(batch) == SetToSeqs(batch)

ReplayOrders(batch) ==
    {order \in SetToSeqs(batch) :
        \A i, j \in DOMAIN order :
            i < j => SortTime(order[i]) <= SortTime(order[j])}

CheckInBatch(w, batch) ==
    /\ req[w] = Idle
    /\ \E order \in ReplayOrders(batch) :
          req' = [req EXCEPT ![w] = [pc |-> "lookup", batch |-> batch,
                                     todo |-> order]]
    /\ overlapped' = (overlapped \/ InFlight # {})
    /\ UNCHANGED <<table, clock, pending>>

Send(w, batch) ==
    /\ batch # {}
    /\ batch \subseteq pending
    /\ IsFiniteSet(batch)
    /\ Cardinality(batch) <= MaxBatch
    /\ CheckInBatch(w, batch)

(***************************************************************************)
(* CheckIn for the next record of the batch.                               *)
(***************************************************************************)
Answered(w, ok) == [pc |-> "answer", batch |-> req[w].batch, ok |-> ok]

\* Go on with the rest of the batch; a batch that is done is a success.
Advance(w) ==
    req' = [req EXCEPT ![w] =
              IF Len(req[w].todo) = 1 THEN Answered(w, TRUE)
              ELSE [pc |-> "lookup", batch |-> req[w].batch,
                    todo |-> Tail(req[w].todo)]]

GoSave(w) ==
    req' = [req EXCEPT ![w] = [pc |-> "save", batch |-> req[w].batch,
                               todo |-> req[w].todo, now |-> clock]]

\* Variant with a bug: an invalid record is skipped.
LookupSkippingInvalid(w) ==
    /\ req[w].pc = "lookup"
    /\ LET r == Head(req[w].todo)
       IN  \/ ~RecordSpec[r].valid /\ Advance(w)
           \/ /\ RecordSpec[r].valid
              /\ RecordSpec[r].key \in DOMAIN idemCheckIn
              /\ Advance(w)
           \/ /\ RecordSpec[r].valid
              /\ RecordSpec[r].key \notin DOMAIN idemCheckIn
              /\ GoSave(w)
    /\ UNCHANGED <<table, clock, pending, overlapped>>

\* Variant with a bug: the index is not consulted.
LookupNothing(w) ==
    /\ req[w].pc = "lookup"
    /\ GoSave(w)
    /\ UNCHANGED <<table, clock, pending, overlapped>>

\* Variant with a bug: a known key is an error.
LookupRejectingDuplicate(w) ==
    /\ req[w].pc = "lookup"
    /\ LET r == Head(req[w].todo)
       IN  \/ /\ ~RecordSpec[r].valid \/ RecordSpec[r].key \in DOMAIN idemCheckIn
              /\ req' = [req EXCEPT ![w] = Answered(w, FALSE)]
           \/ /\ RecordSpec[r].valid
              /\ RecordSpec[r].key \notin DOMAIN idemCheckIn
              /\ GoSave(w)
    /\ UNCHANGED <<table, clock, pending, overlapped>>

\* An invalid record ends the batch, and the handler answers with the error
\* alone; a known key counts as done.
LookupKey(w) ==
    /\ req[w].pc = "lookup"
    /\ LET r == Head(req[w].todo)
       IN  \/ /\ ~RecordSpec[r].valid
              /\ req' = [req EXCEPT ![w] = Answered(w, FALSE)]
           \/ /\ RecordSpec[r].valid
              /\ RecordSpec[r].key \in DOMAIN idemCheckIn
              /\ Advance(w)
           \/ /\ RecordSpec[r].valid
              /\ RecordSpec[r].key \notin DOMAIN idemCheckIn
              /\ GoSave(w)
    /\ UNCHANGED <<table, clock, pending, overlapped>>

FreshID == CHOOSE id \in CheckInID : id \notin DOMAIN checkIns

\* Variant with a bug: a missing timestamp is stored as it is.
NewCheckInUnstamped(r, now) ==
    [key |-> RecordSpec[r].key, at |-> RecordSpec[r].at, receivedAt |-> now]

NewCheckIn(r, now) ==
    [key |-> RecordSpec[r].key, receivedAt |-> now,
     at  |-> IF RecordSpec[r].at = NoTime THEN now ELSE RecordSpec[r].at]

SaveCheckIn(w) ==
    /\ req[w].pc = "save"
    /\ CheckInID \ DOMAIN checkIns # {}
    /\ LET r == Head(req[w].todo)
       IN  /\ checkIns' = Put(checkIns, FreshID, NewCheckIn(r, req[w].now))
           /\ idemCheckIn' = Put(idemCheckIn, RecordSpec[r].key, FreshID)
    /\ Advance(w)
    /\ UNCHANGED <<clock, pending, overlapped>>

Continue(w) == LookupKey(w) \/ SaveCheckIn(w)

(***************************************************************************)
(* The answer.  201, a new check-in, and 200, a known one or a batch, are  *)
(* successes to the device; 400 is not.                                    *)
(***************************************************************************)
Receive(w) ==
    /\ req[w].pc = "answer"
    /\ pending' = IF req[w].ok THEN pending \ req[w].batch ELSE pending
    /\ req' = [req EXCEPT ![w] = Idle]
    /\ UNCHANGED <<table, clock, overlapped>>

LoseAnswer(w) ==
    /\ req[w].pc = "answer"
    /\ req' = [req EXCEPT ![w] = Idle]
    /\ UNCHANGED <<table, clock, pending, overlapped>>

Tick ==
    /\ clock < MaxTime
    /\ clock' = clock + 1
    /\ UNCHANGED <<table, pending, req, overlapped>>

Next ==
    \/ \E w \in Worker, batch \in Batch : Send(w, batch)
    \/ \E w \in Worker : Continue(w)
    \/ \E w \in Worker : Receive(w)
    \/ \E w \in Worker : LoseAnswer(w)
    \/ Tick

Spec == Init /\ [][Next]_vars

\* The service runs every request to its end, and its answer is received or
\* lost.  The device sends each record it holds again and again by itself, among
\* whatever else it sends, and not every answer to that is lost.
FairSpec ==
    /\ Spec
    /\ \A w \in Worker : WF_vars(Continue(w) \/ Receive(w) \/ LoseAnswer(w))
    /\ \A r \in Record :
          /\ SF_vars(\E w \in Worker : Send(w, {r}))
          /\ SF_vars(\E w \in Worker : Receive(w) /\ req[w].batch = {r})

(***************************************************************************)
(* Properties.                                                             *)
(***************************************************************************)

\* The index leads from the key of r to a check-in of r, with r's device time.
StoredAs(r, id) ==
    /\ checkIns[id].key = RecordSpec[r].key
    /\ RecordSpec[r].at # NoTime => checkIns[id].at = RecordSpec[r].at

IsStored(r) ==
    /\ RecordSpec[r].key \in DOMAIN idemCheckIn
    /\ StoredAs(r, idemCheckIn[RecordSpec[r].key])

\* No record is lost: what the device has forgotten is stored under its key, with
\* the time the device recorded, whatever was sent twice, answered in vain or cut
\* short by an invalid record.
NothingForgotten == \A r \in Record \ pending : IsStored(r)

\* Records are replayed in the order they were made: when a batch has come to a
\* record, every record of the batch that is older on the device is stored.
ReplayedByDeviceTime ==
    \A w \in InFlight : \A q \in req[w].batch :
        LET r == Head(req[w].todo)
        IN  /\ RecordSpec[q].at # NoTime
            /\ RecordSpec[r].at # NoTime
            /\ RecordSpec[q].at < RecordSpec[r].at
            => IsStored(q)

\* No record counts twice, as long as no two requests have overlapped.
CountedOnce ==
    ~overlapped =>
        \A a, b \in DOMAIN checkIns : checkIns[a].key = checkIns[b].key => a = b

\* Every valid record is delivered in the end: the device may forget it.
Delivered ==
    \A r \in Record : RecordSpec[r].valid => <>(r \notin pending)
=============================================================================
