# A TLA+ model of the patrol-management service

The repository is a Go backend for the Hualong protection station of the Qilian
Mountains reserve. Chiefs plan weekly patrol shifts, officers claim equipment for
them, dispatchers handle field alerts, and devices that were offline replay what
they recorded. State is kept in memory, behind one mutex. This directory models
the parts of it where the order of calls matters, checks them with TLC, and proves
their safety properties with TLAPS for any number of shifts, items, claims, records
and workers.

## 1. Inventory

| Component | Source | State | Operations | Model |
|---|---|---|---|---|
| Domain | `internal/domain/*.go` | none (types, transition tables, rules, `Clock`) | `Beats`, `CanTransition`, `CanBorrow`, `CanReturn`, `IsTerminal`, `NeedsEscalation`, `DroneFlightProhibited` | `Domain`, `AlertService` |
| Shifts | `internal/app/shift_service.go` | shift table | generate, submit, approve, complete, cancel, activate due shifts | `ShiftService` (whole calls), `ShiftCalls` (store operations) |
| Store | `internal/store/memory.go` | maps of shifts, items, claims, routes, check-ins, alerts, archives; two idempotency indexes | getters and savers; `TryLockEquipment`, `ReleaseEquipment`, `PromoteNextQueued` | `MemoryStore`, `ShiftCalls`, `AlertService`, `PatrolService`; not routes and archives |
| Equipment | `internal/app/equipment_service.go` | none of its own | register, submit claim, approve cross-station, borrow, return, cancel | `EquipmentService` (whole calls), `EquipmentRaces` (store operations), `ItemDesk` (what it promises) |
| Alerts | `internal/app/alert_service.go` | none of its own | report, report batch, sign, dispatch, start, resolve, close, escalate, sweep | `AlertService` |
| Patrols | `internal/app/patrol_service.go` | none of its own | create route, check in, check-in batch, lists | `PatrolService`, without routes |
| Archives | `internal/app/archive_service.go` | none of its own | archive a shift's infrared data, read it | not modelled, see 6 |
| Scheduler | `internal/background/scheduler.go` | a mutex, the cancel function of its context, a wait group | `Start`, `Stop`, a loop that runs the sweeps on every tick | `Scheduler` |
| Server | `internal/httpapi/server.go`, `cmd/server/main.go` | `httpSrv`, set by `Start`; two goroutines | `Start`, `Shutdown`; signal handling, exit | `Server` |
| HTTP API | `internal/httpapi/handlers.go`, `middleware.go` | none | routes, role checks, JSON | which calls clients make, each on a goroutine of its own, and the answers devices act on; the rest is not modelled, see 6 |
| Weather | `domain.WeatherProvider` | a report per station | `Current` | external: `ChangeWeather`, reduced to the two fields the rule reads |

**How they interact.** A handler calls one method of one service. A service calls
the store several times and holds no lock between the calls; every store method
locks the store for its own duration only. `net/http` runs each request on a
goroutine of its own, and the scheduler has one more, which calls the shift and
alert services. So the atomic step of the running program is a store operation,
and a service call is a sequence of them that carries records read earlier. The
store returns copies, and every save writes a whole record back.

**What is hard.** Which claim holds an item after a mix of claims, preemptions,
promotions, approvals, returns and cancellations; what two calls on one item, one
shift or one key do to each other; retries that overlap a first delivery, and
answers that are lost; the sweeps against a request's update; an alert or a shift
that falls due while a sweep is under way; a signal at any point of the start of
the process, of a sweep or of a request; rules that are checked when a claim is
submitted and stale when it is promoted. `PROJECT.json` lists each of these hazards
at its line.

**What makes each component correct.** *Equipment*: one holder per item; item
table and claim table agree; nobody waits for a free item; preemption and
promotion follow priority, then submission time; an item handed out is firm.
*Shifts*: transitions only along the table; equipment only for approved shifts.
*Alerts*: a record that was answered is stored, once; the workflow is followed;
nothing is worked on unsigned; no alert stays unsigned past its deadline.
*Patrols*: what a device forgets is stored, once, and replayed by device time.
*Scheduler and server*: after `Stop` no sweep runs; a due shift starts; a signal
ends the process, and ends what is under way first.

## 2. Modules

    Domain
     ├─ ShiftService ─┬─ EquipmentService ──┬─ EquipmentRaces ── MCEquipmentRaces
     │                │       │ (ItemDesk)  └─ MCEquipmentService
     └─ MemoryStore ──┘       └─ EquipmentProofs ─┬─ EquipmentStepProofs
                                                  │    └─ EquipmentDeskProofs
            EquipmentRaces, EquipmentProofs ──────┴─ RaceProofs
                                                       └─ RaceRefinementProofs
        ShiftService ── ShiftCalls ── Scheduler ── Server ─┬─ MCServer
                                                           └─ ServerProofs
    AlertService ──┬─ MCAlertService
                   └─ AlertProofs
    PatrolService ─┬─ MCPatrolService
                   └─ PatrolProofs

A line stands for `EXTENDS`; `EquipmentService` instantiates `ItemDesk`, and
`EquipmentRaces` instantiates `EquipmentService` once more as its abstraction.
Operators keep the names of the Go functions they model. Definitions headed
"Variant with a bug" are no part of the specification: each is a plausible wrong
version of the definition it precedes, and the checks use it to see that a
property can fail.

### Domain, ShiftService, MemoryStore

Each Go map is a function whose domain is the set of identifiers saved so far. An
identifier is drawn from a constant set where the code calls `NewID`. What a shift
or an item never changes after it is created (officer, station, priority,
departure; type, home station) is a constant function of the identifier
(`ShiftSpec`, `EquipmentSpec`), so that choosing an identifier chooses a request.
A claim's copies of these are read through its shift and item.

`MemoryStore` has the store's multi-step operations. `TryLockEquipment` follows
the code branch by branch: a free item, one in maintenance, and a locked item that
no claim holds are taken; a claim that beats a holder demotes it to the queue; any
other claim is queued. Where the code scans a Go map, whose order is unspecified,
the model chooses: the scan for the lock's holder stops at any holder, and
`PromoteNextQueued` ends on any claim that no other one beats.

### EquipmentService

One action is one whole service call, promotion included. The model keeps what
the code does even where it surprises: approval does not look at the claim's
status; cancelling a borrowed claim does not free its item; a return with a loss
puts the item into maintenance, where promotion does nothing; cancelling or
completing a shift releases nothing. Left out: `LockedAt`, `BorrowedAt`,
`ReturnedAt` and the loss note, which are written and never read by the service.

### ItemDesk

What a caller may rely on, item by item: the set of claims that hold the item, and
whether it is out. A claim takes the lock or leaves it; the item goes out with its
holder and comes back from its holder, to the depot or to the next claim. The desk
admits two things the code does and no document mentions: a claim may lose its lock
to nobody (a claim that was promoted unapproved and is approved afterwards loses to
itself), and the claim of an item that is out may be cancelled or queued, which
strands the item: no step of the desk ever moves it again. The mapping is
`Holders` and `HandedOut` in `EquipmentService`.

### EquipmentRaces

The same calls split at store operations. `req[w]` holds what worker `w` is doing
and the claim and item it has read. `CheckRules` joins the reads between the first
lookup and the placing (clock, item, outstanding claims, weather) into one step;
their answer is acted on in a later step, so a check may still be stale. `Place`,
`Reread` and `Stamp` are `TryLockEquipment` and the read and write that follow it
in both `SubmitClaim` and `ApproveCrossStationClaim` to set `LockedAt`. Items are
registered and shifts approved in the initial state, which chooses one `setup` of a
set: the approved shifts, the items, the clock, and which calls may be in flight
together. `"any"` is the server; `"items"` (one call per item) and `"none"` are the
assumptions under which the properties hold.

`before` is a history variable: the tables as they were when the only call in
flight began. The refinement mapping shows an observer the old tables until the
call returns, so a call takes effect, all at once, at its end.

### ShiftCalls

Shift requests and the activation sweep at store operations: a generation saves its
drafts one by one and stops at the first invalid assignment; the four workflow
calls and the sweep read a shift, check the edge, and save the record they read in
a later step. The stored record is the status and whether `ApprovedBy` is set
(`requireRole` rejects a request that names no user). The sweep lists the due
shifts, then reads and saves each. `overlapped` is a history variable: it becomes
true when a call begins while another is in flight, and some properties speak only
of behaviours in which that has not happened. `AlertService` and `PatrolService`
use the same device.

### Scheduler and Server

`Scheduler` has the two sections of `Start` and of `Stop`, under the mutex and
after it, and the loop with its `select`. Since the program starts the scheduler
once, `ctx` and `loop` stand for the cancel function, the context and the wait
group. `EscalateOverdue`, which a tick runs first, is part of `AlertService`; it
shares no state with the shifts and always ends.

`Server` is the process. `main` goes through the statements of `Server.Start`,
`sig` through those of the goroutine that waits for a signal and calls
`Server.Shutdown`; requests on shifts are accepted while the server listens, and
the loop runs beside them. The two goroutines share `httpSrv` without
synchronisation: a read that falls between the write and the start of serving may
see either value. The net/http server is external and modelled by its documented
behaviour: `Shutdown` closes the listener, upon which `ListenAndServe` returns, and
then waits for requests in flight or for its context. `exit` is the end of the
process, after which nothing moves. `early` is a history variable for one
interleaving: `Stop` came before `Start` had counted the loop.

### PatrolService

Check-ins with their idempotency index, at store operations, between a device and
the server. The device is external: it holds records (`pending`), sends any of
them, alone or in a batch, whenever it likes, also while an earlier request is
still being served, and forgets the records of a request that was answered with
success. An answer may be lost. A batch is replayed in any order a sort by device
time may give; a record without a timestamp counts as of now in the sort and gets
the time of its own save. An invalid record ends its batch, and the handler answers
400 without saying what was stored before it.

### AlertService

Reporting, batches, workflow and sweep at the granularity of store operations. A
batch is replayed in any order a stable sort by device time may give. An invalid
record ends its batch; a record without a device time gets the time of receipt. A
workflow call reads the alert, checks the edge, and saves the whole record in a
later step. A sweep lists the overdue alerts and then reads and saves them one by
one; one whose edge is gone is skipped. `signed` stands for `SignedBy` and
`SignedAt`. Responder, location, description and the other stamps are left out.
`acked` is a history variable, `overlapped` another (see `ShiftCalls`).

## 3. Runs

| Run | Checks | Shows |
|---|---|---|
| `equipment_core` | `TypeOK`, `UniqueHolder`, `CustodyAgrees`, `StandbyServed`, `ClaimsFollowApproval`, `PreemptionEarned`, `PromotionIsBest`, `HandedOutIsFirm`, `ImplementsDesk` | Calls that do not overlap allocate correctly, whatever their order, and implement the desk |
| `races` | `RaceTypeOK`, `ImplementsService`; `OneHolder`, `SettledCustody`, `SettledStandby` | The calls as the code writes them, run alone, are the atomic steps of `EquipmentService`; and calls on different items may overlap freely: a lock per item would be enough |
| `alerts_overlap` | `TypeOK`, `IndexSound`, `NoReportLost`, `WorkIsSigned`; `FollowsWorkflow`, `SignatureStands` | What overlap cannot break, and what calls guarantee on top as long as none has overlapped |
| `alerts_live` | `OneAlertPerKey`, `OverdueHandled` | One request at a time stores no record twice; every overdue alert leaves `reported` |
| `checkins` | `TypeOK`, `NothingForgotten`, `ReplayedByDeviceTime`; `CountedOnce`; `Delivered` | Whatever is sent twice, answered in vain or cut short, nothing the device forgot is missing, and every valid record arrives |
| `server` | `TypeOK`, `StartsInTime`, `ApprovalIsSigned`, `NoSweepAfterStop`; `ShiftsFollowWorkflow`; `SignalEndsProcess`, `DueShiftsStart` | What overlapping shift calls keep, and that start, sweeps and shutdown work together |
| `equipment_unapproved`, `equipment_terminal`, `equipment_window`, `races_any`, `alerts_duplicate`, `server_graceful` | one documented property each | The code violates it; see 4 |

### Bounds

All bounds are constants of the configurations. Identifiers are the only thing
that runs out, besides the clock (`MaxTime`), the size of a batch (`MaxBatch`) and the load of
the server (`MaxLoad`).

* `equipment_core`: two shifts (one of the item's home station, one urgent and
  cross-station), one drone, three claims, two weather reports on either side of
  the threshold. Three claims are the least that give a holder, a waiting claim
  and a newcomer at once, and two waiting claims at a promotion. Claims on
  different items meet only in the rule on outstanding equipment, which no property
  here depends on. `LockLeadTime` 2 and `MaxTime` 3, with departures at 2 and 3, let
  each claim be submitted before, at and after the end of its window, tie in
  submission time or not, and let shifts become due.
* `races`, `races_any`: two workers, which is enough for each pair of calls to
  overlap. The setup `"none"` has one item and starts two units before the
  departures, so that calls run before, at and after the end of the window; the
  setup `"items"` has two items, one of each station, and starts at the last
  instant of the window. One weather report.
* `alerts_*`: two alert identifiers, two workers (one in `alerts_live`), batches of
  up to two records: a valid one with a device time before the start, a valid one
  without a device time, and an invalid one; any of them may be sent again at any
  time. `alerts_overlap` and `alerts_duplicate` take the last two records. With two
  workers, two identifiers let a duplicate be stored. A save for which no identifier
  is left does not happen; nothing is claimed of it.
* `checkins`: the same three records with three keys, two workers, batches of up to
  three, so that the invalid record may come first, between the others or last in
  device order; the clock moves once. Four identifiers are enough for every save:
  two valid keys, each stored at most once by each of the two workers.
* `server`: two shifts, due at 0 and at 1, two workers, and a clock that stops at 1.
  `MaxLoad` bounds the stored shifts and the requests in flight together, to three:
  either two requests overlap on one shift, or one request and the sweep on two.
  A third request on one shift would add no new pair of a read and an overwrite.

Claims, and workers, are interchangeable constants, so runs of safety properties
use their permutations as symmetry sets. `alerts_live` uses none.

`CHECK_DEADLOCK FALSE` is set everywhere because the bounded system stops where
the program would not: the clock is at its bound and every identifier is used.

### Fairness

`alerts_live` assumes weak fairness of `Continue(w)` (a goroutine with a request to
finish is scheduled, and no call waits for another while it holds something), of
`Sweep` (the scheduler's ticker fires again and its loop, once started, runs to its
end) and of `Tick` (time passes). Nothing is assumed of clients: reports, signatures
and closings may never come. `OverdueHandled` speaks of alerts whose deadline lies
within the bound of the clock.

`server` assumes weak fairness of the main goroutine, of the goroutine of the
signal, of the loop, of each request in flight and of the clock, which is the Go
scheduler's and the ticker's; and strong fairness of `LoopEnds`, because a `select`
with a tick and a cancelled context ready chooses between them at random, so that
the cancellation is taken in the end but not at any given time. A signal, and new
requests, may never come. `DueShiftsStart` speaks of departures within the bound.

`checkins` assumes of the service that a request in flight is worked on and its
answer received or lost; of the device, which is not in the repository, that it
keeps sending each record it holds by itself, among whatever else it sends, and
that not every answer to these is lost. The assumption is needed: the records
behind an invalid one in a batch are never stored by repeating that batch, so a
device that does only that does not get rid of them.

## 4. Findings

Six documented properties do not hold of the code. Each has a run whose
counterexample shows how.

1. `ApprovalPrecedesCustody`: a promotion takes the best queued claim without
   looking at its approval (`store/memory.go:272`), against
   `README.md:91` and the comment of `app/cross_station_queue_test.go:31-34`.
2. `TerminalIsFinal`: approving a cancelled or returned cross-station claim brings
   it back (`app/equipment_service.go:186`), against `domain/equipment.go:49`.
3. `LockedInTime`: a promotion locks an item after the window has closed
   (`store/memory.go:284`), against `domain/common.go:22,82`.
4. `OneHolder` when any two calls may overlap: a call writes back a record it read before
   another call changed it, and two claims hold one item, against `README.md:95`
   and `store/memory.go:12-14`.
5. `OneAlertPerKey` under overlap: two deliveries of one record both miss the key
   and store two alerts (`app/alert_service.go:85`), against
   `app/alert_service.go:90` and `README.md:99`.
6. `Graceful`: `main` returns when the listener is closed, and the process exits
   while `Shutdown` still waits for the requests in flight (`cmd/server/main.go:67`),
   against `cmd/server/main.go:56` and `httpapi/server.go:115`.

Smaller disagreements, which the models show and no run is spent on:

* `background/scheduler.go:22` says that `Start` and `Stop` may run concurrently: a
  `Stop` between the unlock of `Start` and its `wg.Add` returns before the loop has
  run (`early` in `Server`).
* A signal that arrives before the server is set stops the scheduler for good and
  finds no server to shut down: the process goes on serving, without sweeps, and
  reads no later signal (`Deaf` in `Server`).
* `app/patrol_service.go:113` says of a batch that no records are lost: those behind
  an invalid record are not stored, and the device is not told which
  (`PatrolService`, see the fairness of `checkins`). Alerts are no different.
* Check-ins race as alerts do in finding 5: `CountedOnce` holds as long as no two
  requests overlap.
* A workflow call on a shift that overlaps another, or the sweep, may put back the
  status it read: `ShiftsFollowWorkflow` holds as long as none overlaps.
* `app/archive_service.go:35` says that data is archived before the shift completes;
  the code looks at no shift.

## 5. Proofs

Everything below is proved for every value of the constants that satisfies the
named assumptions of the modules: any number of shifts, items, claims, records,
workers, any size of a batch. Every invariant and every action property of the
passing runs is also a theorem, and so are both refinements; liveness is not (see
the end). No theorem assumes fairness.

| Module | Theorems | Of |
|---|---|---|
| `EquipmentProofs` | `Invariance`, `TypeCorrectness`, `HolderIsUnique`, `TablesAgree`, `QueueIsServed` | `EquipmentService`: `IInv`, `TypeOK`, `UniqueHolder`, `CustodyAgrees`, `StandbyServed` |
| `EquipmentStepProofs` | `PreemptionIsEarned`, `PromotionTakesTheBest`, `HandedOutStays`, `ClaimsAreOfApproved` | `PreemptionEarned`, `PromotionIsBest`, `HandedOutIsFirm`, `ClaimsFollowApproval` |
| `EquipmentDeskProofs` | `ServiceImplementsDesk` | the refinement `ImplementsDesk` |
| `RaceProofs` | `CallsStayTyped`, `RaceTypeCorrectness`, `CallsAccountForItems`, `HoldersStayUnique`, `CustodySettles`, `StandbySettles` | `EquipmentRaces`: `TypeInv`, `RaceTypeOK`, `SeparateInv`, `OneHolder`, `SettledCustody`, `SettledStandby` |
| `RaceRefinementProofs` | `LoneCallsImplementService` | the refinement `ImplementsService` |
| `AlertProofs` | `Invariance`, `TypeCorrectness`, `IndexIsSound`, `ReportsAreKept`, `WorkCarriesSignature`, `WorkflowIsFollowed`, `SignatureIsFinal`, `OneWorkerCountsOnce`, `LoneCallsCountOnce` | `AlertService`: `IInv`, `TypeOK`, `IndexSound`, `NoReportLost`, `WorkIsSigned`, `FollowsWorkflow`, `SignatureStands`, `OneAlertPerKey` |
| `PatrolProofs` | `Invariance`, `TypeCorrectness`, `NothingIsForgotten`, `ReplayIsOrdered`, `RecordsCountOnce` | `PatrolService`: `IInv`, `TypeOK`, `NothingForgotten`, `ReplayedByDeviceTime`, `CountedOnce` |
| `ServerProofs` | `Invariance`, `TypeCorrectness`, `ShiftsStartInTime`, `ApprovalsAreSigned`, `StopEndsSweeps`, `WorkflowIsFollowed` | `Server`: `IInv`, `TypeOK`, `StartsInTime`, `ApprovalIsSigned`, `NoSweepAfterStop`, `ShiftsFollowWorkflow` |

**Hypotheses.** Beside the assumptions on constants, three kinds of theorem are
about part of the behaviours, because the code gives no more:

* `HoldersStayUnique`, `CustodySettles` and `StandbySettles` are about setups whose
  `overlap` is not `"any"`, and `ImplementsService` about those where it is
  `"none"`. For the server as it is `races_any` refutes `OneHolder`.
* `OneWorkerCountsOnce` assumes that all workers are one (the sweep may overlap it), and
  `LoneCallsCountOnce` is about behaviours without overlap; `alerts_duplicate` refutes
  `OneAlertPerKey` for two workers that overlap.
* `FollowsWorkflow`, `SignatureStands`, `CountedOnce` and `ShiftsFollowWorkflow` are
  stated for behaviours in which no call has overlapped another so far
  (`overlapped`).

`StatusAssumption` of `EquipmentRaces` says that the value that stands for no
status is none of the statuses; `DomainAssumption`, `SetupAssumption`,
`AlertAssumption` and `PatrolAssumption` type the constants, and the last also says
that two records have different keys, as the records of one device do.

### Whole calls: `EquipmentService`

`IInv == TypeOK /\ UniqueHolder /\ CustodyAgrees`. `UniqueHolder` alone is not
inductive: a claim takes the lock of an item when the *item* is free, or has the
one *holder* it demotes, so that no other claim holds it follows only from
`CustodyAgrees`, which ties the status of an active claim to the status of its item.
`CustodyAgrees` in turn needs `UniqueHolder` wherever the item is written: a release
or a return changes the item under one claim, and stays in agreement with the other
claims only because none of them holds it.

The operators of `MemoryStore` take the tables an operation has written so far, so
the two conjuncts are stated as a predicate over a pair of tables, and one lemma per
writer says what it does to such a pair: `SeizeKeepsCustody`, `EnqueueKeepsCustody`,
`DropKeepsCustody`, `ClearKeepsCustody`, then `TryLockKeepsCustody` and
`PromoteKeepsCustody`, then one lemma per service operation. `StepKeepsIInv` has one
step per disjunct of `Next`. `StandbyServed` follows the same path (`EnqueueServes`,
`SeizeServes`, `TryLockServes`, `PromoteServes`, `StepServes`). The action properties
rest on `StepKinds`: from a state of `IInv`, every step leaves the tables alone,
places a claim, hands out an item, gives one up or withdraws a claim, and each kind
says exactly which claims and items may change. The preemption is the one inside
`TryLockPlaces`; the promotion is the one inside `ClearAndPromoteFrees`, which also
shows that the queue it looks at is the queue before the call. The refinement takes
the same five kinds: `PlacingAtDesk`, `HandingOutAtDesk`, `GivingUpAtDesk`,
`WithdrawingAtDesk` and `BystanderAtDesk` each name the step of `ItemDesk` that the
kind is, with `OneInHolderSet` (from `UniqueHolder`) for who held the item before,
`HolderLocks` (from `CustodyAgrees`, in the state after the step) for whether it is
out, and `ItemsStay` for items that are new.

### Calls split at store operations: `EquipmentRaces`

Types need more than `RaceTypeOK`: a call writes rows under identifiers it read
earlier, so `TypeInv` adds that these are stored and name the item of the call
(`CallTypes`), and that no two submissions are about to store under one identifier
(`FreshIds`). It holds however the calls overlap.

`SeparateInv` adds, where calls do not meet on an item, what each item owes. The
item of no call in flight is `Settled`: its row and its claims agree and its queue is
served. The item of a call is what the call's program counter says (`CallInv`):
settled until the call writes its claim; then the claim is written and the row lags
behind, or the row names no holder; then the row is free and the promotion is
missing; then settled again. `Settled` is stated item by item, so that `Frame` shows
once that a step of a call leaves every other item and its claims alone. The service
lemmas of `EquipmentProofs` are about pairs of tables and are used again for
`TryLockEquipment`, the release and the promotion. `OneHolder`, `SettledCustody` and
`SettledStandby` are read off the invariant: the first because each `CallInv` implies
that the item has one holder at most, the other two from `Settled`.

`StampWritesBack` is what the lock per item buys: the claim that a submission or an
approval read back after `TryLockEquipment` is still the stored one when it is saved with its
`LockedAt`, so that the save changes nothing. It fails where calls meet on an item,
which is finding 4.

For the refinement, `AloneInv` adds, where calls run alone, that there is one call in
flight and that `CallEffect` relates the current tables to the tables it began with:
which rules it has found to hold of those, and which of its writes it has done. The
mapping shows the tables in `before` until the call returns, so every operation but
the last is a stutter (`LoneGoesOn`), a refused call stutters throughout, and the
last operation of a call completes one step of `EquipmentService` from `before` to
the tables it leaves: one lemma per service call (`ServiceBorrow`, `ServiceReturn`,
...) puts the step together and one per program counter (`LoneBorrowEquip`, ...)
shows that the call is there. What clients, the clock and the weather do between two
calls is the same step of the service (`LoneElsewhere`).

### Alerts, check-ins, shifts

Here calls overlap in any way, and what they carry may be old when they save it.
`NoReportLost`, `WorkIsSigned`, `StartsInTime` and `ApprovalIsSigned` are not
inductive, because nothing in them speaks of the record a call will write back. Each
invariant therefore says of a call in flight what its record still guarantees.

* `AlertProofs`: a call that will write alert `a` under `id` finds `id` stored with
  the same key and moves `a`, which is stamped as its status asks, along an edge
  (`Held`). So a save never takes a key away, which keeps the index sound and the
  reports stored, and never stores work without a signature, although it may undo a
  later one. `IndexSound` is needed in `IInv` because a batch skips a record whose
  key the index has, and answers for it all the same.
* `PatrolProofs`: each record of a batch in flight is still to do or stored, and what
  is to do is in device order (`CallInv`). When the answer reports success nothing is
  left to do, so that the device forgets stored records only; when the replay has
  come to a record, an older one of the batch cannot come later in it.
* `ServerProofs`: every record stored, carried by a request or by the sweep is
  `Sound`: signed if approved, and due if started. The edge a call takes keeps it so,
  and what overwrites it is sound too. `ProcessInv` ties the program counters of
  `main` and of the goroutine of the signal to the state of the loop and its context,
  from which `NoSweepAfterStop` follows. The two parts are proved apart
  (`StepKeepsShiftInv`, `StepKeepsProcess`): they share only the sweep and the clock.

The properties about calls that have not overlapped need `Serial` on top: while
`overlapped` is false at most one call is in flight, and the record it carries is the
stored one. Then each save is one edge from the stored status, respectively stores a
record whose key is in nobody's table. The two theorems on `OneAlertPerKey` share
one step lemma, `OneRequestStep`: between the lookup of a key and the save of its
record nobody else stores the key (`KeyStaysFree`).

**Only model-checked.** Liveness (`OverdueHandled`, `Delivered`, `DueShiftsStart`,
`SignalEndsProcess`), which is out of the prover's reach. The six violations are
counterexamples of TLC.

## 6. Not modelled

* HTTP routing, role checks, JSON and validation messages: they decide whether a
  call is made and keep no state. Logging and configuration: nothing depends on
  them. Listings for display: reads only.
* `ArchiveService`: one validated save that overwrites the archive of a shift, and a
  read behind a role check. It reads no shift, and nothing reads an archive, so
  that no property could relate it to another state.
* Routes: one validated save; a check-in's route is not looked up.
* `Scheduler.TickOnce`, which only tests call; a second `Start` and concurrent
  `Stop`s, which the program has not.
* A crash of the process: nothing is persisted, and a restart begins with the empty
  store.

## 7. Plan

1. Done: `EquipmentService`, its refinement and proofs; `EquipmentRaces`;
   `AlertService`; `ShiftCalls`, `Scheduler` and `Server`; `PatrolService`.
2. Done: inductive invariants and proofs for `AlertService`, `PatrolService`, `Server`
   and `EquipmentRaces`, and the refinement `ImplementsService`.
3. Next: a refinement for calls on different items, each of which should implement
   the service on its own item.
