----------------------------- MODULE MemoryStore -----------------------------
(***************************************************************************)
(* The equipment and claim tables of store.MemoryStore with its three      *)
(* multi-step operations.  A method of the store runs under its lock and   *)
(* is one atomic step; the operators that continue an operation of the     *)
(* service take the tables that operation has written so far.              *)
(***************************************************************************)
EXTENDS Domain

VARIABLES
    equipment,  \* equipment table: identifier -> Equipment
    claims      \* claim table: identifier -> EquipmentClaim

storeVars == <<equipment, claims>>

StoreTypeOK ==
    /\ DOMAIN equipment \subseteq EquipmentID
    /\ equipment \in [DOMAIN equipment -> Equipment]
    /\ DOMAIN claims \subseteq ClaimID
    /\ claims \in [DOMAIN claims -> EquipmentClaim]

StoreInit ==
    /\ equipment = [e \in {} |-> None]
    /\ claims = [c \in {} |-> None]

ClaimsOn(table, e, statuses) ==
    {c \in DOMAIN table : table[c].item = e /\ table[c].status \in statuses}

QueuedClaimsForEquipment(table, e) == ClaimsOn(table, e, {"queued"})

LockHolders(e) == ClaimsOn(claims, e, {"locked"})

OutstandingBorrowed(officer, type) ==
    {c \in DOMAIN claims : /\ OfficerOf(claims[c]) = officer
                           /\ TypeOf(claims[c]) = type
                           /\ claims[c].status = "borrowed"}

LockedFor(item, s) == [item EXCEPT !.status = "locked", !.lockedBy = s]

\* The claim takes the lock over the claim table the caller leaves.
Seize(table, id, claim) ==
    /\ equipment' = [equipment EXCEPT ![claim.item] = LockedFor(@, claim.shift)]
    /\ claims' = Put(table, id, [claim EXCEPT !.status = "locked"])

\* Variant with a bug: the claim is stored without the status queued.
EnqueueUnmarked(id, claim) ==
    /\ claims' = Put(claims, id, claim)
    /\ UNCHANGED equipment

Enqueue(id, claim) ==
    /\ claims' = Put(claims, id, [claim EXCEPT !.status = "queued"])
    /\ UNCHANGED equipment

\* Variant with a bug: the preempted holder is not demoted.
TryLockKeepingHolder(id, claim) ==
    /\ claim.item \in DOMAIN equipment
    /\ \/ /\ equipment[claim.item].status # "borrowed"
          /\ Seize(claims, id, claim)
       \/ /\ equipment[claim.item].status = "borrowed"
          /\ Enqueue(id, claim)

\* Variant with a bug: the last claim to come preempts, whoever it meets.
TryLockLastWins(id, claim) ==
    /\ claim.item \in DOMAIN equipment
    /\ \/ /\ equipment[claim.item].status # "borrowed"
          /\ Seize([c \in DOMAIN claims |->
                      IF c \in LockHolders(claim.item)
                      THEN [claims[c] EXCEPT !.status = "queued"]
                      ELSE claims[c]], id, claim)
       \/ /\ equipment[claim.item].status = "borrowed"
          /\ Enqueue(id, claim)

\* Variant with a bug: an item is free when no claim holds its lock, also one
\* that was handed out.
TryLockOrphans(id, claim) ==
    LET e == claim.item
    IN  /\ e \in DOMAIN equipment
        /\ \/ LockHolders(e) = {} /\ Seize(claims, id, claim)
           \/ \E h \in LockHolders(e) :
                 \/ /\ Beats(claim, claims[h])
                    /\ Seize([claims EXCEPT ![h].status = "queued"], id, claim)
                 \/ ~Beats(claim, claims[h]) /\ Enqueue(id, claim)

\* A free item, one in maintenance included, or a lock no claim holds is taken.
\* Otherwise the claim preempts a holder it beats (the scan of the map may meet
\* any holder first) or joins the standby queue.
TryLockEquipment(id, claim) ==
    LET e == claim.item
    IN  /\ e \in DOMAIN equipment
        /\ \/ /\ \/ equipment[e].status \in {"available", "maintenance"}
                 \/ equipment[e].status = "locked" /\ LockHolders(e) = {}
              /\ Seize(claims, id, claim)
           \/ /\ equipment[e].status = "locked"
              /\ \E h \in LockHolders(e) :
                   \/ /\ Beats(claim, claims[h])
                      /\ Seize([claims EXCEPT ![h].status = "queued"], id, claim)
                   \/ /\ ~Beats(claim, claims[h])
                      /\ Enqueue(id, claim)
           \/ /\ equipment[e].status = "borrowed"
              /\ Enqueue(id, claim)

\* Variant with a bug: the first queued claim the scan meets is promoted.
PromoteFirstFound(items, table, e) ==
    LET queue == QueuedClaimsForEquipment(table, e)
    IN  \/ /\ items[e].status # "available" \/ queue = {}
           /\ equipment' = items
           /\ claims' = table
        \/ /\ items[e].status = "available"
           /\ \E first \in queue :
                /\ equipment' =
                     [items EXCEPT ![e] = LockedFor(@, table[first].shift)]
                /\ claims' = [table EXCEPT ![first].status = "locked"]

\* Continues from the tables items and table: the best queued claim of an
\* available item becomes its holder.  A scan of the map that replaces its
\* candidate by each claim that beats it ends on a claim none beats.
PromoteNextQueued(items, table, e) ==
    LET queue == QueuedClaimsForEquipment(table, e)
    IN  \/ /\ e \notin DOMAIN items \/ items[e].status # "available" \/ queue = {}
           /\ equipment' = items
           /\ claims' = table
        \/ /\ e \in DOMAIN items
           /\ items[e].status = "available"
           /\ \E best \in queue :
                /\ \A other \in queue : ~Beats(table[other], table[best])
                /\ equipment' =
                     [items EXCEPT ![e] = LockedFor(@, table[best].shift)]
                /\ claims' = [table EXCEPT ![best].status = "locked"]

\* An item as ReleaseEquipment and a return leave it.
Cleared(status) == [status |-> status, lockedBy |-> None, heldBy |-> None]

\* The equipment table after ReleaseEquipment(e).
Released(e) ==
    IF e \in DOMAIN equipment
    THEN [equipment EXCEPT ![e] = Cleared("available")]
    ELSE equipment
=============================================================================
