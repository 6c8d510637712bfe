------------------------------- MODULE ItemDesk -------------------------------
(***************************************************************************)
(* What a caller may rely on of the equipment service, item by item: a     *)
(* claim holds the item or none does, and the item is in the station or    *)
(* out with the officer of the claim that holds it.  The queue, the rules  *)
(* of a submission, the shifts and the clock are left to the service.      *)
(*                                                                         *)
(* An item that is out with no claim is lost to the service: no step       *)
(* brings it back.                                                         *)
(***************************************************************************)
CONSTANTS Item, Claim

VARIABLES
    holders,    \* item -> the claims that hold it
    out         \* the items that were handed out

deskVars == <<holders, out>>

DeskInit ==
    /\ holders = [e \in Item |-> {}]
    /\ out = {}

\* A claim gets the lock: of a free item, from the holder it beats, or from the
\* queue when the holder gives the lock up.
Take(e, c) ==
    /\ e \notin out
    /\ holders' = [holders EXCEPT ![e] = {c}]
    /\ UNCHANGED out

\* The holder gives the lock up and nobody waits.
Leave(e) ==
    /\ e \notin out
    /\ holders' = [holders EXCEPT ![e] = {}]
    /\ UNCHANGED out

HandOut(e) ==
    /\ e \notin out
    /\ holders[e] # {}
    /\ out' = out \cup {e}
    /\ UNCHANGED holders

\* The item comes back, to the depot or to the best claim of its queue.
TakeBack(e) ==
    /\ e \in out
    /\ holders[e] # {}
    /\ \E next \in {{}} \cup {{c} : c \in Claim \ holders[e]} :
          holders' = [holders EXCEPT ![e] = next]
    /\ out' = out \ {e}

\* The claim of an item that is out is cancelled, or queued by its approval.
Strand(e) ==
    /\ e \in out
    /\ holders[e] # {}
    /\ holders' = [holders EXCEPT ![e] = {}]
    /\ UNCHANGED out

DeskNext ==
    \E e \in Item :
        \/ \E c \in Claim : Take(e, c)
        \/ Leave(e)
        \/ HandOut(e)
        \/ TakeBack(e)
        \/ Strand(e)

DeskSpec == DeskInit /\ [][DeskNext]_deskVars
=============================================================================
