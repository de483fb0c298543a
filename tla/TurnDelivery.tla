------------------------------ MODULE TurnDelivery ------------------------------
(***************************************************************************)
(* What the memory manager promises its providers, without executors,      *)
(* queues or threads: every turn handed over is owed to every provider;    *)
(* a provider is offered the turns it is owed oldest first, each once; and *)
(* teardown, after which no turn is handed over, may write off a turn that *)
(* no provider has been offered yet, for all of them at once.              *)
(***************************************************************************)
EXTENDS Naturals, Sequences

CONSTANTS Providers, MaxTurn

VARIABLES
    handed,   (* turns handed over so far *)
    owed,     (* per provider, the turns it has still to be offered *)
    log,      (* per provider, the turns it accepted, in order *)
    lost,     (* turns written off *)
    ending    (* teardown has begun *)

dVars == <<handed, owed, log, lost, ending>>

Init == /\ handed = 0
        /\ owed = [p \in Providers |-> {}]
        /\ log  = [p \in Providers |-> <<>>]
        /\ lost = {} /\ ending = FALSE

HandOver ==
    /\ ~ending /\ handed < MaxTurn
    /\ handed' = handed + 1
    /\ owed' = [p \in Providers |-> owed[p] \cup {handed'}]
    /\ UNCHANGED <<log, lost, ending>>

(* Provider p is offered its oldest turn and accepts or refuses it.        *)
Offer(p) ==
    \E t \in owed[p] :
        /\ \A u \in owed[p] : t <= u
        /\ owed' = [owed EXCEPT ![p] = @ \ {t}]
        /\ log' \in {log, [log EXCEPT ![p] = Append(@, t)]}
        /\ UNCHANGED <<handed, lost, ending>>

Teardown == ~ending /\ ending' = TRUE /\ UNCHANGED <<handed, owed, log, lost>>

(* A turn that every provider is still owed is written off.                *)
WriteOff ==
    \E t \in 1 .. handed :
        /\ ending /\ \A p \in Providers : t \in owed[p]
        /\ owed' = [p \in Providers |-> owed[p] \ {t}]
        /\ lost' = lost \cup {t}
        /\ UNCHANGED <<handed, log, ending>>

Next == HandOver \/ (\E p \in Providers : Offer(p)) \/ Teardown \/ WriteOff

Spec == Init /\ [][Next]_dVars
================================================================================
