----------------------------- MODULE MemoryStores ------------------------------
(***************************************************************************)
(* What the stores that are replaced or updated in place promise, as the   *)
(* in-memory ones keep it: a derived table has one row for a fingerprint,  *)
(* and each call is one step.  A row is its user state: a suggestion is    *)
(* open, resolved or dismissed, a change open until it is seen.            *)
(*                                                                         *)
(* The promise holds for as long as the calls are kept apart.              *)
(***************************************************************************)
CONSTANTS
    Prints,     \* fingerprints
    Notes,      \* dedupe keys of notifications
    Sinks

VARIABLES
    state,      \* the derived table: from the fingerprints it has to their state
    delivered,  \* the notifications: from dedupe keys to delivered_to
    apart       \* no call has run into another

vars == <<state, delivered, apart>>

Statuses == {"open", "resolved", "dismissed"}
Tables == UNION {[S -> Statuses] : S \in SUBSET Prints}

Init ==
    /\ state = [f \in {} |-> "open"]
    /\ delivered = [n \in {} |-> {}]
    /\ apart = TRUE

(* The state of an item in the new snapshot: what was decided of it stays, *)
(* else the ledger's verdict on its fingerprint counts, else its own.      *)
Kept(f, own, verdict) ==
    IF f \in DOMAIN state /\ state[f] # "open" THEN state[f]
    ELSE IF f \in verdict THEN "dismissed"
    ELSE own

(* replace_changes, replace_conflicts, replace_repairs; save, which has nothing *)
(* to keep.                                                                     *)
Replace(items, verdict) ==
    /\ state' = [f \in DOMAIN items |-> Kept(f, items[f], verdict)]
    /\ UNCHANGED delivered

(* NotificationStore.append: a dedupe key that is there is skipped. *)
AppendNotification(n) ==
    /\ n \notin DOMAIN delivered
    /\ delivered' = [m \in DOMAIN delivered \cup {n} |->
                        IF m = n THEN {} ELSE delivered[m]]
    /\ UNCHANGED state

MarkDelivered(n, sink) ==
    /\ n \in DOMAIN delivered
    /\ delivered' = [delivered EXCEPT ![n] = @ \cup {sink}]
    /\ UNCHANGED state

Call ==
    \/ \E items \in Tables, verdict \in SUBSET Prints : Replace(items, verdict)
    \/ \E n \in Notes : AppendNotification(n)
    \/ \E n \in Notes, sink \in Sinks : MarkDelivered(n, sink)

Next ==
    /\ apart' => apart /\ (Call \/ UNCHANGED <<state, delivered>>)

Spec == Init /\ [][Next]_vars
=============================================================================
