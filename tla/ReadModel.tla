----------------------------- MODULE ReadModel -----------------------------
(***************************************************************************)
(* What whodex promises its readers: a ledger that only grows, and a view  *)
(* that is always the fold of some whole ledger, never of half a sync and  *)
(* never of an older ledger than the one it showed before.                 *)
(***************************************************************************)
EXTENDS Integers, Sequences

CONSTANT Fold(_)    \* project(): the view of a ledger

VARIABLES ledger, view

Init == ledger = <<>> /\ view = Fold(<<>>)

(* Something new is recorded; the view lags behind until it is refreshed. *)
Record ==
    /\ Len(ledger') = Len(ledger) + 1
    /\ SubSeq(ledger', 1, Len(ledger)) = ledger
    /\ UNCHANGED view

(* "Delete the projection tables and replay the ledger, and you are back." *)
Refresh == view' = Fold(ledger) /\ UNCHANGED ledger

Next == Record \/ Refresh

Spec == Init /\ [][Next]_<<ledger, view>>
=============================================================================
