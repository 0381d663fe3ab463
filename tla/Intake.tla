-------------------------------- MODULE Intake --------------------------------
(***************************************************************************)
(* The two ways contacts come in that have a protocol of their own, the    *)
(* sync of Google Contacts (GoogleSync) and the browser extension          *)
(* (Capture), over one ledger and its mirror (Mirror).                     *)
(***************************************************************************)
EXTENDS GoogleSync, Capture

CONSTANTS Budgets       \* bounds: what may happen in one behaviour, by kind

Kinds == {"changes", "expiries", "serves", "syncs", "errors", "deaths",
          "moves", "saves", "drops"}

ASSUME SeparateWriters == Api \notin Syncers
ASSUME KnownBudgets ==
    \A b \in Budgets : b \in [Kinds -> Nat]

vars == <<mirrorVars, deaths, left, googleVars, captureVars>>

Init == MirrorInit /\ GoogleInit /\ CaptureInit /\ left \in Budgets

Next ==
    \/ GoogleNext /\ UNCHANGED captureVars
    \/ CaptureNext /\ UNCHANGED googleVars

Spec == Init /\ [][Next]_vars

(* serve runs sync after sync and a running command goes on; timers fire,    *)
(* imports resolve, pages follow the address, messages are handled.          *)
Fairness ==
    /\ WF_vars(ReadToken(Serve) /\ UNCHANGED captureVars)
    /\ \A p \in Syncers : WF_vars(FetchStep(p) /\ UNCHANGED captureVars)
    /\ WF_vars(CaptureStep /\ UNCHANGED googleVars)
    /\ WF_vars(Render /\ UNCHANGED googleVars)

FairSpec == Spec /\ Fairness

(* Type invariant. *)
TypeOK ==
    /\ GoogleTypeOK /\ CaptureTypeOK
    /\ ledger \subseteq {Fact(i) : i \in DOMAIN log} \cup Records
    /\ unmirrored \in [Writers -> SUBSET ledger]
    /\ kept \subseteq {Fact(i) : i \in DOMAIN log} \cup Records
    /\ torn \in BOOLEAN /\ deaths \in Nat
    /\ left \in [Kinds -> Nat]
=============================================================================
