--------------------------------- MODULE Desk ---------------------------------
(***************************************************************************)
(* What the user has in front of them: the review screen over the graph    *)
(* (Graph) and the queue (Queue), while syncs run.                         *)
(***************************************************************************)
EXTENDS Queue

CONSTANTS Budgets       \* bounds: what may happen in one behaviour, by kind

Kinds == {"syncs", "serves", "records", "choices", "crashes", "talks", "acts", "news",
          "today"}

ASSUME KnownBudgets == \A b \in Budgets : b \in [Kinds -> Nat] /\ b.today \in 0..Days

vars == <<graphVars, queueVars, left>>

Init == left \in Budgets /\ GraphInit /\ QueueInit

Next == (GraphNext /\ UNCHANGED queueVars) \/ QueueNext

Spec == Init /\ [][Next]_vars

(* serve runs sync after sync, a running command goes on, and time passes. *)
Fairness ==
    /\ WF_vars(Begin(Serve) /\ UNCHANGED queueVars)
    /\ \A c \in Commands : WF_vars((Step(c) /\ UNCHANGED queueVars) \/ Reproject(c))
    /\ WF_vars(Tick)

FairSpec == Spec /\ Fairness

(* Type invariant. *)
TypeOK == GraphTypeOK /\ QueueTypeOK /\ left \in [Kinds -> Nat]

(* The ledger has this reference of a person to a place, and the place. *)
Refers(r) ==
    /\ r \in seen /\ Resolve(r, owner) # Nobody /\ left.serves > 0
    /\ Link[r].src \in People /\ Link[r].type \in {"member_of", "lives_in"}

(* A person whose note refers to a place is found there once there is a note   *)
(* of it, however the sync that reads it overlaps with others: at once, or     *)
(* when they are no longer snoozed.                                            *)
MembersAreFound ==
    \A r \in Refs : Refers(r) ~> (Link[r].src \in PeopleAt(Resolve(r, owner)))
=============================================================================
