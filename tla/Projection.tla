----------------------------- MODULE Projection -----------------------------
(***************************************************************************)
(* The pure core of the projection for one entity and one field: which     *)
(* observation wins, which one raises a conflict suggestion, and whether a *)
(* flip of the winner is a change.  resolve_field and project() sort and   *)
(* loop; these definitions say what the sorting and looping return, and    *)
(* ProjectionCheck compares the two.                                       *)
(*                                                                         *)
(* An observation is a record with at least                                *)
(*   id    its ULID, unique and ordered                                    *)
(*   src   source_kind          val   value                                *)
(*   at    observed_at          got   ingested_at                          *)
(***************************************************************************)
EXTENDS Integers

CONSTANTS
    Trust,      \* trust rank of each source_kind (DEFAULT_TRUST)
    Canon,      \* canonicalize(): the value a value stands for
    NoValue     \* no observation, no conflict

(* Wrong on purpose: ingested_at is left out. *)
KeyWithoutIngestion(o) == <<Trust[o.src], o.at, o.id, o.id>>

(* The sort key without confidence, which every source leaves at 1.0: *)
(* trust, observed_at, ingested_at, id.                               *)
Key(o) == <<Trust[o.src], o.at, o.got, o.id>>

(* Tuple comparison: the first component that differs decides. *)
Outranks(a, b) ==
    \E i \in 1..4 :
        /\ Key(a)[i] > Key(b)[i]
        /\ \A j \in 1..(i - 1) : Key(a)[j] = Key(b)[j]

(* ordered[-1]: the observation that outranks every other one. *)
Winner(S) == CHOOSE w \in S : \A o \in S \ {w} : Outranks(w, o)

(* Lower trust and another canonical value than the winner's. *)
Disagrees(l, w) == Trust[l.src] < Trust[w.src] /\ Canon[l.val] # Canon[w.val]

Disagreeing(S) == {l \in S : Disagrees(l, Winner(S))}

(* Losers are visited from the lowest rank up and the first one that *)
(* disagrees is the one suggestion of the field.                     *)
Disputed(S) ==
    IF Disagreeing(S) = {} THEN NoValue
    ELSE CHOOSE l \in Disagreeing(S) :
             \A m \in Disagreeing(S) \ {l} : Outranks(m, l)

(* A change: there was a value, and its canonical form is another one now. *)
Flipped(old, new) == old # NoValue /\ Canon[old.val] # Canon[new.val]
=============================================================================
