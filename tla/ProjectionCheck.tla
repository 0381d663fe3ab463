-------------------------- MODULE ProjectionCheck --------------------------
(***************************************************************************)
(* resolve_field and the conflict loop of project(), written as the code   *)
(* runs them: sort the rows in the order the store returned them, take the *)
(* last, walk the rest.  The state machine grows one field's observations; *)
(* the properties compare the code with Projection and with DESIGN 6.3.    *)
(***************************************************************************)
EXTENDS Projection, SequencesExt

CONSTANTS
    Sources, Values, Times,
    Ids,        \* ids the factory may mint, in any order
    LaterIds,   \* ids it may mint for a fetch that is repeated, before or after those
    MaxRows     \* bound: observations of the field

Observations == [id: Ids \cup LaterIds, src: Sources, val: Values, at: Times, got: Nat]

ASSUME Comparable ==
    Trust \in [Sources -> Int] /\ Ids \cup LaterIds \cup Times \subseteq Int
ASSUME NewIds == Ids \cap LaterIds = {}
ASSUME NoValueIsNone == NoValue \notin Observations

VARIABLES
    rows,       \* the observations, oldest ingestion first
    batch       \* where the latest fetch began

vars == <<rows, batch>>

Init == rows = <<>> /\ batch = 1

UsedIds == {rows[i].id : i \in DOMAIN rows}

(* The hub mints an id and stamps ingested_at; time passes between drafts. *)
Finalize(d, id, n) == [id |-> id, src |-> d.src, val |-> d.val, at |-> d.at, got |-> n]

Ingest ==
    /\ Len(rows) < MaxRows
    /\ \E d \in [src: Sources, val: Values, at: Times], id \in Ids \ UsedIds :
         rows' = Append(rows, Finalize(d, id, Len(rows) + 1))
    /\ UNCHANGED batch

(* The next fetch begins. *)
NextFetch ==
    /\ batch <= Len(rows)
    /\ Len(rows) < MaxRows
    /\ batch' = Len(rows) + 1
    /\ UNCHANGED rows

Next == Ingest \/ NextFetch
Spec == Init /\ [][Next]_vars

-----------------------------------------------------------------------------
(* Wrong on purpose: sorted by trust and observed_at alone, ties as read. *)
OrderedByRecency(S) ==
    SortSeq(S, LAMBDA a, b : \/ Trust[a.src] < Trust[b.src]
                             \/ Trust[a.src] = Trust[b.src] /\ a.at < b.at)

(* sorted(observations, key=_sort_key) is stable: row i comes before row j if *)
(* its key is the lower one, or the same and it was read before.              *)
Before(S, i, j) ==
    Outranks(S[j], S[i]) \/ (i < j /\ ~Outranks(S[i], S[j]))

Ordered(S) ==
    LET place == [j \in DOMAIN S |-> Cardinality({i \in DOMAIN S : Before(S, i, j)}) + 1]
    IN [k \in DOMAIN S |-> S[CHOOSE j \in DOMAIN S : place[j] = k]]

(* winner = ordered[-1] *)
ResolveField(S) == Last(Ordered(S))

(* for loser in losers: skip equal or higher trust, stop at a material difference *)
FirstConflict(S) ==
    LET ordered == Ordered(S)
        losers == Front(ordered)
        hits == {k \in DOMAIN losers : Disagrees(losers[k], Last(ordered))}
    IN IF hits = {} THEN NoValue ELSE losers[Min(hits)]

(* The rows as some SELECT without ORDER BY returns them. *)
Reads == {[i \in DOMAIN rows |-> rows[p[i]]] :
            p \in {f \in [DOMAIN rows -> DOMAIN rows] : IsInjective(f)}}

(* The latest fetch again, under new ids and later stamps. *)
Refetch(newIds) ==
    rows \o [i \in 1..(Len(rows) - batch + 1) |->
               Finalize(rows[batch + i - 1], newIds[i], Len(rows) + i)]

FreshIds ==
    {f \in [1..(Len(rows) - batch + 1) -> LaterIds] : IsInjective(f)}

(* In whatever order the store returns the ledger, the loops of resolve_field *)
(* and project() find the observation no other outranks, and the lowest one   *)
(* that disagrees with it: projection is a function of the ledger's contents. *)
ReadOrderIrrelevant ==
    rows # <<>> =>
        \A S \in Reads : /\ ResolveField(S) = Winner(ToSet(rows))
                         /\ FirstConflict(S) = Disputed(ToSet(rows))

(* Every sync appends everything it fetched again.  When a fetch is repeated  *)
(* unchanged, neither the canonical value nor the presence of a conflict      *)
(* moves, whatever ids the copies get: "re-ingesting the same data produces   *)
(* neither" a Change nor a ConflictSuggestion.                                *)
RefetchIsQuiet ==
    rows # <<>> =>
        \A f \in FreshIds :
            LET again == Refetch(f)
            IN /\ Canon[ResolveField(again).val] = Canon[ResolveField(rows).val]
               /\ (FirstConflict(again) = NoValue) = (FirstConflict(rows) = NoValue)
=============================================================================
