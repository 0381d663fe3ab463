----------------------------- MODULE SqliteStores ------------------------------
(***************************************************************************)
(* The calls of the SQLite stores that read before they write, statement   *)
(* by statement.  A session begins its transaction with the first write:   *)
(* the SELECT before it belongs to no transaction, and another process may *)
(* commit in between.  Elsewhere such a call is one step; here is what     *)
(* that takes.                                                             *)
(*                                                                         *)
(* `table` stands for any of the tables change, conflict, repair and       *)
(* projection_state, whose calls have one shape.  A row has an id, which   *)
(* is the primary key, and a fingerprint, which is not even unique.  The   *)
(* ids of a snapshot are a counter (changes, conflicts), new (repairs) or  *)
(* the entity's (projection_state); here they are any.                     *)
(***************************************************************************)
EXTENDS FiniteSets

CONSTANTS
    Calls,      \* the processes, each making one store call after another
    Prints,     \* fingerprints
    Ids,        \* primary keys
    Notes,      \* dedupe keys of notifications
    Sinks

VARIABLES
    table,      \* rows of the derived table
    delivered,  \* the notification table: from dedupe keys to delivered_to
    pc,         \* of each call: its next statement
    shown,      \* the rows apply_graph_repair writes back
    old, new,   \* replace_*: ids of the rows to delete, and the rows to insert
    mark,       \* mark_delivered: the notification and its new delivered_to
    stale,      \* history: another call has committed since the SELECT
    overtaken,  \* history: a call went on to write although it was stale
    failed      \* history: a write was refused by the database or the session

stores == <<table, delivered>>
memory == <<shown, old, new, mark>>
history == <<stale, overtaken, failed>>
vars == <<stores, pc, memory, history>>

Statuses == {"open", "resolved", "dismissed"}
Rows == [id: Ids, fp: Prints, status: Statuses]
Marks == Notes \X SUBSET Sinks
NoMark == <<>>

IdsOf(S) == {r.id : r \in S}
PrintsOf(S) == {r.fp : r \in S}

DistinctIds(S) == \A x, y \in S : x.id = y.id => x = y
DistinctPrints(S) == \A x, y \in S : x.fp = y.fp => x = y

(* What project() and build_edges may come to: new items, none twice. *)
Snapshots ==
    {S \in SUBSET [id: Ids, fp: Prints, status: {"open"}] :
        DistinctIds(S) /\ DistinctPrints(S)}

Init ==
    /\ table = {} /\ delivered = [n \in {} |-> {}]
    /\ pc = [p \in Calls |-> "idle"]
    /\ shown = [p \in Calls |-> {}]
    /\ old = [p \in Calls |-> {}] /\ new = [p \in Calls |-> {}]
    /\ mark = [p \in Calls |-> NoMark]
    /\ stale = [p \in Calls |-> FALSE] /\ overtaken = FALSE /\ failed = FALSE

Goto(p, next) == pc' = [pc EXCEPT ![p] = next]

(* The call returns or raises. *)
Return(p) ==
    /\ Goto(p, "idle")
    /\ shown' = [shown EXCEPT ![p] = {}]
    /\ old' = [old EXCEPT ![p] = {}] /\ new' = [new EXCEPT ![p] = {}]
    /\ mark' = [mark EXCEPT ![p] = NoMark]

(* p commits a write: those between the SELECT and the write of such a call *)
(* have read what is no longer there.                                       *)
Overtake(p, write) ==
    /\ stale' = [q \in Calls |-> IF q = p THEN FALSE ELSE stale[q] \/ pc[q] = write]
    /\ overtaken' = (overtaken \/ stale[p])

-----------------------------------------------------------------------------
(* save, replace_changes, replace_conflicts, replace_repairs *)

(* existing = {r.fingerprint: r ...}: of the rows with one fingerprint, one. *)
Existing(S) ==
    {E \in SUBSET S : DistinctPrints(E) /\ PrintsOf(E) = PrintsOf(S)}

(* Wrong on purpose: a decision in the table is not carried over. *)
KeptByVerdict(x, existing, verdict) ==
    IF x.fp \in verdict THEN "dismissed" ELSE x.status

(* The status of a new row: that of the old one if the user has decided on it, *)
(* else what the ledger says, else its own.                                    *)
Kept(x, existing, verdict) ==
    IF \E r \in existing : r.fp = x.fp /\ r.status # "open"
    THEN (CHOOSE r \in existing : r.fp = x.fp).status
    ELSE IF x.fp \in verdict THEN "dismissed"
    ELSE x.status

Overlaid(S, existing, verdict) ==
    {[x EXCEPT !.status = Kept(x, existing, verdict)] : x \in S}

Prepare(p, S, verdict) ==
    \E existing \in Existing(table) :
        /\ old' = [old EXCEPT ![p] = IdsOf(existing)]
        /\ new' = [new EXCEPT ![p] = Overlaid(S, existing, verdict)]
        /\ Goto(p, "replace")

(* A reprojection has computed a snapshot, and read the user's verdicts: *)
(* SELECT the rows there are, and prepare the new ones.                  *)
SelectExisting(p, S, verdict) ==
    /\ pc[p] = "idle"
    /\ Prepare(p, S, verdict)
    /\ UNCHANGED <<stores, shown, mark, history>>

(* apply_graph_repair: repairs() reads the table ... *)
ReadRepairs(p, r) ==
    /\ pc[p] = "idle" /\ r \in table
    /\ shown' = [shown EXCEPT ![p] = (table \ {r}) \cup {[r EXCEPT !.status = "resolved"]}]
    /\ Goto(p, "review")
    /\ UNCHANGED <<stores, old, new, mark, history>>

(* ... and replace_repairs is called with these rows, one of them resolved. *)
SelectForReview(p) ==
    /\ pc[p] = "review"
    /\ Prepare(p, shown[p], {})
    /\ shown' = [shown EXCEPT ![p] = {}]
    /\ UNCHANGED <<stores, mark, history>>

(* Wrong on purpose: rows are inserted before the old ones are deleted. *)
RefusedInserts(p) == IdsOf(new[p]) \cap IdsOf(table) # {}

(* The flush inserts before it deletes, and turns a pair of a deleted and an *)
(* inserted row with one id into an UPDATE.  It raises if a row to insert is *)
(* there (IntegrityError), or a row to update is not (StaleDataError); a row *)
(* to delete may be gone.                                                    *)
Refused(p) ==
    \E i \in IdsOf(new[p]) :
        \/ i \in IdsOf(table) /\ i \notin old[p]
        \/ i \in old[p] /\ i \notin IdsOf(table)

(* The transaction: DELETE by id, INSERT, commit. *)
Replace(p) ==
    /\ pc[p] = "replace" /\ ~Refused(p)
    /\ table' = {r \in table : r.id \notin old[p]} \cup new[p]
    /\ Overtake(p, "replace") /\ Return(p)
    /\ UNCHANGED <<delivered, failed>>

(* It is rolled back; nothing catches the exception. *)
ReplaceFails(p) ==
    /\ pc[p] = "replace" /\ Refused(p)
    /\ failed' = TRUE /\ overtaken' = (overtaken \/ stale[p])
    /\ stale' = [stale EXCEPT ![p] = FALSE]
    /\ Return(p)
    /\ UNCHANGED stores

-----------------------------------------------------------------------------
(* Notifications. *)

(* INSERT ... ON CONFLICT DO NOTHING: one statement. *)
AppendNotification(n) ==
    /\ n \notin DOMAIN delivered
    /\ delivered' = [m \in DOMAIN delivered \cup {n} |->
                        IF m = n THEN {} ELSE delivered[m]]
    /\ UNCHANGED <<table, pc, memory, history>>

(* mark_delivered: get the row; nothing is written if the sink is in it. *)
GetNotification(p, n, sink) ==
    /\ pc[p] = "idle"
    /\ n \in DOMAIN delivered /\ sink \notin delivered[n]
    /\ mark' = [mark EXCEPT ![p] = <<n, delivered[n] \cup {sink}>>]
    /\ Goto(p, "mark")
    /\ UNCHANGED <<stores, shown, old, new, history>>

(* UPDATE: delivered_to as a whole. *)
MarkDelivered(p) ==
    /\ pc[p] = "mark"
    /\ delivered' = [delivered EXCEPT ![mark[p][1]] = mark[p][2]]
    /\ Overtake(p, "mark") /\ Return(p)
    /\ UNCHANGED <<table, failed>>

-----------------------------------------------------------------------------
(* The process dies, or waits too long for the lock: nothing is written. *)
Abort(p) ==
    /\ pc[p] # "idle"
    /\ stale' = [stale EXCEPT ![p] = FALSE]
    /\ Return(p)
    /\ UNCHANGED <<stores, overtaken, failed>>

Next ==
    \/ \E n \in Notes : AppendNotification(n)
    \/ \E p \in Calls :
        \/ \E S \in Snapshots, verdict \in SUBSET Prints : SelectExisting(p, S, verdict)
        \/ \E r \in table : ReadRepairs(p, r)
        \/ \E n \in Notes, sink \in Sinks : GetNotification(p, n, sink)
        \/ SelectForReview(p) \/ Replace(p) \/ ReplaceFails(p)
        \/ MarkDelivered(p) \/ Abort(p)

Spec == Init /\ [][Next]_vars

-----------------------------------------------------------------------------
(* Properties. *)

(* The derived table as the in-memory store keeps it. *)
State == [f \in PrintsOf(table) |-> (CHOOSE r \in table : r.fp = f).status]

MemoryStores == INSTANCE MemoryStores WITH state <- State, apart <- ~overtaken

(* As long as no call writes after another has committed since its SELECT, the *)
(* SQLite stores are the in-memory ones: a call that was not overtaken deletes *)
(* every old row, keeps what the user decided, and forgets no sink.            *)
ImplementsMemory == MemoryStores!Spec

(* No call raises before that either, though rows keep their ids from one      *)
(* snapshot to the next.  Once two rows have one fingerprint, calls that run   *)
(* alone may fail too: replace_* deletes only one of the two, and the id of    *)
(* the other is taken.                                                         *)
FailsOnlyIfOvertaken == failed => overtaken
=============================================================================
