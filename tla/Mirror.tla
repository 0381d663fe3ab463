-------------------------------- MODULE Mirror --------------------------------
(***************************************************************************)
(* The ledger table and its JSONL mirror: append_observations commits the  *)
(* rows, then appends a line for each to <vault>/.whodex/events.  The two  *)
(* stores are written one after the other, by several processes, and a     *)
(* process may die in between or in the middle of a line.                  *)
(*                                                                         *)
(* A fact stands for the observations of one record: they are committed    *)
(* together and leave the process in one write.  A fact that is appended   *)
(* again is the same fact: what counts is what can be read back.           *)
(***************************************************************************)
EXTENDS Integers, FiniteSets

CONSTANTS Writers       \* the processes that append to the ledger

VARIABLES
    ledger,         \* facts in the table
    unmirrored,     \* of each writer: committed, not yet in the file
    kept,           \* facts whose line in the file can be read back
    torn,           \* the file ends in the middle of a line
    deaths,         \* history: processes that died
    left            \* bounds: what may still happen, by kind of event

mirrorVars == <<ledger, unmirrored, kept, torn>>

(* One more event of this kind. *)
Spend(kind) == left[kind] > 0 /\ left' = [left EXCEPT ![kind] = @ - 1]

MirrorInit ==
    /\ ledger = {} /\ unmirrored = [w \in Writers |-> {}]
    /\ kept = {} /\ torn = FALSE
    /\ deaths = 0

(* Wrong on purpose: the file is written first. *)
CommitLate(w, fact) ==
    /\ unmirrored[w] = {}
    /\ kept' = IF torn THEN kept ELSE kept \cup {fact}
    /\ torn' = FALSE
    /\ unmirrored' = [unmirrored EXCEPT ![w] = {fact}]
    /\ UNCHANGED <<ledger, deaths>>

(* s.add_all(...); s.commit().  A writer that is still appending to the file *)
(* has not returned from the call before.                                    *)
Commit(w, fact) ==
    /\ unmirrored[w] = {}
    /\ ledger' = ledger \cup {fact}
    /\ unmirrored' = [unmirrored EXCEPT ![w] = {fact}]
    /\ UNCHANGED <<kept, torn, deaths>>

(* Wrong on purpose: the file is opened with "w". *)
AppendJsonlAfresh(w) ==
    /\ unmirrored[w] # {}
    /\ kept' = unmirrored[w] /\ torn' = FALSE
    /\ unmirrored' = [unmirrored EXCEPT ![w] = {}]
    /\ UNCHANGED <<ledger, deaths, left>>

(* append_jsonl: a line that follows a torn one continues it. *)
AppendJsonl(w) ==
    /\ unmirrored[w] # {}
    /\ kept' = IF torn THEN kept ELSE kept \cup unmirrored[w]
    /\ torn' = FALSE
    /\ unmirrored' = [unmirrored EXCEPT ![w] = {}]
    /\ UNCHANGED <<ledger, deaths, left>>

(* The writer dies; a line it has not finished stays torn. *)
Die(w) ==
    /\ Spend("deaths") /\ deaths' = deaths + 1
    /\ unmirrored' = [unmirrored EXCEPT ![w] = {}]
    /\ \/ torn' = torn
       \/ unmirrored[w] # {} /\ torn' = TRUE
    /\ UNCHANGED <<ledger, kept>>

-----------------------------------------------------------------------------
(* Properties. *)

Waiting == UNION {unmirrored[w] : w \in Writers}

(* What read_events_from_jsonl could restore was committed: a crash leaves no  *)
(* fact in the mirror that the database never had.                             *)
MirrorWithinLedger == kept \subseteq ledger

(* Each process that dies costs the mirror at most two facts: the one it had   *)
(* not written, and, behind a torn line, the next one, whoever writes it.      *)
(* Without a death the mirror restores the ledger.                             *)
MirrorLossBounded == Cardinality(ledger \ (kept \cup Waiting)) <= 2 * deaths
=============================================================================
