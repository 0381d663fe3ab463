------------------------------ MODULE VaultSync ------------------------------
(***************************************************************************)
(* `whodex sync --write-back` over one note that the user edits at will:   *)
(* the scan reads it, its values become observations unless the file is    *)
(* the one whodex wrote last, the projection picks a winner per field, and *)
(* write_back fills the note's blank fields and remembers what it wrote.   *)
(*                                                                         *)
(* Every read and write of the file and of the vault state is a step of    *)
(* its own.  The note is its frontmatter: a value for each managed field   *)
(* and the uid; content_hash is injective, so a hash is the frontmatter.   *)
(*                                                                         *)
(* Of the ledger, VaultSync keeps the latest value each source gave for a  *)
(* field: mtimes only grow here, and then that is all a projection sees    *)
(* (Projection: trust first, then observed_at, then ingested_at).          *)
(***************************************************************************)
EXTENDS Integers

CONSTANTS
    Fields,         \* managed fields
    Values,
    Blank,          \* no value: absent, empty string, empty list
    EditAt,         \* phases of a sync in which the user may save the note
    MaxEdits,       \* bound: edits of the note
    MaxUpdates,     \* bound: updates of the Google contact
    MaxFaults       \* bound: crashes

ASSUME BlankIsNoValue == Blank \notin Values
ASSUME Phased == EditAt \subseteq {"idle", "fetch", "project", "plan", "write", "put"}
ASSUME VaultBounds == MaxEdits \in Nat /\ MaxUpdates \in Nat /\ MaxFaults \in Nat

VARIABLES
    file,       \* the note on disk
    written,    \* VaultFileState.last_written_hash, or Blank
    contact,    \* the Google contact
    said,       \* the ledger: the latest value of each source
    proj,       \* the projection
    pc, seen, draft,    \* the sync: next step, note fetched?, new_text
    touched,    \* fields the user has ever edited
    typed,      \* fields whose value on disk the user put there
    reedited,   \* the user has edited a note that whodex had written
    forgot,     \* a sync died after it wrote the note, before it remembered that
    edits, updates, faults

sync == <<pc, seen, draft>>
history == <<touched, typed, reedited, forgot>>
counters == <<edits, updates, faults>>
vars == <<file, written, contact, said, proj, sync, history, counters>>

NoField == [f \in Fields |-> Blank]
Note == [fields: [Fields -> Values \cup {Blank}], uid: BOOLEAN]

(* The projection: obsidian is trusted above google_contacts. *)
Winners(s) ==
    [f \in Fields |-> IF s.obsidian[f] # Blank THEN s.obsidian[f] ELSE s.google[f]]

(* A source's values over what it said before: blank fields emit nothing. *)
Observe(before, now) == [f \in Fields |-> IF now[f] = Blank THEN before[f] ELSE now[f]]

Init ==
    /\ file = [fields |-> NoField, uid |-> FALSE] /\ written = Blank
    /\ contact = NoField
    /\ said = [obsidian |-> NoField, google |-> NoField] /\ proj = NoField
    /\ pc = "idle" /\ seen = FALSE /\ draft = Blank
    /\ touched = {} /\ typed = {} /\ reedited = FALSE /\ forgot = FALSE
    /\ edits = 0 /\ updates = 0 /\ faults = 0

-----------------------------------------------------------------------------
(* The world. *)

(* The user sets or clears a field. *)
Edit(f, v) ==
    /\ edits < MaxEdits /\ edits' = edits + 1
    /\ pc \in EditAt
    /\ file.fields[f] # v
    /\ file' = [file EXCEPT !.fields[f] = v]
    /\ touched' = touched \cup {f}
    /\ typed' = IF v = Blank THEN typed \ {f} ELSE typed \cup {f}
    /\ reedited' = (reedited \/ file.uid)
    /\ UNCHANGED <<written, contact, said, proj, sync, forgot, updates, faults>>

(* The contact changes at Google. *)
Update(f, v) ==
    /\ updates < MaxUpdates /\ updates' = updates + 1
    /\ contact[f] # v
    /\ contact' = [contact EXCEPT ![f] = v]
    /\ UNCHANGED <<file, written, said, proj, sync, history, edits, faults>>

-----------------------------------------------------------------------------
(* run_sync. *)

(* Wrong on purpose: whatever is on disk is ingested. *)
FetchNoteAlways ==
    /\ pc = "idle"
    /\ seen' = TRUE
    /\ said' = [said EXCEPT !.obsidian = Observe(@, file.fields)]
    /\ pc' = "fetch"
    /\ UNCHANGED <<file, written, contact, proj, draft, history, counters>>

(* Wrong on purpose: a note with a uid counts as whodex's own writing. *)
FetchNoteUnlessKnown ==
    /\ pc = "idle"
    /\ seen' = ~file.uid
    /\ said' = IF seen' THEN [said EXCEPT !.obsidian = Observe(@, file.fields)] ELSE said
    /\ pc' = "fetch"
    /\ UNCHANGED <<file, written, contact, proj, draft, history, counters>>

(* ObsidianSource.fetch: echo suppression, else every value is observed. *)
FetchNote ==
    /\ pc = "idle"
    /\ seen' = (written # file)
    /\ said' = IF seen' THEN [said EXCEPT !.obsidian = Observe(@, file.fields)] ELSE said
    /\ pc' = "fetch"
    /\ UNCHANGED <<file, written, contact, proj, draft, history, counters>>

(* GoogleContacts.fetch *)
FetchContact ==
    /\ pc = "fetch"
    /\ said' = [said EXCEPT !.google = Observe(@, contact)]
    /\ pc' = "project"
    /\ UNCHANGED <<file, written, contact, proj, seen, draft, history, counters>>

(* reproject_and_persist *)
Reproject ==
    /\ pc = "project"
    /\ proj' = Winners(said)
    /\ pc' = "plan"
    /\ UNCHANGED <<file, written, contact, said, seen, draft, history, counters>>

(* Wrong on purpose: the projection is written over what is there. *)
FilledOver(note, values) ==
    [fields |-> Observe(note.fields, values), uid |-> TRUE]

(* plan_writeback: blank managed fields and a missing uid are filled. *)
Filled(note, values) ==
    [fields |-> [f \in Fields |-> IF note.fields[f] = Blank THEN values[f]
                                                           ELSE note.fields[f]],
     uid |-> TRUE]

(* write_back reads the note again, unless the scan left it out or nothing *)
(* is known to fill it with.                                               *)
PlanWriteback ==
    /\ pc = "plan"
    /\ seen /\ proj # NoField
    /\ Filled(file, proj) # file
    /\ draft' = Filled(file, proj)
    /\ pc' = "write"
    /\ UNCHANGED <<file, written, contact, said, proj, seen, history, counters>>

NothingToWrite ==
    /\ pc = "plan"
    /\ ~seen \/ proj = NoField \/ Filled(file, proj) = file
    /\ pc' = "idle" /\ seen' = FALSE
    /\ UNCHANGED <<file, written, contact, said, proj, draft, history, counters>>

(* full_path.write_text(result.new_text) *)
WriteText ==
    /\ pc = "write"
    /\ file' = draft
    /\ typed' = {f \in typed : draft.fields[f] = file.fields[f]}
    /\ pc' = "put"
    /\ UNCHANGED <<written, contact, said, proj, seen, draft, touched, reedited, forgot,
                   counters>>

(* Wrong on purpose: only the text of the filled fields is remembered. *)
PutFieldsOnly ==
    /\ pc = "put"
    /\ written' = draft.fields
    /\ pc' = "idle" /\ seen' = FALSE /\ draft' = Blank
    /\ UNCHANGED <<file, contact, said, proj, history, counters>>

(* state_store.put *)
PutState ==
    /\ pc = "put"
    /\ written' = draft
    /\ pc' = "idle" /\ seen' = FALSE /\ draft' = Blank
    /\ UNCHANGED <<file, contact, said, proj, history, counters>>

Crash ==
    /\ pc # "idle"
    /\ faults < MaxFaults /\ faults' = faults + 1
    /\ pc' = "idle" /\ seen' = FALSE /\ draft' = Blank
    /\ forgot' = (forgot \/ pc = "put")
    /\ UNCHANGED <<file, written, contact, said, proj, touched, typed, reedited,
                   edits, updates>>

Sync ==
    \/ FetchNote \/ FetchContact \/ Reproject
    \/ PlanWriteback \/ NothingToWrite \/ WriteText \/ PutState

User == \E f \in Fields, v \in Values \cup {Blank} : Edit(f, v)
Google == \E f \in Fields, v \in Values : Update(f, v)

Next == User \/ Google \/ Sync \/ Crash

Spec == Init /\ [][Next]_vars

(* The user, or a timer, keeps running syncs, and a sync runs to its end. *)
FairSpec == Spec /\ WF_vars(Sync)

-----------------------------------------------------------------------------
(* Properties. *)

(* Type invariant. *)
TypeOK ==
    /\ file \in Note /\ written \in Note \cup {Blank}
    /\ contact \in [Fields -> Values \cup {Blank}]
    /\ said \in [obsidian: [Fields -> Values \cup {Blank}],
                 google: [Fields -> Values \cup {Blank}]]
    /\ proj \in [Fields -> Values \cup {Blank}]
    /\ pc \in {"idle", "fetch", "project", "plan", "write", "put"}
    /\ seen \in BOOLEAN
    /\ draft \in Note \cup {Blank} /\ (pc \in {"write", "put"} => draft \in Note)
    /\ touched \subseteq Fields /\ typed \subseteq touched 
    /\ reedited \in BOOLEAN /\ forgot \in BOOLEAN
    /\ edits \in 0..MaxEdits /\ updates \in 0..MaxUpdates /\ faults \in 0..MaxFaults

(* "never overwrite a field whose current file value has not already been      *)
(* ingested": a value the user typed, before a sync or while it runs, goes     *)
(* from the file only by the user's hand, whatever crashes.  Needs the user    *)
(* not to save between write_back's read of the note and its write.            *)
NoClobber == [][\A f \in typed : file'.fields[f] # file.fields[f] => edits' # edits]_vars

(* Echo suppression: what whodex filled in comes back as the user's own word,  *)
(* at obsidian's trust, only if the user edits the note afterwards or a sync   *)
(* died between writing the note and remembering that it did.  A sync that     *)
(* dies anywhere else is no excuse.                                            *)
NoEcho ==
    (\E f \in Fields \ touched : said.obsidian[f] # Blank) => reedited \/ forgot

(* As long as that does not happen, a field the user never touched follows     *)
(* the Google contact.                                                         *)
FollowsGoogle ==
    \A f \in Fields, v \in Values :
        contact[f] = v
            ~> \/ proj[f] = v \/ contact[f] # v
               \/ f \in touched \/ reedited \/ forgot

(* What the user typed is observed by a later sync, unless the user changes it *)
(* again first, or the note is, byte for byte, what whodex wrote last.         *)
EditsAreRead ==
    \A f \in Fields, v \in Values :
        f \in typed /\ file.fields[f] = v
            ~> said.obsidian[f] = v \/ file.fields[f] # v \/ file = written

(* Fill-blank: what the ledger knows of a field reaches the note that lacks    *)
(* it, however late it is learned; a field the user cleared is no exception,   *)
(* its old value comes back.  Unless the note is what whodex wrote last: such  *)
(* a note is not fetched, and what is not fetched is not written.              *)
KnownIsFilled ==
    \A f \in Fields :
        Winners(said)[f] # Blank /\ file.fields[f] = Blank
            ~> file.fields[f] # Blank \/ file = written

(* "a manual Obsidian edit is not special-cased. It is simply an observation   *)
(* from source=obsidian", and "never overwrite a field whose current file      *)
(* value has not already been ingested as an observation": every value the     *)
(* user types is observed, or replaced by the user.                            *)
EveryEditIsRead ==
    \A f \in Fields, v \in Values :
        f \in typed /\ file.fields[f] = v
            ~> said.obsidian[f] = v \/ (f \in typed /\ file.fields[f] # v)
=============================================================================
