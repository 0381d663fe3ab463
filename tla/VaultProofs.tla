------------------------------ MODULE VaultProofs ------------------------------
(* Theorems about VaultSync, for every set of fields and values and any       *)
(* number of edits, updates and crashes.                                      *)
EXTENDS VaultSync, TLAPS

-----------------------------------------------------------------------------
(* Types. *)

Known == [Fields -> Values \cup {Blank}]

LEMMA FilledIsNote ==
    ASSUME NEW note \in Note, NEW values \in Known
    PROVE  /\ Filled(note, values) \in Note
           /\ Filled(note, values).uid = TRUE
           /\ \A f \in Fields :
                 note.fields[f] # Blank => Filled(note, values).fields[f] = note.fields[f]
<1>1. note.fields \in Known
  BY DEF Note, Known
<1> QED
  BY <1>1 DEF Filled, Note, Known

LEMMA TypesInit == Init => TypeOK
<1> SUFFICES ASSUME Init PROVE TypeOK
  OBVIOUS
<1>1. NoField \in Known
  BY DEF NoField, Known
<1>2. file \in Note /\ said \in [obsidian : Known, google : Known]
  BY <1>1 DEF Init, Note, Known
<1>3. edits \in 0..MaxEdits /\ updates \in 0..MaxUpdates /\ faults \in 0..MaxFaults
  BY VaultBounds DEF Init
<1> QED
  BY <1>1, <1>2, <1>3 DEF Init, TypeOK, Known

LEMMA TypesStep == TypeOK /\ [Next]_vars => TypeOK'
<1> SUFFICES ASSUME TypeOK, [Next]_vars PROVE TypeOK'
  OBVIOUS
<1>1. ASSUME NEW f \in Fields, NEW v \in Values \cup {Blank}, Edit(f, v) PROVE TypeOK'
  <2>1. file' \in Note
    BY <1>1 DEF TypeOK, Edit, Note
  <2>2. touched' \subseteq Fields /\ typed' \subseteq touched'
    BY <1>1 DEF TypeOK, Edit
  <2>3. edits' \in 0..MaxEdits
    BY <1>1, VaultBounds DEF TypeOK, Edit
  <2>4. reedited' \in BOOLEAN
    <3>1. reedited' = (reedited \/ file.uid) /\ reedited \in BOOLEAN /\ file.uid \in BOOLEAN
      BY <1>1 DEF TypeOK, Edit, Note
    <3> QED
      BY Zenon, <3>1
  <2> QED
    BY <1>1, <2>1, <2>2, <2>3, <2>4 DEF TypeOK, Edit, sync
<1>2. ASSUME NEW f \in Fields, NEW v \in Values, Update(f, v) PROVE TypeOK'
  BY <1>2, VaultBounds DEF TypeOK, Update, sync, history
<1>3. CASE FetchNote
  <2>1. file.fields \in Known /\ said.obsidian \in Known
    BY DEF TypeOK, Note, Known
  <2>2. Observe(said.obsidian, file.fields) \in Known
    BY <2>1 DEF Observe, Known
  <2>3. said' \in [obsidian : Known, google : Known]
    BY <1>3, <2>2 DEF TypeOK, FetchNote, Known
  <2>4. seen' \in BOOLEAN
    BY <1>3 DEF FetchNote
  <2> QED
    BY <1>3, <2>3, <2>4 DEF TypeOK, FetchNote, history, counters, Known
<1>4. CASE FetchContact
  <2>1. Observe(said.google, contact) \in Known
    BY DEF TypeOK, Observe, Known
  <2>2. said' \in [obsidian : Known, google : Known]
    BY <1>4, <2>1 DEF TypeOK, FetchContact, Known
  <2> QED
    BY <1>4, <2>2 DEF TypeOK, FetchContact, history, counters, Known
<1>5. CASE Reproject
  <2>1. Winners(said) \in Known
    BY DEF TypeOK, Winners, Known
  <2> QED
    BY <1>5, <2>1 DEF TypeOK, Reproject, history, counters, Known
<1>6. CASE PlanWriteback
  <2>1. Filled(file, proj) \in Note
    BY FilledIsNote DEF TypeOK, Known
  <2> QED
    BY <1>6, <2>1 DEF TypeOK, PlanWriteback, history, counters
<1>7. CASE NothingToWrite
  BY <1>7 DEF TypeOK, NothingToWrite, history, counters
<1>8. CASE WriteText
  BY <1>8 DEF TypeOK, WriteText, counters
<1>9. CASE PutState
  BY <1>9 DEF TypeOK, PutState, history, counters
<1>10. CASE Crash
  <2>1. faults' \in 0..MaxFaults
    BY <1>10, VaultBounds DEF TypeOK, Crash
  <2>2. pc' = "idle" /\ seen' = FALSE /\ draft' = Blank
    BY <1>10 DEF Crash
  <2>3. forgot' \in BOOLEAN
    <3>1. forgot' = (forgot \/ pc = "put")
      BY <1>10 DEF Crash
    <3> QED
      BY Zenon, <3>1
  <2> QED
    BY <1>10, <2>1, <2>2, <2>3 DEF TypeOK, Crash
<1>11. CASE UNCHANGED vars
  BY <1>11 DEF TypeOK, vars, sync, history, counters
<1> QED
  BY <1>1, <1>2, <1>3, <1>4, <1>5, <1>6, <1>7, <1>8, <1>9, <1>10, <1>11
  DEF Next, User, Google, Sync

(* The types of the vault: what a sync has planned to write is a note. *)
THEOREM VaultTypeCorrect == Spec => []TypeOK
  BY TypesInit, TypesStep, PTL DEF Spec

-----------------------------------------------------------------------------
(* What the user typed.  While a sync is about to write the note, the draft   *)
(* agrees with every field on disk that is not blank: nothing has touched the *)
(* note since it was planned.                                                 *)

DraftInv ==
    /\ \A f \in typed : file.fields[f] # Blank
    /\ pc = "write" => \A f \in typed : draft.fields[f] = file.fields[f]

LEMMA DraftStep ==
    ASSUME "write" \notin EditAt, TypeOK, DraftInv, [Next]_vars
    PROVE  DraftInv' /\ (\A f \in typed : file'.fields[f] # file.fields[f] => edits' # edits)
<1> DEFINE Kept == \A f \in typed : file'.fields[f] # file.fields[f] => edits' # edits
<1>1. ASSUME NEW f \in Fields, NEW v \in Values \cup {Blank}, Edit(f, v)
      PROVE  DraftInv' /\ Kept
  <2>1. edits' # edits
    BY <1>1, VaultBounds DEF TypeOK, Edit
  <2>2. pc' # "write"
    BY <1>1 DEF Edit, sync
  <2>3. ASSUME NEW g \in typed' PROVE file'.fields[g] # Blank
    <3>1. /\ file'.fields[f] = v
          /\ \A h \in Fields \ {f} : file'.fields[h] = file.fields[h]
      BY <1>1 DEF Edit, TypeOK, Note
    <3> QED
      BY <1>1, <2>3, <3>1 DEF Edit, DraftInv, TypeOK
  <2> QED
    BY <2>1, <2>2, <2>3 DEF DraftInv
<1>2. CASE Google
  BY <1>2 DEF Google, Update, DraftInv, sync, history
<1>3. CASE FetchNote \/ FetchContact \/ Reproject \/ NothingToWrite \/ PutState \/ Crash
  BY <1>3
  DEF FetchNote, FetchContact, Reproject, NothingToWrite, PutState, Crash, DraftInv, history
<1>4. CASE PlanWriteback
  <2>1. \A f \in typed : Filled(file, proj).fields[f] = file.fields[f]
    BY FilledIsNote DEF TypeOK, DraftInv, Known
  <2> QED
    BY <1>4, <2>1 DEF PlanWriteback, DraftInv, history
<1>5. CASE WriteText
  BY <1>5 DEF WriteText, DraftInv
<1>6. CASE UNCHANGED vars
  BY <1>6 DEF DraftInv, vars, sync, history
<1> QED
  BY <1>1, <1>2, <1>3, <1>4, <1>5, <1>6 DEF Next, User, Sync

(* Unless the user saves between write_back's read of the note and its write, *)
(* no value they typed leaves the file but by their hand, whatever crashes.   *)
THEOREM NothingTypedIsLost ==
    ASSUME "write" \notin EditAt
    PROVE  Spec => NoClobber
<1>1. Init => DraftInv
  BY DEF Init, DraftInv
<1>2. TypeOK /\ DraftInv /\ [Next]_vars
        => DraftInv' /\ [\A f \in typed : file'.fields[f] # file.fields[f] => edits' # edits]_vars
  BY DraftStep
<1> QED
  BY <1>1, <1>2, VaultTypeCorrect, PTL DEF Spec, NoClobber

-----------------------------------------------------------------------------
(* Echoes.  Until the user edits a note that whodex wrote, or a sync dies     *)
(* between writing the note and remembering it, a note with a uid is the one  *)
(* that whodex remembers, or is about to, and a note without one has nothing  *)
(* in it but what the user put there.  A death anywhere else keeps all of     *)
(* that: the note is as it was, and so is what whodex remembers of it.        *)

EchoInv ==
    ~reedited /\ ~forgot =>
        /\ \A f \in Fields \ touched : said.obsidian[f] = Blank
        /\ file.uid => written = file \/ pc = "put"
        /\ ~file.uid => \A f \in Fields \ touched : file.fields[f] = Blank
        /\ pc = "write" => draft.uid
        /\ pc = "put" => draft = file /\ file.uid

LEMMA EchoStep == TypeOK /\ EchoInv /\ [Next]_vars => EchoInv'
<1> SUFFICES ASSUME TypeOK, EchoInv, [Next]_vars, ~reedited', ~forgot' PROVE EchoInv'
  BY DEF EchoInv
<1>1. ASSUME NEW f \in Fields, NEW v \in Values \cup {Blank}, Edit(f, v) PROVE EchoInv'
  <2>1. ~reedited /\ ~file.uid /\ ~forgot
    BY <1>1 DEF Edit
  <2>2. /\ file'.uid = file.uid
        /\ \A h \in Fields \ {f} : file'.fields[h] = file.fields[h]
    BY <1>1 DEF Edit, TypeOK, Note
  <2> QED
    BY <1>1, <2>1, <2>2 DEF Edit, EchoInv, sync
<1>2. CASE Google
  BY <1>2 DEF Google, Update, EchoInv, sync, history
<1>3. CASE FetchNote
  <2>1. ~reedited /\ ~forgot
    BY <1>3 DEF FetchNote, history
  <2>2. pc # "put" /\ (seen' <=> written # file)
    BY <1>3 DEF FetchNote
  <2>3. ASSUME NEW f \in Fields \ touched PROVE said'.obsidian[f] = Blank
    <3>1. said.obsidian[f] = Blank
      BY <2>1 DEF EchoInv
    <3>2. CASE written = file
      BY <1>3, <2>2, <3>1, <3>2 DEF FetchNote
    <3>3. CASE written # file
      <4>1. file.fields[f] = Blank
        BY <2>1, <2>2, <3>3 DEF EchoInv
      <4>2. said'.obsidian = Observe(said.obsidian, file.fields)
        BY <1>3, <2>2, <3>3 DEF FetchNote, TypeOK
      <4> QED
        BY <3>1, <4>1, <4>2 DEF Observe
    <3> QED
      BY <3>2, <3>3
  <2> QED
    BY <1>3, <2>1, <2>2, <2>3 DEF FetchNote, EchoInv, history, counters
<1>4. CASE FetchContact
  <2>1. said'.obsidian = said.obsidian
    BY <1>4 DEF FetchContact, TypeOK
  <2> QED
    BY <1>4, <2>1 DEF FetchContact, EchoInv, history, counters
<1>5. CASE Reproject \/ NothingToWrite \/ PutState
  BY <1>5 DEF Reproject, NothingToWrite, PutState, EchoInv, history, counters
<1>6. CASE PlanWriteback
  <2>1. draft'.uid
    BY <1>6, FilledIsNote DEF PlanWriteback, TypeOK, Known
  <2> QED
    BY <1>6, <2>1 DEF PlanWriteback, EchoInv, history, counters
<1>7. CASE WriteText
  BY <1>7 DEF WriteText, EchoInv, counters
<1>8. CASE Crash
  <2>1. ~reedited /\ ~forgot /\ pc # "put"
    BY <1>8 DEF Crash
  <2> QED
    BY <1>8, <2>1 DEF Crash, EchoInv
<1>9. CASE UNCHANGED vars
  BY <1>9 DEF EchoInv, vars, sync, history, counters
<1> QED
  BY <1>1, <1>2, <1>3, <1>4, <1>5, <1>6, <1>7, <1>8, <1>9 DEF Next, User, Sync

(* What whodex filled in comes back as the user's own word only after an edit *)
(* of the note it wrote, or after a sync that died between writing the note   *)
(* and remembering that it did; whatever else crashes, and however often.     *)
THEOREM EchoesOnlyAfterEditOrForgetting == Spec => []NoEcho
<1>1. Init => EchoInv
  BY DEF Init, EchoInv, NoField
<1>2. TypeOK /\ EchoInv => NoEcho
  BY DEF EchoInv, NoEcho
<1> QED
  BY <1>1, <1>2, EchoStep, VaultTypeCorrect, PTL DEF Spec

=============================================================================
