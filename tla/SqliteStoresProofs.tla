--------------------------- MODULE SqliteStoresProofs ---------------------------
(***************************************************************************)
(* Proofs about SqliteStores, for any processes, fingerprints, ids,        *)
(* notifications and sinks.                                                *)
(***************************************************************************)
EXTENDS SqliteStores, TLAPS

-----------------------------------------------------------------------------
(* Types. *)

StoresTypeOK ==
    /\ table \subseteq Rows
    /\ DOMAIN delivered \subseteq Notes
    /\ delivered \in [DOMAIN delivered -> SUBSET Sinks]
    /\ pc \in [Calls -> {"idle", "review", "replace", "mark"}]
    /\ shown \in [Calls -> SUBSET Rows]
    /\ old \in [Calls -> SUBSET Ids] /\ new \in [Calls -> SUBSET Rows]
    /\ mark \in [Calls -> Marks \cup {NoMark}]
    /\ \A p \in Calls : pc[p] = "mark" => mark[p] \in Marks /\ mark[p][1] \in DOMAIN delivered
    /\ stale \in [Calls -> BOOLEAN] /\ overtaken \in BOOLEAN /\ failed \in BOOLEAN

(* The overlay gives rows for rows: it changes nothing but their status. *)
LEMMA KeptIsStatus ==
    ASSUME NEW x \in Rows, NEW E \in SUBSET Rows, NEW verdict \in SUBSET Prints
    PROVE  Kept(x, E, verdict) \in Statuses
<1>1. CASE \E r \in E : r.fp = x.fp /\ r.status # "open"
  <2>1. (CHOOSE r \in E : r.fp = x.fp) \in E
    BY <1>1
  <2>. QED  BY <1>1, <2>1 DEF Kept, Rows
<1>2. CASE ~\E r \in E : r.fp = x.fp /\ r.status # "open"
  BY <1>2 DEF Kept, Rows, Statuses
<1>. QED  BY <1>1, <1>2

LEMMA OverlaidRows ==
    ASSUME NEW S \in SUBSET Rows, NEW E \in SUBSET Rows, NEW verdict \in SUBSET Prints
    PROVE  /\ Overlaid(S, E, verdict) \subseteq Rows
           /\ \A x \in S : \E o \in Overlaid(S, E, verdict) :
                 o.id = x.id /\ o.fp = x.fp /\ o.status = Kept(x, E, verdict)
           /\ \A o \in Overlaid(S, E, verdict) : \E x \in S :
                 o = [x EXCEPT !.status = Kept(x, E, verdict)]
<1>1. ASSUME NEW x \in S
      PROVE  /\ [x EXCEPT !.status = Kept(x, E, verdict)] \in Rows
             /\ [x EXCEPT !.status = Kept(x, E, verdict)].id = x.id
             /\ [x EXCEPT !.status = Kept(x, E, verdict)].fp = x.fp
             /\ [x EXCEPT !.status = Kept(x, E, verdict)].status = Kept(x, E, verdict)
  BY KeptIsStatus DEF Rows
<1>. QED  BY <1>1 DEF Overlaid

LEMMA PrepareKeepsTypes ==
    ASSUME StoresTypeOK, NEW p \in Calls, NEW S \in SUBSET Rows, NEW verdict \in SUBSET Prints,
           Prepare(p, S, verdict)
    PROVE  /\ old' \in [Calls -> SUBSET Ids] /\ new' \in [Calls -> SUBSET Rows]
           /\ pc' \in [Calls -> {"idle", "review", "replace", "mark"}]
           /\ pc'[p] = "replace" /\ \A q \in Calls : q # p => pc'[q] = pc[q]
<1>1. PICK existing \in Existing(table) :
         /\ old' = [old EXCEPT ![p] = IdsOf(existing)]
         /\ new' = [new EXCEPT ![p] = Overlaid(S, existing, verdict)]
         /\ pc' = [pc EXCEPT ![p] = "replace"]
  BY DEF Prepare, Goto
<1>2. existing \in SUBSET Rows
  BY DEF Existing, StoresTypeOK
<1>3. IdsOf(existing) \subseteq Ids
  BY <1>2 DEF IdsOf, Rows
<1>4. Overlaid(S, existing, verdict) \subseteq Rows
  BY <1>2, OverlaidRows
<1>. QED  BY <1>1, <1>3, <1>4 DEF StoresTypeOK

LEMMA SnapshotRows == ASSUME NEW S \in Snapshots PROVE S \in SUBSET Rows
BY DEF Snapshots, Rows, Statuses

(* Type correctness: each store and each call holds what its code puts there; in *)
(* particular what mark_delivered is about to write is of a row that is there.   *)
THEOREM StoresTypeCorrect == Spec => []StoresTypeOK
<1>1. Init => StoresTypeOK
  BY DEF Init, StoresTypeOK, Rows
<1>2. ASSUME StoresTypeOK, [Next]_vars PROVE StoresTypeOK'
  <2>. USE <1>2
  <2>1. CASE UNCHANGED vars
    BY <2>1 DEF StoresTypeOK, vars, stores, memory, history
  <2>2. ASSUME NEW n \in Notes, AppendNotification(n) PROVE StoresTypeOK'
    BY <2>2 DEF StoresTypeOK, AppendNotification, memory, history
  <2>3. ASSUME NEW p \in Calls, NEW S \in Snapshots, NEW verdict \in SUBSET Prints,
               SelectExisting(p, S, verdict)
        PROVE  StoresTypeOK'
    BY <2>3, SnapshotRows, PrepareKeepsTypes DEF StoresTypeOK, SelectExisting, stores, history
  <2>4. ASSUME NEW p \in Calls, NEW r \in table, ReadRepairs(p, r) PROVE StoresTypeOK'
    <3>1. (table \ {r}) \cup {[r EXCEPT !.status = "resolved"]} \in SUBSET Rows
      BY DEF StoresTypeOK, Rows, Statuses
    <3>. QED  BY <2>4, <3>1 DEF StoresTypeOK, ReadRepairs, Goto, stores, history
  <2>5. ASSUME NEW p \in Calls, NEW n \in Notes, NEW sink \in Sinks, GetNotification(p, n, sink)
        PROVE  StoresTypeOK'
    <3>1. <<n, delivered[n] \cup {sink}>> \in Marks
      BY <2>5 DEF StoresTypeOK, GetNotification, Marks
    <3>2. <<n, delivered[n] \cup {sink}>>[1] = n
      OBVIOUS
    <3>. QED  BY <2>5, <3>1, <3>2 DEF StoresTypeOK, GetNotification, Goto, stores, history
  <2>6. ASSUME NEW p \in Calls, SelectForReview(p) PROVE StoresTypeOK'
    <3>1. shown[p] \in SUBSET Rows
      BY DEF StoresTypeOK
    <3>2. Prepare(p, shown[p], {}) /\ {} \in SUBSET Prints
      BY <2>6 DEF SelectForReview
    <3>3. /\ old' \in [Calls -> SUBSET Ids] /\ new' \in [Calls -> SUBSET Rows]
          /\ pc' \in [Calls -> {"idle", "review", "replace", "mark"}]
          /\ pc'[p] = "replace" /\ \A q \in Calls : q # p => pc'[q] = pc[q]
      BY <3>1, <3>2, PrepareKeepsTypes
    <3>. QED  BY <2>6, <3>3 DEF StoresTypeOK, SelectForReview, stores, history
  <2>7. ASSUME NEW p \in Calls, Replace(p) PROVE StoresTypeOK'
    BY <2>7 DEF StoresTypeOK, Replace, Overtake, Return, Goto
  <2>8. ASSUME NEW p \in Calls, ReplaceFails(p) PROVE StoresTypeOK'
    BY <2>8 DEF StoresTypeOK, ReplaceFails, Return, Goto, stores
  <2>9. ASSUME NEW p \in Calls, MarkDelivered(p) PROVE StoresTypeOK'
    <3>1. mark[p] \in Notes \X SUBSET Sinks /\ mark[p][1] \in DOMAIN delivered
      BY <2>9 DEF StoresTypeOK, MarkDelivered, Marks
    <3>2. delivered' = [delivered EXCEPT ![mark[p][1]] = mark[p][2]]
      BY <2>9 DEF MarkDelivered
    <3>3. /\ DOMAIN delivered' = DOMAIN delivered
          /\ delivered' \in [DOMAIN delivered -> SUBSET Sinks]
      BY <3>1, <3>2 DEF StoresTypeOK
    <3>. QED  BY <2>9, <3>3 DEF StoresTypeOK, MarkDelivered, Overtake, Return, Goto
  <2>10. ASSUME NEW p \in Calls, Abort(p) PROVE StoresTypeOK'
    BY <2>10 DEF StoresTypeOK, Abort, Return, Goto, stores
  <2>. QED
    BY <2>1, <2>2, <2>3, <2>4, <2>5, <2>6, <2>7, <2>8, <2>9, <2>10 DEF Next
<1>. QED  BY <1>1, <1>2, PTL DEF Spec

-----------------------------------------------------------------------------
(* Calls that are kept apart. *)

(* A table that is as the in-memory store has it: one row for a fingerprint. *)
Clean(S) == DistinctIds(S) /\ DistinctPrints(S)

(* New rows that are the overlay over the rows T of some clean snapshot. *)
Current(rows, T) ==
    \E S \in SUBSET Rows, verdict \in SUBSET Prints :
        Clean(S) /\ rows = Overlaid(S, T, verdict)

(* What a call that is not stale has read is what is there. *)
Reading(p) ==
    /\ pc[p] = "review" => Clean(shown[p])
    /\ pc[p] = "replace" /\ ~stale[p] => old[p] = IdsOf(table) /\ Current(new[p], table)
    /\ pc[p] = "mark" /\ ~stale[p] =>
          \E sink \in Sinks : mark[p][2] = delivered[mark[p][1]] \cup {sink}

ApartInv == ~overtaken => ~failed /\ Clean(table) /\ \A p \in Calls : Reading(p)

(* Of a table with one row for each fingerprint, the dict has every row. *)
LEMMA ExistingIsAll ==
    ASSUME NEW S, DistinctPrints(S), NEW E \in Existing(S)
    PROVE  E = S
<1>1. ASSUME NEW r \in S PROVE r \in E
  <2>1. r.fp \in PrintsOf(E)
    BY <1>1 DEF Existing, PrintsOf
  <2>2. PICK e \in E : e.fp = r.fp
    BY <2>1 DEF PrintsOf
  <2>. QED  BY <2>2 DEF Existing, DistinctPrints
<1>. QED  BY <1>1 DEF Existing

(* The overlay keeps ids and fingerprints. *)
LEMMA OverlaidClean ==
    ASSUME NEW S \in SUBSET Rows, Clean(S), NEW E \in SUBSET Rows, NEW verdict \in SUBSET Prints
    PROVE  /\ Clean(Overlaid(S, E, verdict))
           /\ IdsOf(Overlaid(S, E, verdict)) = IdsOf(S)
           /\ PrintsOf(Overlaid(S, E, verdict)) = PrintsOf(S)
<1>. DEFINE O == Overlaid(S, E, verdict)
            Over(x) == [x EXCEPT !.status = Kept(x, E, verdict)]
<1>1. \A x \in S : Over(x).id = x.id /\ Over(x).fp = x.fp
  BY DEF Rows
<1>2. O = {Over(x) : x \in S}
  BY DEF Overlaid
<1>3. DistinctIds(O) /\ DistinctPrints(O)
  <2>. HIDE DEF Over, O
  <2>. QED  BY <1>1, <1>2 DEF Clean, DistinctIds, DistinctPrints
<1>4. IdsOf(O) = IdsOf(S) /\ PrintsOf(O) = PrintsOf(S)
  <2>. HIDE DEF Over, O
  <2>. QED  BY <1>1, <1>2 DEF IdsOf, PrintsOf
<1>. QED  BY <1>3, <1>4 DEF Clean

(* The SELECT of a call on a clean table: what it prepares is current. *)
LEMMA PrepareReads ==
    ASSUME StoresTypeOK, Clean(table), NEW p \in Calls,
           NEW S \in SUBSET Rows, Clean(S), NEW verdict \in SUBSET Prints,
           Prepare(p, S, verdict)
    PROVE  old'[p] = IdsOf(table) /\ new'[p] = Overlaid(S, table, verdict)
<1>1. PICK existing \in Existing(table) :
         /\ old' = [old EXCEPT ![p] = IdsOf(existing)]
         /\ new' = [new EXCEPT ![p] = Overlaid(S, existing, verdict)]
  BY DEF Prepare
<1>2. existing = table
  BY <1>1, ExistingIsAll DEF Clean
<1>. QED  BY <1>1, <1>2 DEF StoresTypeOK

(* Whatever leaves the table and the notifications alone leaves what q has read. *)
LEMMA ReadingKept ==
    ASSUME NEW q \in Calls, Reading(q), UNCHANGED table,
           pc'[q] = pc[q], shown'[q] = shown[q], old'[q] = old[q], new'[q] = new[q],
           mark'[q] = mark[q], stale[q] => stale'[q],
           pc[q] = "mark" /\ ~stale[q] => delivered'[mark[q][1]] = delivered[mark[q][1]]
    PROVE  Reading(q)'
BY DEF Reading

(* A call that is done has read nothing. *)
LEMMA ReadingDone ==
    ASSUME StoresTypeOK, NEW p \in Calls, Return(p)
    PROVE  /\ Reading(p)'
           /\ \A q \in Calls : q # p =>
                 /\ pc'[q] = pc[q] /\ shown'[q] = shown[q] /\ old'[q] = old[q]
                 /\ new'[q] = new[q] /\ mark'[q] = mark[q]
<1>1. pc'[p] = "idle"
  BY DEF Return, Goto, StoresTypeOK
<1>. QED  BY <1>1 DEF Return, Goto, Reading, StoresTypeOK

LEMMA SnapshotClean == ASSUME NEW S \in Snapshots PROVE Clean(S)
BY DEF Snapshots, Clean

(* A call that is not stale is not refused: the rows to delete are those there. *)
LEMMA NotRefused ==
    ASSUME NEW p \in Calls, Reading(p), pc[p] = "replace", ~stale[p]
    PROVE  ~Refused(p)
BY DEF Reading, Refused

(* While no call has written after another had committed since its SELECT: one row *)
(* for each fingerprint, nothing was refused, and what any call is about to write  *)
(* is computed from the table as it is, unless it is stale, so that its write will *)
(* count as overtaking.                                                            *)
THEOREM CallsKeptApart == Spec => []ApartInv
<1>1. Init => ApartInv
  BY DEF Init, ApartInv, Clean, DistinctIds, DistinctPrints, Reading
<1>2. ASSUME StoresTypeOK, ApartInv, [Next]_vars PROVE ApartInv'
  <2>. SUFFICES ASSUME ~overtaken'
                PROVE  ~failed' /\ Clean(table)' /\ \A q \in Calls : Reading(q)'
    BY DEF ApartInv
  <2>. USE <1>2
  <2>1. CASE UNCHANGED vars
    <3>1. ~failed /\ Clean(table) /\ \A q \in Calls : Reading(q)
      BY <2>1 DEF ApartInv, vars, history
    <3>. QED  BY <2>1, <3>1, ReadingKept DEF vars, stores, memory, history
  <2>2. ASSUME NEW n \in Notes, AppendNotification(n)
        PROVE  ~failed' /\ Clean(table)' /\ \A q \in Calls : Reading(q)'
    <3>1. ~failed /\ Clean(table) /\ \A q \in Calls : Reading(q)
      BY <2>2 DEF ApartInv, AppendNotification, history
    <3>2. \A q \in Calls : pc[q] = "mark" => delivered'[mark[q][1]] = delivered[mark[q][1]]
      BY <2>2 DEF AppendNotification, StoresTypeOK
    <3>. QED  BY <2>2, <3>1, <3>2, ReadingKept
              DEF AppendNotification, memory, history
  <2>3. ASSUME NEW p \in Calls, NEW S \in SUBSET Rows, NEW verdict \in SUBSET Prints,
               ~overtaken => Clean(S), Prepare(p, S, verdict),
               UNCHANGED <<stores, mark, history>>,
               \A q \in Calls : q # p => shown'[q] = shown[q]
        PROVE  ~failed' /\ Clean(table)' /\ \A q \in Calls : Reading(q)'
    <3>1. ~failed /\ Clean(table) /\ (\A q \in Calls : Reading(q)) /\ Clean(S)
      BY <2>3 DEF ApartInv, history
    <3>2. pc'[p] = "replace" /\ \A q \in Calls : q # p => pc'[q] = pc[q]
      BY <2>3, PrepareKeepsTypes
    <3>3. Clean(table)'
      BY <2>3, <3>1 DEF stores
    <3>4. Reading(p)'
      <4>1. old'[p] = IdsOf(table) /\ new'[p] = Overlaid(S, table, verdict)
        BY <2>3, <3>1, PrepareReads
      <4>2. table' = table
        BY <2>3 DEF stores
      <4>3. Current(new'[p], table)
        BY <3>1, <4>1 DEF Current
      <4>. QED  BY <3>2, <4>1, <4>2, <4>3 DEF Reading, IdsOf
    <3>5. ASSUME NEW q \in Calls, q # p PROVE Reading(q)'
      <4>1. old'[q] = old[q] /\ new'[q] = new[q]
        BY <2>3, <3>5 DEF Prepare, StoresTypeOK
      <4>. QED  BY <2>3, <3>1, <3>2, <3>5, <4>1, ReadingKept DEF stores, history
    <3>. QED  BY <2>3, <3>1, <3>3, <3>4, <3>5 DEF history
  <2>4. ASSUME NEW p \in Calls, NEW S \in Snapshots, NEW verdict \in SUBSET Prints,
               SelectExisting(p, S, verdict)
        PROVE  ~failed' /\ Clean(table)' /\ \A q \in Calls : Reading(q)'
    BY <2>3, <2>4, SnapshotRows, SnapshotClean DEF SelectExisting
  <2>5. ASSUME NEW p \in Calls, NEW r \in table, ReadRepairs(p, r)
        PROVE  ~failed' /\ Clean(table)' /\ \A q \in Calls : Reading(q)'
    <3>1. ~failed /\ Clean(table) /\ \A q \in Calls : Reading(q)
      BY <2>5 DEF ApartInv, ReadRepairs, history
    <3>2. Clean((table \ {r}) \cup {[r EXCEPT !.status = "resolved"]})
      <4>1. [r EXCEPT !.status = "resolved"].id = r.id /\ [r EXCEPT !.status = "resolved"].fp = r.fp
        BY DEF StoresTypeOK, Rows
      <4>. DEFINE s == [r EXCEPT !.status = "resolved"]
      <4>. HIDE DEF s
      <4>2. s.id = r.id /\ s.fp = r.fp
        BY <4>1 DEF s
      <4>3. Clean((table \ {r}) \cup {s})
        BY <3>1, <4>2 DEF Clean, DistinctIds, DistinctPrints
      <4>. QED  BY <4>3 DEF s
    <3>3. Reading(p)'
      <4>1. pc'[p] = "review" /\ Clean(shown'[p])
        BY <2>5, <3>2 DEF ReadRepairs, Goto, StoresTypeOK
      <4>. QED  BY <4>1 DEF Reading
    <3>4. ASSUME NEW q \in Calls, q # p PROVE Reading(q)'
      <4>1. pc'[q] = pc[q] /\ shown'[q] = shown[q]
        BY <2>5, <3>4 DEF ReadRepairs, Goto, StoresTypeOK
      <4>. QED  BY <2>5, <3>1, <3>4, <4>1, ReadingKept DEF ReadRepairs, stores, history
    <3>. QED  BY <2>5, <3>1, <3>3, <3>4
              DEF ReadRepairs, stores, history
  <2>6. ASSUME NEW p \in Calls, NEW n \in Notes, NEW sink \in Sinks, GetNotification(p, n, sink)
        PROVE  ~failed' /\ Clean(table)' /\ \A q \in Calls : Reading(q)'
    <3>1. ~failed /\ Clean(table) /\ \A q \in Calls : Reading(q)
      BY <2>6 DEF ApartInv, GetNotification, history
    <3>2. Reading(p)'
      <4>1. pc'[p] = "mark" /\ mark'[p] = <<n, delivered[n] \cup {sink}>>
        BY <2>6 DEF GetNotification, Goto, StoresTypeOK
      <4>. QED  BY <2>6, <4>1 DEF Reading, GetNotification, stores
    <3>3. ASSUME NEW q \in Calls, q # p PROVE Reading(q)'
      <4>1. pc'[q] = pc[q] /\ mark'[q] = mark[q]
        BY <2>6, <3>3 DEF GetNotification, Goto, StoresTypeOK
      <4>. QED  BY <2>6, <3>1, <3>3, <4>1, ReadingKept DEF GetNotification, stores, history
    <3>. QED  BY <2>6, <3>1, <3>2, <3>3
              DEF GetNotification, stores, history
  <2>7. ASSUME NEW p \in Calls, SelectForReview(p)
        PROVE  ~failed' /\ Clean(table)' /\ \A q \in Calls : Reading(q)'
    <3>1. shown[p] \in SUBSET Rows /\ {} \in SUBSET Prints
      BY DEF StoresTypeOK
    <3>2. ~overtaken => Clean(shown[p])
      BY <2>7 DEF ApartInv, Reading, SelectForReview
    <3>3. \A q \in Calls : q # p => shown'[q] = shown[q]
      BY <2>7 DEF SelectForReview, StoresTypeOK
    <3>. QED  BY <2>3, <2>7, <3>1, <3>2, <3>3 DEF SelectForReview
  <2>8. ASSUME NEW p \in Calls, Replace(p)
        PROVE  ~failed' /\ Clean(table)' /\ \A q \in Calls : Reading(q)'
    <3>1. ~overtaken /\ ~stale[p]
      BY <2>8 DEF Replace, Overtake, StoresTypeOK
    <3>2. ~failed /\ Clean(table) /\ \A q \in Calls : Reading(q)
      BY <3>1 DEF ApartInv
    <3>3. table' = new[p]
      BY <2>8, <3>1, <3>2 DEF Replace, Reading, IdsOf
    <3>4. Clean(new[p])
      BY <2>8, <3>1, <3>2, OverlaidClean DEF Replace, Reading, Current, StoresTypeOK
    <3>5. Clean(table)'
      BY <3>3, <3>4
    <3>6. ASSUME NEW q \in Calls, q # p PROVE Reading(q)'
      <4>1. /\ pc'[q] = pc[q] /\ shown'[q] = shown[q] /\ old'[q] = old[q]
            /\ new'[q] = new[q] /\ mark'[q] = mark[q]
        BY <2>8, <3>6, ReadingDone DEF Replace
      <4>2. pc[q] = "replace" => stale'[q]
        BY <2>8, <3>6 DEF Replace, Overtake, StoresTypeOK
      <4>3. stale[q] => stale'[q]
        BY <2>8, <3>6 DEF Replace, Overtake, StoresTypeOK
      <4>4. Reading(q)
        BY <3>2
      <4>5. delivered' = delivered
        BY <2>8 DEF Replace
      <4>. QED  BY <4>1, <4>2, <4>3, <4>4, <4>5
                DEF Reading
    <3>7. Reading(p)'
      BY <2>8, ReadingDone DEF Replace
    <3>. QED  BY <2>8, <3>2, <3>5, <3>6, <3>7 DEF Replace
  <2>9. ASSUME NEW p \in Calls, ReplaceFails(p)
        PROVE  ~failed' /\ Clean(table)' /\ \A q \in Calls : Reading(q)'
    <3>1. ~overtaken /\ ~stale[p] /\ pc[p] = "replace" /\ Refused(p)
      BY <2>9 DEF ReplaceFails, StoresTypeOK
    <3>2. Reading(p)
      BY <3>1 DEF ApartInv
    <3>. QED  BY <3>1, <3>2, NotRefused
  <2>10. ASSUME NEW p \in Calls, MarkDelivered(p)
         PROVE  ~failed' /\ Clean(table)' /\ \A q \in Calls : Reading(q)'
    <3>1. ~overtaken /\ ~failed /\ Clean(table) /\ \A q \in Calls : Reading(q)
      BY <2>10 DEF ApartInv, MarkDelivered, Overtake, StoresTypeOK
    <3>2. ASSUME NEW q \in Calls, q # p PROVE Reading(q)'
      <4>1. /\ pc'[q] = pc[q] /\ shown'[q] = shown[q] /\ old'[q] = old[q]
            /\ new'[q] = new[q] /\ mark'[q] = mark[q]
        BY <2>10, <3>2, ReadingDone DEF MarkDelivered
      <4>2. pc[q] = "mark" => stale'[q]
        BY <2>10, <3>2 DEF MarkDelivered, Overtake, StoresTypeOK
      <4>3. stale[q] => stale'[q]
        BY <2>10, <3>2 DEF MarkDelivered, Overtake, StoresTypeOK
      <4>4. Reading(q)
        BY <3>1
      <4>5. table' = table
        BY <2>10 DEF MarkDelivered
      <4>. QED  BY <4>1, <4>2, <4>3, <4>4, <4>5
                DEF Reading
    <3>3. Reading(p)'
      BY <2>10, ReadingDone DEF MarkDelivered
    <3>. QED  BY <2>10, <3>1, <3>2, <3>3
              DEF MarkDelivered
  <2>11. ASSUME NEW p \in Calls, Abort(p)
         PROVE  ~failed' /\ Clean(table)' /\ \A q \in Calls : Reading(q)'
    <3>1. ~failed /\ Clean(table) /\ \A q \in Calls : Reading(q)
      BY <2>11 DEF ApartInv, Abort
    <3>2. ASSUME NEW q \in Calls, q # p PROVE Reading(q)'
      <4>1. stale'[q] = stale[q]
        BY <2>11, <3>2 DEF Abort, StoresTypeOK
      <4>. QED  BY <2>11, <3>1, <3>2, <4>1, ReadingKept, ReadingDone DEF Abort, stores
    <3>3. Reading(p)'
      BY <2>11, ReadingDone DEF Abort
    <3>. QED  BY <2>11, <3>1, <3>2, <3>3
              DEF Abort, stores
  <2>. QED
    BY <2>1, <2>2, <2>4, <2>5, <2>6, <2>7, <2>8, <2>9, <2>10, <2>11 DEF Next
<1>. QED  BY <1>1, <1>2, StoresTypeCorrect, PTL DEF Spec

(* A write is refused only after a call was overtaken. *)
THEOREM FailuresNeedOverlap == Spec => []FailsOnlyIfOvertaken
<1>1. ApartInv => FailsOnlyIfOvertaken
  BY DEF ApartInv, FailsOnlyIfOvertaken
<1>. QED  BY <1>1, CallsKeptApart, PTL

-----------------------------------------------------------------------------
(* The refinement. *)

(* In a clean table, the row chosen for a fingerprint is the one that has it. *)
LEMMA TheRow ==
    ASSUME NEW T, DistinctPrints(T), NEW r \in T
    PROVE  (CHOOSE x \in T : x.fp = r.fp) = r
<1>1. (CHOOSE x \in T : x.fp = r.fp) \in T /\ (CHOOSE x \in T : x.fp = r.fp).fp = r.fp
  OBVIOUS
<1>. QED  BY <1>1 DEF DistinctPrints

LEMMA RefinementInit == Init => MemoryStores!Init
<1>1. ASSUME Init PROVE State = [f \in {} |-> "open"]
  BY <1>1 DEF Init, State, PrintsOf
<1>. QED  BY <1>1 DEF Init, MemoryStores!Init

(* The new rows, as a table of the in-memory store. *)
AsItems(S) == [f \in PrintsOf(S) |-> (CHOOSE r \in S : r.fp = f).status]

LEMMA ItemsAreATable ==
    ASSUME NEW S \in SUBSET Rows
    PROVE  AsItems(S) \in MemoryStores!Tables
<1>1. PrintsOf(S) \in SUBSET Prints
  BY DEF PrintsOf, Rows
<1>2. ASSUME NEW f \in PrintsOf(S) PROVE (CHOOSE r \in S : r.fp = f).status \in Statuses
  <2>1. PICK x \in S : x.fp = f
    BY <1>2 DEF PrintsOf
  <2>2. (CHOOSE r \in S : r.fp = f) \in S
    BY <2>1
  <2>. QED  BY <2>2 DEF Rows
<1>3. AsItems(S) \in [PrintsOf(S) -> MemoryStores!Statuses]
  BY <1>2 DEF AsItems, Statuses, MemoryStores!Statuses
<1>. QED  BY <1>1, <1>3 DEF MemoryStores!Tables

(* A write whose rows are current is one Replace of the in-memory store. *)
LEMMA ReplaceIsReplace ==
    ASSUME table \in SUBSET Rows, Clean(table), NEW S \in SUBSET Rows, Clean(S),
           NEW verdict \in SUBSET Prints, table' = Overlaid(S, table, verdict),
           UNCHANGED delivered
    PROVE  MemoryStores!Replace(AsItems(S), verdict)
<1>. DEFINE O == Overlaid(S, table, verdict)
<1>1. PrintsOf(O) = PrintsOf(S) /\ DistinctPrints(O)
  BY OverlaidClean DEF Clean
<1>2. DOMAIN State' = PrintsOf(S) /\ DOMAIN AsItems(S) = PrintsOf(S)
  BY <1>1 DEF State, AsItems
<1>3. ASSUME NEW f \in PrintsOf(S)
      PROVE  State'[f] = MemoryStores!Kept(f, AsItems(S)[f], verdict)
  <2>1. PICK x \in S : x.fp = f
    BY <1>3 DEF PrintsOf
  <2>2. PICK o \in O : o.fp = x.fp /\ o.status = Kept(x, table, verdict)
    BY OverlaidRows
  <2>3. State'[f] = o.status
    <3>1. (CHOOSE r \in O : r.fp = o.fp) = o
      BY <1>1, TheRow
    <3>2. State'[f] = (CHOOSE r \in O : r.fp = f).status
      BY <1>1, <1>3 DEF State
    <3>. QED  BY <2>1, <2>2, <3>1, <3>2
  <2>4. AsItems(S)[f] = x.status
    <3>1. (CHOOSE r \in S : r.fp = x.fp) = x
      BY TheRow DEF Clean
    <3>. QED  BY <1>3, <2>1, <3>1 DEF AsItems
  <2>5. CASE f \in PrintsOf(table)
    <3>1. PICK t \in table : t.fp = f
      BY <2>5 DEF PrintsOf
    <3>2. \A r \in table : r.fp = f => r = t
      BY <3>1 DEF Clean, DistinctPrints
    <3>3. (CHOOSE r \in table : r.fp = f) = t
      BY <3>1, TheRow DEF Clean
    <3>4. State[f] = t.status /\ f \in DOMAIN State
      BY <2>5, <3>3 DEF State
    <3>. QED
      BY <2>1, <2>2, <2>3, <2>4, <3>1, <3>2, <3>3, <3>4 DEF Kept, MemoryStores!Kept
  <2>6. CASE f \notin PrintsOf(table)
    <3>1. ~\E r \in table : r.fp = f
      BY <2>6 DEF PrintsOf
    <3>2. f \notin DOMAIN State
      BY <2>6 DEF State
    <3>. QED
      BY <2>1, <2>2, <2>3, <2>4, <3>1, <3>2 DEF Kept, MemoryStores!Kept
  <2>. QED  BY <2>5, <2>6
<1>4. State' = [f \in DOMAIN State' |-> State'[f]]
  BY DEF State
<1>5. State' = [f \in DOMAIN AsItems(S) |-> MemoryStores!Kept(f, AsItems(S)[f], verdict)]
  <2>. HIDE DEF O
  <2>. QED  BY <1>2, <1>3, <1>4
<1>. QED  BY <1>5 DEF MemoryStores!Replace

LEMMA RefinementStep ==
    ASSUME StoresTypeOK, ApartInv, [Next]_vars
    PROVE  [MemoryStores!Next]_MemoryStores!vars
<1>1. CASE overtaken'
  BY <1>1 DEF MemoryStores!Next
<1>2. CASE ~overtaken'
  <2>. USE <1>2
  <2>1. SUFFICES ~overtaken /\ (MemoryStores!Call \/ UNCHANGED <<State, delivered>>)
    BY DEF MemoryStores!Next
  <2>2. CASE UNCHANGED vars
    BY <2>2 DEF vars, stores, history, State
  <2>3. ASSUME NEW n \in Notes, AppendNotification(n)
        PROVE  ~overtaken /\ MemoryStores!Call
    BY <2>3 DEF AppendNotification, history, State, MemoryStores!Call,
                MemoryStores!AppendNotification
  <2>4. ASSUME NEW p \in Calls,
               \/ \E S \in Snapshots, verdict \in SUBSET Prints : SelectExisting(p, S, verdict)
               \/ \E r \in table : ReadRepairs(p, r)
               \/ \E n \in Notes, sink \in Sinks : GetNotification(p, n, sink)
               \/ SelectForReview(p)
               \/ Abort(p)
        PROVE  ~overtaken /\ UNCHANGED <<State, delivered>>
    <3>1. UNCHANGED <<table, delivered, overtaken>>
      BY <2>4 DEF SelectExisting, ReadRepairs, GetNotification, SelectForReview, Abort,
                  stores, history
    <3>. QED  BY <3>1 DEF State
  <2>5. ASSUME NEW p \in Calls, Replace(p)
        PROVE  ~overtaken /\ MemoryStores!Call
    <3>1. ~overtaken /\ ~stale[p] /\ pc[p] = "replace" /\ UNCHANGED delivered
      BY <2>5 DEF Replace, Overtake, StoresTypeOK
    <3>2. Clean(table) /\ old[p] = IdsOf(table) /\ Current(new[p], table)
      BY <3>1 DEF ApartInv, Reading
    <3>3. table' = new[p]
      BY <2>5, <3>2 DEF Replace, IdsOf
    <3>4. PICK S \in SUBSET Rows, verdict \in SUBSET Prints :
             Clean(S) /\ new[p] = Overlaid(S, table, verdict)
      BY <3>2 DEF Current
    <3>5. MemoryStores!Replace(AsItems(S), verdict)
      BY <3>1, <3>2, <3>3, <3>4, ReplaceIsReplace DEF StoresTypeOK
    <3>. QED  BY <3>1, <3>5, ItemsAreATable DEF MemoryStores!Call
  <2>6. ASSUME NEW p \in Calls, ReplaceFails(p)
        PROVE  ~overtaken /\ UNCHANGED <<State, delivered>>
    <3>1. ~overtaken /\ UNCHANGED <<table, delivered>>
      BY <2>6 DEF ReplaceFails, stores, StoresTypeOK
    <3>. QED  BY <3>1 DEF State
  <2>7. ASSUME NEW p \in Calls, MarkDelivered(p)
        PROVE  ~overtaken /\ MemoryStores!Call
    <3>1. ~overtaken /\ ~stale[p] /\ pc[p] = "mark" /\ UNCHANGED table
      BY <2>7 DEF MarkDelivered, Overtake, StoresTypeOK
    <3>2. PICK sink \in Sinks : mark[p][2] = delivered[mark[p][1]] \cup {sink}
      BY <3>1 DEF ApartInv, Reading
    <3>3. mark[p][1] \in DOMAIN delivered /\ mark[p][1] \in Notes
      BY <3>1 DEF StoresTypeOK, Marks
    <3>4. MemoryStores!MarkDelivered(mark[p][1], sink)
      BY <2>7, <3>1, <3>2, <3>3 DEF MarkDelivered, State, MemoryStores!MarkDelivered
    <3>. QED  BY <3>1, <3>3, <3>4 DEF MemoryStores!Call
  <2>. QED
    BY <2>2, <2>3, <2>4, <2>5, <2>6, <2>7 DEF Next
<1>. QED  BY <1>1, <1>2

(* For as long as no call is overtaken, the SQLite stores are the in-memory ones. *)
THEOREM SqliteImplementsMemory == Spec => ImplementsMemory
<1>. QED
  BY RefinementInit, RefinementStep, StoresTypeCorrect, CallsKeptApart, PTL
  DEF Spec, ImplementsMemory, MemoryStores!Spec
=============================================================================
