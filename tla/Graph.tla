-------------------------------- MODULE Graph ---------------------------------
(***************************************************************************)
(* References between entities: build_edges turns the observations of the  *)
(* ledger into edges and, where the target is not known, into repairs that *)
(* the review screen shows and the user applies or dismisses.              *)
(*                                                                         *)
(* A reference is a value of a field that links: its fingerprint.  Looking *)
(* its target up means trying vault paths in order; a bare scalar has none *)
(* to try.  Each store call of a command is a step, and so is each lookup. *)
(***************************************************************************)
EXTENDS Integers, Sequences, FiniteSets

CONSTANTS
    Refs,
    Link,           \* of each: [src |-> entity, type |-> EdgeType, tries |-> paths]
    Paths, Entities, Nobody,
    Noted,          \* bound: entities whose notes may appear
    Commands,       \* processes
    Serve,          \* the one that runs sync after sync
    Screen          \* the one that is the terminal UI

ASSUME Processes == Serve \in Commands /\ Screen \in Commands /\ Serve # Screen
ASSUME FiniteRefs == IsFiniteSet(Refs)
ASSUME NobodyIsNone == Nobody \notin Entities /\ Noted \subseteq Entities
ASSUME Links ==
    \A r \in Refs : Link[r].src \in Entities /\ Link[r].tries \in Seq(Paths)

VARIABLES
    seen,           \* references in the ledger's observations
    dismissals,     \* fingerprints of the ledger's dismiss actions
    owner,          \* entity_identifier: the entity of a vault path
    edges,          \* the edge table
    rows,           \* the repair table: [status, id], or NoRow
    pc,             \* of each command: its next store call
    read, judged,   \* read_events: references, dismissals
    todo,           \* references not yet looked up
    built, broken,  \* edges and unresolved references so far
    item,           \* the item of the review screen the user chose
    memo,           \* the repair table as apply_graph_repair read it
    applied,        \* history: references whose repair the user applied
    missed,         \* history: of these, those that were never marked for it
    overtaken,      \* history: commands since whose read of the ledger another
                    \*   command has written the repair table
    outrun,         \* history: applied repairs whose row such a command took or
                    \*   brought back
    overlapped,     \* history: two commands ran at once
    crashed,        \* history: a command died
    left            \* bounds: what may still happen, by kind of event

stores == <<seen, dismissals, owner, edges, rows>>
local == <<read, judged, todo, built, broken, item, memo>>
repairHistory == <<applied, missed, overtaken, outrun>>
graphHistory == <<repairHistory, overlapped, crashed>>
graphVars == <<stores, pc, local, graphHistory>>

Spend(kind) == left[kind] > 0 /\ left' = [left EXCEPT ![kind] = @ - 1]

Statuses == {"open", "resolved", "dismissed"}
NoRow == [status |-> "none", id |-> -1]
NoItem == <<>>
NoRows == [r \in Refs |-> NoRow]

(* make_resolver: the first path that is known. *)
Resolve(r, own) ==
    LET tries == Link[r].tries
        hits == {k \in DOMAIN tries : own[tries[k]] # Nobody} IN
    IF hits = {} THEN Nobody
    ELSE own[tries[CHOOSE k \in hits : \A j \in hits : k <= j]]

Edge(r, dst) == <<Link[r].src, Link[r].type, dst>>

GraphInit ==
    /\ seen = {} /\ dismissals = {} /\ owner = [p \in Paths |-> Nobody]
    /\ edges = {} /\ rows = NoRows
    /\ pc = [c \in Commands |-> "idle"]
    /\ read = [c \in Commands |-> {}] /\ judged = [c \in Commands |-> {}]
    /\ todo = [c \in Commands |-> {}]
    /\ built = [c \in Commands |-> {}] /\ broken = [c \in Commands |-> {}]
    /\ item = NoItem /\ memo = NoRows
    /\ applied = {} /\ missed = {} /\ overtaken = {} /\ outrun = {}
    /\ overlapped = FALSE /\ crashed = FALSE

(* Looking at a screen is not running a command. *)
Busy(c) == pc[c] \notin {"idle", "look"}
Goto(c, step) ==
    /\ pc' = [pc EXCEPT ![c] = step]
    /\ overlapped' = (overlapped \/ /\ ~Busy(c) /\ step \notin {"idle", "look"}
                                    /\ \E d \in Commands \ {c} : Busy(d))

(* A step that leaves the tables of the graph alone. *)
Pass(c, from, to) ==
    /\ pc[c] = from
    /\ Goto(c, to)
    /\ UNCHANGED <<stores, local, repairHistory, crashed>>

-----------------------------------------------------------------------------
(* Syncs: what the sources yield goes to the ledger. *)

Begin(c) ==
    /\ c # Screen
    /\ IF c = Serve THEN left.serves > 0 /\ UNCHANGED left ELSE Spend("syncs")
    /\ Pass(c, "idle", "fetch")

(* A record with a reference is ingested. *)
Observe(c, r) ==
    /\ pc[c] = "fetch" /\ Spend("records")
    /\ r \notin seen
    /\ seen' = seen \cup {r}
    /\ UNCHANGED <<dismissals, owner, edges, rows, pc, local, graphHistory>>

(* A note is ingested: its path becomes an identifier of its entity, which *)
(* has others if the note was renamed.  Identifiers are never removed.     *)
Identify(c, path, e) ==
    /\ pc[c] = "fetch" /\ Spend("records")
    /\ owner[path] = Nobody
    /\ owner' = [owner EXCEPT ![path] = e]
    /\ UNCHANGED <<seen, dismissals, edges, rows, pc, local, graphHistory>>

Fetched(c) == Pass(c, "fetch", "load") /\ UNCHANGED left

-----------------------------------------------------------------------------
(* reproject_and_persist, with the projection and the changes in Queue: load, *)
(* read, save, build the edges, replace edges, changes and repairs.           *)

(* A command that has read the ledger and is still to write its repairs. *)
Reprojecting(c) == pc[c] \in {"save", "build", "changes", "repairs"}

ReadEvents(c) ==
    /\ pc[c] = "read"
    /\ read' = [read EXCEPT ![c] = seen] /\ judged' = [judged EXCEPT ![c] = dismissals]
    /\ todo' = [todo EXCEPT ![c] = seen]
    /\ built' = [built EXCEPT ![c] = {}] /\ broken' = [broken EXCEPT ![c] = {}]
    /\ Goto(c, "save")
    /\ UNCHANGED <<stores, item, memo, repairHistory, crashed, left>>

(* Wrong on purpose: an edge is built whether or not its target was found. *)
BuildDangling(c) ==
    /\ pc[c] = "build" /\ todo[c] # {}
    /\ LET r == CHOOSE r \in todo[c] : TRUE IN
       /\ todo' = [todo EXCEPT ![c] = @ \ {r}]
       /\ built' = [built EXCEPT ![c] = @ \cup {Edge(r, Resolve(r, owner))}]
    /\ UNCHANGED <<stores, pc, read, judged, broken, item, memo, graphHistory, left>>

(* build_edges, one reference: it is looked up in the store as it is now. *)
BuildEdge(c) ==
    /\ pc[c] = "build" /\ todo[c] # {}
    /\ LET r == CHOOSE r \in todo[c] : TRUE
           dst == Resolve(r, owner) IN
       /\ todo' = [todo EXCEPT ![c] = @ \ {r}]
       /\ IF dst # Nobody
          THEN built' = [built EXCEPT ![c] = @ \cup {Edge(r, dst)}] /\ UNCHANGED broken
          ELSE broken' = [broken EXCEPT ![c] = @ \cup {r}] /\ UNCHANGED built
    /\ UNCHANGED <<stores, pc, read, judged, item, memo, graphHistory, left>>

ReplaceEdges(c) ==
    /\ pc[c] = "build" /\ todo[c] = {}
    /\ edges' = built[c]
    /\ Goto(c, "changes")
    /\ UNCHANGED <<seen, dismissals, owner, rows, local, repairHistory, crashed, left>>

(* An id that no row has and nobody remembers: one for the rows of a call. *)
FreshId ==
    LET used == {rows[r].id : r \in Refs} \cup {memo[r].id : r \in Refs}
                    \cup {item[k][2] : k \in DOMAIN item} IN
    CHOOSE n \in 0..(2 * Cardinality(Refs) + 1) : n \notin used

(* Wrong on purpose: only the dismiss actions are looked at. *)
OverlaidByActions(new, dismissed) ==
    [r \in Refs |->
        IF new[r] # NoRow /\ r \in dismissed THEN [new[r] EXCEPT !.status = "dismissed"]
        ELSE new[r]]

(* Wrong on purpose: what a row has become is all that counts. *)
OverlaidByRows(new, dismissed) ==
    [r \in Refs |->
        IF new[r] # NoRow /\ rows[r] # NoRow THEN [new[r] EXCEPT !.status = rows[r].status]
        ELSE new[r]]

(* Wrong on purpose: rows are added and updated, never deleted. *)
OverlaidKeeping(new, dismissed) ==
    [r \in Refs |->
        IF new[r] = NoRow THEN rows[r]
        ELSE IF rows[r].status \notin {"none", "open"}
             THEN [new[r] EXCEPT !.status = rows[r].status]
        ELSE IF r \in dismissed THEN [new[r] EXCEPT !.status = "dismissed"]
        ELSE new[r]]

(* replace_repairs: all rows are replaced, but what the user has decided of a *)
(* repair that is there, and then what the dismiss actions say, is kept.      *)
Overlaid(new, dismissed) ==
    [r \in Refs |->
        IF new[r] = NoRow THEN NoRow
        ELSE IF rows[r].status \notin {"none", "open"}
             THEN [new[r] EXCEPT !.status = rows[r].status]
        ELSE IF r \in dismissed THEN [new[r] EXCEPT !.status = "dismissed"]
        ELSE new[r]]

ReplaceRepairs(c) ==
    /\ pc[c] = "repairs"
    /\ LET suggested == [r \in Refs |->
               IF r \in broken[c] THEN [status |-> "open", id |-> FreshId] ELSE NoRow] IN
       rows' = Overlaid(suggested, judged[c])
    /\ Goto(c, "idle")
    /\ read' = [read EXCEPT ![c] = {}] /\ judged' = [judged EXCEPT ![c] = {}]
    /\ built' = [built EXCEPT ![c] = {}] /\ broken' = [broken EXCEPT ![c] = {}]
    /\ overtaken' = (overtaken \cup {d \in Commands : Reprojecting(d)}) \ {c}
    /\ outrun' = IF c \in overtaken
                 THEN outrun \cup {r \in applied : rows[r] = NoRow <=> rows'[r] # NoRow}
                 ELSE outrun
    /\ UNCHANGED <<seen, dismissals, owner, edges, todo, item, memo, applied, missed,
                   crashed, left>>

-----------------------------------------------------------------------------
(* The review screen. *)

(* review_queue is shown; the user moves to an item. *)
Look(r) ==
    /\ pc[Screen] = "idle"
    /\ rows[r].status = "open"
    /\ Spend("choices")
    /\ item' = <<<<r, rows[r].id>>>>
    /\ Goto(Screen, "look")
    /\ UNCHANGED <<stores, read, judged, todo, built, broken, memo, repairHistory, crashed>>

(* "a": apply_graph_repair reads the table again ... *)
FindRepair ==
    /\ pc[Screen] = "look"
    /\ memo' = rows
    /\ Goto(Screen, "act")
    /\ UNCHANGED <<stores, read, judged, todo, built, broken, item, repairHistory,
                   crashed, left>>

(* ... appends its action, which nothing reads back ... *)
AppendApply ==
    /\ pc[Screen] = "act"
    /\ LET r == item[1][1]
           found == memo[r].id = item[1][2] IN
       /\ applied' = applied \cup {r}
       /\ missed' = IF found THEN missed ELSE missed \cup {r}
       /\ Goto(Screen, IF found THEN "mark" ELSE "load")
       /\ item' = IF found THEN item ELSE NoItem
       /\ memo' = IF found THEN memo ELSE NoRows
    /\ UNCHANGED <<stores, read, judged, todo, built, broken, overtaken, outrun, crashed,
                   left>>

(* ... and writes back what it read, with that repair resolved. *)
MarkResolved ==
    /\ pc[Screen] = "mark"
    /\ rows' = Overlaid([memo EXCEPT ![item[1][1]].status = "resolved"], {})
    /\ missed' = missed \ {item[1][1]}
    /\ Goto(Screen, "load")
    /\ item' = NoItem /\ memo' = NoRows
    /\ UNCHANGED <<seen, dismissals, owner, edges, read, judged, todo, built, broken,
                   applied, overtaken, outrun, crashed, left>>

(* dismiss_reminder with the repair's fingerprint *)
Dismiss ==
    /\ pc[Screen] = "look"
    /\ dismissals' = dismissals \cup {item[1][1]}
    /\ item' = NoItem
    /\ Goto(Screen, "load")
    /\ UNCHANGED <<seen, owner, edges, rows, read, judged, todo, built, broken, memo,
                   repairHistory, crashed, left>>

(* "d": acknowledge_change with it, an action that repairs do not look at; *)
(* also any other action that is appended and followed by a reprojection.  *)
OtherAction ==
    /\ pc[Screen] \in {"idle", "look"} /\ Spend("choices")
    /\ item' = NoItem
    /\ Goto(Screen, "load")
    /\ UNCHANGED <<stores, read, judged, todo, built, broken, memo, repairHistory, crashed>>

Crash(c) ==
    /\ Busy(c) /\ Spend("crashes")
    /\ crashed' = TRUE
    /\ pc' = [pc EXCEPT ![c] = "idle"]
    /\ read' = [read EXCEPT ![c] = {}] /\ judged' = [judged EXCEPT ![c] = {}]
    /\ todo' = [todo EXCEPT ![c] = {}]
    /\ built' = [built EXCEPT ![c] = {}] /\ broken' = [broken EXCEPT ![c] = {}]
    /\ IF c = Screen THEN item' = NoItem /\ memo' = NoRows ELSE UNCHANGED <<item, memo>>
    /\ missed' = IF pc[c] = "mark" THEN missed \cup {item[1][1]} ELSE missed
    /\ overtaken' = overtaken \ {c}
    /\ UNCHANGED <<stores, applied, outrun, overlapped>>

Step(c) ==
    \/ Fetched(c) \/ BuildEdge(c) \/ ReplaceEdges(c) \/ ReplaceRepairs(c)
    \/ c = Screen /\ (AppendApply \/ MarkResolved)

GraphNext ==
    \/ \E c \in Commands :
          \/ Begin(c) \/ Step(c) \/ Crash(c)
          \/ \E r \in Refs : Observe(c, r)
          \/ \E path \in Paths, e \in Noted : Identify(c, path, e)
    \/ \E r \in Refs : Look(r)
    \/ FindRepair \/ Dismiss \/ OtherAction

-----------------------------------------------------------------------------
(* Properties. *)

(* What the ledger and the identifiers say. *)
Resolved == {r \in seen : Resolve(r, owner) # Nobody}
TrueEdges == {Edge(r, Resolve(r, owner)) : r \in Resolved}
Repairs == {r \in Refs : rows[r] # NoRow}

GraphTypeOK ==
    /\ seen \subseteq Refs /\ dismissals \subseteq Refs
    /\ owner \in [Paths -> Entities \cup {Nobody}]
    /\ edges \subseteq {Edge(r, e) : r \in Refs, e \in Entities}
    /\ \A r \in Refs : rows[r] = NoRow \/ rows[r].status \in Statuses
    /\ pc \in [Commands -> {"idle", "look", "fetch", "load", "read", "save", "build",
                            "changes", "repairs", "act", "mark"}]
    /\ \A c \in Commands :
          /\ todo[c] \subseteq read[c] /\ read[c] \subseteq seen
          /\ judged[c] \subseteq dismissals /\ broken[c] \subseteq read[c]
    /\ pc[Screen] \in {"look", "act", "mark"} <=> item # NoItem
    /\ missed \subseteq applied /\ applied \subseteq seen /\ outrun \subseteq applied
    /\ \A c \in overtaken : Reprojecting(c)

(* A repair the user has applied is not offered again, whatever overlaps and   *)
(* crashes, but for this: its row is the only memory of it, so it is if that   *)
(* very repair was never marked (the command died between its action and the   *)
(* mark, or its id was gone from the table), or if its row was taken away, or  *)
(* brought back, by a reprojection that another had overtaken between its read *)
(* of the ledger and its write.                                                *)
AppliedStaysAway ==
    \A r \in applied :
        rows[r].status = "open" =>
            r \in missed \/ r \in outrun \/ (pc[Screen] = "mark" /\ item[1][1] = r)

(* One command at a time: whenever nothing runs, the two tables are exactly    *)
(* those of the ledger: each reference is an edge or else in the repair table. *)
IdleGraphIsExact ==
    ~overlapped /\ ~crashed /\ (\A c \in Commands : ~Busy(c)) =>
        edges = TrueEdges /\ Repairs = seen \ Resolved

(* Overlapping commands may save an older graph over a newer one, and a        *)
(* dismissed repair may come back, but only for a while: serve's next syncs    *)
(* find every reference whose target has appeared, and nothing dismissed is    *)
(* offered for good.                                                           *)
GraphConverges ==
    left.serves > 0 =>
    <>[](/\ edges = TrueEdges /\ Repairs = seen \ Resolved
         /\ \A r \in dismissals : rows[r].status # "open")
=============================================================================
