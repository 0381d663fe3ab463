# whodex in TLA+

whodex keeps a personal contact database: several *sources* (an Obsidian vault,
Google Contacts, a LinkedIn browser extension) report *observations* about
*entities*, all of them go into an append-only *ledger*, and everything the user
sees is a *projection* folded from that ledger. Several commands run over one
SQLite file at the same time: the `serve` loop, one-shot `sync` and `queue`,
the ingestion API and the terminal UI. The code (paths below are relative to
`src/src/whodex/`) is careful inside each function; what is hard to test is what
happens *between* the store calls of two commands, after a crash, and over long
sequences of legal calls. That is what these specifications are about.

1. [Parts of the system](#1-parts-of-the-system)
2. [Modules](#2-modules)
3. [Runs](#3-runs)
4. [Bounds and fairness](#4-bounds-and-fairness)
5. [What is proved](#5-what-is-proved)
6. [Disagreements between code and documents](#6-disagreements-between-code-and-documents)
7. [What is not modelled, and assumptions](#7-what-is-not-modelled-and-assumptions)
8. [Plan](#8-plan)

## 1. Parts of the system

| part | state | operations | what makes it correct |
|---|---|---|---|
| identity resolution (`sync/hub.py`, `store/sqlite.py`) | entity rows, `entity_identifier` rows, `entity_create` actions | `resolve`: look identifiers up one by one, link or create | one contact, one entity; identifiers never move; an entity with facts has a birth record |
| projection (`projection/project.py`, `conflict.py`) | none: a pure fold | `project`, `resolve_field` | a function of the ledger's contents, quiet when data is repeated |
| ledger and derived stores (`store/sqlite.py`, `sync/ingest.py`) | observations, interactions, user actions; projection, changes, conflicts, edges, repairs | append; `reproject_and_persist` | derived stores are those of the ledger, now or eventually; what the user decided stays decided; changes are told forwards |
| commands (`cli/main.py`, `facade/`, `ingestion/app.py`, `tui/app.py`) | a snapshot in memory between calls | `sync`, `serve_tick`, `POST /ingest`, acknowledge, dismiss, ... | overlapping commands do not damage the stores for good |
| notifications (`facade/whodex.py`, `notifiers/`) | notification rows with `dedupe_key` and `delivered_to` | generate, `pending`, `send`, `mark_delivered` | each notification reaches each sink, again only after a fault |
| vault (`sources/obsidian.py`, `vault/`) | the notes on disk, `vault_file_state` | scan with echo suppression, fill-blank `write_back` | the user's text is never overwritten, whodex's own writing is not taken for the user's |
| Google Contacts (`sources/google/`) | sync token | `fetch` page by page, full sync on expiry | every change of a contact is ingested; the stored token claims nothing that was not fetched |
| browser extension (`src/extension/`) | last captured URL, debounce timer, saved endpoint and token | debounce, capture, message, POST | a visited profile is captured, under its own URL |
| JSONL mirror (`store/jsonl.py`) | one file of events | a line for each committed event | it can restore the ledger, but for a bounded loss at each crash |
| edges and repairs (`projection/edges.py`, `sync/resolve.py`) | edge and repair tables | `build_edges`, `apply_graph_repair` | every reference is an edge or a repair; repairs that were applied or dismissed stay so |
| scoring and queue (`engine/`) | none: interactions, pins and snoozes are in the ledger, importance and cadence in the projection | `score_contact`, `priority_queue`, `people_at` | a contact moves down only because it was dealt with, rated anew, or is no longer news; pinned ones are in front |

How they interact: a command fetches records from its sources; `ingest_one` hands each
to the hub, which resolves its identity and stamps its observations, and appends
them to the ledger; the tail of every command is `reproject_and_persist`, which
loads the old projection, reads the whole ledger, folds it and replaces the
derived tables one by one. `serve_tick` then turns notable unseen changes into
notifications and dispatches them; `sync --write-back` fills the blank fields
of the notes it has just fetched. Every store call is a transaction of its own
and there is no lock above them: **the whole of it is one long read-modify-write
that other commands may cut into at any store call**. `PROJECT.json` lists each
hazard that follows from that at the line where it bites, with the property
that watches it.

## 2. Modules

| module | models | implements / extends |
|---|---|---|
| `Identity` | `StoreIdentityResolver.resolve` and the append after it, for any number of processes | |
| `IdentityProofs` | theorems about `Identity` | extends `Identity` |
| `Projection` | winner, conflict and change of one field, as definitions | |
| `ProjectionCheck` | the sort and the loops of `resolve_field` and `project`, against `Projection` | extends `Projection` |
| `ProjectionProofs` | theorems about `Projection` | extends `Projection` |
| `ReadOrderProofs` | theorems about `ProjectionCheck` | extends `ProjectionCheck`, `ProjectionProofs` |
| `ReadModel` | the abstract promise: a ledger that only grows, and a view that at each refresh is the fold of it | |
| `Pipeline` | the ledger, the derived stores, notifications and the commands over them | extends `Projection`, implements `ReadModel` |
| `PipelineProofs` | theorems about `Pipeline` | extends `Pipeline`, `ProjectionProofs` |
| `MemoryStores` | what stores that are replaced or updated in place promise, as `store/memory.py` keeps it | |
| `SqliteStores` | the same calls of `store/sqlite.py`, statement by statement | implements `MemoryStores` |
| `SqliteStoresProofs` | theorems about `SqliteStores` | extends `SqliteStores` |
| `VaultSync` | one note, the user's editor, a Google contact and `sync --write-back` | |
| `VaultProofs` | theorems about `VaultSync` | extends `VaultSync` |
| `Mirror` | the ledger table and its JSONL file, several writers that die | |
| `GoogleSync` | `GoogleContacts.fetch` and the ingestion of what it yields, several syncs over one token | extends `Mirror` |
| `Capture` | one browser tab with the content script, the background page, `POST /ingest` | extends `Mirror` |
| `Intake` | the two ways in, composed over one ledger and its mirror | extends `GoogleSync`, `Capture` |
| `IntakeProofs` | theorems about `Intake` | extends `Intake` |
| `Graph` | `build_edges` lookup by lookup, the edge and repair tables, the review screen | |
| `Queue` | scores, the queue and `people_at`; the calls that append interactions, pins and snoozes | extends `Graph` |
| `Desk` | what the user has in front of them: graph and queue while syncs run | extends `Queue` |
| `DeskProofs` | theorems about `Desk` | extends `Desk` |
| `MC*` | small instances for TLC | |

**Identity.** `owner` is the table `entity_identifier`, `entities` the table
`entity`, `births` and `facts` what the ledger holds of an entity. One action is
one statement or transaction: a SELECT of `find_by_identifiers` (`FindHit`,
`FindMiss`), `create_entity` (`Create`), `add_identifiers` (`Link`, `Claim`), the
append of the `entity_create` action (`Birth`) and of the observations
(`AppendFacts`). `Abort` is the process dying, or the record failing validation,
in any of these places. `settled`, `late`, `returned`, `lateAnswers`, `raced` and
`unborn` are history: they let the properties say when two answers may differ.

**Projection, ProjectionCheck.** `Projection` says *what* the code computes
(the observation that no other outranks; the lowest one that disagrees);
`ProjectionCheck` says *how* (sort, take the last, walk the others) and
compares the two over every order in which a SELECT without ORDER BY may
return the rows. The sort key is trust, `observed_at`, `ingested_at`, id.
`sorted` is stable, and `Before` is that order: the lower key first, and of equal keys
the row that was read first; a row's place is the number of rows before it.

**Pipeline.** `pc[p]` names the next store call of a command; `prev`, `read`,
`judged`, `todo` and `sending` are its local variables. Each command is a role:
`serve` (fetch, reproject, generate, dispatch), `cli` (fetch, reproject), `api`
(a batch that may be rejected half-way, reproject), `tui` (look at the screen,
one action of the user, reproject). `Load`, `ReadObservations`,
`ReadUserActions`, `Save`, `ReplaceChanges`, `ReplaceConflicts` are the store
calls of `reproject_and_persist`; `Generate`, `Notify`, `Pending`, `Send`,
`MarkDelivered`, `Refused` the rest of a serve tick; `Crash` may come between
any two. The effect of every derived table is computed from the snapshot the
command has read, as in the code, not from the ledger as it is now.

**MemoryStores, SqliteStores.** A session of SQLAlchemy begins its transaction with
its first write, so in `save`, `replace_changes`, `replace_conflicts`,
`replace_repairs` and `mark_delivered` the SELECT is outside it.
`SelectExisting` is that SELECT together with the new rows that are computed from
it, `Replace` the transaction (DELETE by id, INSERT, commit), `ReplaceFails` the one
that the database or the session refuses (`Refused`); `ReadRepairs` and
`SelectForReview` are the call `apply_graph_repair` makes with rows it has read
earlier, `GetNotification` and `MarkDelivered` the two halves of `mark_delivered`.
`table` is any of the tables, whose calls have one shape; a row is its id,
its fingerprint and its user state. `Existing` is the dict that is keyed by
fingerprint: of two rows with one fingerprint it has one, and only that one is deleted.
In `MemoryStores` each call is one step and a table a function from fingerprints. `stale`
and `overtaken` are history: another call has committed since this one's SELECT,
and such a call went on to write.

**VaultSync.** `FetchNote`, `FetchContact`, `Reproject`, `PlanWriteback`,
`WriteText`, `PutState` are the reads and writes of one sync; `Edit` is the
user saving the note, allowed in the phases listed in `EditAt`; `Update` is a
change of the contact at Google. The note is its managed fields and the
whodex uid. `Crash` is possible in every phase; `forgot` is history and records one
of them, the death between `WriteText` and `PutState`, which leaves a note on disk
that whodex does not know to be its own.

**Mirror.** `append_observations` commits its rows (`Commit`) and then appends their
lines (`AppendJsonl`); `Die` may come between the two or in the middle of a
line. `kept` are the facts whose line can be read back; a line that follows a
torn one continues it, and neither can be.

**GoogleSync.** Google is a log of changes and a token a position in it. One
action is one request (`Page`, `Rejected`, `HttpError`), one access to the
stored token (`ReadToken`, `ClearToken`, `SetToken`) or one record handed to
`ingest_one` (`Ingest`). `got` is the list `fetch` collects and yields
*after* it has stored the new token: what a process that dies has there is gone
(`lost`) until the contact changes or a full sync comes. `Rejected` has both
branches of the code: an expired token is recognised while nothing was
collected, on a later page it ends the command.

**Capture.** `Fire` is the debounce timer, which runs `capture()` up to its
`await`; `Extract` is the rest, which reads the document as it is *then*.
`importing` are the calls waiting in between. The record goes to the background
page (`mail`) and is posted once (`Post`) or logged and forgotten (`PostFails`).
`hasty`, `early` and `twin` record the three things that can go wrong in time: the
tab moved during the import, the page had not followed its address, two
captures of one URL waited together.

**Graph.** `BuildEdge` is one reference looked up in the store *as it is now*, while the
references are those of the snapshot. A reference whose target is unknown
is a row of the repair table, with a new id at every reprojection (`FreshId`), and
`Overlaid` is how `replace_repairs` carries the user's decisions over.
`apply_graph_repair` is three steps: `FindRepair` reads the table, `AppendApply`
records an action that nothing reads back, `MarkResolved` writes back what was
read. `Dismiss` is `dismiss_reminder` with the repair's fingerprint;
`OtherAction` is what the key `d` does with a repair, `acknowledge_change`, which
repairs ignore. Of an applied repair, `missed` records that it was never marked and
`outrun` that its row was taken away or brought back by a reprojection which another
had `overtaken` between its read of the ledger and its write of the repairs; neither
says anything of other repairs.

**Queue.** Scores are computed as in `engine/scoring.py`, with fixed-point numbers in
place of floats: days times `Unit` over the cadence, weights in tenths.
`talks` and `acts` are in the order of writing; the code orders interactions by
`occurred_at` and actions by `created_at`, and so do `LatestInteraction` and `LastAct`.
Importance and cadence are read from `profile`, the projection, at each scoring, with
the defaults of `build_score_inputs` (`Tier`, `CadenceDays`). What sources tell of a
person changes `noted` (`Learn`); the projection follows when a command saves it.
Every call of the facade appends one event and then runs a whole reprojection of the
terminal UI's own (`Call`, then `Load`, `Read`, `Save` here, the edges in `Graph`,
`ReplaceChanges` here, the repairs in `Graph`), and so does every sync, with the steps
of other commands in between. `ReplaceChanges` replaces the open changes of *all*
people by those in which the projection loaded and the ledger read differ (`Flips`);
which of these the user has acknowledged before is left open, so it may be any.

Each module also has a few definitions marked *Wrong on purpose*, placed before
the definition they vary. No action uses them. Each is a plausible bug (a dropped
guard, a swapped order), recorded in `PROJECT.json` beside the property that
it breaks: they show that the property depends on the code it is about.

## 3. Runs

| run | cfg | what it asks | states |
|---|---|---|---|
| identity | MCIdentity | three resolvers, two identifiers, every interleaving and crash: bindings are permanent, an identity that has settled keeps its entity, only an overlap splits a contact, facts stay reachable and births are recorded | 0.3 M |
| projection | MCProjection | up to three observations, every read order, every repeated fetch: one winner, one conflict, no change from repetition | 34 k |
| pipeline | MCPipeline | serve beside the API, a crash, rejection or refusal anywhere: no change is told backwards (`FlipsRunForward`), no second send without a fault; a stale projection saved over a newer one is repaired, every notification reaches its sink | 0.3 M |
| pipeline_serial | MCPipelineSerial | serve, sync and the TUI one at a time, with a crash: the pipeline implements `ReadModel`; readers see the whole ledger when nothing runs; an acknowledged change never becomes a notification | 0.5 M |
| stores | MCSqliteStores | two processes in the store calls that read before they write, dying anywhere: until one writes over what the other has committed the SQLite stores implement the in-memory ones (`ImplementsMemory`), and nothing is refused (`FailsOnlyIfOvertaken`) | 0.6 M |
| vault | MCVaultSync | the user edits between the steps of a sync, with a crash: nothing typed is lost from the file, whodex's own values come back as the user's only after an edit or a death between writing the note and remembering it, untouched fields follow Google, edits are observed, what is learned later is filled in (`KnownIsFilled`) | 0.5 M |
| intake | MCIntake | Google syncs that overlap, expire, fail and die, and a user of the browser extension, over one ledger: what is before the stored token was ingested or is known to be lost; every change arrives and a full sync brings back the rest; a shown profile arrives and is misfiled or repeated only for the three reasons above; the mirror has nothing the ledger lacks and lacks at most two facts for each death | 0.4 M |
| desk | MCDesk | syncs beside the review screen and the queue: with one command at a time edges and repairs are exact; whatever overlaps, an applied repair stays away unless it was never marked or a reprojection that was overtaken wrote its row, and graphs heal; pinned contacts come first, a contact moves down only because it was dealt with, rated anew, or lost the boost of its open changes, people are found at the place their note refers to | 0.4 M |
| identity_race, news, review_spam, vault_swallow | | violations: see section 6 | |

`Converges` and `FreshWhenIdle` are the two sides of the same question: with
one command at a time the derived stores are exact whenever nothing runs; with
overlapping commands they may be wrong for a while, an older projection may
replace a newer one, and it is only serve's next ticks that repair it.
`IdleGraphIsExact` and `GraphConverges` ask the same of edges and repairs.

Several properties name their own exceptions, and each exception is what the code does:
`AppliedStaysAway` (that repair was never marked, because of a death before the mark or
ids that were gone, or its row was written by an overtaken reprojection),
`NoEcho` (an edit of a note whodex wrote, a death between writing it and remembering it),
`OnlyDealingCalms` (a reprojection, of whomever, takes what the open changes had added),
`SentAgainOnlyAfterFault` (faults are counted, rejected batches among them, which is more
than a repeat needs),
`ImplementsMemory` and `FailsOnlyIfOvertaken` (a write over another's commit),
`KnownIsFilled` and `EditsAreRead` (the note that is, byte for byte, what
whodex wrote last), `ShownProfileArrives` (a capture that was misfiled or lost is
not repeated while the tab stays), `EveryChangeArrives` (a death after the token was
stored). Without the exception TLC finds the trace; with it the property says
that nothing else goes wrong.

A few properties are about one command at a time (`FreshWhenIdle`, `AckedNeverNotified`,
`Refinement`, `IdleGraphIsExact`): the overlaps that break them are real, and are
excluded, not covered. An acknowledgement that is appended while another command is between
its read and its `replace_changes`, for one, is missed by that reprojection.
`FactsReachable` asks that *some* identifier of a record lead to its facts;
`StableOnceSettled` is the property about which one is followed.

What lies behind the exception of the `stores` run is worth knowing. Two `replace_*` calls that
overlap can each insert a row for one fingerprint. From then on a call that runs
*alone* may fail: it deletes one of the two rows, and if the other has an id that
the new snapshot uses (changes and conflicts are numbered `CHG-000001`, `CON-000001`, ...
anew in every projection) the INSERT is refused; if it has not (repairs have new
ids), both rows stay, with a decision that no longer follows what the user does.
Two `mark_delivered` of one notification that overlap lose one of the sinks,
which is then sent to again.

## 4. Bounds and fairness

*Identity*: three processes and four records are enough for a resolver that is
overtaken twice, two identifiers for a record that links two entities; four entity
ids are one for each record. *Projection*: three rows per field give a winner, a
conflict and a copy of one of them; sources at different and at equal trust,
values with one canonical form, equal and different times and ids in any order
are all included. *Pipeline*: the drafts are a change at top trust and a
lower-trust value that agrees with one side; three observations (four when
commands are serialised) give A, B, A flips, the case where a fingerprint
comes back. `MaxActs` bounds the commands the user gives, serve's ticks are not
bounded. `MaxFaults` = 1 puts one fault at every place; two faults differ only by
repeating that.
*SqliteStores*: two calls of each kind, two fingerprints and two ids are enough for two rows
with one fingerprint, and for an id that moves from one fingerprint to another; a
third id takes TLC beyond five minutes and adds rows, not cases. The two processes are never
bounded: each makes one call after another for ever. Processes, ids and fingerprints
are symmetric (no property of this run is about liveness).
*VaultSync*: two fields, two values, three edits, two updates, one crash: enough for
fill, re-edit, restore and a stale echo. Actions beyond the bounds are simply
not taken. The bounds appear in the guards of the actions that count.
*Intake* and *Desk* compose two parts each, and the product of two full parts is out
of TLC's reach. There `left` counts what may still happen by kind of event, and
`Init` chooses one of a few `Budgets`: each gives one part its full range of events, or
both a little, so that the parts are checked alone and across. In `MCIntake`:
one syncer with every fault (three changes, an expiry, an error, a death); two that
overlap; the extension with three moves, a token that is issued late and a lost
POST; and a sync beside a capture with a death. Two contacts and two profiles are
enough for one to be confused with another. In `MCDesk`: a crash, a second sync, the
queue alone with three calls (interactions in any order, and with pins), a person of whom
something new is told in a sync beside an interaction and beside a pin or snooze, a snooze
while a reference is resolved; four profiles have every tier, a value that is no
tier, a cadence that is set, unset and zero, and jobs and homes that change; two
spellings of one link and one plain text are a reference that resolves at the first
try, at the second, and never.

Fairness in `Pipeline`: `WF(Step(p))`, a command that is running reaches its next
store call (threads of the OS, no lock between commands); `WF(Begin(serve))`, the
`while True` loop of `cli/main.py` starts a tick again and again. Neither the
user, nor a fault, nor the arrival of a record is fair. `Refused` is bounded, which
is what a sink that recovers means. In `VaultSync`: `WF(Sync)`, the user or a
timer keeps running syncs and one that is started goes on.
In `Intake`: a process that is fetching goes on, the timer fires, imports resolve,
a running API answers, the page follows its address, and `serve` syncs again and
again. Nothing in the code catches an exception of a tick, so after a failing
request `serve` is assumed to be started again; that is the user's part, and
listed as a hazard. `serves` is a switch, not a count: it says whether there is a
serve loop in this behaviour. In `Desk`: `serve` again, running commands go on,
and days pass, up to `Days`.

Deadlock is checked except in `Identity`, where all records have been ingested at
the end, and in `Intake` and `Desk`, where a behaviour without a serve loop has
used up its budget.

## 5. What is proved

36 results, listed in `PROJECT.json`, for every value of the constants.

`IdentityProofs`, for any number of processes, entities, identifiers and records, no
bound but `MaxRuns`, from the four named assumptions of `Identity` (an identity
is a dict, so the ranks of its identifiers order them):

* `TypeCorrect`: `Spec => []TypeOK`.
* `BindingsNeverMove`: `Spec => BindingsPermanent`.
* `SettledIdentitiesAreStable`: `Spec => []StableOnceSettled`. The property is not
  inductive: that all late answers agree says nothing of a resolver that is in the
  middle of its lookups. The inductive invariant (`StableInv`) says where the
  answer comes from: once an identity has settled, its first identifier, the
  one that is looked up first, is bound; a resolver that began after that either
  still has all its identifiers ahead of it or holds the owner of the first; and
  by `BindingsNeverMove` that owner is fixed.
* `BirthsAreRecorded`: `Spec => []BirthsRecorded`. The property speaks of entities with
  facts; the invariant (`BirthInv`) of every entity that an identifier leads to or
  that a resolver is about to answer with, since those get their facts later.
* `OnlyRacesSplit`, `FactsAreReachable`: `Spec => []SplitOnlyIfRaced` and
  `Spec => []FactsReachable`. `UnracedInv`: two resolvers at work on records that
  share an identifier are marked as racing (`Apart`), so around any other resolver
  nobody binds a pair of its record, and what it found free is free until it
  binds it (`Trail`). Crashes alone never split a contact.

`ProjectionProofs`, for any ledger of observations with numeric ranks and times
and unique ids (`Ledger`), of any size:

* `WinnerWins`, `DisputedDisagrees`: the winner and the suggested loser exist, and
  `WinnerUnique`: no other could be meant. `Outranks` is a strict total order
  (`OutranksOrder`), and a finite set has a greatest element (`Greatest`: of the
  subsets without one, a smallest would have one less without one).
* `WinnerOfMore`: appending cannot bring back an observation that has lost.
* `RefetchChangesNothing`: a fetch of any size that is repeated: the copies are ranked
  like their originals, so the copy of the winner wins or the winner stays.

`ReadOrderProofs`, for ledgers of any length, from the assumptions of `ProjectionCheck`
(`Comparable`: trust, times and ids are compared as numbers are; `NewIds`: a repeated fetch
gets ids that were not used; `NoValueIsNone`):

* `ReadOrderDoesNotMatter`: `Spec => []ReadOrderIrrelevant`. This is the code's loops against
  the definitions of `Projection`. That sorting sorts is shown without
  induction: `Before` is a strict total order on the rows (`BeforeIsBelow`,
  `BeforeIsOrder`), so the number of rows before a row is lower for the lower row
  and no two rows have one place; a finite set has no injection into itself that is not
  onto, so every place is taken (`PlacesAreTaken`). So `Ordered` is a
  permutation in rising order (`Sorted`), its last row is `Winner` (`LastIsWinner`) and
  the first hit of the conflict loop is `Disputed` (`FirstIsDisputed`).
* `RefetchesAreQuiet`: `Spec => []RefetchIsQuiet`. The fetch that is appended again meets the
  hypotheses of `RefetchChangesNothing` (`RefetchIsRefetched`): the copies have the
  trust, values and times of their originals, later stamps and new ids. The
  inductive invariant (`RowsInv`) is that rows are observations with distinct
  ids, stamped in the order of their ingestion.

`PipelineProofs`, for any number of commands, cells, sources, values, sinks and any
bounds, from the assumptions of `Pipeline` (`Roles`, `KnownDrafts`, `Ranked`: trust and
times are numbers, `NotableCells`, `Bounds`):

* `ChangesRunForward`: `Spec => []FlipsRunForward`. The invariant (`PastInv`): the saved
  projection is always that of *some* prefix of the ledger, and a command in
  the middle of a reprojection holds the projection of a prefix and a ledger
  that is no shorter, because it loads before it reads. Prefixes never change
  (`PastKept`), so what was once true of them stays true.
* `PipelineTypeCorrect`: `Spec => []TypeOK`. What replaces a table is computed from
  what a command remembers, so this needs `PastInv` and the theorems of
  `ProjectionProofs` (the winner of some rows is one of the rows).
* `IdleIsFresh`, `AcknowledgedStaysQuiet`, `PipelineImplementsReadModel`: one invariant
  (`SerialInv`) says, for each phase of the one command that runs, how much of the
  stores it has already brought up to date, and that what it remembers is the
  whole ledger. The refinement maps `Save` to `Refresh` and
  `AppendObservations` to `Record`, everything else to a stutter.
* `SentOnceAndOncePerFault`: if at most one process has the role `serve`
  (`OneDispatcher`), `Spec => []SentAgainOnlyAfterFault`. The property counts sends
  against faults but does not say who is about to send; `DispatchInv` adds that
  what is not delivered and not in the dispatcher's hand was sent at most once
  per fault.

`SqliteStoresProofs`, for any number of processes, fingerprints, ids, notifications
and sinks, from no assumption:

* `StoresTypeCorrect`: tables, prepared rows and marks keep their types.
* `CallsKeptApart`: `Spec => []ApartInv`, the inductive invariant of the next two. While no
  call was overtaken, every fingerprint and every id has one row; a call that is not stale
  is about to delete all rows there are and to insert the overlay over them; and what
  it will write for a notification is what is there and one sink more. A call
  becomes stale at the very step that could make this false.
* `FailuresNeedOverlap`: `Spec => []FailsOnlyIfOvertaken`.
* `SqliteImplementsMemory`: `Spec => ImplementsMemory`. The refinement maps the rows to the
  function from fingerprints to states, and `apart` to `~overtaken`; `Replace` is
  `MemoryStores!Replace` (`ReplaceIsReplace`), `MarkDelivered` and `AppendNotification` are
  their namesakes, the SELECTs and a call that dies or is refused are stutters. After the
  first overtaking nothing is promised, which is what the code gives.

`IntakeProofs`, for any number of contacts, syncs, profiles and any budgets, from the
assumptions of its modules (`SyncersWrite`, `ApiWrites`, `SeparateWriters`, `Distinct`,
`KnownBudgets`, `ChangesBound`):

* `IntakeTypeCorrect`: `Spec => []TypeOK`.
* `TokensAreHonest`: `Spec => []TokenHonest`. The property is about the stored token; the
  invariant (`HonestInv`) about every process that may store one. Before its first
  request the token it read is still honest; from then on every change up to the
  position of its listing is accounted for, in its hands, or of a contact on
  a page it has not seen (`Underway`). That a contact changes again in the
  meantime needs no case of its own: the older change is then no news.
* `FiledRight`: `Spec => []MisfiledOnlyIfMoved`. While nothing was hasty or early,
  all calls that wait for the import took their URL from the page still shown.
* `MirrorNeverAhead`: `Spec => []MirrorWithinLedger`.
* `DeathsCostTwo`: `Spec => []MirrorLossBounded`. A count needs a potential: facts lost
  so far, plus one while the file ends in a torn line, is at most two for each
  death (`LossInv`). A torn line is a debt the next append pays with its own fact.
* `RepeatsNeedTwins`: `Spec => RepeatOnlyIfTwin`. While no two captures of one URL have waited
  at once, the URLs that wait for the import differ from each other and from
  the one captured last (`RepeatInv`).

`DeskProofs`, for any finite set of references (`FiniteRefs`), any link table, entities,
commands and people, from the assumptions of `Graph`, `Queue` and `Desk`:

* `DeskTypeCorrect`: `Spec => []TypeOK`, by an invariant (`Shape`) that adds what
  `TypeOK` leaves out: the rows a command remembers and the ids in use, from which
  it follows that `FreshId` finds one.
* `GraphIsExactWhenIdle`, `AppliedRepairsStayAway`: `Spec => []IdleGraphIsExact` and
  `Spec => []AppliedStaysAway`. For the first, an invariant (`ExactInv`) says, while there was
  neither overlap nor crash, how far the running command has come (`Phase`, `Building`)
  and that the tables are exact whenever nothing runs and still are while an item is
  being applied (`OnScreen`).
  The second is about any overlaps and crashes, and so is its invariant (`AppliedInv`). An
  applied repair with no excuse (`Settled`) has a row that is not open, or none
  (`Kept`); in the second case its target is known, and no reprojection that was
  not overtaken has it among its unresolved references. That no row is deleted
  while its reference is unresolved takes two facts about a reprojection that was not
  overtaken: it has read every reference that has a row (`ReadAll`), and a reference
  it is done with is unresolved or its target is known (`LookedUp`). A row that is
  deleted takes the decision with it, and the repair could only be offered again if a
  known target became unknown, which no action does.

* `PinnedComeFirst`: `Spec => []PinnedFirst`. Of a contact that is not pinned: the ratio is
  clamped (`OverdueIsCapped`, over `MaxOfNumbers` and `ClampIsBetween`) and the boost is at
  most that of all notable fields (`BoostGrows`), so for every tier the score stays below the
  floor (`BaseBelowFloor`). That the weights are small enough is an assumption, `FloorIsHigh`:
  `ScoringConfig` is only ever built with its defaults, which make at most 9.7 against a
  floor of 1000; a configuration with larger weights would break the property.
* `OnlyDealingCalmsDown`: `Spec => OnlyDealingCalms`, for any tiers, weights, default cadences
  and profiles that syncs may bring. A pinned contact's score is its base or the floor,
  so a score falls only with its base or with the pin (`ScoreFollowsBase`). With importance
  and cadence as they were, a base grows with time and with the open changes and falls
  only with a later interaction (`BaseGrows`, from `QuotientGrows`, `ClampGrows`,
  `OverdueGrows`, `TenthsGrow`): an interaction that is not later than all before it leaves
  the latest what it was (`LatestStays`), in whatever order they were logged. A
  reprojection that replaces the open changes leaves at least the base without any, which
  is the base before it less the boost.

`VaultProofs`, for any fields and values and any bounds, from the assumptions of
`VaultSync` (`BlankIsNoValue`, `Phased`, `VaultBounds`):

* `VaultTypeCorrect`: `Spec => []TypeOK`.
* `NothingTypedIsLost`: if the user does not save between `write_back`'s read and its
  write (`"write" \notin EditAt`), `Spec => NoClobber`. The draft agrees with the file
  on every typed field (`DraftInv`).
* `EchoesOnlyAfterEditOrForgetting`: `Spec => []NoEcho`, for any number of crashes. As long
  as nobody edited a note with a uid and no sync died between writing a note and
  remembering it (`EchoInv`), such a note is the one whodex remembers, or is
  just about to, and a note without a uid holds only what the user put there. A crash
  anywhere else leaves this as it was.

Only model-checked: all liveness (`Converges`, `EventuallyDelivered`, `FollowsGoogle`,
`EditsAreRead`, `KnownIsFilled`, `EveryChangeArrives`, `FullSyncHeals`, `ShownProfileArrives`,
`GraphConverges`, `MembersAreFound`): fairness and ENABLED are out of the prover's
reach. Every other property of a passing run is a theorem. The proofs avoid induction over
data: where a fact about a finite set or a sequence would need one, they take a
minimal counterexample (`Least`, `Greatest`, `MaxOfNumbers`), since the library's
`WFMin` and `FS_StrictSubsetOrderingWellFounded` take no operator. `LastAct` of `Queue`, a
filtered sequence, stays unexpanded in the proofs: they need only that it is a function of
the actions. `SortSeq` would have stood in the way of the proofs about sorting, which is why
`Ordered` is written with the places of the rows.

## 6. Disagreements between code and documents

* **identity_race** — `resolve()` promises (I2) that the same keys resolve to the same
  entity across process runs. Lookup and creation are separate statements, so
  two processes that meet a new contact at once create two entities; the
  loser's keeps facts and no identifier.
* **news** — DESIGN says a one-shot `sync` may generate a notification that the
  daemon delivers later. `sync` never generates, and it saves the projection
  that the next tick compares with, so the change is never told.
* **review_spam** — DESIGN fingerprints a conflict by its values, so that a dismissed
  one stays away. The code uses observation ids, and every sync makes new ones.
* **vault_swallow** — a value the user saves between the scan and `write_back` is part
  of the text whose hash `write_back` stores; it counts as whodex's echo
  and is never observed, though it stays in the file.

Two more that no run shows. A field the user clears is filled again from the ledger, which
`KnownIsFilled` states as what the code does: DESIGN 3.3 has the user's edit ingested first and
the precedence decide, but a blank emits no observation, so there is nothing to decide. And
the docstring of the review screen (`tui/app.py:157`) says that `d` dismisses a
conflict; the handler calls `acknowledge_change`, which leaves it open.

## 7. What is not modelled, and assumptions

* One store call is one atomic step, in every module but `SqliteStores`, which says what that
  takes: that no call writes over what another has committed since its SELECT.
  Of the in-memory stores, `MemoryStores` has those that are replaced or updated in place.
  They back the runs without a database (`build_app` with `db` unset), where one process is
  alone. Two of them differ from the SQLite ones: `add_identifiers` overwrites, where the SQLite
  store keeps the first binding (a mutant of `Identity` shows what that would break),
  and every save replaces by fingerprint, so two rows with one fingerprint cannot be.
* What `SqliteStores` says of a refused transaction is the flush order of SQLAlchemy's unit of
  work: inserts before deletes, and an UPDATE where a deleted and an inserted row have one key.
* Commands are processes with a connection each. The API runs its handlers in threads that
  share one connection (StaticPool); that is listed as a hazard too.
* Stamps (`ingested_at`, ids) follow the order of the commits, and a record has one
  observation, which allows every interleaving that longer records allow, and more.
* Left out because no command reaches it: field-level pins (`_pins` reads payload
  keys that no caller writes), confidence other than 1.0, `assert_absent`,
  reminders (`generate_reminders` has no caller), `Change.notified` (never set),
  `set_cadence` (appends an action that nothing reads: scores take the cadence from the
  projection, and the action does not reach it).
* Edges and repairs are replaced in the same reprojection as changes and conflicts, but
  nothing the one computes reads the other: `Pipeline` and `Graph` each model their own
  half, and interactions, pins and snoozes are in `Queue`. There the projection is what is
  known of each person's importance, cadence and notable fields, as one value that
  the ledger comes to; `Projection` says how it does, and `Pipeline` which changes have
  been acknowledged.
* All people of `Queue` are in the projection from the start, and what was once known of a
  field may change but not become unknown. `ScoringConfig` has its default weights:
  no command makes another (`FloorIsHigh`).
* `build_edges` walks the references in a fixed order and makes one lookup step of the few
  SELECTs of one reference.
* `priority_queue` returns at most `limit` contacts, which is left out: `Live` is all of them; `contact_detail` and the
  freshness labels only format; `who-at` looks an entity up and lists `people_at`.
* `Dismiss` is a facade call; the review screen's key makes `OtherAction` of it.
* `Capture` is one tab. The extension's listener is assumed to see the page's own
  `pushState` calls, which Chrome's isolated worlds decide; reading the options and
  sending the request is one step; the API handles one POST at a time; a token,
  once issued, stays good, because no command revokes one.
* `GoogleSync` assumes of the People API what the head of the module says: a token
  is the position of the first request of its listing, pages hold contacts as they are
  when the page is sent, and a listing without a token has no deleted contacts.
  A deleted contact yields nothing in the code and stays in the ledger.
* `Mirror` speaks of what lines can be read back. The reader raises at a torn
  line instead of skipping it; no command calls it.
* Two `serve` loops at once would send twice; the runs have one, and the theorem about
  sends assumes it (`OneDispatcher`).
* The vault is one note with scalar fields and growing mtimes; hashes are
  injective; `write_text` is one step, and only `sync --write-back` writes.
* YAML and markdown round trips, OAuth, HTTP, selectors, configuration, row mappers and
  TUI layout are I/O, data or formatting and stay out.

## 8. Plan

Done: `Identity`; `Projection` and `ProjectionCheck`; `ReadModel` and `Pipeline`; `VaultSync`;
`Mirror`, `GoogleSync`, `Capture` and `Intake`; `Graph`, `Queue` and `Desk`; `MemoryStores`
and `SqliteStores`; with proofs for each.

Worth adding, in this order:

1. `VaultSync` with a second note, a rename and multi-valued fields: the identifier of a
   path outlives the note, and a file restored with its old mtime loses against the
   edit it reverts.
2. Threads of the API over one shared connection, where two requests share a
   transaction: the calls of `SqliteStores` inside one another's.
3. An abstract specification of a source that delivers at least once, implemented by
   `GoogleSync` as long as nobody dies.
