------------------------------ MODULE Pipeline ------------------------------
(***************************************************************************)
(* The ledger, the stores derived from it, and the commands that run over  *)
(* one SQLite file: `whodex serve`, the one-shot `whodex sync` / `queue`,  *)
(* the ingestion API and the TUI.  Each command is a process, and each     *)
(* action is one store call of it, a transaction of its own: between two   *)
(* calls any other process may run, or the process may die.                *)
(*                                                                         *)
(* reproject_and_persist, the tail of every command, is                    *)
(*   Load, ReadObservations, ReadUserActions, Save, ReplaceChanges,        *)
(*   ReplaceConflicts.                                                     *)
(*                                                                         *)
(* A cell is a field of an entity.  Edges, repairs and reminders are left  *)
(* out: nothing here reads them.                                           *)
(***************************************************************************)
EXTENDS Projection, Sequences

CONSTANTS
    Procs,      \* the running commands
    Role,       \* which command each is: "serve", "cli", "api" or "tui"
    Cells,
    Notable,    \* cells of a volatile field (Significance.notable)
    Sources, Values, Times,
    Drafts,     \* what the sources may report: cell, source, value, observed_at
    Sinks,      \* the registered notifiers
    Exclusive,  \* TRUE: the user runs one command at a time
    MaxObs,     \* bound: observations in the ledger
    MaxActs,    \* bound: commands given by the user (all but serve's ticks)
    MaxFaults   \* bound: crashes, rejected batches and refused sends

ASSUME Roles == Role \in [Procs -> {"serve", "cli", "api", "tui"}]
ASSUME KnownDrafts == Drafts \subseteq [cell: Cells, src: Sources, val: Values, at: Times]
ASSUME Ranked == Trust \in [Sources -> Int] /\ Times \subseteq Int
ASSUME NotableCells == Notable \subseteq Cells
ASSUME Bounds == MaxObs \in Nat /\ MaxActs \in Nat /\ MaxFaults \in Nat

VARIABLES
    \* the ledger
    obs,        \* observations, in commit order
    acked,      \* fingerprints of the ack_change user actions
    dismissed,  \* fingerprints of the dismiss user actions
    \* derived stores
    proj,       \* projection_states: the winner of each cell
    changes,    \* rows of the change table
    conflicts,  \* rows of the conflict table
    \* notifications
    notified,   \* dedupe keys in the notification table
    delivered,  \* their delivered_to: pairs of key and sink
    sends,      \* how often each pair was handed to its sink
    \* the running commands
    pc,         \* the next store call of each
    prev,       \* the projection it loaded
    read,       \* the observations it read
    judged,     \* the user actions it read: fingerprints acked, dismissed
    todo,       \* what it has read and will act on
    sending,    \* the delivery it has in hand
    given,      \* commands given so far
    faults      \* faults so far

ledger == <<obs, acked, dismissed>>
derived == <<proj, changes, conflicts>>
outbox == <<notified, delivered, sends>>
memory == <<prev, read, judged, todo, sending>>
vars == <<ledger, derived, outbox, pc, memory, given, faults>>

-----------------------------------------------------------------------------
(* What project() computes from a sequence of observations. *)

Recorded(s, c) == {s[i] : i \in {j \in DOMAIN s : s[j].cell = c}}

Resolve(S) == IF S = {} THEN NoValue ELSE Winner(S)

ProjectOf(s) == [c \in Cells |-> Resolve(Recorded(s, c))]

(* The fingerprint of a change: entity, field and canonical new value. *)
ChangeKey(c, o) == [cell |-> c, new |-> Canon[o.val]]

(* The changes between two projections, each with the value it replaces; *)
(* project() visits only the fields that have observations.              *)
Changes(before, after) ==
    {[fp |-> ChangeKey(c, after[c]), old |-> before[c].val] :
        c \in {d \in Cells : after[d] # NoValue /\ Flipped(before[d], after[d])}}

(* The conflict suggestions.  Their fingerprint names two observations. *)
Contested(s) ==
    {c \in Cells : Recorded(s, c) # {} /\ Disputed(Recorded(s, c)) # NoValue}

Conflicts(s) ==
    {[cell |-> c, win |-> Winner(Recorded(s, c)).id, lose |-> Disputed(Recorded(s, c)).id] :
        c \in Contested(s)}

(* Rows of the change table the user has not seen; the notable ones are news. *)
Unseen == {r.fp : r \in {x \in changes : ~x.seen}}
News == {f \in Unseen : f.cell \in Notable}

OpenConflicts == {r.fp : r \in {x \in conflicts : x.open}}

-----------------------------------------------------------------------------
(* What the stores hold. *)

CanonValues == {Canon[v] : v \in Values}
ChangeKeys == [cell: Cells, new: CanonValues]
ConflictKeys == [cell: Cells, win: 1..MaxObs, lose: 1..MaxObs]
Observations ==
    [cell: Cells, src: Sources, val: Values, at: Times, got: 1..MaxObs, id: 1..MaxObs]
Views == [Cells -> Observations \cup {NoValue}]
Verdicts == SUBSET (ChangeKeys \cup ConflictKeys)
Deliveries == ChangeKeys \X Sinks

-----------------------------------------------------------------------------
(* Processes. *)

Blank == [acked |-> {}, dismissed |-> {}]

Init ==
    /\ obs = <<>> /\ acked = {} /\ dismissed = {}
    /\ proj = ProjectOf(<<>>) /\ changes = {} /\ conflicts = {}
    /\ notified = {} /\ delivered = {} /\ sends = [d \in Deliveries |-> 0]
    /\ pc = [p \in Procs |-> "idle"]
    /\ prev = [p \in Procs |-> NoValue]
    /\ read = [p \in Procs |-> <<>>]
    /\ judged = [p \in Procs |-> Blank]
    /\ todo = [p \in Procs |-> {}]
    /\ sending = [p \in Procs |-> NoValue]
    /\ given = 0 /\ faults = 0

Goto(p, next) == pc' = [pc EXCEPT ![p] = next]

Forget(p) ==
    /\ prev' = [prev EXCEPT ![p] = NoValue]
    /\ read' = [read EXCEPT ![p] = <<>>]
    /\ judged' = [judged EXCEPT ![p] = Blank]
    /\ todo' = [todo EXCEPT ![p] = {}]
    /\ sending' = [sending EXCEPT ![p] = NoValue]

(* The command returns, or its process dies: either way its memory is gone. *)
Finish(p) == Goto(p, "idle") /\ Forget(p)

Fault == faults < MaxFaults /\ faults' = faults + 1

Free(p) ==
    /\ pc[p] = "idle"
    /\ Exclusive => \A q \in Procs : pc[q] = "idle"

(* A command of the user; serve's ticks come by themselves and are not counted. *)
Give(p) ==
    IF Role[p] = "serve" THEN UNCHANGED given
    ELSE given < MaxActs /\ given' = given + 1

-----------------------------------------------------------------------------
(* Recording. *)

(* serve_tick, `sync`, `queue` start to fetch; the API starts on a batch. *)
Begin(p) ==
    /\ Free(p) /\ Role[p] # "tui" /\ Give(p)
    /\ Goto(p, "fetch")
    /\ UNCHANGED <<ledger, derived, outbox, memory, faults>>

(* The hub stamps a draft; stamps follow the order of the commits. *)
Finalize(d, n) ==
    [cell |-> d.cell, src |-> d.src, val |-> d.val, at |-> d.at, got |-> n, id |-> n]

(* ingest_one: one record is normalised, stamped and appended. *)
AppendObservations(p) ==
    /\ pc[p] = "fetch"
    /\ Len(obs) < MaxObs
    /\ \E d \in Drafts : obs' = Append(obs, Finalize(d, Len(obs) + 1))
    /\ UNCHANGED <<acked, dismissed, derived, outbox, pc, memory, given, faults>>

(* The sources have nothing more to yield. *)
FetchDone(p) ==
    /\ pc[p] = "fetch"
    /\ Goto(p, "load")
    /\ UNCHANGED <<ledger, derived, outbox, memory, given, faults>>

(* 422: the batch names an unknown source.  Records before it are recorded, *)
(* and nothing is projected.                                                *)
Reject(p) ==
    /\ pc[p] = "fetch" /\ Role[p] = "api"
    /\ Fault /\ Finish(p)
    /\ UNCHANGED <<ledger, derived, outbox, given>>

(* The TUI refreshes its screen: open changes and open conflicts. *)
Look(p) ==
    /\ Free(p) /\ Role[p] = "tui" /\ Give(p)
    /\ todo' = [todo EXCEPT ![p] = Unseen \cup OpenConflicts]
    /\ Goto(p, "look")
    /\ UNCHANGED <<ledger, derived, outbox, prev, read, judged, sending, faults>>

(* acknowledge_change on something shown.  The review screen's "d" calls it *)
(* too, with the fingerprint of a conflict.                                 *)
AcknowledgeChange(p) ==
    /\ pc[p] = "look"
    /\ \E f \in todo[p] : acked' = acked \cup {f}
    /\ todo' = [todo EXCEPT ![p] = {}]
    /\ Goto(p, "load")
    /\ UNCHANGED <<obs, dismissed, derived, outbox, prev, read, judged, sending, given, faults>>

(* dismiss_reminder, whose fingerprints suggestions are matched against. *)
Dismiss(p) ==
    /\ pc[p] = "look"
    /\ \E f \in todo[p] : dismissed' = dismissed \cup {f}
    /\ todo' = [todo EXCEPT ![p] = {}]
    /\ Goto(p, "load")
    /\ UNCHANGED <<obs, acked, derived, outbox, prev, read, judged, sending, given, faults>>

(* log_interaction, pin, snooze, set_cadence: nothing the projection reads, *)
(* and a reprojection all the same.                                         *)
AppendOther(p) ==
    /\ pc[p] = "look"
    /\ todo' = [todo EXCEPT ![p] = {}]
    /\ Goto(p, "load")
    /\ UNCHANGED <<ledger, derived, outbox, prev, read, judged, sending, given, faults>>

-----------------------------------------------------------------------------
(* reproject_and_persist. *)

(* prev = projection.load() *)
Load(p) ==
    /\ pc[p] = "load"
    /\ prev' = [prev EXCEPT ![p] = proj]
    /\ Goto(p, "read")
    /\ UNCHANGED <<ledger, derived, outbox, read, judged, todo, sending, given, faults>>

(* Wrong on purpose: only what was recorded since the standing winners. *)
ReadNewObservations(p) ==
    /\ pc[p] = "read"
    /\ read' = [read EXCEPT ![p] =
                  SelectSeq(obs, LAMBDA o : \/ prev[p][o.cell] = NoValue
                                            \/ o.got > prev[p][o.cell].got)]
    /\ Goto(p, "readActions")
    /\ UNCHANGED <<ledger, derived, outbox, prev, judged, todo, sending, given, faults>>

(* read_events: one SELECT per stream. *)
ReadObservations(p) ==
    /\ pc[p] = "read"
    /\ read' = [read EXCEPT ![p] = obs]
    /\ Goto(p, "readActions")
    /\ UNCHANGED <<ledger, derived, outbox, prev, judged, todo, sending, given, faults>>

(* Wrong on purpose: the previous projection is loaded after the ledger. *)
ReadUserActionsThenLoad(p) ==
    /\ pc[p] = "readActions"
    /\ judged' = [judged EXCEPT ![p] = [acked |-> acked, dismissed |-> dismissed]]
    /\ prev' = [prev EXCEPT ![p] = proj]
    /\ Goto(p, "save")
    /\ UNCHANGED <<ledger, derived, outbox, read, todo, sending, given, faults>>

(* Wrong on purpose: the user's verdicts are not read. *)
ReadUserActionsNot(p) ==
    /\ pc[p] = "readActions"
    /\ Goto(p, "save")
    /\ UNCHANGED <<ledger, derived, outbox, memory, given, faults>>

ReadUserActions(p) ==
    /\ pc[p] = "readActions"
    /\ judged' = [judged EXCEPT ![p] = [acked |-> acked, dismissed |-> dismissed]]
    /\ Goto(p, "save")
    /\ UNCHANGED <<ledger, derived, outbox, prev, read, todo, sending, given, faults>>

(* Wrong on purpose: a winner is kept as long as its value does not flip. *)
SaveFlippedOnly(p) ==
    /\ pc[p] = "save"
    /\ LET new == ProjectOf(read[p])
       IN proj' = [c \in Cells |-> IF prev[p][c] = NoValue \/ Flipped(prev[p][c], new[c])
                                   THEN new[c] ELSE prev[p][c]]
    /\ Goto(p, "changes")
    /\ UNCHANGED <<ledger, changes, conflicts, outbox, memory, given, faults>>

(* projection.save: the table is replaced by the new projection. *)
Save(p) ==
    /\ pc[p] = "save"
    /\ proj' = ProjectOf(read[p])
    /\ Goto(p, "changes")
    /\ UNCHANGED <<ledger, changes, conflicts, outbox, memory, given, faults>>

(* replace_changes: rows of this run only.  A row seen before stays seen, *)
(* and one the user has acknowledged starts seen.                         *)
ReplaceChanges(p) ==
    /\ pc[p] = "changes"
    /\ changes' = {[fp |-> x.fp, old |-> x.old,
                    seen |-> \/ \E r \in changes : r.fp = x.fp /\ r.seen
                             \/ x.fp \in judged[p].acked] :
                        x \in Changes(prev[p], ProjectOf(read[p]))}
    /\ Goto(p, "conflicts")
    /\ UNCHANGED <<ledger, proj, conflicts, outbox, memory, given, faults>>

(* replace_conflicts, likewise; serve goes on to its notifications. *)
ReplaceConflicts(p) ==
    /\ pc[p] = "conflicts"
    /\ conflicts' = {[fp |-> f,
                      open |-> /\ \A r \in conflicts : r.fp = f => r.open
                               /\ f \notin judged[p].dismissed] :
                        f \in Conflicts(read[p])}
    /\ IF Role[p] = "serve" THEN Goto(p, "generate") /\ Forget(p) ELSE Finish(p)
    /\ UNCHANGED <<ledger, proj, changes, outbox, given, faults>>

-----------------------------------------------------------------------------
(* The rest of a serve tick. *)

(* Wrong on purpose: conflicts are told like changes. *)
GenerateForConflicts(p) ==
    /\ pc[p] = "generate"
    /\ todo' = [todo EXCEPT ![p] = News \cup OpenConflicts]
    /\ Goto(p, "notify")
    /\ UNCHANGED <<ledger, derived, outbox, prev, read, judged, sending, given, faults>>

(* _generate_notifications reads the change table ... *)
Generate(p) ==
    /\ pc[p] = "generate"
    /\ todo' = [todo EXCEPT ![p] = News]
    /\ Goto(p, "notify")
    /\ UNCHANGED <<ledger, derived, outbox, prev, read, judged, sending, given, faults>>

(* ... and appends, skipping dedupe keys it has. *)
Notify(p) ==
    /\ pc[p] = "notify"
    /\ notified' = notified \cup todo[p]
    /\ Goto(p, "pending") /\ Forget(p)
    /\ UNCHANGED <<ledger, derived, delivered, sends, given, faults>>

(* Wrong on purpose: what was tried once is not pending any more. *)
PendingUntried(p) ==
    /\ pc[p] = "pending"
    /\ todo' = [todo EXCEPT ![p] = {d \in notified \X Sinks : sends[d] = 0}]
    /\ Goto(p, "send")
    /\ UNCHANGED <<ledger, derived, outbox, prev, read, judged, sending, given, faults>>

(* dispatch(): a snapshot of what is pending, then sink by sink. *)
Pending(p) ==
    /\ pc[p] = "pending"
    /\ todo' = [todo EXCEPT ![p] = (notified \X Sinks) \ delivered]
    /\ Goto(p, "send")
    /\ UNCHANGED <<ledger, derived, outbox, prev, read, judged, sending, given, faults>>

(* Wrong on purpose: what has been sent stays in the list. *)
SendAgain(p) ==
    /\ pc[p] = "send"
    /\ \E d \in todo[p] :
         /\ sends' = [sends EXCEPT ![d] = @ + 1]
         /\ sending' = [sending EXCEPT ![p] = d]
    /\ Goto(p, "mark")
    /\ UNCHANGED <<ledger, derived, notified, delivered, prev, read, judged, todo, given, faults>>

(* notifier.send(n) *)
Send(p) ==
    /\ pc[p] = "send"
    /\ \E d \in todo[p] :
         /\ sends' = [sends EXCEPT ![d] = @ + 1]
         /\ sending' = [sending EXCEPT ![p] = d]
         /\ todo' = [todo EXCEPT ![p] = @ \ {d}]
    /\ Goto(p, "mark")
    /\ UNCHANGED <<ledger, derived, notified, delivered, prev, read, judged, given, faults>>

(* mark_delivered, or, when the sink refused, nothing until the next tick. *)
MarkDelivered(p) ==
    /\ pc[p] = "mark"
    /\ delivered' = delivered \cup {sending[p]}
    /\ sending' = [sending EXCEPT ![p] = NoValue]
    /\ Goto(p, "send")
    /\ UNCHANGED <<ledger, derived, notified, sends, prev, read, judged, todo, given, faults>>

Refused(p) ==
    /\ pc[p] = "mark" /\ Fault
    /\ sending' = [sending EXCEPT ![p] = NoValue]
    /\ Goto(p, "send")
    /\ UNCHANGED <<ledger, derived, outbox, prev, read, judged, todo, given>>

TickDone(p) ==
    /\ pc[p] = "send" /\ todo[p] = {}
    /\ Finish(p)
    /\ UNCHANGED <<ledger, derived, outbox, given, faults>>

(* The process dies between two store calls. *)
Crash(p) ==
    /\ pc[p] # "idle"
    /\ Fault /\ Finish(p)
    /\ UNCHANGED <<ledger, derived, outbox, given>>

-----------------------------------------------------------------------------
Reproject(p) ==
    \/ Load(p) \/ ReadObservations(p) \/ ReadUserActions(p)
    \/ Save(p) \/ ReplaceChanges(p) \/ ReplaceConflicts(p)

Dispatch(p) ==
    \/ Generate(p) \/ Notify(p) \/ Pending(p)
    \/ Send(p) \/ MarkDelivered(p) \/ TickDone(p)

User(p) == Look(p) \/ AcknowledgeChange(p) \/ Dismiss(p) \/ AppendOther(p)

(* What a process that is running goes on to do. *)
Step(p) == FetchDone(p) \/ Reproject(p) \/ Dispatch(p)

Next ==
    \E p \in Procs :
        \/ Begin(p) \/ AppendObservations(p) \/ Reject(p) \/ User(p)
        \/ Step(p) \/ Refused(p) \/ Crash(p)

Spec == Init /\ [][Next]_vars

(* serve polls every interval: its loop starts a tick again and again, and *)
(* a running process reaches its next store call.                          *)
Fairness ==
    \A p \in Procs :
        /\ WF_vars(Role[p] = "serve" /\ Begin(p))
        /\ WF_vars(Step(p))

FairSpec == Spec /\ Fairness

-----------------------------------------------------------------------------
(* Properties. *)

Phases == {"idle", "fetch", "look", "load", "read", "readActions", "save",
           "changes", "conflicts", "generate", "notify", "pending", "send", "mark"}

(* Type invariant: every store and every process holds what its code puts there. *)
TypeOK ==
    /\ obs \in Seq(Observations) /\ acked \in Verdicts /\ dismissed \in Verdicts
    /\ proj \in Views
    /\ changes \subseteq [fp: ChangeKeys, old: Values, seen: BOOLEAN]
    /\ conflicts \subseteq [fp: ConflictKeys, open: BOOLEAN]
    /\ notified \subseteq ChangeKeys /\ delivered \subseteq Deliveries
    /\ sends \in [Deliveries -> Nat]
    /\ pc \in [Procs -> Phases]
    /\ prev \in [Procs -> Views \cup {NoValue}]
    /\ read \in [Procs -> Seq(Observations)]
    /\ judged \in [Procs -> [acked: Verdicts, dismissed: Verdicts]]
    /\ DOMAIN todo = Procs
    /\ \A p \in Procs : IF pc[p] \in {"send", "mark"} THEN todo[p] \subseteq Deliveries
                                                    ELSE todo[p] \in Verdicts
    /\ sending \in [Procs -> Deliveries \cup {NoValue}]
    /\ given \in 0..MaxActs /\ faults \in 0..MaxFaults

(* The ledger as it stood after its first n observations. *)
Upto(n) == SubSeq(obs, 1, n)

(* The winner of f's cell went over to f's value as the ledger grew from i to j. *)
WentOver(f, i, j) ==
    /\ Flipped(ProjectOf(Upto(i))[f.cell], ProjectOf(Upto(j))[f.cell])
    /\ ChangeKey(f.cell, ProjectOf(Upto(j))[f.cell]) = f

(* However the commands overlap, and whoever dies, a change is never told      *)
(* backwards: what a row of the change table calls old did win, on a shorter   *)
(* ledger than the one where the new value won.  The same for notifications.   *)
(* reproject_and_persist loads the projection before it reads the ledger.      *)
FlipsRunForward ==
    /\ \A r \in changes : \E i, j \in 0..Len(obs) :
         i < j /\ WentOver(r.fp, i, j) /\ ProjectOf(Upto(i))[r.fp.cell].val = r.old
    /\ \A f \in notified : \E i, j \in 0..Len(obs) : i < j /\ WentOver(f, i, j)

(* With one dispatcher, a notification goes to a sink a second time only       *)
(* after a send that failed, or a process that died.                           *)
SentAgainOnlyAfterFault == \A d \in Deliveries : sends[d] <= 1 + faults

Idle == \A p \in Procs : pc[p] = "idle"

(* The derived stores are those of the whole ledger. *)
InSync ==
    /\ proj = ProjectOf(obs)
    /\ {r.fp : r \in conflicts} = Conflicts(obs)

(* One command at a time and no fault: whenever nothing runs, readers see the  *)
(* whole ledger, and what the user has acknowledged or dismissed stays so.     *)
FreshWhenIdle ==
    Exclusive /\ Idle /\ faults = 0 =>
        /\ InSync
        /\ Unseen \cap acked = {}
        /\ OpenConflicts \cap dismissed = {}

(* One command at a time: a change the user has acknowledged never becomes a   *)
(* notification, be it the same flip a second time, after any crash.           *)
AckedNeverNotified ==
    [][Exclusive => (notified' \ notified) \cap acked = {}]_vars

(* Commands that overlap may save an older projection over a newer one.  Once  *)
(* the ledger stands still, serve's ticks repair that for good.                *)
Converges == <>[]InSync

(* Every notification reaches every sink, after crashes and refused sends too. *)
EventuallyDelivered ==
    \A d \in Deliveries : d[1] \in notified ~> d \in delivered

(* "a one-shot `sync` may generate while nothing is listening; they sit        *)
(* PENDING and dispatch when the TUI opens or the daemon's Telegram sink       *)
(* runs": news in the change table becomes a notification, unless the user     *)
(* has seen it first.                                                          *)
NewsGetsOut ==
    \A f \in ChangeKeys :
        f \in News ~> f \in notified \/ f \in acked

(* A disagreement by its values, as DESIGN 6.5 fingerprints it. *)
Disagreement(f) == [cell |-> f.cell,
                    win |-> <<obs[f.win].src, Canon[obs[f.win].val]>>,
                    lose |-> <<obs[f.lose].src, Canon[obs[f.lose].val]>>]

(* "The suggestion is fingerprinted by (contact, field, winning_hash,          *)
(* disagreeing_hash, source) so repeated syncs update last_seen_at but do not  *)
(* spam the review queue": once dismissed, no sync brings it back.             *)
DismissedStaysAway ==
    Idle => \A f \in OpenConflicts, g \in dismissed \cap ConflictKeys :
                Disagreement(f) # Disagreement(g)

(* The promise: InSync views of a ledger that only grows. *)
ReadModel == INSTANCE ReadModel WITH Fold <- ProjectOf, ledger <- obs, view <- proj

(* One command at a time: the pipeline, crashes and rejected batches included, *)
(* implements it.                                                              *)
Refinement == ReadModel!Spec
=============================================================================
