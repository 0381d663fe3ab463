--------------------------- MODULE PipelineProofs ---------------------------
(* Theorems about Pipeline, for any number of commands, cells, sources, *)
(* values, sinks and faults.                                            *)
EXTENDS Pipeline, ProjectionProofs

-----------------------------------------------------------------------------
(* The ledger. *)

(* Observations are stamped in the order of their commits. *)
Stamped(s) == \A i \in 1..Len(s) : s[i].id = i /\ s[i].got = i

LedgerInv == obs \in Seq(Observations) /\ Len(obs) <= MaxObs /\ Stamped(obs)

(* Only AppendObservations writes the observations. *)
LEMMA LedgerStep ==
    ASSUME LedgerInv, [Next]_vars
    PROVE  /\ LedgerInv'
           /\ \/ UNCHANGED obs
              \/ \E o \in Observations : obs' = Append(obs, o)
<1>1. ASSUME NEW p \in Procs, AppendObservations(p)
      PROVE  LedgerInv' /\ \E o \in Observations : obs' = Append(obs, o)
  <2>1. PICK d \in Drafts : obs' = Append(obs, Finalize(d, Len(obs) + 1))
    BY <1>1 DEF AppendObservations
  <2>2. Len(obs) \in Nat /\ Len(obs) + 1 \in 1..MaxObs
    BY <1>1, Bounds DEF AppendObservations, LedgerInv
  <2>3. Finalize(d, Len(obs) + 1) \in Observations
    BY <2>2, KnownDrafts DEF Finalize, Observations
  <2>4. Finalize(d, Len(obs) + 1).id = Len(obs) + 1 /\ Finalize(d, Len(obs) + 1).got = Len(obs) + 1
    BY DEF Finalize
  <2>5. obs' \in Seq(Observations) /\ Len(obs') = Len(obs) + 1
        /\ \A i \in 1..Len(obs') : obs'[i] = IF i <= Len(obs) THEN obs[i]
                                             ELSE Finalize(d, Len(obs) + 1)
    BY <2>1, <2>2, <2>3 DEF LedgerInv
  <2> QED
    BY <2>1, <2>2, <2>3, <2>4, <2>5 DEF LedgerInv, Stamped
<1>2. ASSUME NEW p \in Procs, ~ AppendObservations(p),
             \/ Begin(p) \/ AppendObservations(p) \/ Reject(p) \/ User(p)
             \/ Step(p) \/ Refused(p) \/ Crash(p)
      PROVE  UNCHANGED obs
  BY <1>2 DEF Begin, Reject, User, Look, AcknowledgeChange, Dismiss, AppendOther,
              Step, FetchDone, Reproject, Load, ReadObservations, ReadUserActions, Save,
              ReplaceChanges, ReplaceConflicts, Dispatch, Generate, Notify, Pending, Send,
              MarkDelivered, TickDone, Refused, Crash, ledger
<1>3. UNCHANGED obs => LedgerInv'
  BY DEF LedgerInv, Stamped
<1> QED
  BY <1>1, <1>2, <1>3 DEF Next, vars, ledger

(* What the ledger was, it has been. *)
LEMMA PastKept ==
    ASSUME LedgerInv, [Next]_vars
    PROVE  /\ Len(obs) \in Nat /\ Len(obs') \in Nat /\ Len(obs) <= Len(obs')
           /\ \A n \in 0..Len(obs) : Upto(n)' = Upto(n)
<1>1. CASE UNCHANGED obs
  BY <1>1 DEF Upto, LedgerInv
<1>2. CASE \E o \in Observations : obs' = Append(obs, o)
  <2>1. PICK o \in Observations : obs' = Append(obs, o)
    BY <1>2
  <2>2. Len(obs) \in Nat /\ Len(obs') = Len(obs) + 1
    BY <2>1 DEF LedgerInv
  <2>3. ASSUME NEW n \in 0..Len(obs)
        PROVE  SubSeq(obs', 1, n) = SubSeq(obs, 1, n)
    BY <2>1, <2>2, <2>3 DEF LedgerInv
  <2> QED
    BY <2>2, <2>3 DEF Upto
<1> QED
  BY <1>1, <1>2, LedgerStep

-----------------------------------------------------------------------------
(* Why changes are never told backwards: a command loads the projection before *)
(* it reads the ledger, and every projection that was ever saved is that of a  *)
(* part of the ledger.                                                         *)
Shape ==
    /\ pc \in [Procs -> Phases]
    /\ DOMAIN prev = Procs /\ DOMAIN read = Procs /\ DOMAIN judged = Procs
    /\ DOMAIN todo = Procs /\ DOMAIN sending = Procs

Told(r) ==
    \E i, j \in 0..Len(obs) :
        i < j /\ WentOver(r.fp, i, j) /\ ProjectOf(Upto(i))[r.fp.cell].val = r.old

Won(f) == \E i, j \in 0..Len(obs) : i < j /\ WentOver(f, i, j)

Projecting == {"readActions", "save", "changes", "conflicts"}

Loaded(p) == \E i \in 0..Len(obs) : prev[p] = ProjectOf(Upto(i))

LoadedThenRead(p) ==
    \E i, j \in 0..Len(obs) :
        i <= j /\ prev[p] = ProjectOf(Upto(i)) /\ read[p] = Upto(j)

SavedInv == \E n \in 0..Len(obs) : proj = ProjectOf(Upto(n))

MemoryOf(p) ==
    /\ pc[p] = "read" => Loaded(p)
    /\ pc[p] \in Projecting => LoadedThenRead(p)
    /\ pc[p] = "notify" => \A f \in todo[p] : Won(f)

MemoryInv == \A p \in Procs : MemoryOf(p)

PastInv == LedgerInv /\ Shape /\ SavedInv /\ MemoryInv /\ FlipsRunForward

LEMMA PastInit == Init => PastInv
<1> SUFFICES ASSUME Init PROVE PastInv
  OBVIOUS
<1>1. LedgerInv /\ Len(obs) = 0 /\ Upto(0) = <<>>
  BY Bounds DEF Init, LedgerInv, Stamped, Upto
<1>2. Shape /\ MemoryInv /\ FlipsRunForward
  BY DEF Init, Shape, Phases, MemoryInv, MemoryOf, Projecting, FlipsRunForward
<1>3. SavedInv
  BY <1>1 DEF Init, SavedInv
<1> QED
  BY <1>1, <1>2, <1>3 DEF PastInv

(* What happened on the ledger stays true as the ledger grows. *)
LEMMA PastLasts ==
    ASSUME LedgerInv, [Next]_vars
    PROVE  /\ \A f : Won(f) => Won(f)'
           /\ \A r : Told(r) => Told(r)'
           /\ proj' = proj /\ SavedInv => SavedInv'
           /\ \A p \in Procs : prev'[p] = prev[p] /\ Loaded(p) => Loaded(p)'
           /\ \A p \in Procs :
                 prev'[p] = prev[p] /\ read'[p] = read[p] /\ LoadedThenRead(p)
                    => LoadedThenRead(p)'
<1>1. 0..Len(obs) \subseteq 0..Len(obs')
  BY PastKept
<1>2. \A n \in 0..Len(obs) : ProjectOf(Upto(n)') = ProjectOf(Upto(n))
  BY PastKept
<1>3. \A f : \A i, j \in 0..Len(obs) : WentOver(f, i, j) => WentOver(f, i, j)'
  BY <1>2 DEF WentOver
<1> QED
  BY <1>1, <1>2, <1>3, PastKept DEF Won, Told, SavedInv, Loaded, LoadedThenRead

Kept(q) ==
    /\ pc'[q] = pc[q] /\ prev'[q] = prev[q] /\ read'[q] = read[q]
    /\ judged'[q] = judged[q] /\ todo'[q] = todo[q] /\ sending'[q] = sending[q]

Act(p) ==
    \/ Begin(p) \/ AppendObservations(p) \/ Reject(p) \/ User(p)
    \/ Step(p) \/ Refused(p) \/ Crash(p)

(* A command touches no memory but its own. *)
LEMMA LocalStep ==
    ASSUME Shape, NEW p \in Procs, Act(p)
    PROVE  Shape' /\ \A q \in Procs \ {p} : Kept(q)
<1> USE DEF Shape, Kept, Goto, memory, Phases
<1>1. CASE Begin(p) \/ AppendObservations(p) \/ Reject(p) \/ User(p) \/ Refused(p) \/ Crash(p)
  BY <1>1 DEF Begin, AppendObservations, Reject, User, Look, AcknowledgeChange, Dismiss,
              AppendOther, Refused, Crash, Finish, Forget
<1>2. CASE FetchDone(p) \/ Reproject(p)
  BY <1>2 DEF FetchDone, Reproject, Load, ReadObservations, ReadUserActions, Save,
              ReplaceChanges, ReplaceConflicts, Finish, Forget
<1>3. CASE Dispatch(p)
  BY <1>3 DEF Dispatch, Generate, Notify, Pending, Send, MarkDelivered, TickDone, Finish, Forget
<1> QED
  BY <1>1, <1>2, <1>3 DEF Act, Step

(* The derived stores are written by the calls that say so. *)
LEMMA StoreStep ==
    ASSUME NEW p \in Procs, Act(p)
    PROVE  /\ Save(p) \/ UNCHANGED proj
           /\ ReplaceChanges(p) \/ UNCHANGED changes
           /\ Notify(p) \/ UNCHANGED notified
<1>1. CASE Begin(p) \/ AppendObservations(p) \/ Reject(p) \/ User(p) \/ Refused(p) \/ Crash(p)
  BY <1>1 DEF Begin, AppendObservations, Reject, User, Look, AcknowledgeChange, Dismiss,
              AppendOther, Refused, Crash, derived, outbox
<1>2. CASE FetchDone(p) \/ Reproject(p)
  BY <1>2 DEF FetchDone, Reproject, Load, ReadObservations, ReadUserActions, Save,
              ReplaceChanges, ReplaceConflicts, derived, outbox
<1>3. CASE Dispatch(p)
  BY <1>3 DEF Dispatch, Generate, Notify, Pending, Send, MarkDelivered, TickDone,
              derived, outbox
<1> QED
  BY <1>1, <1>2, <1>3 DEF Act, Step

LEMMA MemoryKept ==
    ASSUME LedgerInv, [Next]_vars, NEW q \in Procs, MemoryOf(q), Kept(q)
    PROVE  MemoryOf(q)'
  BY PastLasts DEF MemoryOf, Kept

(* What a command knows after a call of its own. *)
LEMMA MemoryStep ==
    ASSUME PastInv, Next, NEW p \in Procs, Act(p)
    PROVE  MemoryOf(p)'
<1> USE DEF PastInv, Shape, Goto
<1>1. CASE Load(p)
  <2>1. prev'[p] = proj /\ pc'[p] = "read" /\ SavedInv'
    BY <1>1, PastLasts DEF Load, derived
  <2>2. UNCHANGED obs
    BY <1>1 DEF Load, ledger
  <2> QED  BY <2>1, <2>2 DEF SavedInv, Loaded, MemoryOf, Projecting, Upto
<1>2. CASE ReadObservations(p)
  <2>1. PICK i \in 0..Len(obs) : prev[p] = ProjectOf(Upto(i))
    BY <1>2 DEF ReadObservations, MemoryInv, MemoryOf, Loaded
  <2>2. /\ read'[p] = obs /\ pc'[p] = "readActions" /\ prev'[p] = prev[p]
        /\ UNCHANGED obs
    BY <1>2 DEF ReadObservations, ledger
  <2>3. Len(obs) \in 0..Len(obs) /\ Upto(Len(obs)) = obs /\ i <= Len(obs)
    BY DEF LedgerInv, Upto
  <2>4. LoadedThenRead(p)'
    BY <2>1, <2>2, <2>3 DEF LoadedThenRead, Upto
  <2> QED  BY <2>2, <2>4 DEF MemoryOf
<1>3. CASE ReadUserActions(p) \/ Save(p) \/ ReplaceChanges(p)
  <2>1. /\ pc[p] \in Projecting /\ prev'[p] = prev[p] /\ read'[p] = read[p]
        /\ pc'[p] \in Projecting
    BY <1>3 DEF ReadUserActions, Save, ReplaceChanges, Projecting, memory
  <2> QED  BY <2>1, PastLasts DEF MemoryInv, MemoryOf, Projecting
<1>4. CASE Generate(p)
  <2>1. todo'[p] = News /\ pc'[p] = "notify"
    BY <1>4 DEF Generate
  <2>2. \A f \in News : Won(f)
    BY DEF News, Unseen, FlipsRunForward, Won
  <2> QED  BY <2>1, <2>2, PastLasts DEF MemoryOf, Projecting
<1>5. ASSUME ~ (Load(p) \/ ReadObservations(p) \/ ReadUserActions(p) \/ Save(p)
                \/ ReplaceChanges(p) \/ Generate(p))
      PROVE  pc'[p] \notin {"read", "notify"} \cup Projecting
  <2> USE DEF Projecting
  <2>1. CASE Begin(p) \/ AppendObservations(p) \/ Reject(p) \/ User(p) \/ Refused(p) \/ Crash(p)
    BY <2>1 DEF Begin, AppendObservations, Reject, User, Look, AcknowledgeChange, Dismiss,
                AppendOther, Refused, Crash, Finish
  <2>2. CASE FetchDone(p) \/ ReplaceConflicts(p)
    BY <2>2 DEF FetchDone, ReplaceConflicts, Finish
  <2>3. CASE Notify(p) \/ Pending(p) \/ Send(p) \/ MarkDelivered(p) \/ TickDone(p)
    BY <2>3 DEF Notify, Pending, Send, MarkDelivered, TickDone, Finish
  <2> QED  BY <1>5, <2>1, <2>2, <2>3 DEF Act, Step, Reproject, Dispatch
<1> QED
  BY <1>1, <1>2, <1>3, <1>4, <1>5 DEF MemoryOf

LEMMA PastStep == PastInv /\ [Next]_vars => PastInv'
<1> SUFFICES ASSUME PastInv, [Next]_vars PROVE PastInv'
  OBVIOUS
<1> USE DEF PastInv
<1>1. LedgerInv'
  BY LedgerStep
<1>2. ASSUME UNCHANGED changes PROVE (\A r \in changes : Told(r))'
  BY <1>2, PastLasts DEF FlipsRunForward, Told
<1>3. ASSUME UNCHANGED notified PROVE (\A f \in notified : Won(f))'
  BY <1>3, PastLasts DEF FlipsRunForward, Won
<1>4. (\A r \in changes : Told(r))' /\ (\A f \in notified : Won(f))' => FlipsRunForward'
  BY DEF FlipsRunForward, Told, Won
<1>5. ASSUME NEW p \in Procs, Act(p), Next PROVE PastInv'
  <2>1. Shape' /\ \A q \in Procs \ {p} : Kept(q)
    BY <1>5, LocalStep
  <2>2. MemoryInv'
    BY <1>5, <2>1, MemoryKept, MemoryStep DEF MemoryInv
  <2>3. SavedInv'
    <3>1. CASE Save(p)
      <4>1. proj' = ProjectOf(read[p]) /\ UNCHANGED obs /\ LoadedThenRead(p)
        BY <3>1 DEF Save, ledger, MemoryInv, MemoryOf, Projecting
      <4> QED  BY <4>1 DEF SavedInv, LoadedThenRead, Upto
    <3>2. CASE UNCHANGED proj
      BY <3>2, PastLasts
    <3> QED  BY <1>5, <3>1, <3>2, StoreStep
  <2>4. (\A r \in changes : Told(r))'
    <3>1. CASE ReplaceChanges(p)
      <4>1. PICK i, j \in 0..Len(obs) :
              i <= j /\ prev[p] = ProjectOf(Upto(i)) /\ read[p] = Upto(j)
        BY <3>1 DEF ReplaceChanges, MemoryInv, MemoryOf, Projecting, LoadedThenRead
      <4>2. ASSUME NEW r \in changes' PROVE Told(r)
        <5>1. PICK x \in Changes(prev[p], ProjectOf(read[p])) : r.fp = x.fp /\ r.old = x.old
          BY <3>1, <4>2 DEF ReplaceChanges
        <5>2. PICK c \in Cells :
                /\ Flipped(ProjectOf(Upto(i))[c], ProjectOf(Upto(j))[c])
                /\ x.fp = ChangeKey(c, ProjectOf(Upto(j))[c])
                /\ x.old = ProjectOf(Upto(i))[c].val
          BY <4>1, <5>1 DEF Changes
        <5>3. r.fp.cell = c
          BY <5>1, <5>2 DEF ChangeKey
        <5>4. i # j
          BY <5>2 DEF Flipped
        <5> QED
          BY <4>1, <5>1, <5>2, <5>3, <5>4 DEF Told, WentOver
      <4>3. UNCHANGED obs
        BY <3>1 DEF ReplaceChanges, ledger
      <4> QED  BY <1>5, <4>2, PastLasts
    <3>2. CASE UNCHANGED changes
      BY <1>2, <3>2
    <3> QED  BY <1>5, <3>1, <3>2, StoreStep
  <2>5. (\A f \in notified : Won(f))'
    <3>1. CASE Notify(p)
      <4>1. \A f \in notified' : Won(f)
        BY <3>1 DEF Notify, MemoryInv, MemoryOf, FlipsRunForward, Won
      <4> QED  BY <4>1, PastLasts
    <3>2. CASE UNCHANGED notified
      BY <1>3, <3>2
    <3> QED  BY <1>5, <3>1, <3>2, StoreStep
  <2> QED  BY <1>1, <1>4, <2>1, <2>2, <2>3, <2>4, <2>5
<1>6. CASE UNCHANGED vars
  <2>1. \A q \in Procs : Kept(q)
    BY <1>6 DEF Kept, vars, memory
  <2>2. MemoryInv'
    BY <2>1, MemoryKept DEF MemoryInv
  <2>3. Shape' /\ SavedInv'
    BY <1>6, PastLasts DEF vars, memory, derived, Shape
  <2> QED  BY <1>1, <1>2, <1>3, <1>4, <1>6, <2>2, <2>3 DEF vars, derived, outbox
<1> QED
  BY <1>5, <1>6 DEF Next, Act

(* Whatever commands overlap, and whoever dies: no change and no notification *)
(* says that a value was replaced by one that had won before it.              *)
THEOREM ChangesRunForward == Spec => []FlipsRunForward
<1>1. PastInv => FlipsRunForward
  BY DEF PastInv
<1> QED
  BY PastInit, PastStep, <1>1, PTL DEF Spec

-----------------------------------------------------------------------------
(* One command at a time.  From its reads on, a command knows the whole ledger *)
(* and all verdicts of the user, and what it writes is made of them.           *)
Alone == \A p, q \in Procs : pc[p] # "idle" /\ pc[q] # "idle" => p = q

UpToDate ==
    /\ InSync
    /\ Unseen \cap acked = {}
    /\ OpenConflicts \cap dismissed = {}

SerialOf(p) ==
    /\ pc[p] \in Projecting => read[p] = obs
    /\ pc[p] \in Projecting \ {"readActions"} =>
         judged[p].acked = acked /\ judged[p].dismissed = dismissed
    /\ pc[p] \in {"changes", "conflicts"} => proj = ProjectOf(obs)
    /\ pc[p] = "conflicts" => Unseen \cap acked = {}
    /\ pc[p] \in {"generate", "notify", "pending", "send", "mark"} => UpToDate
    /\ pc[p] = "notify" => todo[p] \cap acked = {}

SerialInv ==
    /\ Shape /\ faults \in Nat
    /\ Exclusive => /\ Alone
                    /\ \A p \in Procs : SerialOf(p)
                    /\ Idle /\ faults = 0 => UpToDate

LEMMA SerialInit == Init => SerialInv
<1> SUFFICES ASSUME Init PROVE SerialInv
  OBVIOUS
<1>1. \A c : Recorded(<<>>, c) = {}
  BY DEF Recorded
<1>2. Conflicts(obs) = {}
  BY <1>1 DEF Conflicts, Contested, Init
<1>3. UpToDate
  BY <1>2 DEF Init, UpToDate, InSync, Unseen, OpenConflicts
<1> QED
  BY <1>3 DEF Init, SerialInv, Shape, Phases, Alone, SerialOf, Projecting

(* While one command acts, the others are idle. *)
LEMMA OthersIdle ==
    ASSUME Exclusive, Shape, Alone, NEW p \in Procs, Act(p)
    PROVE  \A q \in Procs \ {p} : pc[q] = "idle" /\ pc'[q] = "idle"
<1>1. pc[p] # "idle" \/ Free(p)
  <2>1. CASE Begin(p) \/ AppendObservations(p) \/ Reject(p) \/ User(p) \/ Refused(p) \/ Crash(p)
    BY <2>1 DEF Begin, AppendObservations, Reject, User, Look, AcknowledgeChange, Dismiss,
                AppendOther, Refused, Crash
  <2>2. CASE Step(p)
    BY <2>2 DEF Step, FetchDone, Reproject, Load, ReadObservations, ReadUserActions, Save,
                ReplaceChanges, ReplaceConflicts, Dispatch, Generate, Notify, Pending, Send,
                MarkDelivered, TickDone
  <2> QED  BY <2>1, <2>2 DEF Act
<1> QED
  BY <1>1, LocalStep DEF Alone, Free, Kept

(* What readers see depends on these only. *)
LEMMA UpToDateKept ==
    ASSUME UpToDate, UNCHANGED <<obs, acked, dismissed, proj, changes, conflicts>>
    PROVE  UpToDate'
  BY DEF UpToDate, InSync, Unseen, OpenConflicts

LEMMA SerialStepOf ==
    ASSUME SerialInv, Exclusive, NEW p \in Procs, Act(p)
    PROVE  /\ SerialOf(p)'
           /\ Idle' /\ faults' = 0 => UpToDate'
<1> USE DEF SerialInv, Shape, Goto, Projecting
<1>1. SerialOf(p) /\ \A q \in Procs \ {p} : pc[q] = "idle" /\ pc'[q] = "idle"
  BY OthersIdle
<1>2. CASE ReadObservations(p) \/ ReadUserActions(p) \/ Save(p)
  <2>1. pc'[p] \in Projecting /\ UNCHANGED ledger
    BY <1>2 DEF ReadObservations, ReadUserActions, Save
  <2>2. SerialOf(p)'
    BY <1>1, <1>2 DEF ReadObservations, ReadUserActions, Save, SerialOf, ledger, derived, memory
  <2> QED  BY <2>1, <2>2 DEF Idle
<1>3. CASE ReplaceChanges(p)
  <2>1. pc'[p] = "conflicts" /\ UNCHANGED ledger /\ UNCHANGED proj /\ UNCHANGED memory
    BY <1>3 DEF ReplaceChanges
  <2>2. (Unseen \cap acked = {})'
    <3>1. judged[p].acked = acked /\ acked' = acked
      BY <1>1, <1>3 DEF ReplaceChanges, SerialOf, ledger
    <3>2. \A r \in changes' : r.fp \in acked => r.seen
      BY <1>3, <3>1 DEF ReplaceChanges
    <3> QED  BY <3>1, <3>2 DEF Unseen
  <2>3. SerialOf(p)'
    BY <1>1, <1>3, <2>1, <2>2 DEF ReplaceChanges, SerialOf, ledger, memory
  <2> QED  BY <2>1, <2>3 DEF Idle
<1>4. CASE ReplaceConflicts(p)
  <2>1. /\ UNCHANGED <<obs, acked, dismissed, proj, changes>>
        /\ read[p] = obs /\ judged[p].dismissed = dismissed
        /\ proj = ProjectOf(obs) /\ Unseen \cap acked = {}
    BY <1>1, <1>4 DEF ReplaceConflicts, SerialOf, ledger
  <2> DEFINE Open(f) == /\ \A r \in conflicts : r.fp = f => r.open
                        /\ f \notin judged[p].dismissed
             Row(f) == [fp |-> f, open |-> Open(f)]
  <2>2. {r.fp : r \in conflicts'} = Conflicts(obs)
    <3>1. conflicts' = {Row(f) : f \in Conflicts(obs)}
      BY <1>4, <2>1 DEF ReplaceConflicts
    <3> HIDE DEF Open
    <3>2. \A f : Row(f).fp = f
      OBVIOUS
    <3> HIDE DEF Row
    <3> QED  BY <3>1, <3>2
  <2>3. \A r \in conflicts' : r.open => r.fp \notin dismissed
    BY <1>4, <2>1 DEF ReplaceConflicts
  <2>4. UpToDate'
    BY <2>1, <2>2, <2>3 DEF UpToDate, InSync, Unseen, OpenConflicts
  <2>5. pc'[p] \in {"generate", "idle"}
    BY <1>4 DEF ReplaceConflicts, Finish
  <2> QED  BY <2>4, <2>5 DEF SerialOf
<1>5. CASE Dispatch(p)
  <2>1. UpToDate /\ UNCHANGED <<obs, acked, dismissed, proj, changes, conflicts>>
    BY <1>1, <1>5 DEF Dispatch, Generate, Notify, Pending, Send, MarkDelivered, TickDone,
                      SerialOf, ledger, derived
  <2>2. UpToDate'
    BY <2>1, UpToDateKept
  <2>3. pc'[p] \in {"notify", "pending", "send", "mark", "idle"}
    BY <1>5 DEF Dispatch, Generate, Notify, Pending, Send, MarkDelivered, TickDone, Finish
  <2>4. pc'[p] = "notify" => todo'[p] = News
    BY <1>5 DEF Dispatch, Generate, Notify, Pending, Send, MarkDelivered, TickDone, Finish
  <2>5. News \cap acked = {}
    BY <2>1 DEF News, UpToDate
  <2> QED  BY <2>1, <2>2, <2>3, <2>4, <2>5 DEF SerialOf
<1>6. CASE Reject(p) \/ Refused(p) \/ Crash(p)
  <2>1. faults' # 0
    BY <1>6 DEF Reject, Refused, Crash, Fault
  <2>2. CASE Refused(p)
    <3>1. UpToDate /\ UNCHANGED <<obs, acked, dismissed, proj, changes, conflicts>>
      BY <1>1, <2>2 DEF Refused, SerialOf, ledger, derived
    <3>2. pc'[p] = "send"
      BY <2>2 DEF Refused
    <3> QED  BY <2>1, <3>1, <3>2, UpToDateKept DEF SerialOf
  <2>3. CASE Reject(p) \/ Crash(p)
    <3>1. pc'[p] = "idle"
      BY <2>3 DEF Reject, Crash, Finish
    <3> QED  BY <2>1, <3>1 DEF SerialOf
  <2> QED  BY <1>6, <2>2, <2>3
<1>7. CASE Begin(p) \/ AppendObservations(p) \/ FetchDone(p) \/ User(p) \/ Load(p)
  <2>1. pc'[p] \in {"fetch", "look", "load", "read"}
    BY <1>7 DEF Begin, AppendObservations, FetchDone, User, Look, AcknowledgeChange, Dismiss,
                AppendOther, Load
  <2> QED  BY <2>1 DEF SerialOf, Idle
<1> QED
  BY <1>2, <1>3, <1>4, <1>5, <1>6, <1>7 DEF Act, Step, Reproject

LEMMA SerialStep == SerialInv /\ [Next]_vars => SerialInv'
<1> SUFFICES ASSUME SerialInv, [Next]_vars PROVE SerialInv'
  OBVIOUS
<1>1. ASSUME NEW p \in Procs, Act(p) PROVE SerialInv'
  <2>1. Shape'
    BY <1>1, LocalStep DEF SerialInv
  <2>2. faults' \in Nat
    <3>1. UNCHANGED faults \/ Fault
      BY <1>1 DEF Act, Begin, AppendObservations, Reject, User, Look, AcknowledgeChange, Dismiss,
                  AppendOther, Step, FetchDone, Reproject, Load, ReadObservations,
                  ReadUserActions, Save, ReplaceChanges, ReplaceConflicts, Dispatch, Generate,
                  Notify, Pending, Send, MarkDelivered, TickDone, Refused, Crash
    <3> QED  BY <3>1 DEF SerialInv, Fault
  <2>3. ASSUME Exclusive
        PROVE  /\ Alone' /\ (\A q \in Procs : SerialOf(q))'
               /\ Idle' /\ faults' = 0 => UpToDate'
    <3>1. \A q \in Procs \ {p} : pc'[q] = "idle"
      BY <1>1, <2>3, OthersIdle DEF SerialInv
    <3>2. \A q \in Procs \ {p} : SerialOf(q)'
      BY <3>1 DEF SerialOf, Projecting
    <3>3. Alone'
      BY <3>1 DEF Alone
    <3> QED  BY <1>1, <2>3, <3>2, <3>3, SerialStepOf
  <2> QED  BY <2>1, <2>2, <2>3 DEF SerialInv
<1>2. CASE UNCHANGED vars
  BY <1>2 DEF SerialInv, Shape, Alone, SerialOf, Idle, UpToDate, InSync, Unseen, OpenConflicts,
              vars, ledger, derived, memory
<1> QED
  BY <1>1, <1>2 DEF Next, Act

(* One command at a time and no fault: whenever nothing runs, the stores are *)
(* those of the whole ledger and respect every verdict of the user.          *)
THEOREM IdleIsFresh == Spec => []FreshWhenIdle
<1>1. SerialInv => FreshWhenIdle
  BY DEF SerialInv, FreshWhenIdle, UpToDate
<1> QED
  BY SerialInit, SerialStep, <1>1, PTL DEF Spec

(* One command at a time: no notification is made of a change the user has *)
(* acknowledged, at that time or earlier.                                  *)
THEOREM AcknowledgedStaysQuiet == Spec => AckedNeverNotified
<1>1. ASSUME SerialInv, [Next]_vars
      PROVE  [Exclusive => (notified' \ notified) \cap acked = {}]_vars
  <2>1. ASSUME Exclusive, NEW p \in Procs, Act(p)
        PROVE  (notified' \ notified) \cap acked = {}
    <3>1. CASE Notify(p)
      BY <1>1, <2>1, <3>1 DEF Notify, SerialInv, SerialOf
    <3>2. CASE UNCHANGED notified
      BY <3>2
    <3> QED  BY <2>1, <3>1, <3>2, StoreStep
  <2> QED  BY <1>1, <2>1 DEF Next, Act
<1> QED
  BY SerialInit, SerialStep, <1>1, PTL DEF Spec, AckedNeverNotified

-----------------------------------------------------------------------------
(* One command at a time, the pipeline implements ReadModel: readers see the  *)
(* fold of the whole ledger, as it was when it was folded, and nothing else.  *)
THEOREM PipelineImplementsReadModel ==
    ASSUME Exclusive
    PROVE  Spec => Refinement
<1>1. Init => ReadModel!Init
  BY DEF Init, ReadModel!Init
<1>2. ASSUME LedgerInv, SerialInv, [Next]_vars
      PROVE  [ReadModel!Next]_<<obs, proj>>
  <2>1. ASSUME NEW p \in Procs, AppendObservations(p) PROVE ReadModel!Record
    <3>1. PICK d \in Drafts : obs' = Append(obs, Finalize(d, Len(obs) + 1))
      BY <2>1 DEF AppendObservations
    <3>2. Finalize(d, Len(obs) + 1) \in Observations
      BY <1>2, <2>1, KnownDrafts, Bounds
      DEF AppendObservations, LedgerInv, Finalize, Observations
    <3>3. Len(obs') = Len(obs) + 1 /\ SubSeq(obs', 1, Len(obs)) = obs
      BY <1>2, <3>1, <3>2 DEF LedgerInv
    <3>4. UNCHANGED proj
      BY <2>1 DEF AppendObservations, derived
    <3> QED  BY <3>3, <3>4 DEF ReadModel!Record
  <2>2. ASSUME NEW p \in Procs, Save(p) PROVE ReadModel!Refresh
    BY <1>2, <2>2 DEF SerialInv, SerialOf, Projecting, Save, ledger, ReadModel!Refresh
  <2>3. ASSUME NEW p \in Procs, Act(p), ~ AppendObservations(p), ~ Save(p)
        PROVE  UNCHANGED <<obs, proj>>
    <3>1. UNCHANGED proj
      BY <2>3, StoreStep
    <3>2. UNCHANGED obs
      BY <2>3 DEF Act, Begin, Reject, User, Look, AcknowledgeChange, Dismiss, AppendOther,
                  Step, FetchDone, Reproject, Load, ReadObservations, ReadUserActions,
                  ReplaceChanges, ReplaceConflicts, Dispatch, Generate, Notify, Pending, Send,
                  MarkDelivered, TickDone, Refused, Crash, ledger
    <3> QED  BY <3>1, <3>2
  <2> QED
    BY <1>2, <2>1, <2>2, <2>3 DEF Next, Act, ReadModel!Next, vars, ledger, derived
<1>3. Init => LedgerInv
  BY PastInit DEF PastInv
<1>4. LedgerInv /\ [Next]_vars => LedgerInv'
  BY LedgerStep
<1> QED
  BY <1>1, <1>2, <1>3, <1>4, SerialInit, SerialStep, PTL DEF Spec, Refinement, ReadModel!Spec

-----------------------------------------------------------------------------
(* What a projection is made of. *)
LEMMA UptoFacts ==
    ASSUME LedgerInv, NEW n \in 0..Len(obs)
    PROVE  /\ Upto(n) \in Seq(Observations) /\ DOMAIN Upto(n) = 1..n /\ n <= MaxObs
           /\ \A i \in 1..n : Upto(n)[i] \in Observations /\ Upto(n)[i].id = i
<1>1. /\ Len(Upto(n)) = n /\ Upto(n) \in Seq(Observations) /\ DOMAIN Upto(n) = 1..n
      /\ \A i \in 1..n : Upto(n)[i] = obs[i]
  BY DEF LedgerInv, Upto
<1>2. \A i \in 1..n : obs[i] \in Observations /\ obs[i].id = i
  BY DEF LedgerInv, Stamped
<1> QED
  BY <1>1, <1>2, Bounds DEF LedgerInv

LEMMA AllRated == \A o \in Observations : Rated(o)
<1> TAKE o \in Observations
<1>1. o.src \in Sources /\ o.at \in Times /\ o.got \in 1..MaxObs /\ o.id \in 1..MaxObs
  BY DEF Observations
<1>2. Trust[o.src] \in Int /\ o.at \in Int
  BY <1>1, Ranked
<1> QED  BY <1>1, <1>2, Bounds DEF Rated

LEMMA RecordedLedger ==
    ASSUME LedgerInv, NEW n \in 0..Len(obs), NEW c \in Cells
    PROVE  Recorded(Upto(n), c) \subseteq Observations /\ Ledger(Recorded(Upto(n), c))
<1> DEFINE S == Recorded(Upto(n), c)
           f == [i \in 1..n |-> Upto(n)[i]]
           All == {Upto(n)[i] : i \in 1..n}
<1>1. S \subseteq All /\ All \subseteq Observations
  BY UptoFacts DEF Recorded
<1>2. IsFiniteSet(All)
  <2>1. f \in Surjection(1..n, All)
    BY DEF Surjection
  <2>2. IsFiniteSet(1..n)
    BY FS_Interval
  <2> HIDE DEF f, All
  <2> QED  BY <2>1, <2>2, FS_Surjection
<1>3. IsFiniteSet(S)
  BY <1>1, <1>2, FS_Subset
<1>4. \A o \in S : Rated(o)
  BY <1>1, AllRated
<1>5. \A a, b \in S : a # b => a.id # b.id
  BY UptoFacts DEF Recorded
<1> QED
  BY <1>1, <1>3, <1>4, <1>5 DEF Ledger

LEMMA ProjectOfType ==
    ASSUME LedgerInv, NEW n \in 0..Len(obs)
    PROVE  ProjectOf(Upto(n)) \in Views
<1>1. ASSUME NEW c \in Cells
      PROVE  Resolve(Recorded(Upto(n), c)) \in Observations \cup {NoValue}
  BY RecordedLedger, WinnerWins DEF Resolve
<1> QED
  BY <1>1 DEF ProjectOf, Views

LEMMA ConflictsType ==
    ASSUME LedgerInv, NEW n \in 0..Len(obs)
    PROVE  Conflicts(Upto(n)) \subseteq ConflictKeys
<1>1. ASSUME NEW c \in Contested(Upto(n))
      PROVE  /\ c \in Cells
             /\ Winner(Recorded(Upto(n), c)).id \in 1..MaxObs
             /\ Disputed(Recorded(Upto(n), c)).id \in 1..MaxObs
  <2> DEFINE S == Recorded(Upto(n), c)
  <2>1. c \in Cells /\ S # {} /\ Disputed(S) # NoValue
    BY DEF Contested
  <2>2. S \subseteq Observations /\ Ledger(S)
    BY <2>1, RecordedLedger
  <2> HIDE DEF S
  <2>3. Winner(S) \in S
    BY <2>1, <2>2, WinnerWins
  <2>4. Disagreeing(S) # {}
    BY <2>1 DEF Disputed
  <2>5. Disputed(S) \in S
    BY <2>2, <2>4, DisputedDisagrees DEF Disagreeing
  <2>6. \A o \in Observations : o.id \in 1..MaxObs
    BY DEF Observations
  <2> QED  BY <2>1, <2>2, <2>3, <2>5, <2>6 DEF S
<1> QED
  BY <1>1 DEF Conflicts, ConflictKeys

LEMMA ChangesType ==
    ASSUME NEW v \in Views, NEW w \in Views
    PROVE  Changes(v, w) \subseteq [fp: ChangeKeys, old: Values]
<1>1. ASSUME NEW c \in Cells, w[c] # NoValue, Flipped(v[c], w[c])
      PROVE  ChangeKey(c, w[c]) \in ChangeKeys /\ v[c].val \in Values
  <2>1. v[c] \in Observations /\ w[c] \in Observations
    BY <1>1 DEF Views, Flipped
  <2>2. \A o \in Observations : o.val \in Values
    BY DEF Observations
  <2> QED  BY <2>1, <2>2 DEF ChangeKey, ChangeKeys, CanonValues
<1> QED
  BY <1>1 DEF Changes

-----------------------------------------------------------------------------
(* Types.  What a command replaces the tables with is made of a part of the   *)
(* ledger (PastInv), and what it has in hand is what its phase has put there. *)
StoresOK ==
    /\ obs \in Seq(Observations) /\ acked \in Verdicts /\ dismissed \in Verdicts
    /\ proj \in Views
    /\ changes \subseteq [fp: ChangeKeys, old: Values, seen: BOOLEAN]
    /\ conflicts \subseteq [fp: ConflictKeys, open: BOOLEAN]

OutboxOK ==
    /\ notified \subseteq ChangeKeys /\ delivered \subseteq Deliveries
    /\ sends \in [Deliveries -> Nat]

CountersOK == given \in 0..MaxActs /\ faults \in 0..MaxFaults

TodoOK(p) ==
    /\ IF pc[p] \in {"send", "mark"} THEN todo[p] \subseteq Deliveries
                                     ELSE todo[p] \in Verdicts
    /\ pc[p] = "notify" => todo[p] \subseteq ChangeKeys
    /\ pc[p] = "mark" => sending[p] \in Deliveries

MemoryOK ==
    /\ pc \in [Procs -> Phases]
    /\ prev \in [Procs -> Views \cup {NoValue}]
    /\ read \in [Procs -> Seq(Observations)]
    /\ judged \in [Procs -> [acked: Verdicts, dismissed: Verdicts]]
    /\ DOMAIN todo = Procs
    /\ \A p \in Procs : TodoOK(p)
    /\ sending \in [Procs -> Deliveries \cup {NoValue}]

TypeInv == PastInv /\ StoresOK /\ OutboxOK /\ CountersOK /\ MemoryOK

LEMMA TypeInvTypes == TypeInv => TypeOK
  BY DEF TypeInv, StoresOK, OutboxOK, CountersOK, MemoryOK, TodoOK, TypeOK

LEMMA TypeInit == Init => TypeInv
<1> SUFFICES ASSUME Init PROVE TypeInv
  OBVIOUS
<1>1. PastInv
  BY PastInit
<1>2. ProjectOf(<<>>) \in Views
  <2>1. LedgerInv /\ 0 \in 0..Len(obs) /\ Upto(0) = <<>>
    BY Bounds DEF Init, LedgerInv, Stamped, Upto
  <2> QED  BY <2>1, ProjectOfType
<1>3. StoresOK
  BY <1>2 DEF Init, StoresOK, Verdicts
<1>4. OutboxOK
  BY DEF Init, OutboxOK
<1>5. CountersOK
  BY Bounds DEF Init, CountersOK
<1>6. MemoryOK
  BY DEF Init, MemoryOK, TodoOK, Phases, Blank, Verdicts
<1> QED
  BY <1>1, <1>3, <1>4, <1>5, <1>6 DEF TypeInv

(* What readers of the tables see. *)
LEMMA ReadersTypes ==
    ASSUME StoresOK
    PROVE  Unseen \subseteq ChangeKeys /\ News \subseteq ChangeKeys
           /\ OpenConflicts \subseteq ConflictKeys
  BY DEF StoresOK, Unseen, News, OpenConflicts

(* What a command has read is a part of the ledger. *)
LEMMA ReadType ==
    ASSUME TypeInv, NEW p \in Procs, pc[p] \in Projecting
    PROVE  /\ prev[p] \in Views /\ ProjectOf(read[p]) \in Views
           /\ Conflicts(read[p]) \subseteq ConflictKeys
<1>1. PICK i, j \in 0..Len(obs) : prev[p] = ProjectOf(Upto(i)) /\ read[p] = Upto(j)
  BY DEF TypeInv, PastInv, MemoryInv, MemoryOf, LoadedThenRead
<1>2. LedgerInv
  BY DEF TypeInv, PastInv
<1> QED
  BY <1>1, <1>2, ProjectOfType, ConflictsType

LEMMA StoresStep ==
    ASSUME TypeInv, LedgerInv', NEW p \in Procs, Act(p)
    PROVE  StoresOK'
<1> USE DEF StoresOK, TypeInv, Verdicts
<1>0. obs' \in Seq(Observations)
  BY DEF LedgerInv
<1>1. CASE Save(p)
  <2>1. proj' \in Views
    BY <1>1, ReadType DEF Save, Projecting
  <2> QED  BY <1>1, <2>1 DEF Save, ledger
<1>2. CASE ReplaceChanges(p)
  <2>1. Changes(prev[p], ProjectOf(read[p])) \subseteq [fp: ChangeKeys, old: Values]
    BY <1>2, ReadType, ChangesType DEF ReplaceChanges, Projecting
  <2> DEFINE Seen(x) == \/ \E r \in changes : r.fp = x.fp /\ r.seen
                        \/ x.fp \in judged[p].acked
  <2>2. \A x : Seen(x) \in BOOLEAN
    OBVIOUS
  <2>3. changes' = {[fp |-> x.fp, old |-> x.old, seen |-> Seen(x)] :
                      x \in Changes(prev[p], ProjectOf(read[p]))}
    BY <1>2, Zenon DEF ReplaceChanges
  <2> HIDE DEF Seen
  <2>4. changes' \subseteq [fp: ChangeKeys, old: Values, seen: BOOLEAN]
    BY <2>1, <2>2, <2>3
  <2> QED  BY <1>2, <2>4 DEF ReplaceChanges, ledger
<1>3. CASE ReplaceConflicts(p)
  <2>1. Conflicts(read[p]) \subseteq ConflictKeys
    BY <1>3, ReadType DEF ReplaceConflicts, Projecting
  <2> DEFINE Open(f) == /\ \A r \in conflicts : r.fp = f => r.open
                        /\ f \notin judged[p].dismissed
  <2>2. \A f : Open(f) \in BOOLEAN
    OBVIOUS
  <2>3. conflicts' = {[fp |-> f, open |-> Open(f)] : f \in Conflicts(read[p])}
    BY <1>3, Zenon DEF ReplaceConflicts
  <2> HIDE DEF Open
  <2>4. conflicts' \subseteq [fp: ConflictKeys, open: BOOLEAN]
    BY <2>1, <2>2, <2>3
  <2> QED  BY <1>3, <2>4 DEF ReplaceConflicts, ledger
<1>4. CASE AcknowledgeChange(p) \/ Dismiss(p)
  <2>1. todo[p] \in Verdicts
    BY <1>4 DEF AcknowledgeChange, Dismiss, MemoryOK, TodoOK
  <2> QED  BY <1>4, <2>1 DEF AcknowledgeChange, Dismiss, derived
<1>5. CASE Begin(p) \/ AppendObservations(p) \/ Reject(p) \/ Look(p) \/ AppendOther(p)
           \/ Refused(p) \/ Crash(p)
  BY <1>0, <1>5 DEF Begin, AppendObservations, Reject, Look, AppendOther, Refused, Crash,
                    ledger, derived
<1>6. CASE FetchDone(p) \/ Load(p) \/ ReadObservations(p) \/ ReadUserActions(p)
  BY <1>6 DEF FetchDone, Load, ReadObservations, ReadUserActions, ledger, derived
<1>7. CASE Dispatch(p)
  BY <1>7 DEF Dispatch, Generate, Notify, Pending, Send, MarkDelivered, TickDone,
              ledger, derived
<1> QED
  BY <1>1, <1>2, <1>3, <1>4, <1>5, <1>6, <1>7 DEF Act, Step, Reproject, User

LEMMA OutboxStep ==
    ASSUME TypeInv, NEW p \in Procs, Act(p)
    PROVE  OutboxOK'
<1> USE DEF OutboxOK, TypeInv
<1>1. CASE Notify(p)
  BY <1>1 DEF Notify, MemoryOK, TodoOK
<1>2. CASE Send(p)
  BY <1>2 DEF Send, MemoryOK, TodoOK
<1>3. CASE MarkDelivered(p)
  BY <1>3 DEF MarkDelivered, MemoryOK, TodoOK
<1>4. CASE Begin(p) \/ AppendObservations(p) \/ Reject(p) \/ User(p) \/ Refused(p) \/ Crash(p)
  BY <1>4 DEF Begin, AppendObservations, Reject, User, Look, AcknowledgeChange, Dismiss,
              AppendOther, Refused, Crash, outbox
<1>5. CASE FetchDone(p) \/ Reproject(p)
  BY <1>5 DEF FetchDone, Reproject, Load, ReadObservations, ReadUserActions, Save,
              ReplaceChanges, ReplaceConflicts, outbox
<1>6. CASE Generate(p) \/ Pending(p) \/ TickDone(p)
  BY <1>6 DEF Generate, Pending, TickDone, outbox
<1> QED
  BY <1>1, <1>2, <1>3, <1>4, <1>5, <1>6 DEF Act, Step, Dispatch

LEMMA CountersStep ==
    ASSUME CountersOK, NEW p \in Procs, Act(p)
    PROVE  CountersOK'
<1> USE Bounds DEF CountersOK
<1>1. CASE Begin(p) \/ AppendObservations(p) \/ Reject(p) \/ User(p) \/ Refused(p) \/ Crash(p)
  BY <1>1 DEF Begin, AppendObservations, Reject, User, Look, AcknowledgeChange, Dismiss,
              AppendOther, Refused, Crash, Give, Fault
<1>2. CASE FetchDone(p) \/ Reproject(p)
  BY <1>2 DEF FetchDone, Reproject, Load, ReadObservations, ReadUserActions, Save,
              ReplaceChanges, ReplaceConflicts
<1>3. CASE Dispatch(p)
  BY <1>3 DEF Dispatch, Generate, Notify, Pending, Send, MarkDelivered, TickDone
<1> QED
  BY <1>1, <1>2, <1>3 DEF Act, Step

(* A command that ends has nothing in hand. *)
LEMMA FinishTypes ==
    ASSUME MemoryOK, NEW p \in Procs, Forget(p), NEW next \in Phases \ {"notify", "send", "mark"},
           Goto(p, next)
    PROVE  MemoryOK'
  BY DEF MemoryOK, TodoOK, Forget, Goto, Blank, Verdicts

(* A command whose memory stays as it was goes on to a phase that asks no more of it. *)
LEMMA GoOnTypes ==
    ASSUME MemoryOK, NEW p \in Procs, NEW next \in Phases \ {"notify", "send", "mark"},
           pc[p] \notin {"send", "mark"}, Goto(p, next), UNCHANGED memory
    PROVE  MemoryOK'
  BY DEF MemoryOK, TodoOK, Goto, memory

LEMMA MemoryTypes ==
    ASSUME TypeInv, NEW p \in Procs, Act(p)
    PROVE  MemoryOK'
<1> USE DEF TypeInv
<1>1. CASE Begin(p) \/ FetchDone(p)
  BY <1>1, GoOnTypes DEF Begin, Free, FetchDone, Phases
<1>2. CASE Save(p) \/ ReplaceChanges(p)
  BY <1>2, GoOnTypes DEF Save, ReplaceChanges, Phases
<1>3. CASE AppendObservations(p)
  BY <1>3 DEF AppendObservations, memory, MemoryOK, TodoOK
<1>4. CASE Reject(p) \/ Crash(p) \/ TickDone(p)
  BY <1>4, FinishTypes DEF Reject, Crash, TickDone, Finish, Phases
<1>5. CASE ReplaceConflicts(p) \/ Notify(p)
  BY <1>5, FinishTypes DEF ReplaceConflicts, Notify, Finish, Phases
<1>6. CASE Look(p)
  <2>1. Unseen \cup OpenConflicts \in Verdicts
    BY ReadersTypes DEF Verdicts
  <2> QED  BY <1>6, <2>1 DEF Look, Goto, MemoryOK, TodoOK, Phases
<1>7. CASE AcknowledgeChange(p) \/ Dismiss(p) \/ AppendOther(p)
  BY <1>7 DEF AcknowledgeChange, Dismiss, AppendOther, Goto, MemoryOK, TodoOK, Phases, Verdicts
<1>8. CASE Load(p)
  BY <1>8 DEF Load, Goto, MemoryOK, TodoOK, Phases, StoresOK
<1>9. CASE ReadObservations(p)
  BY <1>9 DEF ReadObservations, Goto, MemoryOK, TodoOK, Phases, StoresOK
<1>10. CASE ReadUserActions(p)
  BY <1>10 DEF ReadUserActions, Goto, MemoryOK, TodoOK, Phases, StoresOK
<1>11. CASE Generate(p)
  <2>1. News \subseteq ChangeKeys /\ News \in Verdicts
    BY ReadersTypes DEF Verdicts
  <2> QED  BY <1>11, <2>1 DEF Generate, Goto, MemoryOK, TodoOK, Phases
<1>12. CASE Pending(p)
  <2>1. (notified \X Sinks) \ delivered \subseteq Deliveries
    BY DEF OutboxOK, Deliveries
  <2> QED  BY <1>12, <2>1 DEF Pending, Goto, MemoryOK, TodoOK, Phases
<1>13. CASE Send(p)
  BY <1>13 DEF Send, Goto, MemoryOK, TodoOK, Phases
<1>14. CASE MarkDelivered(p) \/ Refused(p)
  BY <1>14 DEF MarkDelivered, Refused, Goto, MemoryOK, TodoOK, Phases
<1> QED
  BY <1>1, <1>2, <1>3, <1>4, <1>5, <1>6, <1>7, <1>8, <1>9, <1>10, <1>11, <1>12, <1>13, <1>14
     DEF Act, Step, Reproject, Dispatch, User

LEMMA TypeStep == TypeInv /\ [Next]_vars => TypeInv'
<1> SUFFICES ASSUME TypeInv, [Next]_vars PROVE TypeInv'
  OBVIOUS
<1>1. PastInv'
  BY PastStep DEF TypeInv
<1>2. ASSUME NEW p \in Procs, Act(p) PROVE TypeInv'
  <2>1. LedgerInv'
    BY <1>1 DEF PastInv
  <2>2. StoresOK'
    BY <1>2, <2>1, StoresStep
  <2>3. OutboxOK' /\ CountersOK' /\ MemoryOK'
    BY <1>2, OutboxStep, CountersStep, MemoryTypes DEF TypeInv
  <2> QED  BY <1>1, <2>2, <2>3 DEF TypeInv
<1>3. CASE UNCHANGED vars
  BY <1>1, <1>3 DEF vars, ledger, derived, outbox, memory, TypeInv, StoresOK, OutboxOK,
                    CountersOK, MemoryOK, TodoOK
<1> QED
  BY <1>2, <1>3 DEF Next, Act

(* Every store and every command holds what its code puts there, whatever *)
(* commands overlap and whoever dies: in particular a fingerprint that is  *)
(* shown, acknowledged or told is that of a cell and a value.              *)
THEOREM PipelineTypeCorrect == Spec => []TypeOK
  BY TypeInit, TypeStep, TypeInvTypes, PTL DEF Spec

-----------------------------------------------------------------------------
(* One dispatcher.  What is not delivered has been sent at most once for every *)
(* fault, and once more while it is in the dispatcher's hand.                  *)
OneDispatcher == \A p, q \in Procs : Role[p] = "serve" /\ Role[q] = "serve" => p = q

Dispatching == {"generate", "notify", "pending", "send", "mark"}

HandOf(p) ==
    /\ pc[p] \in Dispatching => Role[p] = "serve"
    /\ pc[p] \in {"send", "mark"} => todo[p] \cap delivered = {}
    /\ pc[p] = "mark" => sending[p] \notin delivered \cup todo[p]

InHand(d) == \E p \in Procs : pc[p] = "mark" /\ sending[p] = d

Sent(d) ==
    /\ sends[d] <= 1 + faults
    /\ d \notin delivered /\ ~ InHand(d) => sends[d] <= faults

DispatchInv == (\A p \in Procs : HandOf(p)) /\ (\A d \in Deliveries : Sent(d))

LEMMA DispatchInit == Init => DispatchInv
  BY DEF Init, DispatchInv, HandOf, Sent, Dispatching

(* Calls that neither send nor deliver, and no fault.  They may pick up what is *)
(* pending.                                                                     *)
LEMMA OtherCalls ==
    ASSUME TypeInv, NEW p \in Procs, HandOf(p), Act(p),
           ~ (Send(p) \/ MarkDelivered(p) \/ Refused(p) \/ Crash(p) \/ Reject(p))
    PROVE  /\ UNCHANGED <<delivered, sends, faults>> /\ HandOf(p)'
           /\ \/ pc[p] # "mark" /\ pc'[p] # "mark"
              \/ pc'[p] = pc[p] /\ sending'[p] = sending[p]
<1> USE DEF TypeInv, MemoryOK, HandOf, Dispatching, Goto
<1>1. CASE Begin(p) \/ AppendObservations(p) \/ User(p)
  BY <1>1 DEF Begin, Free, AppendObservations, User, Look, AcknowledgeChange, Dismiss,
              AppendOther, outbox, memory
<1>2. CASE FetchDone(p) \/ Reproject(p)
  BY <1>2 DEF FetchDone, Reproject, Load, ReadObservations, ReadUserActions, Save,
              ReplaceChanges, ReplaceConflicts, Finish, outbox
<1>3. CASE Generate(p) \/ Notify(p) \/ TickDone(p)
  BY <1>3 DEF Generate, Notify, TickDone, Finish, outbox
<1>4. CASE Pending(p)
  BY <1>4 DEF Pending, outbox
<1> QED
  BY <1>1, <1>2, <1>3, <1>4 DEF Act, Step, Dispatch

LEMMA DispatchStep ==
    ASSUME OneDispatcher, TypeInv, DispatchInv, NEW p \in Procs, Act(p)
    PROVE  DispatchInv'
<1>1. \A q \in Procs \ {p} : Kept(q)
  BY LocalStep DEF TypeInv, PastInv
<1>2. faults \in Nat /\ sends \in [Deliveries -> Nat] /\ pc \in [Procs -> Phases]
  BY Bounds DEF TypeInv, CountersOK, OutboxOK, MemoryOK
(* No other command is at the dispatch when this one is. *)
<1>3. ASSUME pc[p] \in Dispatching, NEW q \in Procs \ {p}
      PROVE  pc[q] \notin Dispatching
  BY <1>3 DEF DispatchInv, HandOf, OneDispatcher
<1>4. ASSUME UNCHANGED delivered, NEW q \in Procs \ {p}
      PROVE  HandOf(q)'
  BY <1>1, <1>4 DEF DispatchInv, HandOf, Kept
<1>5. CASE Send(p)
  <2>1. PICK d \in todo[p] : /\ sends' = [sends EXCEPT ![d] = @ + 1]
                             /\ sending' = [sending EXCEPT ![p] = d]
                             /\ todo' = [todo EXCEPT ![p] = @ \ {d}]
    BY <1>5 DEF Send
  <2>2. /\ pc[p] = "send" /\ pc'[p] = "mark" /\ UNCHANGED <<delivered, faults>>
        /\ d \in Deliveries /\ d \notin delivered /\ Role[p] = "serve"
        /\ sending'[p] = d /\ todo'[p] = todo[p] \ {d} /\ todo[p] \cap delivered = {}
    BY <1>2, <1>5, <2>1 DEF Send, Goto, TypeInv, MemoryOK, TodoOK, DispatchInv, HandOf,
                            Dispatching
  <2>3. HandOf(p)'
    BY <2>2 DEF HandOf
  <2>4. \A e \in Deliveries : ~ InHand(e)
    BY <1>3, <2>2 DEF InHand, Dispatching
  <2>5. InHand(d)'
    BY <2>2 DEF InHand
  <2>6. ASSUME NEW e \in Deliveries PROVE Sent(e)'
    BY <1>2, <2>1, <2>2, <2>4, <2>5 DEF DispatchInv, Sent
  <2> QED  BY <1>4, <2>2, <2>3, <2>6 DEF DispatchInv
<1>6. CASE MarkDelivered(p)
  <2>1. /\ pc[p] = "mark" /\ pc'[p] = "send" /\ delivered' = delivered \cup {sending[p]}
        /\ todo' = todo /\ UNCHANGED <<sends, faults>> /\ Role[p] = "serve"
    BY <1>2, <1>6 DEF MarkDelivered, Goto, DispatchInv, HandOf, Dispatching
  <2>2. HandOf(p)'
    BY <2>1 DEF DispatchInv, HandOf
  <2>3. ASSUME NEW q \in Procs \ {p} PROVE HandOf(q)'
    BY <1>1, <1>3, <2>1 DEF Kept, HandOf, Dispatching
  <2>4. ASSUME NEW d \in Deliveries PROVE Sent(d)'
    <3>1. d \notin delivered' => d \notin delivered /\ ~ InHand(d)
      BY <1>3, <2>1 DEF InHand, Dispatching
    <3> QED  BY <2>1, <3>1 DEF DispatchInv, Sent
  <2> QED  BY <2>2, <2>3, <2>4 DEF DispatchInv
<1>7. CASE Refused(p) \/ Crash(p) \/ Reject(p)
  <2>1. faults' = faults + 1 /\ UNCHANGED <<delivered, sends>>
    BY <1>7 DEF Refused, Crash, Reject, Fault, outbox
  <2>2. pc'[p] \in {"send", "idle"} /\ (pc'[p] = "send" => pc[p] = "mark" /\ todo' = todo)
    BY <1>2, <1>7 DEF Refused, Crash, Reject, Finish, Goto
  <2>3. HandOf(p)'
    BY <2>1, <2>2 DEF DispatchInv, HandOf, Dispatching
  <2>4. ASSUME NEW d \in Deliveries PROVE Sent(d)'
    BY <1>2, <2>1 DEF DispatchInv, Sent
  <2> QED  BY <1>4, <2>1, <2>3, <2>4 DEF DispatchInv
<1>8. CASE ~ (Send(p) \/ MarkDelivered(p) \/ Refused(p) \/ Crash(p) \/ Reject(p))
  <2>1. /\ UNCHANGED <<delivered, sends, faults>> /\ HandOf(p)'
        /\ \/ pc[p] # "mark" /\ pc'[p] # "mark"
           \/ pc'[p] = pc[p] /\ sending'[p] = sending[p]
    BY <1>8, OtherCalls DEF DispatchInv
  <2>2. ASSUME NEW d \in Deliveries, InHand(d) PROVE InHand(d)'
    BY <1>1, <2>1, <2>2 DEF InHand, Kept
  <2>3. ASSUME NEW d \in Deliveries PROVE Sent(d)'
    BY <2>1, <2>2 DEF DispatchInv, Sent
  <2> QED  BY <1>4, <2>1, <2>3 DEF DispatchInv
<1> QED
  BY <1>5, <1>6, <1>7, <1>8

(* If a single `whodex serve` runs, then whatever other commands overlap with it *)
(* and wherever it dies, no sink gets a notification a second time without a     *)
(* refused send or a death in between: dispatch() marks what it has sent before  *)
(* it takes the next, and a new snapshot leaves out what is marked.              *)
THEOREM SentOnceAndOncePerFault ==
    ASSUME OneDispatcher PROVE Spec => []SentAgainOnlyAfterFault
<1>1. Init => TypeInv /\ DispatchInv
  BY TypeInit, DispatchInit
<1>2. TypeInv /\ DispatchInv /\ [Next]_vars => (TypeInv /\ DispatchInv)'
  <2> SUFFICES ASSUME TypeInv, DispatchInv, [Next]_vars PROVE DispatchInv'
    BY TypeStep
  <2>1. CASE UNCHANGED vars
    BY <2>1 DEF vars, outbox, memory, DispatchInv, HandOf, Sent, InHand
  <2>2. ASSUME NEW p \in Procs, Act(p) PROVE DispatchInv'
    BY <2>2, DispatchStep
  <2> QED  BY <2>1, <2>2 DEF Next, Act
<1>3. DispatchInv => SentAgainOnlyAfterFault
  BY DEF DispatchInv, Sent, SentAgainOnlyAfterFault
<1> QED
  BY <1>1, <1>2, <1>3, PTL DEF Spec
=============================================================================
