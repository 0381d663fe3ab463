-------------------------------- MODULE Queue ---------------------------------
(***************************************************************************)
(* Whom to reach out to: build_score_inputs, score_contact and             *)
(* priority_queue over the projection, the ledger's interactions and user  *)
(* actions, and the open changes; the calls of the facade that append to   *)
(* the ledger; the part that projection and change table have in the       *)
(* reprojection that ends every call and every sync (Graph has the rest);  *)
(* and people_at, which picks the people of a place out of the queue by    *)
(* the edges of Graph.                                                     *)
(*                                                                         *)
(* Time is counted in days.  A score is a number of Units: a ratio of days *)
(* to cadence is kept as days * Unit \div cadence, weights as tenths.      *)
(***************************************************************************)
EXTENDS Graph, FiniteSetsExt

CONSTANTS
    People,         \* entities of kind person
    TierWeight,     \* of each tier, in tenths
    CadenceDefault, \* of each tier, in days
    Profiles,       \* what may be known of a person: [importance, cadence, says]
    Given,          \* of each person: what is known at the start
    Unset,          \* no value
    Volatile,       \* fields whose changes are notable
    EventWeight,    \* of each of them, in tenths
    Unit,
    Days,           \* bound: time
    Nap             \* days the user snoozes for

ASSUME PeopleAreEntities == People \subseteq Entities
ASSUME Weights ==
    /\ "loose" \in DOMAIN TierWeight
    /\ TierWeight \in [DOMAIN TierWeight -> Nat]
    /\ CadenceDefault \in [DOMAIN TierWeight -> Int]
    /\ IsFiniteSet(Volatile) /\ EventWeight \in [Volatile -> Nat]
    /\ Unit \in Nat /\ Days \in Nat /\ Nap \in Nat
ASSUME Knowledge ==
    /\ \A x \in Profiles : x.cadence = Unset \/ x.cadence \in Int
    /\ Given \in [People -> Profiles]

VARIABLES
    now,
    talks,          \* interactions: <<participant, occurred_at>>, in the order of writing
    acts,           \* user actions on contacts, in the order of created_at
    noted,          \* of each person: what the ledger's observations come to
    profile,        \* the projection
    news,           \* the change table, of each person: fields with an unseen change
    prev, latest    \* of each command: projection.load, and noted as it was read

queueVars == <<now, talks, acts, noted, profile, news, prev, latest>>

Act == [who: People, type: {"pin", "unpin"}, until: {0}]
         \cup [who: People, type: {"snooze"}, until: Nat]

QueueInit ==
    /\ now = left.today /\ talks = <<>> /\ acts = <<>>
    /\ noted = Given /\ profile = Given
    /\ news = [c \in People |-> {}]
    /\ prev = [k \in Commands |-> Given] /\ latest = [k \in Commands |-> Given]

-----------------------------------------------------------------------------
(* engine/scoring.py and engine/queue.py, as functions of what they read. *)

NeverMet == -1

(* Wrong on purpose: the interaction that was written last. *)
LastWritten(c, ts) ==
    LET own == SelectSeq(ts, LAMBDA t : t[1] = c) IN
    IF own = <<>> THEN NeverMet ELSE own[Len(own)][2]

(* _latest_interaction: by occurred_at, whatever the order. *)
LatestInteraction(c, ts) ==
    Max({NeverMet} \cup {ts[k][2] : k \in {j \in DOMAIN ts : ts[j][1] = c}})

(* _pin_and_snooze: the actions in the order of created_at; the last one of *)
(* each sort stands.                                                        *)
LastAct(c, types, as) ==
    LET own == SelectSeq(as, LAMBDA a : a.who = c /\ a.type \in types) IN
    IF own = <<>> THEN [who |-> c, type |-> "none", until |-> 0] ELSE own[Len(own)]
Pinned(c, as) == LastAct(c, {"pin", "unpin"}, as).type = "pin"

SnoozedUntil(c, as) == LastAct(c, {"snooze"}, as).until

Clamp(x, lo, hi) == Max({lo, Min({hi, x})})

(* person.importance and person.cadence_days of the projection, each with a *)
(* default: an importance that is no tier counts as loose.                  *)
Tier(x) == IF x.importance \in DOMAIN TierWeight THEN x.importance ELSE "loose"

CadenceDays(x) == IF x.cadence = Unset THEN CadenceDefault[Tier(x)] ELSE x.cadence

(* Never met, or this many times the cadence since, up to three times; a *)
(* cadence that is not positive is never overdue.                        *)
Overdue(c, x, ts, at) ==
    LET met == LatestInteraction(c, ts)
        days == CadenceDays(x) IN
    IF met = NeverMet THEN 3 * Unit
    ELSE IF days > 0 THEN Clamp(((at - met) * Unit) \div days, 0, 3 * Unit)
    ELSE 0

(* Half the weight of every open change; the sum is a count of tenths. *)
Tenths(fields) == Cardinality(UNION {{f} \X (1..EventWeight[f]) : f \in fields})

EventBoost(open) == (Tenths(open) * Unit) \div 20

PinFloor == 1000 * 10 * Unit

(* No weights reach the floor.  ScoringConfig is built with its defaults only:  *)
(* three from the cadence and half of 3.7 from the events, doubled, is under 10. *)
ASSUME FloorIsHigh ==
    \A tier \in DOMAIN TierWeight :
        (3 * Unit + (Tenths(Volatile) * Unit) \div 20) * TierWeight[tier] < PinFloor

(* Wrong on purpose: the floor is a ceiling. *)
ScoreCapped(c, x, ts, as, open, at) ==
    LET base == (Overdue(c, x, ts, at) + EventBoost(open)) * TierWeight[Tier(x)] IN
    IF Pinned(c, as) THEN Min({base, PinFloor}) ELSE base

(* Score.value of a contact that is not snoozed, with what is projected of it *)
(* and the fields with an open change.                                        *)
Score(c, x, ts, as, open, at) ==
    LET base == (Overdue(c, x, ts, at) + EventBoost(open)) * TierWeight[Tier(x)] IN
    IF Pinned(c, as) THEN Max({base, PinFloor}) ELSE base

(* Wrong on purpose: snoozed is snoozed. *)
HiddenForGood(c, as, at) == SnoozedUntil(c, as) > 0

(* Snoozed contacts score -inf and leave the queue. *)
Hidden(c, as, at) == SnoozedUntil(c, as) > at

(* The queue, highest score first. *)
ScoreNow(c) == Score(c, profile[c], talks, acts, news[c], now)
Live == {c \in People : ~Hidden(c, acts, now)}

(* people_at: members and residents, as far as the queue has them. *)
PeopleAt(place) ==
    {c \in Live : \E e \in edges :
        e[1] = c /\ e[2] \in {"member_of", "lives_in"} /\ e[3] = place}

-----------------------------------------------------------------------------

(* A source tells something new of a person, in a sync: what the ledger says *)
(* changes, and nothing that was known becomes unknown.                      *)
Learn(k, c, x) ==
    /\ pc[k] = "fetch" /\ Spend("news")
    /\ x # noted[c]
    /\ x.importance = Unset => noted[c].importance = Unset
    /\ x.cadence = Unset => noted[c].cadence = Unset
    /\ \A f \in Volatile : x.says[f] = Unset => noted[c].says[f] = Unset
    /\ noted' = [noted EXCEPT ![c] = x]
    /\ UNCHANGED <<graphVars, now, talks, acts, profile, news, prev, latest>>

(* reproject_and_persist, what Graph leaves out of it. *)

(* projection.load *)
Load(k) ==
    /\ Pass(k, "load", "read")
    /\ prev' = [prev EXCEPT ![k] = profile]
    /\ UNCHANGED <<now, talks, acts, noted, profile, news, latest, left>>

(* ledger.read_events *)
Read(k) ==
    /\ ReadEvents(k)
    /\ latest' = [latest EXCEPT ![k] = noted]
    /\ UNCHANGED <<now, talks, acts, noted, profile, news, prev>>

(* projection.save *)
Save(k) ==
    /\ Pass(k, "save", "build")
    /\ profile' = latest[k]
    /\ UNCHANGED <<now, talks, acts, noted, news, prev, latest, left>>

(* project(): a field changes from a value to another one. *)
Flips(old, new) == {f \in Volatile : old.says[f] # Unset /\ old.says[f] # new.says[f]}

(* replace_changes, for all people: what was open is gone, what is new is open *)
(* unless the user has acknowledged such a change before (Pipeline says of     *)
(* which ones that is true; here it may be of any).                            *)
ReplaceChanges(k) ==
    /\ Pass(k, "changes", "repairs")
    /\ \E unseen \in [People -> SUBSET Volatile] :
          /\ \A c \in People : unseen[c] \subseteq Flips(prev[k][c], latest[k][c])
          /\ news' = unseen
    /\ prev' = [prev EXCEPT ![k] = Given] /\ latest' = [latest EXCEPT ![k] = Given]
    /\ UNCHANGED <<now, talks, acts, noted, profile, left>>

Reproject(k) == Load(k) \/ Read(k) \/ Save(k) \/ ReplaceChanges(k)

-----------------------------------------------------------------------------

(* _append_interaction and _append_user_action: one event of the facade's is  *)
(* appended, and the whole ledger is reprojected.                             *)
Call ==
    /\ Pass(Screen, "idle", "load")
    /\ UNCHANGED <<now, noted, profile, news, prev, latest>>

(* log_interaction, for now or for any other day *)
LogInteraction(c, when) ==
    /\ Call /\ Spend("talks")
    /\ talks' = Append(talks, <<c, when>>)
    /\ UNCHANGED acts

(* pin, unpin, snooze *)
AppendAct(c, type, until) ==
    /\ Call /\ Spend("acts")
    /\ acts' = Append(acts, [who |-> c, type |-> type, until |-> until])
    /\ UNCHANGED talks

Tick ==
    /\ now < Days
    /\ now' = now + 1
    /\ UNCHANGED <<talks, acts, noted, profile, news, prev, latest, graphVars, left>>

QueueNext ==
    \/ \E c \in People :
          \/ \E when \in 0..Days : LogInteraction(c, when)
          \/ AppendAct(c, "pin", 0) \/ AppendAct(c, "unpin", 0)
          \/ now + Nap <= Days /\ AppendAct(c, "snooze", now + Nap)
          \/ \E k \in Commands, x \in Profiles : Learn(k, c, x)
    \/ \E k \in Commands : Reproject(k)
    \/ Tick

-----------------------------------------------------------------------------
(* Properties. *)

QueueTypeOK ==
    /\ now \in 0..Days
    /\ talks \in Seq(People \X (0..Days)) /\ acts \in Seq(Act)
    /\ noted \in [People -> Profiles] /\ profile \in [People -> Profiles]
    /\ news \in [People -> SUBSET Volatile]
    /\ prev \in [Commands -> [People -> Profiles]]
    /\ latest \in [Commands -> [People -> Profiles]]

(* However long a contact has been waiting, however important it is, and       *)
(* whatever has changed about it, a pinned one comes first.                    *)
PinnedFirst ==
    \A c, d \in Live : Pinned(c, acts) /\ ~Pinned(d, acts) => ScoreNow(c) > ScoreNow(d)

(* An interaction with it was logged, later than all before. *)
MetLater(c) ==
    /\ Len(talks') > Len(talks) /\ talks'[Len(talks')][1] = c
    /\ \A k \in DOMAIN talks : talks[k][1] = c => talks[k][2] < talks'[Len(talks')][2]

(* Another importance or cadence of it was saved. *)
Rerated(c) ==
    <<profile'[c].importance, profile'[c].cadence>> # <<profile[c].importance, profile[c].cadence>>

(* What its open changes add to a contact's score. *)
Boost(c) == EventBoost(news[c]) * TierWeight[Tier(profile[c])]

(* A contact moves down only because it was dealt with: an interaction with it *)
(* was logged, it was unpinned, or it has another importance or cadence.       *)
(* Neither time nor a snooze or an older interaction does it, nor anything     *)
(* that is said of another, but for one thing: every call and every sync, of   *)
(* whomever, ends in a reprojection that replaces the open changes of all, and *)
(* takes from a contact at most what its own had added.                        *)
OnlyDealingCalms ==
    [][\A c \in People :
          ScoreNow(c)' < ScoreNow(c) =>
              \/ MetLater(c)
              \/ Pinned(c, acts) /\ ~Pinned(c, acts')
              \/ Rerated(c)
              \/ /\ \E k \in Commands : ReplaceChanges(k)
                 /\ ScoreNow(c)' + Boost(c) >= ScoreNow(c)]_queueVars
=============================================================================
