----------------------------- MODULE IntakeProofs -----------------------------
(* Theorems about Intake, for every number of contacts, processes, profiles   *)
(* and budgets.                                                               *)
EXTENDS Intake, FiniteSetTheorems, TLAPS

-----------------------------------------------------------------------------
(* The mirror: what is about to be appended has been committed. *)

MirrorInv ==
    /\ unmirrored \in [Writers -> SUBSET ledger]
    /\ kept \subseteq ledger

LEMMA MirrorStays ==
    ASSUME MirrorInv, UNCHANGED mirrorVars PROVE MirrorInv'
  BY DEF MirrorInv, mirrorVars

LEMMA MirrorOfCommit ==
    ASSUME MirrorInv, NEW w \in Writers, NEW fact, Commit(w, fact) PROVE MirrorInv'
  BY DEF MirrorInv, Commit

LEMMA MirrorOfAppend ==
    ASSUME MirrorInv, NEW w \in Writers, AppendJsonl(w) PROVE MirrorInv'
<1>1. kept' \subseteq ledger
  BY DEF MirrorInv, AppendJsonl
<1> QED
  BY <1>1 DEF MirrorInv, AppendJsonl

LEMMA MirrorOfDie ==
    ASSUME MirrorInv, NEW w \in Writers, Die(w) PROVE MirrorInv'
  BY DEF MirrorInv, Die

LEMMA MirrorStep == MirrorInv /\ [Next]_vars => MirrorInv'
<1> SUFFICES ASSUME MirrorInv, [Next]_vars PROVE MirrorInv'
  OBVIOUS
<1>0. Syncers \subseteq Writers /\ Api \in Writers
  BY SyncersWrite, ApiWrites
<1>1. CASE GoogleNext
  <2>1. ASSUME NEW c \in Contacts, NEW gone \in BOOLEAN, Alter(c, gone) PROVE MirrorInv'
    BY <2>1, MirrorStays DEF Alter
  <2>2. ASSUME Expire PROVE MirrorInv'
    BY <2>2, MirrorStays DEF Expire
  <2>3. ASSUME NEW p \in Syncers,
               ReadToken(p) \/ Page(p) \/ Rejected(p) \/ ClearToken(p) \/ SetToken(p)
                 \/ FetchDone(p) \/ HttpError(p)
        PROVE  MirrorInv'
    BY <2>3, MirrorStays
    DEF ReadToken, Page, Rejected, ClearToken, SetToken, FetchDone, HttpError
  <2>4. ASSUME NEW p \in Syncers, Ingest(p) PROVE MirrorInv'
    BY <2>4, <1>0, MirrorOfCommit DEF Ingest
  <2>5. ASSUME NEW p \in Syncers, AppendJsonl(p) PROVE MirrorInv'
    BY <2>5, <1>0, MirrorOfAppend
  <2>6. ASSUME NEW p \in Syncers, SyncerDies(p) PROVE MirrorInv'
    BY <2>6, <1>0, MirrorOfDie DEF SyncerDies
  <2> QED
    BY <1>1, <2>1, <2>2, <2>3, <2>4, <2>5, <2>6 DEF GoogleNext, FetchStep
<1>2. CASE CaptureNext
  <2>1. ASSUME NEW u \in Pages, Open(u) \/ Move(u) PROVE MirrorInv'
    BY <2>1, MirrorStays DEF Open, Move
  <2>2. ASSUME NEW o \in {"unset", "wrong", "right"}, SaveOptions(o) PROVE MirrorInv'
    BY <2>2, MirrorStays DEF SaveOptions
  <2>3. ASSUME IssueToken \/ Render \/ Fire \/ Extract PROVE MirrorInv'
    BY <2>3, MirrorStays DEF IssueToken, Render, Fire, Extract
  <2>4. ASSUME NEW m \in mail, Post(m) PROVE MirrorInv'
    BY <2>4, <1>0, MirrorOfCommit DEF Post
  <2>5. ASSUME NEW m \in mail, PostFails(m) PROVE MirrorInv'
    BY <2>5, MirrorStays DEF PostFails
  <2>6. ASSUME AppendJsonl(Api) PROVE MirrorInv'
    BY <2>6, <1>0, MirrorOfAppend
  <2>7. ASSUME ApiDies PROVE MirrorInv'
    BY <2>7, <1>0, MirrorOfDie DEF ApiDies
  <2> QED
    BY <1>2, <2>1, <2>2, <2>3, <2>4, <2>5, <2>6, <2>7 DEF CaptureNext, CaptureStep
<1>3. CASE UNCHANGED vars
  BY <1>3, MirrorStays DEF vars
<1> QED
  BY <1>1, <1>2, <1>3 DEF Next

(* The mirror never has a fact the ledger lacks, whoever dies when: a fact is *)
(* committed before the process that committed it appends its line.           *)
THEOREM MirrorNeverAhead == Spec => []MirrorWithinLedger
<1>1. Init => MirrorInv
  BY DEF Init, MirrorInit, MirrorInv
<1>2. MirrorInv => MirrorWithinLedger
  BY DEF MirrorInv, MirrorWithinLedger
<1> QED
  BY <1>1, <1>2, MirrorStep, PTL DEF Spec

-----------------------------------------------------------------------------
(* What deaths cost the mirror.  A torn line is a debt: the next append pays   *)
(* for it with its own fact.                                                   *)

Lost == ledger \ (kept \cup Waiting)

Debt == IF torn THEN 1 ELSE 0

LossInv ==
    /\ IsFiniteSet(ledger)
    /\ unmirrored \in [Writers -> SUBSET ledger]
    /\ \A w \in Writers : \E fact : unmirrored[w] \subseteq {fact}
    /\ torn \in BOOLEAN /\ deaths \in Nat
    /\ Cardinality(Lost) + Debt <= 2 * deaths

LEMMA NoMore ==
    ASSUME NEW S, NEW T, IsFiniteSet(S), T \subseteq S
    PROVE  Cardinality(T) \in Nat /\ Cardinality(S) \in Nat /\ Cardinality(T) <= Cardinality(S)
  BY FS_Subset, FS_CardinalityType

LEMMA OneMore ==
    ASSUME NEW S, NEW T, NEW fact, IsFiniteSet(S), T \subseteq S \cup {fact}
    PROVE  /\ Cardinality(T) \in Nat /\ Cardinality(S) \in Nat
           /\ Cardinality(T) <= Cardinality(S) + 1
<1>1. IsFiniteSet(S \cup {fact}) /\ Cardinality(S) \in Nat
      /\ Cardinality(S \cup {fact}) <= Cardinality(S) + 1
  BY FS_AddElement, FS_CardinalityType
<1>2. Cardinality(T) \in Nat /\ Cardinality(T) <= Cardinality(S \cup {fact})
      /\ Cardinality(S \cup {fact}) \in Nat
  BY <1>1, NoMore
<1> QED
  BY <1>1, <1>2

LEMMA LostIsFinite == LossInv => IsFiniteSet(Lost) /\ Cardinality(Lost) \in Nat
  BY FS_Subset, FS_CardinalityType DEF LossInv, Lost

LEMMA LossStays ==
    ASSUME LossInv, UNCHANGED <<mirrorVars, deaths>> PROVE LossInv'
  BY DEF LossInv, mirrorVars, Lost, Waiting, Debt

LEMMA LossOfCommit ==
    ASSUME LossInv, NEW w \in Writers, NEW fact, Commit(w, fact) PROVE LossInv'
<1>1. /\ unmirrored' = [unmirrored EXCEPT ![w] = {fact}] /\ ledger' = ledger \cup {fact}
      /\ UNCHANGED <<kept, torn, deaths>> /\ unmirrored[w] = {}
  BY DEF Commit
<1>2. unmirrored' \in [Writers -> SUBSET ledger']
      /\ \A v \in Writers : \E f : unmirrored'[v] \subseteq {f}
  BY <1>1 DEF LossInv
<1>3. IsFiniteSet(ledger')
  BY <1>1, FS_AddElement DEF LossInv
<1>4. Waiting \cup {fact} \subseteq Waiting'
  <2>1. \A v \in Writers : unmirrored[v] \subseteq unmirrored'[v]
    BY <1>1 DEF LossInv
  <2>2. fact \in unmirrored'[w]
    BY <1>1 DEF LossInv
  <2> QED
    BY <2>1, <2>2 DEF Waiting
<1>5. Lost' \subseteq Lost
  BY <1>1, <1>4 DEF Lost
<1> QED
  BY <1>1, <1>2, <1>3, <1>5, LostIsFinite, NoMore DEF LossInv, Debt

(* A writer that no longer holds a fact: nothing else stops waiting. *)
LEMMA WaitingOfLeft ==
    ASSUME LossInv, NEW w \in Writers, unmirrored' = [unmirrored EXCEPT ![w] = {}],
           ledger' = ledger
    PROVE  /\ Waiting \subseteq Waiting' \cup unmirrored[w]
           /\ unmirrored' \in [Writers -> SUBSET ledger']
           /\ \A v \in Writers : \E f : unmirrored'[v] \subseteq {f}
<1>1. \A v \in Writers : v # w => unmirrored'[v] = unmirrored[v]
  BY DEF LossInv
<1> QED
  BY <1>1 DEF LossInv, Waiting

LEMMA LossOfAppend ==
    ASSUME LossInv, NEW w \in Writers, AppendJsonl(w) PROVE LossInv'
<1>1. /\ unmirrored' = [unmirrored EXCEPT ![w] = {}] /\ torn' = FALSE
      /\ kept' = IF torn THEN kept ELSE kept \cup unmirrored[w]
      /\ UNCHANGED <<ledger, deaths>>
  BY DEF AppendJsonl
<1>2. Waiting \subseteq Waiting' \cup unmirrored[w]
  BY <1>1, WaitingOfLeft
<1>3. Cardinality(Lost') \in Nat /\ Cardinality(Lost') <= Cardinality(Lost) + Debt
  <2>1. CASE torn
    <3>1. PICK f : unmirrored[w] \subseteq {f}
      BY DEF LossInv
    <3>2. Lost' \subseteq Lost \cup {f}
      BY <1>1, <1>2, <2>1, <3>1 DEF Lost
    <3> QED
      BY <2>1, <3>2, LostIsFinite, OneMore DEF Debt
  <2>2. CASE ~torn
    <3>1. Lost' \subseteq Lost
      BY <1>1, <1>2, <2>2 DEF Lost
    <3> QED
      BY <2>2, <3>1, LostIsFinite, NoMore DEF Debt
  <2> QED
    BY <2>1, <2>2
<1>4. unmirrored' \in [Writers -> SUBSET ledger']
      /\ \A v \in Writers : \E f : unmirrored'[v] \subseteq {f}
  BY <1>1, WaitingOfLeft
<1>5. Cardinality(Lost') + Debt' <= 2 * deaths' /\ torn' \in BOOLEAN /\ deaths' \in Nat
  <2>1. Cardinality(Lost) \in Nat /\ deaths \in Nat
    BY LostIsFinite DEF LossInv
  <2>2. Cardinality(Lost) + Debt <= 2 * deaths /\ Debt \in {0, 1}
    BY DEF LossInv, Debt
  <2>3. Debt' = 0 /\ deaths' = deaths
    BY <1>1 DEF Debt
  <2>4. Cardinality(Lost') + Debt' <= 2 * deaths'
    BY ONLY <1>3, <2>1, <2>2, <2>3
  <2> QED
    BY <1>1, <2>1, <2>3, <2>4
<1>6. IsFiniteSet(ledger')
  BY <1>1 DEF LossInv
<1> QED
  BY <1>4, <1>5, <1>6 DEF LossInv

LEMMA LossOfDie ==
    ASSUME LossInv, NEW w \in Writers, Die(w) PROVE LossInv'
<1>1. /\ unmirrored' = [unmirrored EXCEPT ![w] = {}] /\ deaths' = deaths + 1
      /\ UNCHANGED <<ledger, kept>> /\ (torn' = torn \/ torn' = TRUE)
  BY DEF Die
<1>2. PICK f : unmirrored[w] \subseteq {f}
  BY DEF LossInv
<1>3. Lost' \subseteq Lost \cup {f}
  BY <1>1, <1>2, WaitingOfLeft DEF Lost
<1>4. Cardinality(Lost') \in Nat /\ Cardinality(Lost') <= Cardinality(Lost) + 1
  BY <1>3, LostIsFinite, OneMore
<1>5. unmirrored' \in [Writers -> SUBSET ledger']
      /\ \A v \in Writers : \E g : unmirrored'[v] \subseteq {g}
  BY <1>1, WaitingOfLeft
<1>6. Cardinality(Lost') + Debt' <= 2 * deaths' /\ torn' \in BOOLEAN /\ deaths' \in Nat
  <2>1. Cardinality(Lost) \in Nat /\ deaths \in Nat
    BY LostIsFinite DEF LossInv
  <2>2. Cardinality(Lost) + Debt <= 2 * deaths /\ Debt \in {0, 1}
    BY DEF LossInv, Debt
  <2>3. Debt' <= Debt + 1 /\ Debt' \in {0, 1}
    <3>1. CASE torn' = torn
      BY <2>2, <3>1 DEF Debt
    <3>2. CASE torn' = TRUE
      BY <2>2, <3>2 DEF Debt
    <3> QED
      BY <1>1, <3>1, <3>2
  <2>4. deaths' = deaths + 1
    BY <1>1
  <2>5. Cardinality(Lost') + Debt' <= 2 * deaths'
    BY ONLY <1>4, <2>1, <2>2, <2>3, <2>4
  <2>6. torn' \in BOOLEAN
    BY <1>1 DEF LossInv
  <2> QED
    BY <2>1, <2>4, <2>5, <2>6
<1>7. IsFiniteSet(ledger')
  BY <1>1 DEF LossInv
<1> QED
  BY <1>5, <1>6, <1>7 DEF LossInv

LEMMA LossStep == LossInv /\ [Next]_vars => LossInv'
<1> SUFFICES ASSUME LossInv, [Next]_vars PROVE LossInv'
  OBVIOUS
<1>0. Syncers \subseteq Writers /\ Api \in Writers
  BY SyncersWrite, ApiWrites
<1>1. CASE GoogleNext
  <2>1. ASSUME NEW c \in Contacts, NEW gone \in BOOLEAN, Alter(c, gone) PROVE LossInv'
    BY <2>1, LossStays DEF Alter
  <2>2. ASSUME Expire PROVE LossInv'
    BY <2>2, LossStays DEF Expire
  <2>3. ASSUME NEW p \in Syncers,
               ReadToken(p) \/ Page(p) \/ Rejected(p) \/ ClearToken(p) \/ SetToken(p)
                 \/ FetchDone(p) \/ HttpError(p)
        PROVE  LossInv'
    BY <2>3, LossStays
    DEF ReadToken, Page, Rejected, ClearToken, SetToken, FetchDone, HttpError
  <2>4. ASSUME NEW p \in Syncers, Ingest(p) PROVE LossInv'
    BY <2>4, <1>0, LossOfCommit DEF Ingest
  <2>5. ASSUME NEW p \in Syncers, AppendJsonl(p) PROVE LossInv'
    BY <2>5, <1>0, LossOfAppend
  <2>6. ASSUME NEW p \in Syncers, SyncerDies(p) PROVE LossInv'
    BY <2>6, <1>0, LossOfDie DEF SyncerDies
  <2> QED
    BY <1>1, <2>1, <2>2, <2>3, <2>4, <2>5, <2>6 DEF GoogleNext, FetchStep
<1>2. CASE CaptureNext
  <2>1. ASSUME NEW u \in Pages, Open(u) \/ Move(u) PROVE LossInv'
    BY <2>1, LossStays DEF Open, Move
  <2>2. ASSUME NEW o \in {"unset", "wrong", "right"}, SaveOptions(o) PROVE LossInv'
    BY <2>2, LossStays DEF SaveOptions
  <2>3. ASSUME IssueToken \/ Render \/ Fire \/ Extract PROVE LossInv'
    BY <2>3, LossStays DEF IssueToken, Render, Fire, Extract
  <2>4. ASSUME NEW m \in mail, Post(m) PROVE LossInv'
    BY <2>4, <1>0, LossOfCommit DEF Post
  <2>5. ASSUME NEW m \in mail, PostFails(m) PROVE LossInv'
    BY <2>5, LossStays DEF PostFails
  <2>6. ASSUME AppendJsonl(Api) PROVE LossInv'
    BY <2>6, <1>0, LossOfAppend
  <2>7. ASSUME ApiDies PROVE LossInv'
    BY <2>7, <1>0, LossOfDie DEF ApiDies
  <2> QED
    BY <1>2, <2>1, <2>2, <2>3, <2>4, <2>5, <2>6, <2>7 DEF CaptureNext, CaptureStep
<1>3. CASE UNCHANGED vars
  BY <1>3, LossStays DEF vars
<1> QED
  BY <1>1, <1>2, <1>3 DEF Next

LEMMA LossInit == Init => LossInv
<1> SUFFICES ASSUME Init PROVE LossInv
  OBVIOUS
<1>1. ledger = {} /\ unmirrored = [w \in Writers |-> {}] /\ torn = FALSE /\ deaths = 0
  BY DEF Init, MirrorInit
<1>2. Lost = {}
  BY <1>1 DEF Lost
<1>3. IsFiniteSet(ledger) /\ Cardinality(Lost) = 0
  BY <1>1, <1>2, FS_EmptySet
<1>4. unmirrored \in [Writers -> SUBSET ledger]
      /\ \A w \in Writers : \E fact : unmirrored[w] \subseteq {fact}
  BY <1>1
<1>5. Cardinality(Lost) + Debt <= 2 * deaths
  BY <1>1, <1>3 DEF Debt
<1> QED
  BY <1>1, <1>3, <1>4, <1>5 DEF LossInv

(* Any number of writers that die anywhere cost the mirror at most two facts   *)
(* each: the one that was not written, and the one behind a torn line.         *)
THEOREM DeathsCostTwo == Spec => []MirrorLossBounded
<1>1. LossInv => MirrorLossBounded
  BY LostIsFinite DEF LossInv, MirrorLossBounded, Lost, Debt
<1> QED
  BY <1>1, LossInit, LossStep, PTL DEF Spec

-----------------------------------------------------------------------------
(* Types. *)

MirrorTypes ==
    /\ ledger \subseteq {Fact(i) : i \in DOMAIN log} \cup Records
    /\ unmirrored \in [Writers -> SUBSET ledger]
    /\ kept \subseteq {Fact(i) : i \in DOMAIN log} \cup Records
    /\ torn \in BOOLEAN /\ deaths \in Nat
    /\ left \in [Kinds -> Nat]

LEMMA TypesSplit == TypeOK <=> GoogleTypeOK /\ CaptureTypeOK /\ MirrorTypes
  BY DEF TypeOK, MirrorTypes

(* One event of a kind less. *)
LEMMA SpendKeepsKinds ==
    ASSUME left \in [Kinds -> Nat], NEW kind \in Kinds, Spend(kind)
    PROVE  left' \in [Kinds -> Nat]
  BY DEF Spend

LEMMA MirrorTypesStay ==
    ASSUME MirrorTypes, UNCHANGED <<mirrorVars, deaths>>, left' \in [Kinds -> Nat],
           DOMAIN log \subseteq DOMAIN log'
    PROVE  MirrorTypes'
  BY DEF MirrorTypes, mirrorVars, Fact, Records, Record, Pages

LEMMA MirrorTypesOfCommit ==
    ASSUME MirrorTypes, NEW w \in Writers, NEW fact, Commit(w, fact),
           fact \in {Fact(i) : i \in DOMAIN log} \cup Records, UNCHANGED <<log, left>>
    PROVE  MirrorTypes'
<1>1. ledger' \subseteq {Fact(i) : i \in DOMAIN log} \cup Records
  BY DEF MirrorTypes, Commit
<1>2. unmirrored' \in [Writers -> SUBSET ledger']
  BY DEF MirrorTypes, Commit
<1> QED
  BY <1>1, <1>2 DEF MirrorTypes, Commit, Fact, Records, Record, Pages

LEMMA MirrorTypesOfAppend ==
    ASSUME MirrorTypes, NEW w \in Writers, AppendJsonl(w), UNCHANGED log
    PROVE  MirrorTypes'
<1>1. kept' \subseteq {Fact(i) : i \in DOMAIN log} \cup Records
  BY DEF MirrorTypes, AppendJsonl
<1>2. unmirrored' \in [Writers -> SUBSET ledger']
  BY DEF MirrorTypes, AppendJsonl
<1>3. UNCHANGED <<log, ledger, deaths, left>> /\ torn' \in BOOLEAN
  BY DEF AppendJsonl
<1> QED
  BY <1>1, <1>2, <1>3 DEF MirrorTypes, Fact, Records, Record, Pages

LEMMA MirrorTypesOfDie ==
    ASSUME MirrorTypes, NEW w \in Writers, Die(w), UNCHANGED log
    PROVE  MirrorTypes'
<1>1. unmirrored' \in [Writers -> SUBSET ledger']
  BY DEF MirrorTypes, Die
<1>2. left' \in [Kinds -> Nat]
  BY SpendKeepsKinds DEF MirrorTypes, Die, Kinds
<1>3. torn' \in BOOLEAN
  BY DEF MirrorTypes, Die
<1> QED
  BY <1>1, <1>2, <1>3 DEF MirrorTypes, Die, Fact, Records, Record, Pages

LEMMA DropTypes ==
    ASSUME GoogleTypeOK, NEW p \in Syncers, Drop(p), UNCHANGED <<log, horizon, token>>,
           lost' \subseteq DOMAIN log
    PROVE  GoogleTypeOK'
  BY DEF GoogleTypeOK, Drop, NoToken

(* An action of a sync keeps the types of the sync and of the mirror. *)
LEMMA GoogleTypeStep ==
    ASSUME GoogleTypeOK, MirrorTypes, GoogleNext PROVE GoogleTypeOK' /\ MirrorTypes'
<1>0. Syncers \subseteq Writers /\ left \in [Kinds -> Nat]
  BY SyncersWrite DEF MirrorTypes
<1>1. ASSUME NEW c \in Contacts, NEW gone \in BOOLEAN, Alter(c, gone)
      PROVE  GoogleTypeOK' /\ MirrorTypes'
  <2>1. [who |-> c, gone |-> gone] \in Change
    BY DEF Change
  <2>2. log' \in Seq(Change) /\ Len(log') = Len(log) + 1 /\ Len(log) \in Nat
        /\ DOMAIN log = 1..Len(log) /\ DOMAIN log' = 1..Len(log')
    BY <1>1, <2>1 DEF Alter, GoogleTypeOK
  <2>3. GoogleTypeOK'
    BY <1>1, <2>2 DEF Alter, GoogleTypeOK, local, NoToken
  <2>4. left' \in [Kinds -> Nat]
    BY <1>1, <1>0, SpendKeepsKinds DEF Alter, Kinds
  <2> QED
    BY <1>1, <2>2, <2>3, <2>4, MirrorTypesStay DEF Alter
<1>2. ASSUME Expire PROVE GoogleTypeOK' /\ MirrorTypes'
  <2>1. left' \in [Kinds -> Nat]
    BY <1>2, <1>0, SpendKeepsKinds DEF Expire, Kinds
  <2>2. GoogleTypeOK'
    BY <1>2 DEF Expire, GoogleTypeOK, local, NoToken
  <2> QED
    BY <1>2, <2>1, <2>2, MirrorTypesStay DEF Expire
<1>3. ASSUME NEW p \in Syncers, ReadToken(p) PROVE GoogleTypeOK' /\ MirrorTypes'
  <2>1. left' \in [Kinds -> Nat]
    BY <1>3, <1>0, SpendKeepsKinds DEF ReadToken, Kinds
  <2>2. GoogleTypeOK'
    BY <1>3 DEF ReadToken, GoogleTypeOK, NoToken
  <2> QED
    BY <1>3, <2>1, <2>2, MirrorTypesStay DEF ReadToken
<1>4. ASSUME NEW p \in Syncers, Page(p) PROVE GoogleTypeOK' /\ MirrorTypes'
  <2> DEFINE first == at[p] = NoToken
             rest == IF first THEN Listed(base[p]) ELSE due[p]
  <2>1. PICK page \in SUBSET rest :
           /\ due' = [due EXCEPT ![p] = rest \ page]
           /\ got' = [got EXCEPT ![p] = @ \cup
                         {i \in DOMAIN log : Newest(i) /\ log[i].who \in page}]
           /\ at' = IF first THEN [at EXCEPT ![p] = Len(log)] ELSE at
           /\ step' = [step EXCEPT ![p] = IF page = rest THEN "set" ELSE "page"]
    BY <1>4 DEF Page
  <2>2. \A i \in DOMAIN log : log[i] \in Change
    <3>1. log \in Seq(Change)
      BY DEF GoogleTypeOK
    <3> QED
      BY ONLY <3>1
  <2>3. rest \subseteq Contacts
    BY <2>2 DEF GoogleTypeOK, Listed, Change
  <2>4. due' \in [Syncers -> SUBSET Contacts]
    BY <2>1, <2>3 DEF GoogleTypeOK
  <2>5. got' \in [Syncers -> SUBSET DOMAIN log]
    BY <2>1 DEF GoogleTypeOK
  <2>6. at' \in [Syncers -> NoToken..Len(log)]
    BY <2>1 DEF GoogleTypeOK, NoToken
  <2>7. step' \in [Syncers -> {"idle", "page", "clear", "set", "hand"}]
    BY <2>1 DEF GoogleTypeOK
  <2>8. UNCHANGED <<log, horizon, token, base, lost, mirrorVars, deaths, left>>
    BY <1>4 DEF Page
  <2>9. GoogleTypeOK'
    BY <2>4, <2>5, <2>6, <2>7, <2>8 DEF GoogleTypeOK
  <2> QED
    BY <1>0, <2>8, <2>9, MirrorTypesStay
<1>5. ASSUME NEW p \in Syncers, Rejected(p) PROVE GoogleTypeOK' /\ MirrorTypes'
  <2>1. GoogleTypeOK'
    <3>1. CASE got[p] = {}  BY <1>5, <3>1 DEF Rejected, GoogleTypeOK
    <3>2. CASE got[p] # {}  BY <1>5, <3>2, DropTypes DEF Rejected, GoogleTypeOK
    <3> QED  BY <3>1, <3>2
  <2> QED
    BY <1>0, <1>5, <2>1, MirrorTypesStay DEF Rejected
<1>6. ASSUME NEW p \in Syncers, HttpError(p) PROVE GoogleTypeOK' /\ MirrorTypes'
  <2>1. left' \in [Kinds -> Nat]
    BY <1>6, <1>0, SpendKeepsKinds DEF HttpError, Kinds
  <2>2. GoogleTypeOK'
    BY <1>6, DropTypes DEF HttpError, GoogleTypeOK
  <2> QED
    BY <1>6, <2>1, <2>2, MirrorTypesStay DEF HttpError
<1>7. ASSUME NEW p \in Syncers, ClearToken(p) PROVE GoogleTypeOK' /\ MirrorTypes'
  <2>1. GoogleTypeOK'
    BY <1>7 DEF ClearToken, GoogleTypeOK, NoToken
  <2> QED
    BY <1>0, <1>7, <2>1, MirrorTypesStay DEF ClearToken
<1>8. ASSUME NEW p \in Syncers, SetToken(p) PROVE GoogleTypeOK' /\ MirrorTypes'
  <2>1. GoogleTypeOK'
    BY <1>8 DEF SetToken, GoogleTypeOK
  <2> QED
    BY <1>0, <1>8, <2>1, MirrorTypesStay DEF SetToken
<1>9. ASSUME NEW p \in Syncers, Ingest(p) PROVE GoogleTypeOK' /\ MirrorTypes'
  <2>1. PICK i \in got[p] : Commit(p, Fact(i)) /\ got' = [got EXCEPT ![p] = @ \ {i}]
    BY <1>9 DEF Ingest
  <2>2. i \in DOMAIN log
    BY DEF GoogleTypeOK
  <2>3. MirrorTypes'
    BY <1>0, <1>9, <2>1, <2>2, MirrorTypesOfCommit DEF Ingest
  <2>4. GoogleTypeOK'
    BY <1>9, <2>1 DEF Ingest, GoogleTypeOK
  <2> QED
    BY <2>3, <2>4
<1>10. ASSUME NEW p \in Syncers, FetchDone(p) PROVE GoogleTypeOK' /\ MirrorTypes'
  <2>1. GoogleTypeOK'
    BY <1>10, DropTypes DEF FetchDone, GoogleTypeOK
  <2> QED
    BY <1>0, <1>10, <2>1, MirrorTypesStay DEF FetchDone
<1>11. ASSUME NEW p \in Syncers, AppendJsonl(p), UNCHANGED googleVars
       PROVE  GoogleTypeOK' /\ MirrorTypes'
  <2>1. GoogleTypeOK'
    BY <1>11 DEF googleVars, GoogleTypeOK
  <2> QED
    BY <1>0, <1>11, <2>1, MirrorTypesOfAppend DEF googleVars
<1>12. ASSUME NEW p \in Syncers, SyncerDies(p) PROVE GoogleTypeOK' /\ MirrorTypes'
  <2>1. lost' \subseteq DOMAIN log
    BY <1>12 DEF SyncerDies, GoogleTypeOK
  <2>2. GoogleTypeOK'
    BY <1>12, <2>1, DropTypes DEF SyncerDies
  <2> QED
    BY <1>0, <1>12, <2>2, MirrorTypesOfDie DEF SyncerDies
<1> QED
  BY <1>1, <1>2, <1>3, <1>4, <1>5, <1>6, <1>7, <1>8, <1>9, <1>10, <1>11, <1>12
  DEF GoogleNext, FetchStep

(* An action of the extension keeps the types of the extension and of the mirror. *)
LEMMA CaptureTypeStep ==
    ASSUME CaptureTypeOK, MirrorTypes, CaptureNext, UNCHANGED googleVars
    PROVE  CaptureTypeOK' /\ MirrorTypes'
<1>0. /\ left \in [Kinds -> Nat] /\ UNCHANGED log /\ DOMAIN log \subseteq DOMAIN log'
      /\ Profiles \subseteq Pages /\ Elsewhere \in Pages /\ Api \in Writers
      /\ {"moves", "saves", "drops"} \subseteq Kinds
  BY ApiWrites DEF MirrorTypes, googleVars, Pages, Kinds
<1>1. ASSUME NEW u \in Pages, Open(u) PROVE CaptureTypeOK' /\ MirrorTypes'
  <2>1. left' \in [Kinds -> Nat]
    BY <1>1, <1>0, SpendKeepsKinds DEF Open
  <2>2. CaptureTypeOK'
    BY <1>1, <1>0 DEF Open, CaptureTypeOK, captureHistory
  <2> QED
    BY <1>0, <1>1, <2>1, <2>2, MirrorTypesStay DEF Open
<1>2. ASSUME NEW u \in Pages, Move(u) PROVE CaptureTypeOK' /\ MirrorTypes'
  <2>1. left' \in [Kinds -> Nat]
    BY <1>2, <1>0, SpendKeepsKinds DEF Move
  <2>2. timer' \in BOOLEAN /\ hasty' \in BOOLEAN
    BY <1>2 DEF Move, CaptureTypeOK
  <2>3. CaptureTypeOK'
    BY <1>2, <2>2 DEF Move, CaptureTypeOK
  <2> QED
    BY <1>0, <1>2, <2>1, <2>3, MirrorTypesStay DEF Move
<1>3. ASSUME NEW o \in {"unset", "wrong", "right"}, SaveOptions(o)
      PROVE  CaptureTypeOK' /\ MirrorTypes'
  <2>1. left' \in [Kinds -> Nat]
    BY <1>3, <1>0, SpendKeepsKinds DEF SaveOptions
  <2>2. CaptureTypeOK'
    BY <1>3 DEF SaveOptions, CaptureTypeOK, tab, captureHistory
  <2> QED
    BY <1>0, <1>3, <2>1, <2>2, MirrorTypesStay DEF SaveOptions
<1>4. ASSUME IssueToken PROVE CaptureTypeOK' /\ MirrorTypes'
  <2>1. left' \in [Kinds -> Nat]
    BY <1>4, <1>0, SpendKeepsKinds DEF IssueToken
  <2>2. CaptureTypeOK'
    BY <1>4 DEF IssueToken, CaptureTypeOK, tab, captureHistory
  <2> QED
    BY <1>0, <1>4, <2>1, <2>2, MirrorTypesStay DEF IssueToken
<1>5. ASSUME Render PROVE CaptureTypeOK' /\ MirrorTypes'
  <2>1. CaptureTypeOK'
    BY <1>5 DEF Render, CaptureTypeOK, captureHistory
  <2> QED
    BY <1>0, <1>5, <2>1, MirrorTypesStay DEF Render
<1>6. ASSUME Fire PROVE CaptureTypeOK' /\ MirrorTypes'
  <2>1. /\ importing' \in Seq(Pages)
        /\ early' \in BOOLEAN /\ twin' \in BOOLEAN
    <3>1. CASE url = last  BY <1>6, <3>1 DEF Fire, CaptureTypeOK
    <3>2. CASE url # last  BY <1>6, <3>2 DEF Fire, CaptureTypeOK
    <3> QED  BY <3>1, <3>2
  <2>2. CaptureTypeOK'
    BY <1>6, <2>1 DEF Fire, CaptureTypeOK
  <2> QED
    BY <1>0, <1>6, <2>2, MirrorTypesStay DEF Fire
<1>7. ASSUME Extract PROVE CaptureTypeOK' /\ MirrorTypes'
  <2> DEFINE who == Head(importing)
  <2>1. importing' \in Seq(Pages) /\ who \in Pages
    BY <1>7 DEF Extract, CaptureTypeOK
  <2>2. last' \in Profiles \cup {NoUrl} /\ botched' \subseteq Profiles
    <3>1. CASE who \notin Profiles  BY <1>7, <3>1 DEF Extract, CaptureTypeOK
    <3>2. CASE who \in Profiles  BY <1>7, <3>2 DEF Extract, CaptureTypeOK
    <3> QED  BY <3>1, <3>2
  <2>3. mail' \subseteq Records
    <3>1. CASE who \notin Profiles  BY <1>7, <3>1 DEF Extract, CaptureTypeOK
    <3>2. CASE who \in Profiles
      <4>1. mail' = mail \cup {Record(who, shown)} /\ shown \in Pages
        BY <1>7, <3>2 DEF Extract, CaptureTypeOK
      <4>2. Record(who, shown) \in Records
        BY <3>2, <4>1 DEF Records
      <4> QED
        BY <4>1, <4>2 DEF CaptureTypeOK, Records, Record, Pages
    <3> QED  BY <3>1, <3>2
  <2>4. CaptureTypeOK'
    BY <1>7, <2>1, <2>2, <2>3 DEF Extract, CaptureTypeOK
  <2> QED
    BY <1>0, <1>7, <2>4, MirrorTypesStay DEF Extract
<1>8. ASSUME NEW m \in mail, Post(m) PROVE CaptureTypeOK' /\ MirrorTypes'
  <2>1. mail' \subseteq Records
    BY <1>8 DEF Post, CaptureTypeOK, Records, Record, Pages
  <2>2. CaptureTypeOK'
    BY <1>8, <2>1 DEF Post, CaptureTypeOK, tab
  <2>3. m \in Records
    BY DEF CaptureTypeOK
  <2> QED
    BY <1>0, <1>8, <2>2, <2>3, MirrorTypesOfCommit DEF Post
<1>9. ASSUME NEW m \in mail, PostFails(m) PROVE CaptureTypeOK' /\ MirrorTypes'
  <2>1. left' \in [Kinds -> Nat]
    BY <1>9, <1>0, SpendKeepsKinds DEF PostFails
  <2>2. m[2] \in Profiles
    BY DEF CaptureTypeOK, Records, Record
  <2>3. mail' \subseteq Records /\ botched' \subseteq Profiles
    BY <1>9, <2>2 DEF PostFails, CaptureTypeOK, Records, Record, Pages
  <2>4. CaptureTypeOK'
    BY <1>9, <2>3 DEF PostFails, CaptureTypeOK, tab
  <2> QED
    BY <1>0, <1>9, <2>1, <2>4, MirrorTypesStay DEF PostFails
<1>10. ASSUME AppendJsonl(Api), UNCHANGED captureVars PROVE CaptureTypeOK' /\ MirrorTypes'
  <2>1. CaptureTypeOK'
    BY <1>10 DEF captureVars, tab, captureHistory, CaptureTypeOK
  <2> QED
    BY <1>0, <1>10, <2>1, MirrorTypesOfAppend
<1>11. ASSUME ApiDies PROVE CaptureTypeOK' /\ MirrorTypes'
  <2>1. CaptureTypeOK'
    BY <1>11 DEF ApiDies, captureVars, tab, captureHistory, CaptureTypeOK
  <2> QED
    BY <1>0, <1>11, <2>1, MirrorTypesOfDie DEF ApiDies
<1> QED
  BY <1>1, <1>2, <1>3, <1>4, <1>5, <1>6, <1>7, <1>8, <1>9, <1>10, <1>11
  DEF CaptureNext, CaptureStep

LEMMA TypeStep == TypeOK /\ [Next]_vars => TypeOK'
<1> SUFFICES ASSUME TypeOK, [Next]_vars PROVE TypeOK'
  OBVIOUS
<1>0. GoogleTypeOK /\ CaptureTypeOK /\ MirrorTypes
  BY TypesSplit
<1>1. CASE GoogleNext /\ UNCHANGED captureVars
  <2>1. CaptureTypeOK'
    BY <1>0, <1>1 DEF captureVars, tab, captureHistory, CaptureTypeOK
  <2> QED
    BY <1>0, <1>1, <2>1, GoogleTypeStep DEF TypeOK, MirrorTypes
<1>2. CASE CaptureNext /\ UNCHANGED googleVars
  <2>1. GoogleTypeOK'
    BY <1>0, <1>2 DEF googleVars, GoogleTypeOK
  <2> QED
    BY <1>0, <1>2, <2>1, CaptureTypeStep DEF TypeOK, MirrorTypes
<1>3. CASE UNCHANGED vars
  <2>1. GoogleTypeOK'
    BY <1>0, <1>3 DEF vars, googleVars, GoogleTypeOK
  <2>2. CaptureTypeOK'
    BY <1>0, <1>3 DEF vars, captureVars, tab, captureHistory, CaptureTypeOK
  <2>3. MirrorTypes'
    <3>1. UNCHANGED <<mirrorVars, deaths, left, log>>
      BY <1>3 DEF vars, googleVars
    <3> QED
      BY <1>0, <3>1, MirrorTypesStay DEF MirrorTypes
  <2> QED
    BY <2>1, <2>2, <2>3 DEF TypeOK, MirrorTypes
<1> QED
  BY <1>1, <1>2, <1>3 DEF Next

LEMMA TypeInit == Init => TypeOK
<1> SUFFICES ASSUME Init PROVE TypeOK
  OBVIOUS
<1>1. GoogleTypeOK
  <2>1. log \in Seq(Change) /\ Len(log) = 0
    BY DEF Init, GoogleInit
  <2>2. horizon \in 0..0 /\ token \in NoToken..0
    BY DEF Init, GoogleInit, NoToken
  <2>3. step \in [Syncers -> {"idle", "page", "clear", "set", "hand"}]
    BY DEF Init, GoogleInit
  <2>4. base \in [Syncers -> NoToken..0] /\ at \in [Syncers -> NoToken..0]
    BY DEF Init, GoogleInit, NoToken
  <2>5. /\ due \in [Syncers -> SUBSET Contacts] /\ got \in [Syncers -> SUBSET DOMAIN log]
        /\ lost \subseteq DOMAIN log
    BY DEF Init, GoogleInit
  <2> QED
    BY <2>1, <2>2, <2>3, <2>4, <2>5 DEF GoogleTypeOK
<1>2. CaptureTypeOK
  <2>1. importing \in Seq(Pages)
    BY DEF Init, CaptureInit
  <2>2. last \in Profiles \cup {NoUrl} /\ url \in Pages /\ shown \in Pages
    BY DEF Init, CaptureInit, Pages
  <2>3. <<hasty, early, twin>> \in BOOLEAN \X BOOLEAN \X BOOLEAN
    BY DEF Init, CaptureInit
  <2>4. mail \subseteq Records /\ botched \subseteq Profiles
    BY DEF Init, CaptureInit
  <2>5. /\ script \in BOOLEAN /\ timer \in BOOLEAN /\ issued \in BOOLEAN
        /\ options \in {"unset", "wrong", "right"}
    BY DEF Init, CaptureInit
  <2> QED
    BY <2>1, <2>2, <2>3, <2>4, <2>5 DEF CaptureTypeOK
<1>3. MirrorTypes
  BY KnownBudgets DEF Init, MirrorInit, MirrorTypes
<1> QED
  BY <1>1, <1>2, <1>3 DEF TypeOK, MirrorTypes

(* Every store, process, tab and count of what may still happen has its type. *)
THEOREM IntakeTypeCorrect == Spec => []TypeOK
  BY TypeInit, TypeStep, PTL DEF Spec

-----------------------------------------------------------------------------
(* The browser extension files what it sees under the right name. *)

(* Unless the user or the page was too fast or too slow: a call that waits for *)
(* the import took its URL from the page that is still shown, and no record    *)
(* has been misfiled.                                                          *)
FiledInv ==
    hasty \/ early
    \/ /\ \A k \in DOMAIN importing : importing[k] = url /\ shown = url
       /\ \A who \in Profiles, shows \in Pages :
             Record(who, shows) \in mail \cup ledger => who = shows

LEMMA FactsAreNoRecords ==
    ASSUME NEW i, NEW who, NEW shows PROVE Fact(i) # Record(who, shows)
<1>1. Fact(i)[1] = "google_contacts" /\ Record(who, shows)[1] = "linkedin_ext"
  BY DEF Fact, Record
<1> QED
  BY <1>1

LEMMA FiledOfCapture ==
    ASSUME TypeOK, FiledInv, CaptureNext PROVE FiledInv'
<1>0. CaptureTypeOK /\ Len(importing) \in Nat /\ DOMAIN importing = 1..Len(importing)
  BY DEF TypeOK, CaptureTypeOK
<1>1. ASSUME NEW u \in Pages, Open(u) PROVE FiledInv'
  BY <1>1 DEF Open, FiledInv, Record, Pages, captureHistory, mirrorVars
<1>2. ASSUME NEW u \in Pages, Move(u) PROVE FiledInv'
  <2>1. CASE hasty'
    BY <2>1 DEF FiledInv
  <2>2. CASE ~hasty'
    <3>1. ~hasty /\ (importing = <<>> \/ u = url) /\ UNCHANGED <<shown, importing, early>>
      BY <1>2, <2>2 DEF Move, CaptureTypeOK
    <3>2. \A k \in DOMAIN importing : importing[k] = url => u = url
      BY <1>0, <3>1
    <3> QED
      BY <1>2, <3>1, <3>2 DEF Move, FiledInv, Record, Pages, mirrorVars
  <2> QED
    BY <2>1, <2>2
<1>3. ASSUME NEW o \in {"unset", "wrong", "right"}, SaveOptions(o) PROVE FiledInv'
  BY <1>3 DEF SaveOptions, FiledInv, Record, Pages, tab, captureHistory, mirrorVars
<1>4. ASSUME IssueToken PROVE FiledInv'
  BY <1>4 DEF IssueToken, FiledInv, Record, Pages, tab, captureHistory, mirrorVars
<1>5. ASSUME Render PROVE FiledInv'
  BY <1>5 DEF Render, FiledInv, Record, Pages, captureHistory, mirrorVars
<1>6. ASSUME Fire PROVE FiledInv'
  <2>1. CASE url = last
    BY <1>6, <2>1 DEF Fire, FiledInv, Record, Pages, mirrorVars
  <2>2. CASE url # last
    <3>1. /\ importing' = Append(importing, url) /\ early' = (early \/ shown # url)
          /\ UNCHANGED <<url, shown, hasty, mail, ledger>>
      BY <1>6, <2>2 DEF Fire, mirrorVars
    <3>2. \A k \in DOMAIN importing' :
             \/ importing'[k] = url
             \/ k \in DOMAIN importing /\ importing'[k] = importing[k]
      BY <1>0, <3>1 DEF CaptureTypeOK
    <3> QED
      BY <3>1, <3>2 DEF FiledInv, Record, Pages
  <2> QED
    BY <2>1, <2>2
<1>7. ASSUME Extract PROVE FiledInv'
  <2> DEFINE who == Head(importing)
  <2>1. /\ 1 \in DOMAIN importing /\ who = importing[1]
        /\ \A k \in DOMAIN importing' : importing'[k] = importing[k + 1]
                                          /\ k + 1 \in DOMAIN importing
    BY <1>0, <1>7 DEF Extract, CaptureTypeOK
  <2>2. UNCHANGED <<url, shown, hasty, early, ledger>>
    BY <1>7 DEF Extract, mirrorVars
  <2>3. mail' = mail \/ mail' = mail \cup {Record(who, shown)}
    BY <1>7 DEF Extract
  <2>4. CASE hasty \/ early
    BY <2>2, <2>4 DEF FiledInv
  <2>5. CASE ~hasty /\ ~early
    <3>1. who = url /\ shown = url
      BY <2>1, <2>5 DEF FiledInv
    <3>2. \A w \in Profiles, s \in Pages :
             Record(w, s) \in mail' \cup ledger => w = s
      BY <2>3, <2>5, <3>1 DEF FiledInv, Record
    <3> QED
      BY <2>1, <2>2, <2>5, <3>2 DEF FiledInv, Record, Pages
  <2> QED
    BY <2>4, <2>5
<1>8. ASSUME NEW m \in mail, Post(m) PROVE FiledInv'
  BY <1>8 DEF Post, Commit, FiledInv, Record, Pages, tab
<1>9. ASSUME NEW m \in mail, PostFails(m) PROVE FiledInv'
  BY <1>9 DEF PostFails, FiledInv, Record, Pages, tab, mirrorVars
<1>10. ASSUME AppendJsonl(Api), UNCHANGED captureVars PROVE FiledInv'
  BY <1>10 DEF AppendJsonl, FiledInv, Record, Pages, captureVars, tab, captureHistory
<1>11. ASSUME ApiDies PROVE FiledInv'
  BY <1>11 DEF ApiDies, Die, FiledInv, Record, Pages, captureVars, tab, captureHistory
<1> QED
  BY <1>1, <1>2, <1>3, <1>4, <1>5, <1>6, <1>7, <1>8, <1>9, <1>10, <1>11
  DEF CaptureNext, CaptureStep

(* What a sync does to the ledger. *)
LEMMA SyncsCommitFacts ==
    ASSUME GoogleNext
    PROVE  ledger' = ledger \/ \E i : ledger' = ledger \cup {Fact(i)}
<1>1. ASSUME NEW p \in Syncers, Ingest(p)
      PROVE  \E i : ledger' = ledger \cup {Fact(i)}
  BY <1>1 DEF Ingest, Commit
<1>2. ASSUME NEW p \in Syncers, ~Ingest(p), FetchStep(p) \/ ReadToken(p) \/ HttpError(p)
      PROVE  ledger' = ledger
  BY <1>2 DEF FetchStep, Page, Rejected, ClearToken, SetToken, FetchDone, AppendJsonl,
              ReadToken, HttpError, mirrorVars
<1>3. ASSUME NEW p \in Syncers, SyncerDies(p) PROVE ledger' = ledger
  BY <1>3 DEF SyncerDies, Die
<1>4. ASSUME NEW c \in Contacts, NEW gone \in BOOLEAN, Alter(c, gone)
      PROVE  ledger' = ledger
  BY <1>4 DEF Alter, mirrorVars
<1>5. ASSUME Expire PROVE ledger' = ledger
  BY <1>5 DEF Expire, mirrorVars
<1> QED
  BY <1>1, <1>2, <1>3, <1>4, <1>5 DEF GoogleNext

LEMMA FiledStep == TypeOK /\ FiledInv /\ [Next]_vars => FiledInv'
<1> SUFFICES ASSUME TypeOK, FiledInv, [Next]_vars PROVE FiledInv'
  OBVIOUS
<1>1. CASE GoogleNext /\ UNCHANGED captureVars
  <2>1. \A who \in Profiles, shows \in Pages :
           Record(who, shows) \in ledger' => Record(who, shows) \in ledger
    BY <1>1, SyncsCommitFacts, FactsAreNoRecords
  <2>2. UNCHANGED <<hasty, early, importing, url, shown, mail>>
    BY <1>1 DEF captureVars, tab, captureHistory
  <2> QED
    BY <2>1, <2>2 DEF FiledInv, Record, Pages
<1>2. CASE CaptureNext
  BY <1>2, FiledOfCapture
<1>3. CASE UNCHANGED vars
  BY <1>3 DEF vars, captureVars, tab, captureHistory, mirrorVars, FiledInv, Record, Pages
<1> QED
  BY <1>1, <1>2, <1>3 DEF Next

(* In whatever order timers, imports, messages and the user's clicks come, a    *)
(* profile is filed under another's URL only if the tab moved on during the     *)
(* import, or the page followed its address only after the quiet period.        *)
THEOREM FiledRight == Spec => []MisfiledOnlyIfMoved
<1>1. Init => FiledInv
  BY DEF Init, CaptureInit, MirrorInit, FiledInv
<1>2. FiledInv => MisfiledOnlyIfMoved
  BY DEF FiledInv, MisfiledOnlyIfMoved
<1> QED
  BY <1>1, <1>2, TypeInit, TypeStep, FiledStep, PTL DEF Spec

-----------------------------------------------------------------------------
(* A profile is sent again only if it was captured twice at once. *)

(* Unless some URL was: those that wait for the import differ from each other *)
(* and from the one captured last.                                            *)
Fresh(urls, prev) ==
    \A k \in DOMAIN urls :
        /\ urls[k] # prev
        /\ \A j \in DOMAIN urls : urls[j] = urls[k] => j = k

RepeatInv == twin \/ Fresh(importing, last)

LEMMA FreshAppend ==
    ASSUME NEW urls \in Seq(Pages), NEW prev, NEW u \in Pages, u # prev,
           Fresh(urls, prev), \A k \in DOMAIN urls : urls[k] # u
    PROVE  Fresh(Append(urls, u), prev)
<1>1. Len(urls) \in Nat /\ DOMAIN urls = 1..Len(urls)
  OBVIOUS
<1>2. /\ DOMAIN Append(urls, u) = 1..(Len(urls) + 1)
      /\ Append(urls, u)[Len(urls) + 1] = u
      /\ \A k \in 1..Len(urls) : Append(urls, u)[k] = urls[k]
  OBVIOUS
<1>3. \A k \in 1..(Len(urls) + 1) : k \in 1..Len(urls) \/ k = Len(urls) + 1
  BY <1>1
<1> QED
  BY <1>1, <1>2, <1>3 DEF Fresh

(* The first of them becomes the one captured last. *)
LEMMA FreshTail ==
    ASSUME NEW urls \in Seq(Pages), NEW prev, urls # <<>>, Fresh(urls, prev)
    PROVE  Head(urls) # prev /\ Fresh(Tail(urls), prev) /\ Fresh(Tail(urls), Head(urls))
<1>1. /\ Len(urls) \in Nat /\ DOMAIN urls = 1..Len(urls)
      /\ 1 \in DOMAIN urls /\ Head(urls) = urls[1]
  OBVIOUS
<1>2. /\ DOMAIN Tail(urls) = 1..(Len(urls) - 1)
      /\ \A k \in DOMAIN Tail(urls) : Tail(urls)[k] = urls[k + 1]
  OBVIOUS
<1>3. \A k \in DOMAIN Tail(urls) :
         k + 1 \in DOMAIN urls /\ k + 1 # 1 /\ \A j \in DOMAIN Tail(urls) : j + 1 = k + 1 => j = k
  BY <1>1, <1>2
<1> QED
  BY <1>1, <1>2, <1>3 DEF Fresh

LEMMA RepeatOfCapture ==
    ASSUME CaptureTypeOK, RepeatInv, CaptureNext PROVE RepeatInv'
<1>1. ASSUME NEW u \in Pages, Open(u) PROVE RepeatInv'
  BY <1>1 DEF Open, RepeatInv, Fresh
<1>2. ASSUME UNCHANGED <<importing, last, twin>> PROVE RepeatInv'
  BY <1>2 DEF RepeatInv
<1>3. ASSUME Fire PROVE RepeatInv'
  <2>1. CASE url = last \/ twin'
    BY <1>2, <1>3, <2>1 DEF Fire, RepeatInv
  <2>2. CASE url # last /\ ~twin'
    <3>1. /\ importing' = Append(importing, url) /\ last' = last /\ ~twin
          /\ \A k \in DOMAIN importing : importing[k] # url
      BY <1>3, <2>2 DEF Fire
    <3> QED
      BY <2>2, <3>1, FreshAppend DEF CaptureTypeOK, RepeatInv
  <2> QED
    BY <2>1, <2>2
<1>4. ASSUME Extract PROVE RepeatInv'
  <2>1. /\ importing # <<>> /\ importing' = Tail(importing) /\ twin' = twin
        /\ last' = last \/ last' = Head(importing)
    BY <1>4 DEF Extract
  <2> QED
    BY <2>1, FreshTail DEF CaptureTypeOK, RepeatInv
<1>5. ASSUME NEW m \in mail, Post(m) \/ PostFails(m) PROVE RepeatInv'
  BY <1>2, <1>5 DEF Post, PostFails, tab
<1>6. ASSUME NEW u \in Pages, Move(u) PROVE RepeatInv'
  BY <1>2, <1>6 DEF Move
<1>7. ASSUME NEW o \in {"unset", "wrong", "right"}, SaveOptions(o) PROVE RepeatInv'
  BY <1>2, <1>7 DEF SaveOptions, tab, captureHistory
<1>8. ASSUME IssueToken \/ Render \/ ApiDies \/ UNCHANGED captureVars PROVE RepeatInv'
  BY <1>2, <1>8 DEF IssueToken, Render, ApiDies, captureVars, tab, captureHistory
<1> QED
  BY <1>1, <1>3, <1>4, <1>5, <1>6, <1>7, <1>8 DEF CaptureNext, CaptureStep

LEMMA RepeatStep == TypeOK /\ RepeatInv /\ [Next]_vars => RepeatInv'
<1> SUFFICES ASSUME TypeOK, RepeatInv, [Next]_vars PROVE RepeatInv'
  OBVIOUS
<1>1. CASE CaptureNext
  BY <1>1, RepeatOfCapture DEF TypeOK
<1>2. CASE UNCHANGED captureVars
  BY <1>2 DEF RepeatInv, captureVars, tab, captureHistory
<1> QED
  BY <1>1, <1>2 DEF Next, vars

(* Only Extract sends, and what it sends was waiting for the import. *)
LEMMA SentWasWaiting ==
    ASSUME TypeOK, RepeatInv, [Next]_vars, NEW m \in mail' \ mail, m[2] = last
    PROVE  twin
<1>1. CASE Extract
  <2>1. importing # <<>> /\ m = Record(Head(importing), shown)
    BY <1>1 DEF Extract
  <2> QED
    BY <2>1, FreshTail DEF TypeOK, CaptureTypeOK, RepeatInv, Record
<1>2. CASE ~Extract
  <2>1. CASE CaptureNext
    BY <1>2, <2>1 DEF CaptureNext, CaptureStep, Open, Move, SaveOptions, IssueToken, Render,
                      Fire, Post, PostFails, ApiDies, captureVars
  <2>2. CASE UNCHANGED captureVars
    BY <2>2 DEF captureVars
  <2> QED
    BY <2>1, <2>2 DEF Next, vars
<1> QED
  BY <1>1, <1>2

(* However the timer, the import and the user's clicks interleave: what was    *)
(* captured last is sent again only if two captures of one URL were waiting    *)
(* for the import together, which the comparison with lastCapturedUrl misses.  *)
THEOREM RepeatsNeedTwins == Spec => RepeatOnlyIfTwin
<1>1. Init => RepeatInv
  BY DEF Init, CaptureInit, RepeatInv, Fresh
<1>2. TypeOK /\ RepeatInv /\ [Next]_vars =>
        [\A m \in mail' \ mail : m[2] = last => twin]_<<mail, last, twin>>
  BY SentWasWaiting
<1> QED
  BY <1>1, <1>2, TypeInit, TypeStep, RepeatStep, PTL DEF Spec, RepeatOnlyIfTwin

-----------------------------------------------------------------------------
(* The stored token claims nothing that was not fetched. *)

(* A process in the middle of a listing: before its first request the token it *)
(* read is still honest, and from then on all up to its position are accounted *)
(* for, in its hands, or on the pages it has not seen.                         *)
Underway(p) ==
    /\ step[p] = "idle" => at[p] = NoToken
    /\ step[p] = "set" => at[p] # NoToken /\ due[p] = {}
    /\ step[p] = "page" /\ at[p] = NoToken => \A i \in 1..base[p] : Accounted(i)
    /\ step[p] \in {"page", "set"} /\ at[p] # NoToken =>
           \A i \in 1..at[p] : Accounted(i) \/ i \in got[p] \/ log[i].who \in due[p]

HonestInv == TokenHonest /\ \A p \in Syncers : Underway(p)

(* What may happen to a change that somebody answers for: the log only grows,  *)
(* the ledger and the lost keep what they have, and a process about to ingest  *)
(* the change still is, has done it, or has died.                              *)
Keeps ==
    /\ Len(log') \in Nat /\ Len(log) \in Nat /\ Len(log) <= Len(log')
    /\ DOMAIN log = 1..Len(log) /\ DOMAIN log' = 1..Len(log')
    /\ \A j \in 1..Len(log) : log'[j] = log[j]
    /\ ledger \subseteq ledger' /\ lost \subseteq lost'
    /\ \A p \in Syncers : step[p] = "hand" =>
          \A i \in got[p] : \/ step'[p] = "hand" /\ i \in got'[p]
                            \/ Ingested(i)' \/ i \in lost'

LEMMA AccountedStays ==
    ASSUME Keeps, NEW i \in 1..Len(log), Accounted(i)
    PROVE  Accounted(i)'
<1>1. CASE ~News(i)
  <2>1. log'[i] = log[i] /\ i \in DOMAIN log /\ i \in DOMAIN log'
    BY DEF Keeps
  <2>2. CASE log[i].gone
    BY <2>1, <2>2 DEF News, Accounted
  <2>3. CASE ~Newest(i)
    <3>1. PICK j \in (i + 1)..Len(log) : log[j].who = log[i].who
      BY <2>3 DEF Newest
    <3>2. j \in (i + 1)..Len(log') /\ log'[j] = log[j]
      BY DEF Keeps
    <3> QED
      BY <2>1, <3>1, <3>2 DEF Newest, News, Accounted
  <2> QED
    BY <1>1, <2>1, <2>2, <2>3 DEF News
<1>2. CASE Ingested(i)
  BY <1>2 DEF Keeps, Ingested, Fact, Accounted
<1>3. CASE i \in lost
  BY <1>3 DEF Keeps, Accounted
<1>4. ASSUME NEW p \in Syncers, step[p] = "hand", i \in got[p] PROVE Accounted(i)'
  BY <1>4 DEF Keeps, Accounted
<1> QED
  BY <1>1, <1>2, <1>3, <1>4 DEF Accounted

(* An action that keeps the token and does not touch process q's listing keeps *)
(* what is known of it.                                                        *)
LEMMA UnderwayStays ==
    ASSUME GoogleTypeOK, Keeps, NEW q \in Syncers, Underway(q),
           step'[q] = step[q], base'[q] = base[q], at'[q] = at[q], due'[q] = due[q],
           got'[q] = got[q] \/ step[q] \notin {"page", "set"}
    PROVE  Underway(q)'
<1>1. base[q] \in NoToken..Len(log) /\ at[q] \in NoToken..Len(log)
  BY DEF GoogleTypeOK
<1>2. \A i \in 1..Len(log) : log'[i] = log[i]
  BY DEF Keeps
<1>3. \A i \in 1..Len(log) : Accounted(i) => Accounted(i)'
  BY AccountedStays
<1>4. Len(log) \in Nat
  BY DEF Keeps
<1>5. step[q] = "page" /\ at[q] = NoToken => \A i \in 1..base[q] : Accounted(i)'
  BY <1>1, <1>3, <1>4 DEF Underway, NoToken
<1>6. step[q] \in {"page", "set"} /\ at[q] # NoToken =>
        \A i \in 1..at[q] : Accounted(i)' \/ i \in got'[q] \/ log'[i].who \in due'[q]
  BY <1>1, <1>2, <1>3, <1>4 DEF Underway, NoToken
<1> QED
  BY <1>5, <1>6 DEF Underway, NoToken

LEMMA TokenStays ==
    ASSUME GoogleTypeOK, Keeps, TokenHonest, token' = token PROVE TokenHonest'
<1>1. token \in NoToken..Len(log) /\ Len(log) \in Nat
  BY DEF GoogleTypeOK, Keeps
<1>2. \A i \in 1..token : Accounted(i)'
  BY <1>1, AccountedStays DEF TokenHonest, NoToken
<1> QED
  BY <1>2 DEF TokenHonest

LEMMA LogFacts ==
    ASSUME GoogleTypeOK
    PROVE  Len(log) \in Nat /\ DOMAIN log = 1..Len(log)
<1>1. log \in Seq(Change)
  BY DEF GoogleTypeOK
<1> QED
  BY ONLY <1>1

(* Nothing happens to the log or the lost, and nobody hands anything over. *)
LEMMA QuietKeeps ==
    ASSUME GoogleTypeOK, UNCHANGED <<log, lost>>, ledger \subseteq ledger',
           \A p \in Syncers : step[p] = "hand" => step'[p] = "hand" /\ got[p] \subseteq got'[p]
    PROVE  Keeps
  BY LogFacts DEF Keeps

(* One action of process p, which leaves the token alone. *)
LEMMA HonestOfOne ==
    ASSUME GoogleTypeOK, HonestInv, Keeps, NEW p \in Syncers, token' = token, Underway(p)',
           \A q \in Syncers \ {p} : /\ step'[q] = step[q] /\ base'[q] = base[q]
                                    /\ at'[q] = at[q] /\ due'[q] = due[q] /\ got'[q] = got[q]
    PROVE  HonestInv'
<1>1. TokenHonest'
  BY TokenStays DEF HonestInv
<1>2. ASSUME NEW q \in Syncers \ {p} PROVE Underway(q)'
  BY UnderwayStays DEF HonestInv
<1> QED
  BY <1>1, <1>2 DEF HonestInv

(* After Drop nobody is in the middle of anything. *)
LEMMA HonestOfDrop ==
    ASSUME GoogleTypeOK, HonestInv, Keeps, NEW p \in Syncers, Drop(p), token' = token
    PROVE  HonestInv'
<1>1. Underway(p)'
  BY DEF Drop, GoogleTypeOK, Underway
<1> QED
  BY <1>1, HonestOfOne DEF Drop, GoogleTypeOK

LEMMA HonestOfPage ==
    ASSUME GoogleTypeOK, HonestInv, NEW p \in Syncers, Page(p) PROVE HonestInv'
<1> DEFINE first == at[p] = NoToken
           rest == IF first THEN Listed(base[p]) ELSE due[p]
<1>1. PICK page \in SUBSET rest :
         /\ due' = [due EXCEPT ![p] = rest \ page]
         /\ got' = [got EXCEPT ![p] = @ \cup
                       {i \in DOMAIN log : Newest(i) /\ log[i].who \in page}]
         /\ at' = IF first THEN [at EXCEPT ![p] = Len(log)] ELSE at
         /\ step' = [step EXCEPT ![p] = IF page = rest THEN "set" ELSE "page"]
  BY DEF Page
<1>2. /\ step[p] = "page"
      /\ UNCHANGED <<log, horizon, token, base, lost, mirrorVars, deaths, left>>
  BY DEF Page
<1>3. Keeps
  <2>1. ledger' = ledger
    BY <1>2 DEF mirrorVars
  <2>2. \A q \in Syncers : step[q] = "hand" => step'[q] = "hand" /\ got[q] \subseteq got'[q]
    BY <1>1, <1>2 DEF GoogleTypeOK
  <2> QED
    BY <1>2, <2>1, <2>2, QuietKeeps
<1>4. /\ at'[p] = IF first THEN Len(log) ELSE at[p]
      /\ due'[p] = rest \ page
      /\ got'[p] = got[p] \cup {i \in DOMAIN log : Newest(i) /\ log[i].who \in page}
      /\ step'[p] = IF page = rest THEN "set" ELSE "page"
  BY <1>1 DEF GoogleTypeOK
<1>5. Len(log) \in Nat /\ DOMAIN log = 1..Len(log)
  BY LogFacts
<1>6. at[p] \in NoToken..Len(log) /\ base[p] \in NoToken..Len(log) /\ at'[p] # NoToken
  BY <1>4, <1>5 DEF GoogleTypeOK, NoToken
<1>7. ASSUME NEW i \in 1..at'[p]
      PROVE  Accounted(i)' \/ i \in got'[p] \/ log'[i].who \in due'[p]
  <2>1. i \in 1..Len(log) /\ i \in DOMAIN log /\ i \in Int
    BY <1>4, <1>5, <1>6 DEF NoToken
  <2>2. Accounted(i) => Accounted(i)'
    BY <1>3, <2>1, AccountedStays
  <2>3. ~Newest(i) => Accounted(i)
    BY DEF News, Accounted
  <2>4. Accounted(i) \/ i \in got[p] \/ (Newest(i) /\ log[i].who \in rest)
    <3>1. CASE first
      <4>1. CASE i \in 1..base[p]
        BY <1>2, <3>1, <4>1 DEF HonestInv, Underway
      <4>2. CASE i \notin 1..base[p]
        <5>1. i > base[p] /\ (base[p] = NoToken => i > NoToken)
          BY <1>6, <2>1, <4>2 DEF NoToken
        <5>2. (base[p] = NoToken /\ log[i].gone) => Accounted(i)
          BY DEF News, Accounted
        <5>3. Newest(i) /\ (base[p] = NoToken => ~log[i].gone) => log[i].who \in Listed(base[p])
          BY <2>1, <5>1 DEF Listed
        <5> QED
          BY <2>3, <3>1, <5>2, <5>3
      <4> QED  BY <4>1, <4>2
    <3>2. CASE ~first
      <4>1. i \in 1..at[p]
        BY <1>4, <3>2
      <4> QED
        BY <1>2, <2>3, <3>2, <4>1 DEF HonestInv, Underway
    <3> QED  BY <3>1, <3>2
  <2> QED
    BY <1>2, <1>4, <2>1, <2>2, <2>4
<1>8. step'[p] = "set" => due'[p] = {}
  BY <1>4
<1>9. Underway(p)'
  BY <1>4, <1>6, <1>7, <1>8 DEF Underway
<1> QED
  BY <1>1, <1>2, <1>3, <1>9, HonestOfOne DEF GoogleTypeOK

LEMMA HonestOfSetToken ==
    ASSUME GoogleTypeOK, HonestInv, NEW p \in Syncers, SetToken(p) PROVE HonestInv'
<1>1. /\ step[p] = "set" /\ token' = at[p]
      /\ step' = [step EXCEPT ![p] = "hand"]
      /\ got' = [got EXCEPT ![p] = {i \in @ : ~log[i].gone}]
      /\ UNCHANGED <<log, horizon, base, at, due, lost, mirrorVars, deaths, left>>
  BY DEF SetToken
<1>2. Keeps
  <2>1. ledger' = ledger
    BY <1>1 DEF mirrorVars
  <2>2. \A q \in Syncers : step[q] = "hand" => step'[q] = "hand" /\ got[q] \subseteq got'[q]
    BY <1>1 DEF GoogleTypeOK
  <2> QED
    BY <1>1, <2>1, <2>2, QuietKeeps
<1>3. Len(log) \in Nat /\ at[p] \in NoToken..Len(log)
  BY LogFacts DEF GoogleTypeOK
<1>4. step'[p] = "hand" /\ got'[p] = {i \in got[p] : ~log[i].gone}
  BY <1>1 DEF GoogleTypeOK
<1>5. ASSUME NEW i \in 1..at[p] PROVE Accounted(i)'
  <2>1. i \in 1..Len(log)
    BY <1>3 DEF NoToken
  <2>2. Accounted(i) \/ i \in got[p]
    BY <1>1 DEF HonestInv, Underway
  <2>3. CASE Accounted(i)
    BY <1>2, <2>1, <2>3, AccountedStays
  <2>4. CASE i \in got[p] /\ log[i].gone
    BY <1>1, <2>4 DEF News, Accounted
  <2>5. CASE i \in got[p] /\ ~log[i].gone
    BY <1>4, <2>5 DEF Accounted
  <2> QED
    BY <2>2, <2>3, <2>4, <2>5
<1>6. TokenHonest'
  BY <1>1, <1>5 DEF TokenHonest
<1>7. ASSUME NEW q \in Syncers PROVE Underway(q)'
  <2>1. CASE q = p
    BY <1>4, <2>1 DEF Underway
  <2>2. CASE q # p
    BY <1>1, <1>2, <2>2, UnderwayStays DEF HonestInv, GoogleTypeOK
  <2> QED
    BY <2>1, <2>2
<1> QED
  BY <1>6, <1>7 DEF HonestInv

LEMMA HonestOfSync ==
    ASSUME GoogleTypeOK, HonestInv, GoogleNext PROVE HonestInv'
<1>1. ASSUME NEW c \in Contacts, NEW gone \in BOOLEAN, Alter(c, gone) PROVE HonestInv'
  <2>1. log \in Seq(Change) /\ log' = Append(log, [who |-> c, gone |-> gone])
    BY <1>1 DEF Alter, GoogleTypeOK
  <2>2. /\ Len(log) \in Nat /\ Len(log') = Len(log) + 1
        /\ DOMAIN log = 1..Len(log) /\ DOMAIN log' = 1..Len(log')
        /\ \A j \in 1..Len(log) : log'[j] = log[j]
    BY ONLY <2>1
  <2>3. UNCHANGED <<token, local, lost, ledger>>
    BY <1>1 DEF Alter, mirrorVars
  <2>4. Keeps
    BY <2>2, <2>3 DEF Keeps, local
  <2>5. TokenHonest'
    BY <2>3, <2>4, TokenStays DEF HonestInv
  <2>6. ASSUME NEW q \in Syncers PROVE Underway(q)'
    BY <2>3, <2>4, UnderwayStays DEF HonestInv, local
  <2> QED
    BY <2>5, <2>6 DEF HonestInv
<1>2. ASSUME NEW p \in Syncers, ReadToken(p) PROVE HonestInv'
  <2>1. /\ step[p] = "idle" /\ step' = [step EXCEPT ![p] = "page"]
        /\ base' = [base EXCEPT ![p] = token]
        /\ UNCHANGED <<log, token, at, due, got, lost, ledger>>
    BY <1>2 DEF ReadToken, mirrorVars
  <2>2. Keeps
    BY <2>1, QuietKeeps DEF GoogleTypeOK
  <2>3. step'[p] = "page" /\ base'[p] = token /\ at'[p] = NoToken
    BY <2>1 DEF GoogleTypeOK, HonestInv, Underway
  <2>4. TokenHonest'
    BY <2>1, <2>2, TokenStays DEF HonestInv
  <2>5. Underway(p)'
    BY <2>1, <2>3, <2>4 DEF Underway, TokenHonest
  <2> QED
    BY <2>1, <2>2, <2>5, HonestOfOne DEF GoogleTypeOK
<1>3. ASSUME NEW p \in Syncers, ClearToken(p) PROVE HonestInv'
  <2>1. /\ step[p] = "clear" /\ step' = [step EXCEPT ![p] = "page"]
        /\ base' = [base EXCEPT ![p] = NoToken] /\ at' = [at EXCEPT ![p] = NoToken]
        /\ due' = [due EXCEPT ![p] = {}] /\ token' = NoToken
        /\ UNCHANGED <<log, got, lost, ledger>>
    BY <1>3 DEF ClearToken, mirrorVars
  <2>2. Keeps
    BY <2>1, QuietKeeps DEF GoogleTypeOK
  <2>3. TokenHonest'
    BY <2>1 DEF TokenHonest, NoToken
  <2>4. ASSUME NEW q \in Syncers PROVE Underway(q)'
    <3>1. CASE q = p
      BY <2>1, <3>1 DEF Underway, GoogleTypeOK, NoToken
    <3>2. CASE q # p
      BY <2>1, <2>2, <3>2, UnderwayStays DEF HonestInv, GoogleTypeOK
    <3> QED  BY <3>1, <3>2
  <2> QED
    BY <2>3, <2>4 DEF HonestInv
<1>4. ASSUME NEW p \in Syncers, Rejected(p) PROVE HonestInv'
  <2>1. step[p] = "page" /\ UNCHANGED <<log, token, lost, ledger>>
    BY <1>4 DEF Rejected, mirrorVars
  <2>2. CASE got[p] = {}
    <3>1. step' = [step EXCEPT ![p] = "clear"] /\ UNCHANGED <<base, at, due, got>>
      BY <1>4, <2>2 DEF Rejected
    <3>2. Keeps
      BY <2>1, <3>1, QuietKeeps DEF GoogleTypeOK
    <3>3. Underway(p)'
      BY <3>1 DEF Underway, GoogleTypeOK
    <3> QED
      BY <2>1, <3>1, <3>2, <3>3, HonestOfOne DEF GoogleTypeOK
  <2>3. CASE got[p] # {}
    <3>1. Drop(p)
      BY <1>4, <2>3 DEF Rejected
    <3>2. Keeps
      BY <2>1, <3>1, QuietKeeps DEF GoogleTypeOK, Drop
    <3> QED
      BY <2>1, <3>1, <3>2, HonestOfDrop
  <2> QED
    BY <2>2, <2>3
<1>5. ASSUME NEW p \in Syncers, HttpError(p) PROVE HonestInv'
  <2>1. step[p] = "page" /\ Drop(p) /\ UNCHANGED <<log, token, lost, ledger>>
    BY <1>5 DEF HttpError, mirrorVars
  <2>2. Keeps
    BY <2>1, QuietKeeps DEF GoogleTypeOK, Drop
  <2> QED
    BY <2>1, <2>2, HonestOfDrop
<1>6. ASSUME NEW p \in Syncers, Ingest(p) PROVE HonestInv'
  <2>1. PICK i \in got[p] : Commit(p, Fact(i)) /\ got' = [got EXCEPT ![p] = @ \ {i}]
    BY <1>6 DEF Ingest
  <2>2. step[p] = "hand" /\ UNCHANGED <<log, token, step, base, at, due, lost>>
    BY <1>6 DEF Ingest
  <2>3. ledger' = ledger \cup {Fact(i)}
    BY <2>1 DEF Commit
  <2>4. ASSUME NEW q \in Syncers, step[q] = "hand", NEW j \in got[q]
        PROVE  \/ step'[q] = "hand" /\ j \in got'[q]
               \/ Ingested(j)'
    <3>1. CASE j = i
      BY <2>3, <3>1 DEF Ingested, Fact
    <3>2. CASE j # i
      BY <2>1, <2>2, <2>4, <3>2 DEF GoogleTypeOK
    <3> QED  BY <3>1, <3>2
  <2>5. Keeps
    BY <2>2, <2>3, <2>4, LogFacts DEF Keeps
  <2>6. TokenHonest'
    BY <2>2, <2>5, TokenStays DEF HonestInv
  <2>7. ASSUME NEW q \in Syncers PROVE Underway(q)'
    BY <2>1, <2>2, <2>5, UnderwayStays DEF HonestInv, GoogleTypeOK
  <2> QED
    BY <2>6, <2>7 DEF HonestInv
<1>7. ASSUME NEW p \in Syncers, FetchDone(p) PROVE HonestInv'
  <2>1. /\ step[p] = "hand" /\ got[p] = {} /\ Drop(p)
        /\ UNCHANGED <<log, token, lost, ledger>>
    BY <1>7 DEF FetchDone, mirrorVars
  <2>2. ASSUME NEW q \in Syncers, step[q] = "hand", NEW j \in got[q]
        PROVE  step'[q] = "hand" /\ j \in got'[q]
    BY <2>1, <2>2 DEF Drop, GoogleTypeOK
  <2>3. Keeps
    BY <2>1, <2>2, LogFacts DEF Keeps
  <2> QED
    BY <2>1, <2>3, HonestOfDrop
<1>8. ASSUME NEW p \in Syncers, SyncerDies(p) PROVE HonestInv'
  <2>1. /\ lost' = IF step[p] = "hand" THEN lost \cup got[p] ELSE lost
        /\ Drop(p) /\ UNCHANGED <<log, token, ledger>>
    BY <1>8 DEF SyncerDies, Die
  <2>2. ASSUME NEW q \in Syncers, step[q] = "hand", NEW j \in got[q]
        PROVE  (step'[q] = "hand" /\ j \in got'[q]) \/ j \in lost'
    BY <2>1, <2>2 DEF Drop, GoogleTypeOK
  <2>3. Keeps
    BY <2>1, <2>2, LogFacts DEF Keeps
  <2> QED
    BY <2>1, <2>3, HonestOfDrop
<1>9. ASSUME Expire \/ \E p \in Syncers : AppendJsonl(p) /\ UNCHANGED googleVars
      PROVE  HonestInv'
  <2>1. UNCHANGED <<log, token, local, lost, ledger>>
    BY <1>9 DEF Expire, AppendJsonl, googleVars, local, mirrorVars
  <2>2. Keeps
    BY <2>1, QuietKeeps DEF local
  <2>3. TokenHonest'
    BY <2>1, <2>2, TokenStays DEF HonestInv
  <2>4. ASSUME NEW q \in Syncers PROVE Underway(q)'
    BY <2>1, <2>2, UnderwayStays DEF HonestInv, local
  <2> QED
    BY <2>3, <2>4 DEF HonestInv
<1> QED
  BY <1>1, <1>2, <1>3, <1>4, <1>5, <1>6, <1>7, <1>8, <1>9, HonestOfPage, HonestOfSetToken
  DEF GoogleNext, FetchStep

(* What the extension does to the ledger. *)
LEMMA CapturesOnlyAdd ==
    ASSUME CaptureNext PROVE ledger \subseteq ledger'
<1>1. ASSUME NEW m \in mail, Post(m) PROVE ledger \subseteq ledger'
  BY <1>1 DEF Post, Commit
<1>2. ASSUME AppendJsonl(Api) \/ ApiDies PROVE ledger \subseteq ledger'
  BY <1>2 DEF AppendJsonl, ApiDies, Die
<1>3. ASSUME NEW u \in Pages, Open(u) \/ Move(u) PROVE ledger \subseteq ledger'
  BY <1>3 DEF Open, Move, mirrorVars
<1>4. ASSUME NEW m \in mail, PostFails(m) PROVE ledger \subseteq ledger'
  BY <1>4 DEF PostFails, mirrorVars
<1>5. ASSUME NEW o \in {"unset", "wrong", "right"}, SaveOptions(o)
      PROVE  ledger \subseteq ledger'
  BY <1>5 DEF SaveOptions, mirrorVars
<1>6. ASSUME IssueToken \/ Render \/ Fire \/ Extract PROVE ledger \subseteq ledger'
  BY <1>6 DEF IssueToken, Render, Fire, Extract, mirrorVars
<1> QED
  BY <1>1, <1>2, <1>3, <1>4, <1>5, <1>6 DEF CaptureNext, CaptureStep

LEMMA HonestStep == TypeOK /\ HonestInv /\ [Next]_vars => HonestInv'
<1> SUFFICES ASSUME TypeOK, HonestInv, [Next]_vars PROVE HonestInv'
  OBVIOUS
<1>0. GoogleTypeOK
  BY DEF TypeOK
<1>1. CASE GoogleNext
  BY <1>0, <1>1, HonestOfSync
<1>2. CASE (CaptureNext /\ UNCHANGED googleVars) \/ UNCHANGED vars
  <2>1. UNCHANGED <<log, token, local, lost>> /\ ledger \subseteq ledger'
    BY <1>2, CapturesOnlyAdd DEF googleVars, local, vars, mirrorVars
  <2>2. Keeps
    BY <1>0, <2>1, QuietKeeps DEF local
  <2>3. TokenHonest'
    BY <1>0, <2>1, <2>2, TokenStays DEF HonestInv
  <2>4. ASSUME NEW q \in Syncers PROVE Underway(q)'
    BY <1>0, <2>1, <2>2, UnderwayStays DEF HonestInv, local
  <2> QED
    BY <2>3, <2>4 DEF HonestInv
<1> QED
  BY <1>1, <1>2 DEF Next

(* However many syncs overlap, expire, fail and die: a change at or before the *)
(* stored token's position is in the ledger, outdated, about to be ingested,   *)
(* or was in the hands of a process that died after it had stored the token.   *)
THEOREM TokensAreHonest == Spec => []TokenHonest
<1>1. Init => HonestInv
  BY DEF Init, GoogleInit, HonestInv, TokenHonest, Underway, NoToken
<1>2. HonestInv => TokenHonest
  BY DEF HonestInv
<1> QED
  BY <1>1, <1>2, TypeInit, TypeStep, HonestStep, PTL DEF Spec
=============================================================================
