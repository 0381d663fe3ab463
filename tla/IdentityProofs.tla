--------------------------- MODULE IdentityProofs ---------------------------
(* Theorems about Identity, for every number of processes, records and runs. *)
EXTENDS Identity, TLAPS

-----------------------------------------------------------------------------
(* Lemmas about the operators. *)

(* Every nonempty part of a record has a first pair, and First returns it. *)
LEMMA FirstExists ==
    ASSUME NEW r \in Records, NEW s \in SUBSET r, s # {}
    PROVE  First(s) \in s
<1>1. PICK k \in s : \A j \in s \ {k} : Rank[k] < Rank[j]
  BY RankAssumption
<1>2. \A j \in s : Rank[k] <= Rank[j]
  <2> TAKE j \in s
  <2>1. Rank[k] \in Nat /\ Rank[j] \in Nat
    BY RankAssumption, RecordsAssumption
  <2>2. CASE j = k  BY <2>1, <2>2
  <2>3. CASE j # k  BY <1>1, <2>1, <2>3
  <2> QED  BY <2>2, <2>3
<1> QED  BY <1>2 DEF First

(* Bind keeps what is bound, and binds every pair of the record. *)
LEMMA BindFacts ==
    ASSUME NEW own \in [Idents -> Entities \cup {NoEntity}],
           NEW r \in SUBSET Idents, NEW e \in Entities
    PROVE  /\ Bind(own, r, e) \in [Idents -> Entities \cup {NoEntity}]
           /\ \A k \in Idents : own[k] # NoEntity => Bind(own, r, e)[k] = own[k]
           /\ \A k \in r : Bind(own, r, e)[k] # NoEntity
  BY NoEntityAssumption DEF Bind

-----------------------------------------------------------------------------
(* Type correctness.  A process past the lookup holds a real entity, and looks *)
(* up parts of its own record.                                                 *)
Holding == {"link", "claim", "birth", "append"}

ProcInv ==
    \A p \in Procs :
        /\ pc[p] # "idle" => rec[p] \in Records
        /\ rest[p] \subseteq rec[p]
        /\ pc[p] \in Holding => eid[p] \in entities
        /\ pc[p] = "claim" => rec[p] # {}

OwnerInv == \A k \in Idents : owner[k] # NoEntity => owner[k] \in entities

TypeInv == TypeOK /\ ProcInv /\ OwnerInv

LEMMA TypeInit == Init => TypeInv
  BY MaxRunsAssumption DEF Init, TypeInv, TypeOK, ProcInv, OwnerInv, Phases, Holding

(* Each action keeps the types; the conjuncts an action can disturb are its own *)
(* process's phase and what it holds.                                           *)
LEMMA TypeStep == TypeInv /\ [Next]_vars => TypeInv'
<1> SUFFICES ASSUME TypeInv, [Next]_vars PROVE TypeInv'
  OBVIOUS
<1> USE DEF TypeInv, TypeOK, ProcInv, OwnerInv, Phases, Holding
<1>1. ASSUME NEW p \in Procs, NEW r \in Records, Start(p, r) PROVE TypeInv'
  <2>1. \A q \in Rivals(p, r) : rec[q] \in Records
    BY DEF Rivals, Active
  <2>2. raced' \in SUBSET Records
    BY <1>1, <2>1 DEF Start
  <2>3. runs' \in 0..MaxRuns
    BY <1>1, MaxRunsAssumption DEF Start
  <2> QED
    BY <1>1, <2>2, <2>3, RecordsAssumption, NoEntityAssumption DEF Start, storeVars
<1>2. ASSUME NEW p \in Procs, FindHit(p) PROVE TypeInv'
  <2>1. rec[p] \in Records /\ rest[p] \subseteq rec[p] /\ rest[p] # {}
    BY <1>2 DEF FindHit
  <2>2. First(rest[p]) \in Idents
    BY <2>1, FirstExists, RecordsAssumption
  <2> QED
    BY <1>2, <2>1, <2>2 DEF FindHit, storeVars, histVars
<1>3. ASSUME NEW p \in Procs, FindMiss(p) PROVE TypeInv'
  BY <1>3 DEF FindMiss, storeVars, histVars
<1>4. ASSUME NEW p \in Procs, FindNone(p) PROVE TypeInv'
  BY <1>4 DEF FindNone, storeVars, histVars
<1>5. ASSUME NEW p \in Procs, Link(p) PROVE TypeInv'
  <2>1. rec[p] \in Records /\ rec[p] \in SUBSET Idents /\ eid[p] \in entities
    BY <1>5, RecordsAssumption DEF Link
  <2>2. owner' \in [Idents -> Entities \cup {NoEntity}]
    BY <1>5, <2>1, BindFacts DEF Link
  <2>3. \A k \in Idents : owner'[k] # NoEntity => owner'[k] \in entities
    BY <1>5, <2>1 DEF Link, Bind
  <2> QED
    BY <1>5, <2>1, <2>2, <2>3 DEF Link, Return
<1>6. ASSUME NEW p \in Procs, Create(p) PROVE TypeInv'
  BY <1>6 DEF Create, histVars
<1>7. ASSUME NEW p \in Procs, Claim(p) PROVE TypeInv'
  <2>1. rec[p] \in Records /\ rec[p] \in SUBSET Idents /\ eid[p] \in entities
    BY <1>7, RecordsAssumption DEF Claim
  <2>2. owner' \in [Idents -> Entities \cup {NoEntity}]
    BY <1>7, <2>1, BindFacts DEF Claim
  <2>3. \A k \in Idents : owner'[k] # NoEntity => owner'[k] \in entities
    BY <1>7, <2>1 DEF Claim, Bind
  <2> QED
    BY <1>7, <2>1, <2>2, <2>3 DEF Claim, histVars
<1>8. ASSUME NEW p \in Procs, Birth(p) PROVE TypeInv'
  BY <1>8 DEF Birth, Return
<1>9. ASSUME NEW p \in Procs, AppendFacts(p) PROVE TypeInv'
  BY <1>9 DEF AppendFacts, Finish, histVars
<1>10. ASSUME NEW p \in Procs, Abort(p) PROVE TypeInv'
  BY <1>10 DEF Abort, Finish, Active, storeVars
<1>11. CASE UNCHANGED vars
  BY <1>11 DEF vars, storeVars, procVars, histVars
<1> QED
  BY <1>1, <1>2, <1>3, <1>4, <1>5, <1>6, <1>7, <1>8, <1>9, <1>10, <1>11
  DEF Next, Step

(* Every value the stores, the processes and the history hold has its type. *)
THEOREM TypeCorrect == Spec => []TypeOK
<1>1. TypeInv => TypeOK
  BY DEF TypeInv
<1> QED
  BY TypeInit, TypeStep, <1>1, PTL DEF Spec

-----------------------------------------------------------------------------
(* A bound identifier keeps its entity in every step. *)
LEMMA BindingsStep ==
    ASSUME TypeInv, [Next]_vars
    PROVE  \A k \in Idents : owner[k] # NoEntity => owner'[k] = owner[k]
<1>1. ASSUME NEW p \in Procs, Link(p) \/ Claim(p)
      PROVE  \A k \in Idents : owner[k] # NoEntity => owner'[k] = owner[k]
  <2>1. owner' = Bind(owner, rec[p], eid[p])
    BY <1>1 DEF Link, Claim
  <2>2. owner \in [Idents -> Entities \cup {NoEntity}]
    BY DEF TypeInv, TypeOK
  <2> QED
    BY <2>1, <2>2 DEF Bind
<1>2. ASSUME NEW p \in Procs, Step(p), ~ (Link(p) \/ Claim(p))
      PROVE  UNCHANGED owner
  BY <1>2 DEF Step, Start, FindHit, FindMiss, FindNone, Create, Birth,
              AppendFacts, Abort, storeVars
<1> QED
  BY <1>1, <1>2 DEF Next, vars, storeVars

(* No step ever moves an identifier from one entity to another. *)
THEOREM BindingsNeverMove == Spec => BindingsPermanent
<1>1. TypeInv /\ [Next]_vars =>
        [\A k \in Idents : owner[k] # NoEntity => owner'[k] = owner[k]]_owner
  BY BindingsStep
<1> QED
  BY TypeInit, TypeStep, <1>1, PTL DEF Spec, BindingsPermanent

-----------------------------------------------------------------------------
(* Why a settled identity stays put.  Its first pair is bound and, being bound, *)
(* never moves; a resolve() that starts later meets that pair first.            *)
BoundSettled ==
    /\ \A r \in settled \cap Strong : owner[First(r)] # NoEntity
    /\ \A p \in Procs : pc[p] = "birth" /\ rec[p] # {} => owner[First(rec[p])] # NoEntity

LateOnTrack ==
    \A p \in late :
        pc[p] # "idle" /\ rec[p] # {} =>
            /\ rec[p] \in settled
            /\ pc[p] \in {"find", "link", "append"}
            /\ pc[p] = "find" => rest[p] = rec[p]
            /\ pc[p] \in {"link", "append"} => eid[p] = owner[First(rec[p])]

AnswersAgree ==
    \A r \in Strong : lateAnswers[r] # {} =>
        /\ r \in settled
        /\ lateAnswers[r] = {owner[First(r)]}

StableInv == BoundSettled /\ LateOnTrack /\ AnswersAgree

LEMMA StableInit == Init => StableInv
  BY DEF Init, StableInv, BoundSettled, LateOnTrack, AnswersAgree, Strong

LEMMA FirstIdent ==
    ASSUME NEW r \in Strong
    PROVE  First(r) \in r /\ First(r) \in Idents /\ r \in SUBSET Idents
  BY FirstExists, RecordsAssumption DEF Strong

(* The first pair of a settled identity keeps its owner in every step. *)
LEMMA SettledFrozen ==
    ASSUME TypeInv, BoundSettled, [Next]_vars, NEW r \in settled \cap Strong
    PROVE  owner'[First(r)] = owner[First(r)] /\ owner[First(r)] # NoEntity
<1>1. First(r) \in Idents /\ owner[First(r)] # NoEntity
  BY FirstIdent DEF BoundSettled
<1> QED
  BY <1>1, BindingsStep

LEMMA StableStep == TypeInv /\ StableInv /\ [Next]_vars => StableInv'
<1> SUFFICES ASSUME TypeInv, StableInv, [Next]_vars PROVE StableInv'
  OBVIOUS
<1> USE DEF StableInv
<1>t. /\ pc \in [Procs -> Phases] /\ rec \in [Procs -> Records \cup {{}}]
      /\ rest \in [Procs -> SUBSET Idents] /\ eid \in [Procs -> Entities \cup {NoEntity}]
      /\ settled \in SUBSET Records /\ late \in SUBSET Procs
      /\ owner \in [Idents -> Entities \cup {NoEntity}]
      /\ lateAnswers \in [Records -> SUBSET Entities]
      /\ ProcInv
  BY DEF TypeInv, TypeOK
<1>f. \A r \in settled \cap Strong :
        owner'[First(r)] = owner[First(r)] /\ owner[First(r)] # NoEntity
  BY SettledFrozen
<1>1. ASSUME NEW p \in Procs, NEW r \in Records, Start(p, r) PROVE StableInv'
  <2>1. BoundSettled'
    BY <1>1, <1>t DEF Start, storeVars, BoundSettled
  <2>2. LateOnTrack'
    BY <1>1, <1>t DEF Start, storeVars, LateOnTrack
  <2>3. AnswersAgree'
    BY <1>1, <1>t DEF Start, storeVars, AnswersAgree
  <2> QED  BY <2>1, <2>2, <2>3
<1>2. ASSUME NEW p \in Procs, FindHit(p) \/ FindMiss(p) \/ FindNone(p) PROVE StableInv'
  <2>1. BoundSettled' /\ AnswersAgree'
    BY <1>2, <1>t DEF FindHit, FindMiss, FindNone, storeVars, histVars, BoundSettled, AnswersAgree
  <2>2. LateOnTrack'
    <3>1. ASSUME p \in late, rec[p] # {}
          PROVE  /\ rest[p] = rec[p] /\ rec[p] # {} /\ rec[p] \in settled \cap Strong
                 /\ owner[First(rest[p])] # NoEntity
      <4>1. pc[p] = "find"
        BY <1>2 DEF FindHit, FindMiss, FindNone
      <4>2. rest[p] = rec[p] /\ rec[p] \in settled
        BY <3>1, <4>1 DEF LateOnTrack
      <4> QED  BY <3>1, <4>2, <1>f, <1>t DEF Strong
    <3>2. p \in late /\ rec[p] # {} => FindHit(p)
      BY <1>2, <3>1 DEF FindMiss, FindNone
    <3>3. CASE p \in late /\ rec[p] # {}
      <4>1. FindHit(p)  BY <3>2, <3>3
      <4>2. eid'[p] = owner[First(rec[p])]
        BY <4>1, <3>1, <3>3, <1>t DEF FindHit
      <4> QED
        BY <4>1, <4>2, <3>1, <3>3, <1>t DEF FindHit, storeVars, histVars, LateOnTrack
    <3>4. CASE ~ (p \in late /\ rec[p] # {})
      BY <1>2, <3>4, <1>t DEF FindHit, FindMiss, FindNone, storeVars, histVars, LateOnTrack
    <3> QED  BY <3>3, <3>4
  <2> QED  BY <2>1, <2>2
<1>3. ASSUME NEW p \in Procs, Link(p) PROVE StableInv'
  <2>1. /\ rec[p] \in Records /\ eid[p] \in Entities
        /\ rec[p] # {} => First(rec[p]) \in rec[p] /\ First(rec[p]) \in Idents
    BY <1>3, <1>t, FirstIdent DEF Link, ProcInv, Holding, TypeInv, TypeOK, Strong
  <2>2. rec[p] # {} => owner'[First(rec[p])] # NoEntity
    BY <1>3, <2>1, NoEntityAssumption DEF Link, Bind
  <2>3. BoundSettled'
    <3>1. \A r \in settled' \cap Strong : owner'[First(r)] # NoEntity
      BY <1>3, <1>f, <2>1, <2>2 DEF Link, Return, Strong
    <3>2. \A q \in Procs : pc[q] = "birth" /\ rec[q] # {} =>
            owner'[First(rec[q])] # NoEntity
      BY <1>t, BindingsStep, FirstIdent DEF BoundSettled, ProcInv, Strong
    <3> QED  BY <1>3, <1>t, <3>1, <3>2 DEF Link, BoundSettled
  <2>4. LateOnTrack'
    BY <1>3, <1>t, <1>f DEF Link, Return, LateOnTrack, Strong, ProcInv
  <2>5. AnswersAgree'
    <3> SUFFICES ASSUME NEW r \in Strong, lateAnswers'[r] # {}
                 PROVE  r \in settled' /\ lateAnswers'[r] = {owner'[First(r)]}
      BY DEF AnswersAgree
    <3>1. CASE r = rec[p] /\ p \in late
      <4>1. r \in settled /\ eid[p] = owner[First(r)]
        BY <1>3, <3>1, <1>t DEF Link, LateOnTrack, Strong
      <4>2. lateAnswers'[r] = lateAnswers[r] \cup {eid[p]}
        BY <1>3, <3>1, <1>t DEF Link, Return, Strong
      <4> QED  BY <1>3, <4>1, <4>2, <1>f DEF AnswersAgree, Link, Return, Strong
    <3>2. CASE ~ (r = rec[p] /\ p \in late)
      <4>1. lateAnswers'[r] = lateAnswers[r]
        BY <1>3, <3>2, <1>t DEF Link, Return, Strong
      <4> QED  BY <1>3, <4>1, <1>f DEF AnswersAgree, Link, Return
    <3> QED  BY <3>1, <3>2
  <2> QED  BY <2>3, <2>4, <2>5
<1>4. ASSUME NEW p \in Procs, Create(p) PROVE StableInv'
  BY <1>4, <1>t DEF Create, histVars, BoundSettled, LateOnTrack, AnswersAgree
<1>5. ASSUME NEW p \in Procs, Claim(p) PROVE StableInv'
  <2>1. /\ rec[p] \in Records /\ rec[p] # {} /\ eid[p] \in Entities
        /\ First(rec[p]) \in rec[p] /\ First(rec[p]) \in Idents
    BY <1>5, <1>t, FirstIdent DEF Claim, ProcInv, Holding, TypeInv, TypeOK, Strong
  <2>2. owner'[First(rec[p])] # NoEntity
    BY <1>5, <2>1, NoEntityAssumption DEF Claim, Bind
  <2>3. BoundSettled'
    <3>1. \A q \in Procs : pc[q] = "birth" /\ rec[q] # {} =>
            owner'[First(rec[q])] # NoEntity
      BY <1>t, BindingsStep, FirstIdent DEF BoundSettled, ProcInv, Strong
    <3> QED  BY <1>5, <1>t, <1>f, <2>2, <3>1 DEF Claim, histVars, BoundSettled
  <2>4. LateOnTrack'
    BY <1>5, <1>t, <1>f DEF Claim, histVars, LateOnTrack, Strong, ProcInv
  <2>5. AnswersAgree'
    BY <1>5, <1>f DEF Claim, histVars, AnswersAgree
  <2> QED  BY <2>3, <2>4, <2>5
<1>6. ASSUME NEW p \in Procs, Birth(p) PROVE StableInv'
  <2>1. BoundSettled'
    BY <1>6, <1>t DEF Birth, Return, BoundSettled, Strong
  <2>2. LateOnTrack'
    BY <1>6, <1>t DEF Birth, Return, LateOnTrack
  <2>3. p \in late => rec[p] \notin Strong
    BY <1>6 DEF Birth, LateOnTrack, Strong
  <2>4. AnswersAgree'
    BY <1>6, <2>3, <1>t DEF Birth, Return, AnswersAgree, Strong
  <2> QED  BY <2>1, <2>2, <2>4
<1>7. ASSUME NEW p \in Procs, AppendFacts(p) \/ Abort(p) PROVE StableInv'
  BY <1>7, <1>t DEF AppendFacts, Abort, Finish, storeVars, histVars,
                    BoundSettled, LateOnTrack, AnswersAgree
<1>8. CASE UNCHANGED vars
  BY <1>8 DEF vars, storeVars, procVars, histVars, BoundSettled, LateOnTrack, AnswersAgree
<1> QED
  BY <1>1, <1>2, <1>3, <1>4, <1>5, <1>6, <1>7, <1>8 DEF Next, Step

(* Every resolve() of an identity that begins after some resolve() of it has *)
(* returned gives the same entity, in whatever process it runs.              *)
THEOREM SettledIdentitiesAreStable == Spec => []StableOnceSettled
<1>1. StableInv => StableOnceSettled
  BY DEF StableInv, AnswersAgree, StableOnceSettled
<1> QED
  BY TypeInit, TypeStep, StableInit, StableStep, <1>1, PTL DEF Spec
-----------------------------------------------------------------------------
(* Entities with an identifier or with observations have a birth record, or   *)
(* their creator has not come to it.                                          *)
Accounted(e) ==
    \/ e \in births \cup unborn
    \/ \E p \in Procs : pc[p] = "birth" /\ eid[p] = e

BirthInv ==
    /\ \A k \in Idents : owner[k] # NoEntity => Accounted(owner[k])
    /\ \A p \in Procs : pc[p] \in {"link", "append"} => Accounted(eid[p])
    /\ \A fact \in facts : Accounted(fact[1])

LEMMA BirthInit == Init => BirthInv
  BY DEF Init, BirthInv

(* Whoever leaves "birth" has left a record of the entity, or a gap. *)
LEMMA AccountedStays ==
    ASSUME TypeInv, [Next]_vars, NEW e, Accounted(e) PROVE Accounted(e)'
<1>0. pc \in [Procs -> Phases] /\ eid \in [Procs -> Entities \cup {NoEntity}]
  BY DEF TypeInv, TypeOK
<1>1. ASSUME NEW p \in Procs, Step(p) PROVE Accounted(e)'
  <2>1. births \subseteq births' /\ unborn \subseteq unborn'
    BY <1>1 DEF Step, Start, FindHit, FindMiss, FindNone, Link, Create, Claim, Birth,
                AppendFacts, Abort, storeVars, histVars
  <2>2. \A q \in Procs \ {p} : pc'[q] = pc[q] /\ eid'[q] = eid[q]
    BY <1>0, <1>1 DEF Step, Start, FindHit, FindMiss, FindNone, Link, Create, Claim, Birth,
                      AppendFacts, Abort, Finish
  <2>3. CASE pc[p] = "birth" /\ eid[p] = e
    <3>1. Birth(p) \/ Abort(p)
      BY <1>1, <2>3 DEF Step, Start, FindHit, FindMiss, FindNone, Link, Create, Claim,
                        AppendFacts
    <3> QED
      BY <2>3, <3>1 DEF Birth, Abort, Accounted
  <2> QED
    BY <2>1, <2>2, <2>3 DEF Accounted
<1> QED
  BY <1>1 DEF Next, vars, storeVars, procVars, histVars, Accounted

LEMMA BirthStep == TypeInv /\ BirthInv /\ [Next]_vars => BirthInv'
<1> SUFFICES ASSUME TypeInv, BirthInv, [Next]_vars PROVE BirthInv'
  OBVIOUS
<1>0. /\ pc \in [Procs -> Phases] /\ eid \in [Procs -> Entities \cup {NoEntity}]
      /\ owner \in [Idents -> Entities \cup {NoEntity}]
      /\ \A p \in Procs : pc[p] # "idle" => rec[p] \in Records
      /\ \A p \in Procs : rest[p] \subseteq rec[p]
  BY DEF TypeInv, TypeOK, ProcInv
<1>1. \A e : Accounted(e) => Accounted(e)'
  BY AccountedStays
<1>2. CASE UNCHANGED vars
  BY <1>1, <1>2 DEF BirthInv, vars, storeVars, procVars
<1>3. ASSUME NEW p \in Procs, Step(p) PROVE BirthInv'
  <2>1. \A q \in Procs \ {p} : pc'[q] = pc[q] /\ eid'[q] = eid[q]
    BY <1>0, <1>3 DEF Step, Start, FindHit, FindMiss, FindNone, Link, Create, Claim, Birth,
                      AppendFacts, Abort, Finish
  <2>2. CASE Link(p) \/ Claim(p)
    <3>1. /\ owner' = Bind(owner, rec[p], eid[p]) /\ UNCHANGED <<eid, facts>>
          /\ pc'[p] = IF Link(p) THEN "append" ELSE "birth"
      BY <1>0, <2>2 DEF Link, Claim
    <3>2. ASSUME NEW e, e = eid[p] PROVE Accounted(e)'
      <4>1. CASE Link(p)
        BY <1>1, <3>2, <4>1 DEF Link, BirthInv
      <4>2. CASE ~Link(p)
        BY <3>1, <3>2, <4>2 DEF Accounted
      <4> QED
        BY <4>1, <4>2
    <3>3. ASSUME NEW k \in Idents, NEW e, e = owner'[k], e # NoEntity PROVE Accounted(e)'
      <4>1. e = eid[p] \/ e = owner[k]
        BY <3>1, <3>3 DEF Bind
      <4> QED
        BY <1>1, <3>2, <3>3, <4>1 DEF BirthInv
    <3>4. ASSUME NEW q \in Procs, NEW e, e = eid[q], pc'[q] \in {"link", "append"}
          PROVE  Accounted(e)'
      <4>1. CASE q = p
        BY <3>2, <3>4, <4>1
      <4>2. CASE q # p
        BY <1>1, <2>1, <3>4, <4>2 DEF BirthInv
      <4> QED
        BY <4>1, <4>2
    <3>5. ASSUME NEW fact \in facts, NEW e, e = fact[1] PROVE Accounted(e)'
      BY <1>1, <3>5 DEF BirthInv
    <3> QED
      BY <3>1, <3>3, <3>4, <3>5 DEF BirthInv, Accounted
  <2>3. CASE FindHit(p)
    <3>1. rec[p] \in Records /\ rest[p] \subseteq rec[p] /\ rest[p] # {}
      BY <1>0, <2>3 DEF FindHit
    <3>2. First(rest[p]) \in Idents
      BY <3>1, FirstExists, RecordsAssumption
    <3>3. Accounted(owner[First(rest[p])])
      BY <2>3, <3>2 DEF FindHit, BirthInv
    <3>4. eid'[p] = owner[First(rest[p])] /\ UNCHANGED <<owner, facts>>
      BY <1>0, <2>3 DEF FindHit, storeVars
    <3>5. \A q \in Procs \ {p} : pc'[q] \in {"link", "append"} => Accounted(eid[q])
      BY <2>1 DEF BirthInv
    <3> QED
      BY <1>1, <2>1, <3>3, <3>4, <3>5 DEF BirthInv, Accounted
  <2>4. CASE Birth(p)
    <3>1. eid[p] \in births' /\ UNCHANGED <<owner, facts, eid>>
      BY <2>4 DEF Birth
    <3> QED
      BY <1>1, <2>1, <3>1 DEF BirthInv, Accounted
  <2>5. CASE AppendFacts(p)
    <3>1. /\ Accounted(eid[p]) /\ facts' = facts \cup {<<eid[p], rec[p]>>}
          /\ owner' = owner /\ pc'[p] = "idle"
      BY <1>0, <2>5 DEF AppendFacts, Finish, BirthInv
    <3> QED
      BY <1>1, <2>1, <3>1 DEF BirthInv, Accounted
  <2>6. CASE \/ \E r \in Records : Start(p, r)
             \/ FindMiss(p) \/ FindNone(p) \/ Create(p) \/ Abort(p)
    <3>1. pc'[p] \notin {"link", "append"} /\ UNCHANGED <<owner, facts>>
      BY <1>0, <2>6 DEF Start, FindMiss, FindNone, Create, Abort, Finish, storeVars
    <3> QED
      BY <1>1, <2>1, <3>1 DEF BirthInv, Accounted
  <2> QED
    BY <1>3, <2>2, <2>3, <2>4, <2>5, <2>6 DEF Step
<1> QED
  BY <1>2, <1>3 DEF Next

(* Whatever overlaps and whoever dies: an entity with observations has its     *)
(* entity_create action, or a process that has not appended it.                *)
THEOREM BirthsAreRecorded == Spec => []BirthsRecorded
<1>1. BirthInv => BirthsRecorded
  BY DEF BirthInv, BirthsRecorded, Accounted
<1> QED
  BY TypeInit, TypeStep, BirthInit, BirthStep, <1>1, PTL DEF Spec
-----------------------------------------------------------------------------
(* A resolver that nobody overlaps with.  Nobody else binds a pair of its      *)
(* record while it runs, so what it found free is free until it binds it, and *)
(* it answers with the owner its first pair has from then on.                 *)

Apart ==
    \A p, q \in Procs :
        p # q /\ Active(p) /\ Active(q) /\ rec[p] \cap rec[q] # {} => rec[p] \in raced

Trail(p) ==
    /\ pc[p] = "find" => \A k \in rec[p] \ rest[p] : owner[k] = NoEntity
    /\ pc[p] \in {"create", "claim"} => \A k \in rec[p] : owner[k] = NoEntity
    /\ pc[p] = "link" => owner[First(rec[p])] \in {NoEntity, eid[p]}
    /\ pc[p] \in {"birth", "append"} => owner[First(rec[p])] = eid[p]

Calm(p) == Active(p) /\ rec[p] \in Strong \ raced

UnracedInv ==
    /\ Apart
    /\ \A p \in Procs : Calm(p) => Trail(p)
    /\ \A r \in Strong \ raced :
          /\ \A e \in returned[r] : e = owner[First(r)]
          /\ \A fact \in facts : fact[2] = r => fact[1] = owner[First(r)]

LEMMA UnracedInit == Init => UnracedInv
  BY DEF Init, UnracedInv, Apart, Calm, Active, Strong

(* The first pair of a record is the first of every part that has it. *)
LEMMA FirstOfPart ==
    ASSUME NEW r \in Records, NEW s \in SUBSET r, r # {}, First(r) \in s
    PROVE  First(s) = First(r)
<1>1. PICK k \in r : \A j \in r \ {k} : Rank[k] < Rank[j]
  BY RankAssumption
<1>2. \A j \in r : Rank[j] \in Nat
  BY RankAssumption, RecordsAssumption
<1>3. \A t \in SUBSET r : k \in t => First(t) = k
  <2> SUFFICES ASSUME NEW t \in SUBSET r, k \in t PROVE First(t) = k
    OBVIOUS
  <2>1. \A j \in t : Rank[k] <= Rank[j]
    <3> TAKE j \in t
    <3>1. CASE j = k
      BY <1>2, <3>1
    <3>2. CASE j # k
      BY <1>1, <1>2, <3>2
    <3> QED
      BY <3>1, <3>2
  <2>2. \A m \in t : (\A j \in t : Rank[m] <= Rank[j]) => m = k
    <3> SUFFICES ASSUME NEW m \in t, \A j \in t : Rank[m] <= Rank[j], m # k PROVE FALSE
      OBVIOUS
    <3>1. Rank[m] <= Rank[k] /\ Rank[k] < Rank[m] /\ Rank[m] \in Nat /\ Rank[k] \in Nat
      BY <1>1, <1>2
    <3> QED
      BY <3>1
  <2> QED
    BY <2>1, <2>2 DEF First
<1>4. First(r) = k
  BY <1>3
<1> QED
  BY <1>3, <1>4

(* What a step of p leaves to the others, if it starts nothing. *)
LEMMA OthersStay ==
    ASSUME TypeInv, UnracedInv, NEW p \in Procs, UNCHANGED raced,
           \A q \in Procs \ {p} :
               pc'[q] = pc[q] /\ rec'[q] = rec[q] /\ rest'[q] = rest[q] /\ eid'[q] = eid[q],
           pc'[p] # "idle" => rec'[p] = rec[p] /\ pc[p] # "idle",
           \/ UNCHANGED owner
           \/ Active(p) /\ owner' = Bind(owner, rec[p], eid[p])
    PROVE  Apart' /\ \A q \in Procs \ {p} : Calm(q)' => Trail(q)'
<1>1. Apart'
  BY DEF UnracedInv, Apart, Active
<1>2. ASSUME NEW q \in Procs \ {p}, Calm(q)' PROVE Trail(q)'
  <2>1. Calm(q) /\ Trail(q)
    BY <1>2 DEF UnracedInv, Calm, Active
  <2>2. rec[q] \in Strong /\ rec[q] \subseteq Idents /\ rest[q] \subseteq rec[q]
    BY <2>1, RecordsAssumption DEF Calm, Strong, TypeInv, ProcInv
  <2>3. \A k \in rec[q] : owner'[k] = owner[k]
    <3>1. CASE UNCHANGED owner
      BY <3>1
    <3>2. CASE Active(p) /\ owner' = Bind(owner, rec[p], eid[p])
      <4>1. rec[p] \cap rec[q] = {}
        BY <2>1, <3>2 DEF UnracedInv, Apart, Calm
      <4> QED
        BY <2>2, <3>2, <4>1 DEF Bind
    <3> QED
      BY <3>1, <3>2
  <2>4. First(rec[q]) \in rec[q]
    BY <2>2, FirstExists DEF Strong
  <2> QED
    BY <2>1, <2>2, <2>3, <2>4 DEF Trail
<1> QED
  BY <1>1, <1>2

(* Answers and observations: what was so of a first pair that is bound stays. *)
LEMMA PastStays ==
    ASSUME TypeInv, UnracedInv, [Next]_vars, NEW r \in Strong \ raced
    PROVE  /\ \A e \in returned[r] : e = owner'[First(r)]
           /\ \A fact \in facts : fact[2] = r => fact[1] = owner'[First(r)]
<1>1. First(r) \in Idents
  BY FirstExists, RecordsAssumption DEF Strong
<1>2. returned[r] \subseteq Entities /\ \A fact \in facts : fact[1] \in Entities
  BY DEF Strong, TypeInv, TypeOK
<1>3. owner[First(r)] \in Entities => owner'[First(r)] = owner[First(r)]
  BY <1>1, BindingsStep, NoEntityAssumption
<1> QED
  BY <1>2, <1>3 DEF UnracedInv

LEMMA UnracedStep == TypeInv /\ UnracedInv /\ [Next]_vars => UnracedInv'
<1> SUFFICES ASSUME TypeInv, UnracedInv, [Next]_vars PROVE UnracedInv'
  OBVIOUS
<1>0. /\ pc \in [Procs -> Phases] /\ rec \in [Procs -> Records \cup {{}}]
      /\ rest \in [Procs -> SUBSET Idents] /\ eid \in [Procs -> Entities \cup {NoEntity}]
      /\ owner \in [Idents -> Entities \cup {NoEntity}]
      /\ returned \in [Records -> SUBSET Entities]
      /\ \A p \in Procs : rest[p] \subseteq rec[p] /\ (Active(p) => rec[p] \in Records)
      /\ \A p \in Procs : pc[p] \in Holding => eid[p] \in Entities
  BY DEF TypeInv, TypeOK, ProcInv, Active
<1>1. CASE UNCHANGED vars
  BY <1>1 DEF UnracedInv, Apart, Calm, Trail, Active, vars, storeVars, procVars, histVars
<1>2. ASSUME NEW p \in Procs, NEW r \in Records, Start(p, r) PROVE UnracedInv'
  <2>1. /\ pc' = [pc EXCEPT ![p] = "find"] /\ rec' = [rec EXCEPT ![p] = r]
        /\ rest' = [rest EXCEPT ![p] = r] /\ pc[p] = "idle"
        /\ UNCHANGED <<owner, facts, returned>> /\ raced \subseteq raced'
        /\ \A q \in Procs \ {p} : eid'[q] = eid[q]
    BY <1>0, <1>2 DEF Start, storeVars
  <2>2. ASSUME NEW q \in Procs \ {p}, Active(q), rec[q] \cap r # {}
        PROVE  rec[q] \in raced' /\ r \in raced'
    <3>1. q \in Rivals(p, r)
      BY <2>2 DEF Rivals
    <3> QED
      BY <1>2, <3>1 DEF Start
  <2>3. Apart'
    BY <1>0, <2>1, <2>2 DEF UnracedInv, Apart, Active
  <2>4. Trail(p)'
    BY <1>0, <2>1 DEF Trail
  <2>5. \A q \in Procs \ {p} : Calm(q)' => Trail(q)'
    BY <1>0, <2>1 DEF UnracedInv, Calm, Active, Trail
  <2> QED
    BY <2>1, <2>3, <2>4, <2>5 DEF UnracedInv
<1>3. ASSUME NEW p \in Procs,
             FindHit(p) \/ FindMiss(p) \/ FindNone(p) \/ Create(p) \/ Abort(p)
      PROVE  UnracedInv'
  <2>1. /\ UNCHANGED <<owner, facts, returned, raced>>
        /\ \A q \in Procs \ {p} :
              pc'[q] = pc[q] /\ rec'[q] = rec[q] /\ rest'[q] = rest[q] /\ eid'[q] = eid[q]
        /\ pc[p] # "idle" /\ (pc'[p] # "idle" => rec'[p] = rec[p])
    BY <1>0, <1>3
    DEF FindHit, FindMiss, FindNone, Create, Abort, Finish, Active, storeVars, histVars
  <2>2. Apart' /\ \A q \in Procs \ {p} : Calm(q)' => Trail(q)'
    BY <2>1, OthersStay
  <2>3. ASSUME Calm(p)' PROVE Trail(p)'
    <3>1. Calm(p) /\ Trail(p) /\ rec'[p] = rec[p] /\ pc'[p] # "idle"
      BY <2>1, <2>3 DEF UnracedInv, Calm, Active
    <3>2. rec[p] \in Records /\ rec[p] # {} /\ rec[p] \subseteq Idents /\ rest[p] \subseteq rec[p]
      BY <1>0, <3>1, RecordsAssumption DEF Calm, Strong
    <3>3. CASE FindHit(p)
      <4>1. /\ pc'[p] = "link" /\ eid'[p] = owner[First(rest[p])]
            /\ \A k \in rec[p] \ rest[p] : owner[k] = NoEntity
        BY <1>0, <3>1, <3>3 DEF FindHit, Trail
      <4>2. First(rec[p]) \in rec[p]
        BY <3>2, FirstExists
      <4>3. First(rec[p]) \in rest[p] => First(rest[p]) = First(rec[p])
        BY <3>2, FirstOfPart
      <4> QED
        BY <2>1, <3>1, <4>1, <4>2, <4>3 DEF Trail
    <3>4. CASE FindMiss(p)
      <4>1. /\ pc'[p] = "find" /\ rest'[p] = rest[p] \ {First(rest[p])}
            /\ owner[First(rest[p])] = NoEntity
            /\ \A k \in rec[p] \ rest[p] : owner[k] = NoEntity
        BY <1>0, <3>1, <3>4 DEF FindMiss, Trail
      <4> QED
        BY <2>1, <3>1, <4>1 DEF Trail
    <3>5. CASE FindNone(p)
      BY <1>0, <2>1, <3>1, <3>5 DEF FindNone, Trail
    <3>6. CASE Create(p)
      BY <1>0, <2>1, <3>1, <3>2, <3>6 DEF Create, Trail
    <3>7. CASE Abort(p)
      BY <1>0, <3>1, <3>7 DEF Abort, Finish
    <3> QED
      BY <1>3, <3>3, <3>4, <3>5, <3>6, <3>7
  <2> QED
    BY <2>1, <2>2, <2>3 DEF UnracedInv
<1>4. ASSUME NEW p \in Procs, Link(p) \/ Claim(p) \/ Birth(p) PROVE UnracedInv'
  <2>1. /\ UNCHANGED <<facts, rec, rest, eid, raced>> /\ Active(p)
        /\ \A q \in Procs \ {p} : pc'[q] = pc[q]
        /\ IF Birth(p) THEN UNCHANGED owner ELSE owner' = Bind(owner, rec[p], eid[p])
        /\ pc'[p] = IF Claim(p) THEN "birth" ELSE "append"
        /\ \/ returned' = returned
           \/ returned' = [returned EXCEPT ![rec[p]] = @ \cup {eid[p]}] /\ pc'[p] = "append"
    BY <1>0, <1>4 DEF Link, Claim, Birth, Return, Active, histVars
  <2>2. Apart' /\ \A q \in Procs \ {p} : Calm(q)' => Trail(q)'
    <3>1. /\ pc[p] # "idle" /\ rec'[p] = rec[p] /\ UNCHANGED raced
          /\ UNCHANGED owner \/ (Active(p) /\ owner' = Bind(owner, rec[p], eid[p]))
      BY <2>1 DEF Active
    <3>2. \A q \in Procs \ {p} :
            pc'[q] = pc[q] /\ rec'[q] = rec[q] /\ rest'[q] = rest[q] /\ eid'[q] = eid[q]
      BY <2>1
    <3> QED
      BY <3>1, <3>2, OthersStay
  <2>3. ASSUME Calm(p) PROVE owner'[First(rec[p])] = eid[p]
    <3>1. Trail(p) /\ rec[p] \in Records /\ rec[p] # {} /\ rec[p] \subseteq Idents
      BY <2>3, RecordsAssumption DEF UnracedInv, Calm, Strong
    <3>2. First(rec[p]) \in rec[p] /\ First(rec[p]) \in Idents
      BY <3>1, FirstExists
    <3>3. CASE Link(p)
      BY <2>1, <3>1, <3>2, <3>3 DEF Link, Trail, Bind, Birth
    <3>4. CASE Claim(p)
      BY <2>1, <3>1, <3>2, <3>4 DEF Claim, Trail, Bind, Birth
    <3>5. CASE Birth(p)
      BY <2>1, <3>1, <3>5 DEF Birth, Trail
    <3> QED
      BY <1>4, <3>3, <3>4, <3>5
  <2>4. Calm(p)' => Trail(p)'
    BY <2>1, <2>3 DEF Calm, Active, Trail
  <2>5. ASSUME NEW r \in Strong \ raced
        PROVE  /\ \A e \in returned'[r] : e = owner'[First(r)]
               /\ \A fact \in facts : fact[2] = r => fact[1] = owner'[First(r)]
    <3>1. \/ returned'[r] = returned[r]
          \/ r = rec[p] /\ returned'[r] = returned[r] \cup {eid[p]}
      BY <1>0, <2>1, <2>5 DEF Strong
    <3>2. r = rec[p] => eid[p] = owner'[First(r)]
      BY <2>1, <2>3, <2>5 DEF Calm
    <3> QED
      BY <2>5, <3>1, <3>2, PastStays
  <2> QED
    BY <2>1, <2>2, <2>4, <2>5 DEF UnracedInv
<1>5. ASSUME NEW p \in Procs, AppendFacts(p) PROVE UnracedInv'
  <2>1. /\ UNCHANGED <<owner, returned, raced>> /\ pc[p] = "append" /\ pc'[p] = "idle"
        /\ facts' = facts \cup {<<eid[p], rec[p]>>}
        /\ \A q \in Procs \ {p} :
              pc'[q] = pc[q] /\ rec'[q] = rec[q] /\ rest'[q] = rest[q] /\ eid'[q] = eid[q]
    BY <1>0, <1>5 DEF AppendFacts, Finish, histVars
  <2>2. Apart' /\ \A q \in Procs \ {p} : Calm(q)' => Trail(q)'
    BY <2>1, OthersStay
  <2>3. ~Calm(p)'
    BY <2>1 DEF Calm, Active
  <2>4. rec[p] \in Strong \ raced => eid[p] = owner[First(rec[p])]
    BY <2>1 DEF UnracedInv, Calm, Active, Trail
  <2>5. \A r \in Strong \ raced : \A fact \in facts' : fact[2] = r => fact[1] = owner[First(r)]
    BY <2>1, <2>4 DEF UnracedInv
  <2> QED
    BY <2>1, <2>2, <2>3, <2>5 DEF UnracedInv
<1> QED
  BY <1>1, <1>2, <1>3, <1>4, <1>5 DEF Next, Step

(* Crashes alone, and any sequence of runs one after the other, never split a *)
(* contact: it takes two resolves that share an identifier and overlap.       *)
THEOREM OnlyRacesSplit == Spec => []SplitOnlyIfRaced
<1>1. UnracedInv => SplitOnlyIfRaced
  BY DEF UnracedInv, SplitOnlyIfRaced
<1> QED
  BY TypeInit, TypeStep, UnracedInit, UnracedStep, <1>1, PTL DEF Spec

(* The entity that holds observations of an identity that was never raced     *)
(* owns some identifier of the record they came with.                         *)
THEOREM FactsAreReachable == Spec => []FactsReachable
<1>1. UnracedInv => FactsReachable
  <2> SUFFICES ASSUME UnracedInv, NEW fact \in facts, fact[2] \in Strong \ raced
               PROVE  \E k \in fact[2] : owner[k] = fact[1]
    BY DEF FactsReachable
  <2>1. First(fact[2]) \in fact[2]
    BY FirstExists DEF Strong
  <2> QED
    BY <2>1 DEF UnracedInv
<1> QED
  BY TypeInit, TypeStep, UnracedInit, UnracedStep, <1>1, PTL DEF Spec

=============================================================================
