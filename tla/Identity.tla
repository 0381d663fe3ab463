------------------------------ MODULE Identity ------------------------------
(***************************************************************************)
(* Identity resolution and the append that follows it: the pipeline        *)
(* ingest_one -> IngestionHub.ingest -> StoreIdentityResolver.resolve over *)
(* the SQLite entity store and ledger.                                     *)
(*                                                                         *)
(* Several processes share one database (the CLI, the serve loop, the      *)
(* ingestion API).  One action is one statement or transaction on it:      *)
(* find_by_identifiers issues one SELECT per key outside any transaction,  *)
(* create_entity, add_identifiers and each append commit separately.       *)
(***************************************************************************)
EXTENDS Naturals, FiniteSets

CONSTANTS
    Procs,      \* processes that ingest records
    Entities,   \* entity ids the id factory may mint
    Idents,     \* normalised (kind, value) identifier pairs
    Records,    \* identities: the sets of strong pairs a record may carry
    Rank,       \* position of a pair's kind in _STRONG_KEYS
    NoEntity,   \* "not found"
    MaxRuns     \* bound: records ingested in one behaviour

ASSUME RecordsAssumption == Records \subseteq SUBSET Idents
(* An identity is a dict: at most one pair of a kind, so ranks order its pairs. *)
ASSUME RankAssumption ==
    /\ Rank \in [Idents -> Nat]
    /\ \A r \in Records : \A s \in (SUBSET r) \ {{}} :
         \E k \in s : \A j \in s \ {k} : Rank[k] < Rank[j]
ASSUME NoEntityAssumption == NoEntity \notin Entities
ASSUME MaxRunsAssumption == MaxRuns \in Nat

VARIABLES
    owner,      \* entity_identifier: the entity each pair is bound to
    entities,   \* entity rows
    births,     \* entities with an entity_create action in the ledger
    facts,      \* <<entity, identity>> of the observations in the ledger
    pc,         \* what each process does next
    rec,        \* the identity it resolves
    rest,       \* the pairs find_by_identifiers has still to look up
    eid,        \* the entity resolve() is about to return
    (* history *)
    runs,       \* records started
    settled,    \* identities some resolve() has returned for
    late,       \* processes whose resolve() began with its identity settled
    returned,   \* what resolve() has returned, per identity
    lateAnswers,\* what the late resolves have returned, per identity
    raced,      \* identities whose resolve() overlapped one with a common pair
    unborn      \* entities whose creator stopped before entity_create

storeVars == <<owner, entities, births, facts>>
procVars == <<pc, rec, rest, eid>>
histVars == <<runs, settled, late, returned, lateAnswers, raced, unborn>>
vars == <<storeVars, procVars, histVars>>

Phases == {"idle", "find", "link", "create", "claim", "birth", "append"}

TypeOK ==
    /\ owner \in [Idents -> Entities \cup {NoEntity}]
    /\ entities \in SUBSET Entities
    /\ births \in SUBSET entities
    /\ facts \in SUBSET (entities \X Records)
    /\ pc \in [Procs -> Phases]
    /\ rec \in [Procs -> Records \cup {{}}]
    /\ rest \in [Procs -> SUBSET Idents]
    /\ eid \in [Procs -> Entities \cup {NoEntity}]
    /\ runs \in 0..MaxRuns
    /\ settled \in SUBSET Records
    /\ late \in SUBSET Procs
    /\ returned \in [Records -> SUBSET Entities]
    /\ lateAnswers \in [Records -> SUBSET Entities]
    /\ raced \in SUBSET Records
    /\ unborn \in SUBSET entities

Init ==
    /\ owner = [k \in Idents |-> NoEntity]
    /\ entities = {} /\ births = {} /\ facts = {}
    /\ pc = [p \in Procs |-> "idle"]
    /\ rec = [p \in Procs |-> {}]
    /\ rest = [p \in Procs |-> {}]
    /\ eid = [p \in Procs |-> NoEntity]
    /\ runs = 0 /\ settled = {} /\ late = {}
    /\ returned = [r \in Records |-> {}]
    /\ lateAnswers = [r \in Records |-> {}]
    /\ raced = {} /\ unborn = {}

-----------------------------------------------------------------------------
(* _strong_pairs puts the pairs in _STRONG_KEYS order; lookups follow it. *)
First(r) == CHOOSE k \in r : \A j \in r : Rank[k] <= Rank[j]

(* Wrong on purpose: a plain upsert, as the in-memory store's dict does. *)
BindLastWins(own, r, e) == [k \in Idents |-> IF k \in r THEN e ELSE own[k]]

(* INSERT .. ON CONFLICT DO NOTHING for every pair, in one transaction. *)
Bind(own, r, e) ==
    [k \in Idents |-> IF k \in r /\ own[k] = NoEntity THEN e ELSE own[k]]

Active(p) == pc[p] # "idle"
Rivals(p, r) == {q \in Procs \ {p} : Active(q) /\ rec[q] \cap r # {}}

(* resolve() returns eid[p] to IngestionHub.ingest. *)
Return(p) ==
    /\ settled' = settled \cup {rec[p]}
    /\ returned' = [returned EXCEPT ![rec[p]] = @ \cup {eid[p]}]
    /\ lateAnswers' =
         [lateAnswers EXCEPT ![rec[p]] = @ \cup (IF p \in late THEN {eid[p]} ELSE {})]

(* The call is over: its locals are gone. *)
Finish(p) ==
    /\ pc' = [pc EXCEPT ![p] = "idle"]
    /\ rec' = [rec EXCEPT ![p] = {}]
    /\ rest' = [rest EXCEPT ![p] = {}]
    /\ eid' = [eid EXCEPT ![p] = NoEntity]

-----------------------------------------------------------------------------
(* A source yields a record and ingest_one hands it to the resolver. *)
Start(p, r) ==
    /\ pc[p] = "idle"
    /\ runs < MaxRuns
    /\ runs' = runs + 1
    /\ pc' = [pc EXCEPT ![p] = "find"]
    /\ rec' = [rec EXCEPT ![p] = r]
    /\ rest' = [rest EXCEPT ![p] = r]
    /\ eid' = [eid EXCEPT ![p] = NoEntity]
    /\ late' = IF r \in settled THEN late \cup {p} ELSE late \ {p}
    /\ raced' = raced \cup {rec[q] : q \in Rivals(p, r)}
                      \cup (IF Rivals(p, r) # {} THEN {r} ELSE {})
    /\ UNCHANGED <<storeVars, settled, returned, lateAnswers, unborn>>

(* One SELECT of find_by_identifiers: the pair is bound, its owner is the answer. *)
FindHit(p) ==
    /\ pc[p] = "find" /\ rest[p] # {}
    /\ owner[First(rest[p])] # NoEntity
    /\ eid' = [eid EXCEPT ![p] = owner[First(rest[p])]]
    /\ pc' = [pc EXCEPT ![p] = "link"]
    /\ UNCHANGED <<storeVars, rec, rest, histVars>>

(* .. or it is free, and the next pair is looked up. *)
FindMiss(p) ==
    /\ pc[p] = "find" /\ rest[p] # {}
    /\ owner[First(rest[p])] = NoEntity
    /\ rest' = [rest EXCEPT ![p] = @ \ {First(@)}]
    /\ UNCHANGED <<storeVars, pc, rec, eid, histVars>>

(* Wrong on purpose: identifiers are added for an entity that was never created. *)
FindNoneSkipsCreate(p) ==
    /\ pc[p] = "find" /\ rest[p] = {}
    /\ pc' = [pc EXCEPT ![p] = "claim"]
    /\ UNCHANGED <<storeVars, rec, rest, eid, histVars>>

(* No pair is bound: find_by_identifiers returns None. *)
FindNone(p) ==
    /\ pc[p] = "find" /\ rest[p] = {}
    /\ pc' = [pc EXCEPT ![p] = "create"]
    /\ UNCHANGED <<storeVars, rec, rest, eid, histVars>>

(* Wrong on purpose: the entity is returned without learning the new pairs. *)
LinkForgetsPairs(p) ==
    /\ pc[p] = "link"
    /\ pc' = [pc EXCEPT ![p] = "append"]
    /\ Return(p)
    /\ UNCHANGED <<storeVars, rec, rest, eid, runs, late, raced, unborn>>

(* The entity exists: add_identifiers for the pairs still free, and return. *)
Link(p) ==
    /\ pc[p] = "link"
    /\ owner' = Bind(owner, rec[p], eid[p])
    /\ pc' = [pc EXCEPT ![p] = "append"]
    /\ Return(p)
    /\ UNCHANGED <<entities, births, facts, rec, rest, eid, runs, late, raced, unborn>>

(* create_entity commits a row under a fresh id. *)
Create(p) ==
    /\ pc[p] = "create"
    /\ \E e \in Entities \ entities :
         /\ entities' = entities \cup {e}
         /\ eid' = [eid EXCEPT ![p] = e]
    /\ pc' = [pc EXCEPT ![p] = IF rec[p] = {} THEN "birth" ELSE "claim"]
    /\ UNCHANGED <<owner, births, facts, rec, rest, histVars>>

(* Wrong on purpose: the new entity is returned without its entity_create. *)
ClaimForgetsBirth(p) ==
    /\ pc[p] = "claim"
    /\ owner' = Bind(owner, rec[p], eid[p])
    /\ pc' = [pc EXCEPT ![p] = "append"]
    /\ Return(p)
    /\ UNCHANGED <<entities, births, facts, rec, rest, eid, runs, late, raced, unborn>>

(* add_identifiers for the new entity. *)
Claim(p) ==
    /\ pc[p] = "claim"
    /\ owner' = Bind(owner, rec[p], eid[p])
    /\ pc' = [pc EXCEPT ![p] = "birth"]
    /\ UNCHANGED <<entities, births, facts, rec, rest, eid, histVars>>

(* The entity_create action is appended to the ledger, and resolve() returns. *)
Birth(p) ==
    /\ pc[p] = "birth"
    /\ births' = births \cup {eid[p]}
    /\ pc' = [pc EXCEPT ![p] = "append"]
    /\ Return(p)
    /\ UNCHANGED <<owner, entities, facts, rec, rest, eid, runs, late, raced, unborn>>

(* ingest_one appends the record's observations under the resolved entity. *)
AppendFacts(p) ==
    /\ pc[p] = "append"
    /\ facts' = facts \cup {<<eid[p], rec[p]>>}
    /\ Finish(p)
    /\ UNCHANGED <<owner, entities, births, histVars>>

(* The process dies, or normalize() or the field check raises: what was     *)
(* committed stays, what the call held is gone.                             *)
Abort(p) ==
    /\ Active(p)
    /\ Finish(p)
    /\ unborn' = IF pc[p] \in {"claim", "birth"} THEN unborn \cup {eid[p]} ELSE unborn
    /\ UNCHANGED <<storeVars, runs, settled, late, returned, lateAnswers, raced>>

Step(p) ==
    \/ \E r \in Records : Start(p, r)
    \/ FindHit(p) \/ FindMiss(p) \/ FindNone(p)
    \/ Link(p)
    \/ Create(p) \/ Claim(p) \/ Birth(p)
    \/ AppendFacts(p)
    \/ Abort(p)

Next == \E p \in Procs : Step(p)

Spec == Init /\ [][Next]_vars

-----------------------------------------------------------------------------
(* An identity with at least one strong pair. *)
Strong == Records \ {{}}

(* Once some resolve() of an identity has returned, every resolve() of it     *)
(* that begins afterwards, in any process, returns one and the same entity:   *)
(* a contact may be split by a race, but it never moves later.                *)
StableOnceSettled ==
    \A r \in Strong : \A e, f \in lateAnswers[r] : e = f

(* The binding of an identifier is permanent: no interleaving of resolvers    *)
(* ever moves an identifier from one entity to another.                       *)
BindingsPermanent ==
    [][\A k \in Idents : owner[k] # NoEntity => owner'[k] = owner[k]]_owner

(* Two answers for one identity have a single cause: two resolves that share  *)
(* an identifier overlapped.  Crashes alone, and any sequence of runs one     *)
(* after the other, never split a contact.                                    *)
SplitOnlyIfRaced ==
    \A r \in Strong \ raced : \A e, f \in returned[r] : e = f

(* Observations of an identity that was never raced can be found again: the   *)
(* entity that holds them owns an identifier of the record they came with.    *)
FactsReachable ==
    \A fact \in facts :
        fact[2] \in Strong \ raced => \E k \in fact[2] : owner[k] = fact[1]

(* Every entity with observations has its entity_create action in the ledger, *)
(* except when its creator is about to append it or stopped just before.      *)
BirthsRecorded ==
    \A fact \in facts :
        \/ fact[1] \in births \cup unborn
        \/ \E p \in Procs : pc[p] = "birth" /\ eid[p] = fact[1]

(* StoreIdentityResolver's "Invariant I2": the same identity keys resolve to  *)
(* the same entity_id across independent resolver instances.                  *)
SameKeysSameEntity ==
    \A r \in Strong : \A e, f \in returned[r] : e = f
=============================================================================
