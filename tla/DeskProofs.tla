------------------------------ MODULE DeskProofs ------------------------------
(* Theorems about Desk, for every set of references, paths and commands, and  *)
(* every budget.                                                              *)
EXTENDS Desk, FiniteSetTheorems, WellFoundedInduction, TLAPS

-----------------------------------------------------------------------------
(* What the operators of Graph return. *)

(* A finite set of numbers that is not empty has a least one: of its subsets  *)
(* without one, a smallest would have one less any number.                    *)
LEMMA Least ==
    ASSUME NEW S \in SUBSET Nat, IsFiniteSet(S), S # {}
    PROVE  \E k \in S : \A j \in S : k <= j
<1> DEFINE Has(T) == \E k \in T : \A j \in T : k <= j
           Lacking == {T \in SUBSET S : T # {} /\ ~Has(T)}
<1> SUFFICES ASSUME Lacking # {} PROVE FALSE
  OBVIOUS
<1>1. IsWellFoundedOn(StrictSubsetOrdering(S), SUBSET S)
  BY FS_StrictSubsetOrderingWellFounded, FS_FiniteSubsetsOfFinite
<1>2. PICK T \in Lacking : \A U \in Lacking : ~(<<U, T>> \in StrictSubsetOrdering(S))
  <2>1. Lacking \subseteq SUBSET S
    OBVIOUS
  <2> HIDE DEF Lacking
  <2> QED
    BY <1>1, <2>1, WFMin
<1>3. PICK x \in T : TRUE
  BY <1>2
<1>4. T \in SUBSET S /\ T \ {x} \in SUBSET S /\ T \ {x} # T /\ ~Has(T)
  BY <1>2, <1>3
<1>5. <<T \ {x}, T>> \in StrictSubsetOrdering(S)
  BY <1>4 DEF StrictSubsetOrdering
<1>6. T \ {x} = {} \/ Has(T \ {x})
  BY <1>2, <1>4, <1>5
<1>7. CASE T \ {x} = {}
  BY <1>3, <1>4, <1>7
<1>8. CASE Has(T \ {x})
  <2>1. PICK k \in T \ {x} : \A j \in T \ {x} : k <= j
    BY <1>8
  <2>2. x \in Nat /\ k \in Nat /\ T \subseteq Nat
    BY <1>3, <1>4
  <2>3. CASE k <= x
    BY <1>4, <2>1, <2>2, <2>3
  <2>4. CASE x <= k
    BY <1>3, <1>4, <2>1, <2>2, <2>4
  <2> QED
    BY <2>2, <2>3, <2>4
<1> QED
  BY <1>6, <1>7, <1>8

(* The target of a reference is an entity, and nobody just when no path of it *)
(* is known.                                                                  *)
LEMMA ResolveFinds ==
    ASSUME NEW r \in Refs, NEW own \in [Paths -> Entities \cup {Nobody}]
    PROVE  /\ Resolve(r, own) \in Entities \cup {Nobody}
           /\ Resolve(r, own) = Nobody
                <=> \A k \in DOMAIN Link[r].tries : own[Link[r].tries[k]] = Nobody
<1> DEFINE tries == Link[r].tries
           hits == {k \in DOMAIN tries : own[tries[k]] # Nobody}
           first == CHOOSE k \in hits : \A j \in hits : k <= j
<1>1. tries \in Seq(Paths)
  BY Links
<1>2. /\ \A k \in DOMAIN tries : tries[k] \in Paths
      /\ DOMAIN tries \subseteq Nat /\ IsFiniteSet(DOMAIN tries)
  <2>1. Len(tries) \in Nat /\ DOMAIN tries = 1..Len(tries)
    BY <1>1
  <2>2. IsFiniteSet(1..Len(tries))
    BY <2>1, FS_Interval
  <2>3. DOMAIN tries \subseteq Nat /\ IsFiniteSet(DOMAIN tries)
    BY <2>1, <2>2
  <2> HIDE DEF tries
  <2>4. \A k \in DOMAIN tries : tries[k] \in Paths
    BY <1>1, <2>1
  <2> QED
    BY <2>3, <2>4
<1>3. CASE hits = {}
  BY <1>3 DEF Resolve
<1>4. CASE hits # {}
  <2>1. \E k \in hits : \A j \in hits : k <= j
    <3>1. hits \in SUBSET Nat /\ IsFiniteSet(hits)
      BY <1>2, FS_Subset
    <3> HIDE DEF hits
    <3> QED
      BY <1>4, <3>1, Least
  <2>2. first \in hits
    <3> HIDE DEF hits
    <3> QED
      BY <2>1
  <2>3. Resolve(r, own) = own[tries[first]]
    BY <1>4 DEF Resolve
  <2> QED
    BY <1>2, <2>2, <2>3
<1> QED
  BY <1>3, <1>4

(* A path that becomes known takes no target away. *)
LEMMA ResolveStays ==
    ASSUME NEW r \in Refs, NEW own \in [Paths -> Entities \cup {Nobody}],
           NEW path \in Paths, own[path] = Nobody, NEW e \in Entities,
           Resolve(r, own) # Nobody
    PROVE  Resolve(r, [own EXCEPT ![path] = e]) # Nobody
<1> DEFINE new == [own EXCEPT ![path] = e]
<1>1. new \in [Paths -> Entities \cup {Nobody}]
  OBVIOUS
<1>2. PICK k \in DOMAIN Link[r].tries : own[Link[r].tries[k]] # Nobody
  BY ResolveFinds
<1>3. Link[r].tries[k] \in Paths
  BY Links
<1>4. new[Link[r].tries[k]] # Nobody
  BY <1>2, <1>3
<1> HIDE DEF new
<1>5. Resolve(r, new) # Nobody
  BY <1>1, <1>4, ResolveFinds
<1> QED
  BY <1>5 DEF new

(* The rows of the repair table, and the edges there can be. *)
Row == {NoRow} \cup [status : Statuses, id : Nat]
AllEdges == {Edge(r, e) : r \in Refs, e \in Entities}

LEMMA NoRowIsNone ==
    /\ NoRow \in Row /\ NoRow.status = "none" /\ NoRow.id = -1
    /\ \A x \in Row : x # NoRow <=> x.status \in Statuses /\ x.id \in Nat
  BY DEF Row, NoRow, Statuses

(* Replacing the table keeps a row for each repair and what was decided of it. *)
LEMMA OverlaidRows ==
    ASSUME rows \in [Refs -> Row], NEW new \in [Refs -> Row], NEW dismissed
    PROVE  /\ Overlaid(new, dismissed) \in [Refs -> Row]
           /\ \A r \in Refs :
                 /\ Overlaid(new, dismissed)[r] = NoRow <=> new[r] = NoRow
                 /\ Overlaid(new, dismissed)[r].status = "open"
                      => new[r].status = "open" /\ rows[r].status \in {"none", "open"}
<1> SUFFICES ASSUME NEW r \in Refs
             PROVE  LET x == Overlaid(new, dismissed)[r] IN
                    /\ x \in Row
                    /\ x = NoRow <=> new[r] = NoRow
                    /\ x.status = "open"
                         => new[r].status = "open" /\ rows[r].status \in {"none", "open"}
  BY DEF Overlaid
<1>1. rows[r] \in Row /\ new[r] \in Row
  OBVIOUS
<1>2. CASE new[r] = NoRow
  BY <1>2, NoRowIsNone DEF Overlaid
<1>3. CASE new[r] # NoRow
  <2>1. new[r] \in [status : Statuses, id : Nat]
    BY <1>1, <1>3 DEF Row
  <2>2. rows[r].status \in Statuses \cup {"none"}
    BY <1>1, NoRowIsNone
  <2>3. \A s \in Statuses :
            /\ [new[r] EXCEPT !.status = s] \in [status : Statuses, id : Nat]
            /\ [new[r] EXCEPT !.status = s].status = s
    BY <2>1
  <2>4. \A x \in [status : Statuses, id : Nat] : x # NoRow /\ x \in Row
    BY DEF NoRow, Row
  <2>5. "dismissed" \in Statuses /\ "dismissed" # "open"
    BY DEF Statuses
  <2>6. CASE rows[r].status \notin {"none", "open"}
    <3>1. rows[r].status \in Statuses
      BY <2>2, <2>6
    <3>2. Overlaid(new, dismissed)[r] = [new[r] EXCEPT !.status = rows[r].status]
      BY <1>3, <2>6 DEF Overlaid
    <3> QED
      BY <1>3, <2>3, <2>4, <2>6, <3>1, <3>2
  <2>7. CASE rows[r].status \in {"none", "open"} /\ r \in dismissed
    <3>1. Overlaid(new, dismissed)[r] = [new[r] EXCEPT !.status = "dismissed"]
      BY <1>3, <2>7 DEF Overlaid
    <3> QED
      BY <1>3, <2>3, <2>4, <2>5, <3>1
  <2>8. CASE rows[r].status \in {"none", "open"} /\ r \notin dismissed
    <3>1. Overlaid(new, dismissed)[r] = new[r]
      BY <1>3, <2>8 DEF Overlaid
    <3> QED
      BY <1>1, <1>3, <2>8, <3>1
  <2> QED
    BY <2>6, <2>7, <2>8
<1> QED
  BY <1>2, <1>3

(* Marking a repair that is there as resolved. *)
LEMMA MarkedRows ==
    ASSUME NEW table \in [Refs -> Row], NEW r \in Refs, table[r].id \in Nat
    PROVE  LET marked == [table EXCEPT ![r].status = "resolved"] IN
           /\ marked \in [Refs -> Row]
           /\ \A q \in Refs : marked[q] = NoRow <=> table[q] = NoRow
           /\ \A q \in Refs : q # r => marked[q] = table[q]
           /\ marked[r].status = "resolved"
<1> DEFINE row == [table[r] EXCEPT !.status = "resolved"]
           marked == [table EXCEPT ![r] = row]
<1>1. table[r] \in [status : Statuses, id : Nat]
  BY NoRowIsNone DEF Row
<1>2. row \in [status : Statuses, id : Nat] /\ row.status = "resolved"
  BY <1>1 DEF Statuses
<1>3. row \in Row /\ row # NoRow /\ table[r] # NoRow
  BY <1>1, <1>2 DEF Row, NoRow
<1>4. marked = [table EXCEPT ![r].status = "resolved"]
  OBVIOUS
<1> HIDE DEF row
<1>5. /\ marked \in [Refs -> Row] /\ marked[r] = row
      /\ \A q \in Refs : q # r => marked[q] = table[q]
  BY <1>3
<1>6. \A q \in Refs : marked[q] = NoRow <=> table[q] = NoRow
  BY <1>3, <1>5
<1> HIDE DEF marked
<1> QED
  BY <1>2, <1>4, <1>5, <1>6

LEMMA ImageIsSmall ==
    ASSUME NEW f \in [Refs -> Row]
    PROVE  /\ IsFiniteSet({f[r].id : r \in Refs})
           /\ Cardinality({f[r].id : r \in Refs}) <= Cardinality(Refs)
<1> DEFINE T == {f[r].id : r \in Refs}
           g == [r \in Refs |-> f[r].id]
<1>1. g \in Surjection(Refs, T)
  BY DEF Surjection
<1> QED
  BY <1>1, FiniteRefs, FS_Surjection

(* There is an id left: fewer are in use than there are to choose from. *)
LEMMA FreshIdIsNat ==
    ASSUME rows \in [Refs -> Row], memo \in [Refs -> Row],
           item = NoItem \/ \E r \in Refs, n \in Nat : item = <<<<r, n>>>>
    PROVE  FreshId \in Nat
<1> DEFINE A == {rows[r].id : r \in Refs}
           B == {memo[r].id : r \in Refs}
           C == {item[k][2] : k \in DOMAIN item}
           used == A \cup B \cup C
           N == Cardinality(Refs)
           all == 0..(2 * N + 1)
<1>0. N \in Nat
  BY FiniteRefs, FS_CardinalityType
<1>1. IsFiniteSet(A) /\ Cardinality(A) <= N /\ IsFiniteSet(B) /\ Cardinality(B) <= N
  BY ImageIsSmall
<1>2. IsFiniteSet(C) /\ Cardinality(C) <= 1
  <2>1. CASE item = NoItem
    <3>1. C = {}
      BY <2>1 DEF NoItem
    <3> HIDE DEF C
    <3>2. IsFiniteSet({}) /\ Cardinality({}) = 0
      BY FS_EmptySet
    <3> QED
      BY <3>1, <3>2
  <2>2. CASE \E r \in Refs, n \in Nat : item = <<<<r, n>>>>
    <3>1. PICK r \in Refs, n \in Nat : item = <<<<r, n>>>>
      BY <2>2
    <3>2. C = {n}
      BY <3>1
    <3> HIDE DEF C
    <3>3. IsFiniteSet({n}) /\ Cardinality({n}) = 1
      BY FS_Singleton
    <3> QED
      BY <3>2, <3>3
  <2> QED
    BY <2>1, <2>2
<1> HIDE DEF A, B, C, N
<1>3. IsFiniteSet(used) /\ Cardinality(used) <= 2 * N + 1
  <2>1. /\ Cardinality(A) \in Nat /\ Cardinality(B) \in Nat /\ Cardinality(C) \in Nat
        /\ IsFiniteSet(A \cap B) /\ IsFiniteSet((A \cup B) \cap C)
    BY <1>1, <1>2, FS_CardinalityType, FS_Subset
  <2>2. /\ Cardinality(A \cap B) \in Nat /\ Cardinality((A \cup B) \cap C) \in Nat
    BY <2>1, FS_CardinalityType
  <2>3. /\ IsFiniteSet(A \cup B)
        /\ Cardinality(A \cup B) = Cardinality(A) + Cardinality(B) - Cardinality(A \cap B)
    BY <1>1, FS_Union
  <2>4. /\ IsFiniteSet(used)
        /\ Cardinality(used)
             = Cardinality(A \cup B) + Cardinality(C) - Cardinality((A \cup B) \cap C)
    BY <1>2, <2>3, FS_Union
  <2> QED
    BY <1>0, <1>1, <1>2, <2>1, <2>2, <2>3, <2>4
<1>4. Cardinality(all) = 2 * N + 2
  BY <1>0, FS_Interval
<1>5. \E n \in all : n \notin used
  <2> SUFFICES ASSUME all \subseteq used PROVE FALSE
    OBVIOUS
  <2>1. Cardinality(all) <= Cardinality(used)
    <3> HIDE DEF all, used
    <3> QED
      BY <1>3, FS_Subset
  <2>2. Cardinality(used) \in Nat
    BY <1>3, FS_CardinalityType
  <2> QED
    BY <1>0, <1>3, <1>4, <2>1, <2>2
<1>6. FreshId = CHOOSE n \in all : n \notin used
  BY DEF FreshId, A, B, C, N
<1>7. FreshId \in all
  <2> HIDE DEF all, used
  <2> QED
    BY <1>5, <1>6
<1> QED
  BY <1>0, <1>7

-----------------------------------------------------------------------------
(* Types.  A row is there only for a reference of the ledger, an item of the  *)
(* screen has an id that a row had.                                           *)

Steps == {"idle", "look", "fetch", "load", "read", "save", "build", "changes", "repairs",
          "act", "mark"}

Tables ==
    /\ seen \subseteq Refs /\ dismissals \subseteq Refs
    /\ owner \in [Paths -> Entities \cup {Nobody}]
    /\ edges \subseteq AllEdges
    /\ rows \in [Refs -> Row] /\ memo \in [Refs -> Row]
    /\ \A r \in Refs : rows[r] # NoRow \/ memo[r] # NoRow => r \in seen

Locals ==
    /\ pc \in [Commands -> Steps]
    /\ \A c \in Commands \ {Screen} : pc[c] \notin {"look", "act", "mark"}
    /\ read \in [Commands -> SUBSET Refs] /\ judged \in [Commands -> SUBSET Refs]
    /\ todo \in [Commands -> SUBSET Refs] /\ broken \in [Commands -> SUBSET Refs]
    /\ built \in [Commands -> SUBSET AllEdges]
    /\ \A c \in Commands :
          /\ todo[c] \subseteq read[c] /\ read[c] \subseteq seen
          /\ judged[c] \subseteq dismissals /\ broken[c] \subseteq read[c]
          /\ pc[c] \in {"changes", "repairs"} => todo[c] = {}
          /\ ~Reprojecting(c) => broken[c] = {}
    /\ overtaken \subseteq Commands /\ \A c \in overtaken : Reprojecting(c)

Chosen ==
    /\ item = NoItem \/ \E r \in seen, n \in Nat : item = <<<<r, n>>>>
    /\ pc[Screen] \in {"look", "act", "mark"} <=> item # NoItem
    /\ pc[Screen] = "mark" => memo[item[1][1]].id = item[1][2] /\ item[1][1] \in applied
    /\ missed \subseteq applied /\ applied \subseteq seen /\ outrun \subseteq applied

Shape == Tables /\ Locals /\ Chosen

LEMMA ShapeInit == GraphInit => Shape
<1> SUFFICES ASSUME GraphInit PROVE Shape
  OBVIOUS
<1>1. Tables
  BY NoRowIsNone DEF GraphInit, Tables, NoRows
<1>2. Locals
  BY DEF GraphInit, Locals, Steps, Reprojecting
<1>3. Chosen
  BY Processes DEF GraphInit, Chosen
<1> QED
  BY <1>1, <1>2, <1>3 DEF Shape

LEMMA ShapeStays == Shape /\ UNCHANGED graphVars => Shape'
  BY DEF Shape, Tables, Locals, Chosen, Reprojecting, graphVars, stores, local,
         graphHistory, repairHistory

(* The steps that leave the tables of the graph alone. *)
Passes == {<<"idle", "fetch">>, <<"fetch", "load">>, <<"idle", "load">>,
           <<"load", "read">>, <<"save", "build">>, <<"changes", "repairs">>}
Passing(c) == \E p \in Passes : Pass(c, p[1], p[2])

LEMMA ShapeOfPass ==
    ASSUME Shape, NEW c \in Commands, Passing(c) PROVE Shape'
<1>1. PICK p \in Passes : Pass(c, p[1], p[2])
  BY DEF Passing
<1>2. /\ pc[c] = p[1] /\ pc' = [pc EXCEPT ![c] = p[2]]
      /\ UNCHANGED <<seen, dismissals, owner, edges, rows, read, judged, todo, built,
                     broken, item, memo, applied, missed, overtaken, outrun>>
  BY <1>1 DEF Pass, Goto, stores, local, repairHistory
<1>3. Tables'
  BY <1>2 DEF Shape, Tables
<1>4. Locals'
  BY <1>2 DEF Shape, Locals, Passes, Steps, Reprojecting
<1>5. Chosen'
  BY <1>2, Processes DEF Shape, Chosen, Locals, Passes
<1> QED
  BY <1>3, <1>4, <1>5 DEF Shape

LEMMA ShapeOfFetch ==
    ASSUME Shape, NEW c \in Commands,
           \/ \E r \in Refs : Observe(c, r)
           \/ \E path \in Paths, e \in Noted : Identify(c, path, e)
    PROVE  Shape'
<1>1. ASSUME NEW r \in Refs, Observe(c, r) PROVE Shape'
  <2>1. Tables'
    BY <1>1 DEF Shape, Tables, Observe, local
  <2>2. Locals'
    BY <1>1 DEF Shape, Locals, Observe, local, Reprojecting, graphHistory, repairHistory
  <2>3. Chosen'
    BY <1>1 DEF Shape, Chosen, Observe, local, graphHistory, repairHistory
  <2> QED
    BY <2>1, <2>2, <2>3 DEF Shape
<1>2. ASSUME NEW path \in Paths, NEW e \in Noted, Identify(c, path, e) PROVE Shape'
  <2>1. Tables'
    BY <1>2, NobodyIsNone DEF Shape, Tables, Identify, local
  <2>2. Locals'
    BY <1>2 DEF Shape, Locals, Identify, local, Reprojecting, graphHistory, repairHistory
  <2>3. Chosen'
    BY <1>2 DEF Shape, Chosen, Identify, local, graphHistory, repairHistory
  <2> QED
    BY <2>1, <2>2, <2>3 DEF Shape
<1> QED
  BY <1>1, <1>2

LEMMA ShapeOfBuild ==
    ASSUME Shape, NEW c \in Commands, ReadEvents(c) \/ BuildEdge(c) \/ ReplaceEdges(c)
    PROVE  Shape'
<1>1. CASE ReadEvents(c)
  <2>1. Tables'
    BY <1>1 DEF Shape, Tables, ReadEvents, stores
  <2>2. Locals'
    BY <1>1 DEF Shape, Tables, Locals, ReadEvents, Goto, stores, Steps, Reprojecting,
               repairHistory
  <2>3. Chosen'
    BY <1>1 DEF Shape, Chosen, Locals, ReadEvents, Goto, stores, repairHistory
  <2> QED
    BY <2>1, <2>2, <2>3 DEF Shape
<1>2. CASE BuildEdge(c)
  <2>1. Tables'
    BY <1>2 DEF Shape, Tables, BuildEdge, stores
  <2>2. Locals'
    <3> DEFINE r == CHOOSE r \in todo[c] : TRUE
               dst == Resolve(r, owner)
    <3>1. r \in todo[c] /\ r \in Refs
      BY <1>2 DEF BuildEdge, Shape, Locals
    <3>2. dst \in Entities \cup {Nobody}
      BY <3>1, ResolveFinds DEF Shape, Tables
    <3>3. /\ todo' = [todo EXCEPT ![c] = @ \ {r}]
          /\ UNCHANGED <<seen, dismissals, pc, read, judged, overtaken>> /\ pc[c] = "build"
          /\ \/ dst # Nobody /\ UNCHANGED broken
                /\ built' = [built EXCEPT ![c] = @ \cup {Edge(r, dst)}]
             \/ broken' = [broken EXCEPT ![c] = @ \cup {r}] /\ UNCHANGED built
      BY <1>2 DEF BuildEdge, stores, graphHistory, repairHistory
    <3> HIDE DEF r, dst
    <3>4. dst # Nobody => Edge(r, dst) \in AllEdges
      BY <3>1, <3>2 DEF AllEdges
    <3> QED
      BY <3>1, <3>3, <3>4 DEF Shape, Locals, Reprojecting
  <2>3. Chosen'
    BY <1>2 DEF Shape, Chosen, BuildEdge, stores, graphHistory, repairHistory
  <2> QED
    BY <2>1, <2>2, <2>3 DEF Shape
<1>3. CASE ReplaceEdges(c)
  <2>1. Tables'
    BY <1>3 DEF Shape, Tables, Locals, ReplaceEdges, local
  <2>2. Locals'
    BY <1>3 DEF Shape, Locals, ReplaceEdges, Goto, local, Steps, Reprojecting, repairHistory
  <2>3. Chosen'
    BY <1>3 DEF Shape, Chosen, Locals, ReplaceEdges, Goto, local, repairHistory
  <2> QED
    BY <2>1, <2>2, <2>3 DEF Shape
<1> QED
  BY <1>1, <1>2, <1>3

(* What a command suggests as repairs. *)
Suggested(c) ==
    [r \in Refs |-> IF r \in broken[c] THEN [status |-> "open", id |-> FreshId] ELSE NoRow]

LEMMA SuggestedRows ==
    ASSUME Shape, NEW c \in Commands
    PROVE  /\ Suggested(c) \in [Refs -> Row]
           /\ \A r \in Refs : Suggested(c)[r] = NoRow <=> r \notin broken[c]
<1>1. FreshId \in Nat
  BY FreshIdIsNat DEF Shape, Tables, Chosen
<1>2. [status |-> "open", id |-> FreshId] \in Row \ {NoRow}
  BY <1>1 DEF Row, Statuses, NoRow
<1> QED
  BY <1>2, NoRowIsNone DEF Suggested

LEMMA ShapeOfReplaceRepairs ==
    ASSUME Shape, NEW c \in Commands, ReplaceRepairs(c) PROVE Shape'
<1>1. rows' = Overlaid(Suggested(c), judged[c])
  BY DEF ReplaceRepairs, Suggested
<1>2. /\ rows' \in [Refs -> Row]
      /\ \A r \in Refs : rows'[r] = NoRow <=> r \notin broken[c]
  BY <1>1, SuggestedRows, OverlaidRows DEF Shape, Tables
<1>3. Tables'
  BY <1>2 DEF Shape, Tables, Locals, ReplaceRepairs
<1>4. Locals'
  BY DEF Shape, Locals, ReplaceRepairs, Goto, Steps, Reprojecting
<1>5. Chosen'
  BY DEF Shape, Chosen, Locals, ReplaceRepairs, Goto
<1> QED
  BY <1>3, <1>4, <1>5 DEF Shape

LEMMA ShapeOfScreen ==
    ASSUME Shape,
           \/ \E r \in Refs : Look(r)
           \/ FindRepair \/ AppendApply \/ MarkResolved \/ Dismiss \/ OtherAction
    PROVE  Shape'
<1>0. /\ NoRows \in [Refs -> Row] /\ \A r \in Refs : NoRows[r] = NoRow
      /\ Screen \in Commands
  BY NoRowIsNone, Processes DEF NoRows
<1>1. ASSUME NEW r \in Refs, Look(r) PROVE Shape'
  <2>1. r \in seen /\ rows[r].id \in Nat
    BY <1>1, NoRowIsNone DEF Look, Shape, Tables, Statuses
  <2>2. Tables'
    BY <1>1 DEF Shape, Tables, Look, stores
  <2>3. Locals'
    BY <1>0, <1>1 DEF Shape, Locals, Look, Goto, stores, Steps, Reprojecting,
             repairHistory
  <2>4. Chosen'
    <3>1. item' = <<<<r, rows[r].id>>>> /\ item' # NoItem
      BY <1>1 DEF Look, NoItem
    <3>2. pc'[Screen] = "look" /\ UNCHANGED <<seen, applied, missed, outrun>>
      BY <1>0, <1>1 DEF Shape, Locals, Look, Goto, stores, repairHistory
    <3> QED
      BY <2>1, <3>1, <3>2 DEF Shape, Chosen
  <2> QED
    BY <2>2, <2>3, <2>4 DEF Shape
<1>2. CASE FindRepair
  <2>1. Tables'
    BY <1>2 DEF Shape, Tables, FindRepair, stores
  <2>2. Locals'
    BY <1>0, <1>2 DEF Shape, Locals, FindRepair, Goto, stores, Steps, Reprojecting,
             repairHistory
  <2>3. Chosen'
    BY <1>0, <1>2 DEF Shape, Chosen, Locals, FindRepair, Goto, stores, repairHistory
  <2> QED
    BY <2>1, <2>2, <2>3 DEF Shape
<1>3. CASE AppendApply
  <2>1. PICK r \in seen, n \in Nat : item = <<<<r, n>>>>
    BY <1>3 DEF Shape, Chosen, AppendApply
  <2>2. item[1][1] = r /\ item[1][2] = n
    BY <2>1
  <2>3. Tables'
    BY <1>0, <1>3 DEF Shape, Tables, AppendApply, stores
  <2>4. Locals'
    BY <1>0, <1>3 DEF Shape, Locals, AppendApply, Goto, stores, Steps, Reprojecting
  <2>5. Chosen'
    BY <1>0, <1>3, <2>1, <2>2 DEF Shape, Chosen, Locals, AppendApply, Goto, stores
  <2> QED
    BY <2>3, <2>4, <2>5 DEF Shape
<1>4. CASE MarkResolved
  <2>1. PICK r \in seen, n \in Nat : item = <<<<r, n>>>>
    BY <1>4 DEF Shape, Chosen, MarkResolved
  <2>2. r \in Refs /\ item[1][1] = r /\ item[1][2] = n
    BY <2>1 DEF Shape, Tables
  <2> DEFINE marked == [memo EXCEPT ![r].status = "resolved"]
  <2>3. marked \in [Refs -> Row] /\ \A q \in Refs : marked[q] = NoRow <=> memo[q] = NoRow
    BY <1>4, <2>2, MarkedRows DEF Shape, Tables, Chosen, MarkResolved
  <2>4. rows' = Overlaid(marked, {})
    BY <1>4, <2>2 DEF MarkResolved
  <2> HIDE DEF marked
  <2>5. /\ rows' \in [Refs -> Row]
        /\ \A q \in Refs : rows'[q] = NoRow <=> memo[q] = NoRow
    BY <2>3, <2>4, OverlaidRows DEF Shape, Tables
  <2>6. Tables'
    BY <1>0, <1>4, <2>5 DEF Shape, Tables, MarkResolved, NoRows
  <2>7. Locals'
    BY <1>0, <1>4 DEF Shape, Locals, MarkResolved, Goto, Steps, Reprojecting
  <2>8. Chosen'
    BY <1>0, <1>4 DEF Shape, Chosen, Locals, MarkResolved, Goto
  <2> QED
    BY <2>6, <2>7, <2>8 DEF Shape
<1>5. CASE Dismiss
  <2>1. PICK r \in seen, n \in Nat : item = <<<<r, n>>>>
    BY <1>5 DEF Shape, Chosen, Dismiss
  <2>2. r \in Refs /\ item[1][1] = r
    BY <2>1 DEF Shape, Tables
  <2>3. Tables'
    BY <1>5, <2>2 DEF Shape, Tables, Dismiss
  <2>4. Locals'
    BY <1>0, <1>5 DEF Shape, Locals, Dismiss, Goto, Steps, Reprojecting, repairHistory
  <2>5. Chosen'
    BY <1>0, <1>5 DEF Shape, Chosen, Locals, Dismiss, Goto, repairHistory
  <2> QED
    BY <2>3, <2>4, <2>5 DEF Shape
<1>6. CASE OtherAction
  <2>1. Tables'
    BY <1>6 DEF Shape, Tables, OtherAction, stores
  <2>2. Locals'
    BY <1>0, <1>6 DEF Shape, Locals, OtherAction, Goto, stores, Steps, Reprojecting,
             repairHistory
  <2>3. Chosen'
    BY <1>0, <1>6 DEF Shape, Chosen, Locals, OtherAction, Goto, stores, repairHistory
  <2> QED
    BY <2>1, <2>2, <2>3 DEF Shape
<1> QED
  BY <1>1, <1>2, <1>3, <1>4, <1>5, <1>6

LEMMA ShapeOfCrash ==
    ASSUME Shape, NEW c \in Commands, Crash(c) PROVE Shape'
<1>1. Tables'
  BY NoRowIsNone DEF Shape, Tables, Crash, stores, NoRows
<1>2. Locals'
  BY DEF Shape, Locals, Crash, stores, Steps, Reprojecting
<1>3. Chosen'
  <2>1. CASE c = Screen
    <3>1. /\ item' = NoItem /\ pc'[Screen] = "idle" /\ UNCHANGED <<seen, applied, outrun>>
          /\ missed' = IF pc[Screen] = "mark" THEN missed \cup {item[1][1]} ELSE missed
      BY <2>1, Processes DEF Crash, Shape, Locals, stores
    <3>2. CASE pc[Screen] = "mark"
      <4>1. item[1][1] \in applied
        BY <3>2 DEF Shape, Chosen
      <4> QED
        BY <3>1, <3>2, <4>1 DEF Shape, Chosen
    <3>3. CASE pc[Screen] # "mark"
      BY <3>1, <3>3 DEF Shape, Chosen
    <3> QED
      BY <3>2, <3>3
  <2>2. CASE c # Screen
    <3>1. UNCHANGED <<item, memo, seen, applied, outrun>> /\ pc'[Screen] = pc[Screen]
      BY <2>2, Processes DEF Crash, Shape, Locals, stores
    <3>2. pc[c] # "mark"
      BY <2>2 DEF Shape, Locals
    <3>3. missed' = missed
      BY <3>2 DEF Crash
    <3> QED
      BY <3>1, <3>3 DEF Shape, Chosen
  <2> QED
    BY <2>1, <2>2
<1> QED
  BY <1>1, <1>2, <1>3 DEF Shape

(* What every step of Desk is, as far as the graph is concerned. *)
LEMMA StepsOfDesk ==
    ASSUME [Next]_vars
    PROVE  \/ \E c \in Commands :
                 \/ Passing(c) \/ ReadEvents(c) \/ BuildEdge(c)
                 \/ ReplaceEdges(c) \/ ReplaceRepairs(c) \/ Crash(c)
                 \/ \E r \in Refs : Observe(c, r)
                 \/ \E path \in Paths, e \in Noted : Identify(c, path, e)
           \/ \E r \in Refs : Look(r)
           \/ FindRepair \/ AppendApply \/ MarkResolved \/ Dismiss \/ OtherAction
           \/ UNCHANGED graphVars
<1>0. \A p \in Passes, c \in Commands : Pass(c, p[1], p[2]) => Passing(c)
  BY DEF Passing
<1>1. CASE GraphNext
  <2>1. \A c \in Commands : Begin(c) \/ Fetched(c) => Passing(c)
    BY <1>0 DEF Begin, Fetched, Passes
  <2> QED
    BY <1>1, <2>1, Processes DEF GraphNext, Step
<1>2. CASE QueueNext
  <2>1. \A k \in Commands : Reproject(k) => Passing(k) \/ ReadEvents(k)
    BY <1>0 DEF Reproject, Load, Read, Save, ReplaceChanges, Passes
  <2>2. Call => Passing(Screen)
    BY <1>0, Processes DEF Call, Passes
  <2> QED
    BY <1>2, <2>1, <2>2, Processes DEF QueueNext, LogInteraction, AppendAct, Learn, Tick
<1>3. CASE UNCHANGED vars
  BY <1>3 DEF vars
<1> QED
  BY <1>1, <1>2, <1>3 DEF Next

LEMMA ShapeStep == Shape /\ [Next]_vars => Shape'
<1> SUFFICES ASSUME Shape, [Next]_vars PROVE Shape'
  OBVIOUS
<1> QED
  BY StepsOfDesk, ShapeStays, ShapeOfPass, ShapeOfFetch, ShapeOfBuild,
     ShapeOfReplaceRepairs, ShapeOfScreen, ShapeOfCrash

(* The queue. *)
LEMMA QueueTypesInit == Init => QueueTypeOK /\ left \in [Kinds -> Nat]
<1> SUFFICES ASSUME Init PROVE QueueTypeOK /\ left \in [Kinds -> Nat]
  OBVIOUS
<1>1. left \in [Kinds -> Nat] /\ left.today \in 0..Days
  BY KnownBudgets DEF Init
<1> QED
  BY <1>1, Knowledge DEF Init, QueueInit, QueueTypeOK

LEMMA QueueTypesStep ==
    ASSUME QueueTypeOK, left \in [Kinds -> Nat], [Next]_vars
    PROVE  QueueTypeOK' /\ left' \in [Kinds -> Nat]
<1>0. \A kind \in Kinds : Spend(kind) => left' \in [Kinds -> Nat]
  BY DEF Spend
<1>1. CASE GraphNext /\ UNCHANGED queueVars
  <2>1. QueueTypeOK'
    BY <1>1 DEF QueueTypeOK, queueVars
  <2>2. \/ UNCHANGED left \/ \E kind \in Kinds : Spend(kind)
    BY <1>1
    DEF GraphNext, Begin, Step, Crash, Observe, Identify, Look, FindRepair, Dismiss,
        OtherAction, Fetched, BuildEdge, ReplaceEdges, ReplaceRepairs,
        AppendApply, MarkResolved, Kinds
  <2> QED
    BY <1>0, <2>1, <2>2
<1>2. CASE QueueNext
  <2>1. ASSUME NEW c \in People, NEW when \in 0..Days, LogInteraction(c, when)
        PROVE  QueueTypeOK' /\ Spend("talks")
    BY <2>1 DEF LogInteraction, Call, QueueTypeOK
  <2>2. ASSUME NEW c \in People,
               \/ AppendAct(c, "pin", 0) \/ AppendAct(c, "unpin", 0)
               \/ AppendAct(c, "snooze", now + Nap)
        PROVE  QueueTypeOK' /\ Spend("acts")
    <3>1. PICK type, until :
             /\ AppendAct(c, type, until)
             /\ \/ type \in {"pin", "unpin"} /\ until = 0
                \/ type = "snooze" /\ until = now + Nap
      BY <2>2
    <3>2. now + Nap \in Nat
      BY Weights DEF QueueTypeOK
    <3>3. [who |-> c, type |-> type, until |-> until] \in Act
      <4>1. CASE type \in {"pin", "unpin"} /\ until = 0
        BY <4>1 DEF Act
      <4>2. CASE type = "snooze" /\ until = now + Nap
        BY <3>2, <4>2 DEF Act
      <4> QED
        BY <3>1, <4>1, <4>2
    <3>4. /\ acts' = Append(acts, [who |-> c, type |-> type, until |-> until])
          /\ UNCHANGED <<now, talks, noted, profile, news, prev, latest>> /\ Spend("acts")
      BY <3>1 DEF AppendAct, Call
    <3>5. acts' \in Seq(Act)
      BY <3>3, <3>4 DEF QueueTypeOK
    <3> QED
      BY <3>4, <3>5 DEF QueueTypeOK
  <2>3. ASSUME NEW c \in People, NEW k \in Commands, NEW x \in Profiles, Learn(k, c, x)
        PROVE  QueueTypeOK' /\ Spend("news")
    BY <2>3 DEF Learn, QueueTypeOK
  <2>4. ASSUME NEW k \in Commands, Reproject(k) PROVE QueueTypeOK' /\ UNCHANGED left
    <3>1. CASE Load(k)
      BY <3>1 DEF Load, QueueTypeOK
    <3>2. CASE Read(k)
      BY <3>2 DEF Read, ReadEvents, QueueTypeOK
    <3>3. CASE Save(k)
      BY <3>3 DEF Save, QueueTypeOK
    <3>4. CASE ReplaceChanges(k)
      BY <3>4, Knowledge DEF ReplaceChanges, QueueTypeOK
    <3> QED
      BY <2>4, <3>1, <3>2, <3>3, <3>4 DEF Reproject
  <2>5. ASSUME Tick PROVE QueueTypeOK' /\ UNCHANGED left
    BY <2>5, Weights DEF Tick, QueueTypeOK
  <2>6. {"talks", "acts", "news"} \subseteq Kinds
    BY DEF Kinds
  <2> QED
    BY <1>0, <1>2, <2>1, <2>2, <2>3, <2>4, <2>5, <2>6 DEF QueueNext
<1>3. CASE UNCHANGED vars
  BY <1>3 DEF QueueTypeOK, vars, queueVars
<1> QED
  BY <1>1, <1>2, <1>3 DEF Next

LEMMA ShapeTypes == Shape => GraphTypeOK
<1> SUFFICES ASSUME Shape PROVE GraphTypeOK
  OBVIOUS
<1>1. \A r \in Refs : rows[r] = NoRow \/ rows[r].status \in Statuses
  BY NoRowIsNone DEF Shape, Tables
<1>2. edges \subseteq {Edge(r, e) : r \in Refs, e \in Entities}
  BY DEF Shape, Tables, AllEdges
<1> QED
  BY <1>1, <1>2 DEF Shape, Tables, Locals, Chosen, GraphTypeOK, Steps

(* The types of the desk: the tables and what the commands and the screen     *)
(* remember of them are what the code takes them for.                         *)
THEOREM DeskTypeCorrect == Spec => []TypeOK
<1> DEFINE Inv == Shape /\ QueueTypeOK /\ left \in [Kinds -> Nat]
<1>1. Init => Inv
  BY ShapeInit, QueueTypesInit DEF Init
<1>2. Inv /\ [Next]_vars => Inv'
  BY ShapeStep, QueueTypesStep
<1>3. Inv => TypeOK
  BY ShapeTypes DEF TypeOK
<1> QED
  BY <1>1, <1>2, <1>3, PTL DEF Spec

-----------------------------------------------------------------------------
(* The queue: what the operators of scoring.py return. *)

LEMMA MaxOfNumbers ==
    ASSUME NEW S \in SUBSET Int, IsFiniteSet(S), S # {}
    PROVE  Max(S) \in S /\ \A x \in S : Max(S) >= x
<1> DEFINE Has(T) == \E k \in T : \A j \in T : k >= j
           Lacking == {T \in SUBSET S : T # {} /\ ~Has(T)}
<1>1. Lacking = {}
  <2> SUFFICES ASSUME Lacking # {} PROVE FALSE
    OBVIOUS
  <2>1. IsWellFoundedOn(StrictSubsetOrdering(S), SUBSET S)
    BY FS_StrictSubsetOrderingWellFounded, FS_FiniteSubsetsOfFinite
  <2>2. PICK T \in Lacking : \A U \in Lacking : ~(<<U, T>> \in StrictSubsetOrdering(S))
    <3>1. Lacking \subseteq SUBSET S
      OBVIOUS
    <3> HIDE DEF Lacking
    <3> QED
      BY <2>1, <3>1, WFMin
  <2>3. PICK x \in T : TRUE
    BY <2>2
  <2>4. T \in SUBSET S /\ T \ {x} \in SUBSET S /\ T \ {x} # T /\ ~Has(T)
    BY <2>2, <2>3
  <2>5. <<T \ {x}, T>> \in StrictSubsetOrdering(S)
    BY <2>4 DEF StrictSubsetOrdering
  <2>6. T \ {x} = {} \/ Has(T \ {x})
    BY <2>2, <2>4, <2>5
  <2>7. CASE T \ {x} = {}
    BY <2>3, <2>4, <2>7
  <2>8. CASE Has(T \ {x})
    <3>1. PICK k \in T \ {x} : \A j \in T \ {x} : k >= j
      BY <2>8
    <3>2. x \in Int /\ k \in Int /\ T \subseteq Int
      BY <2>3, <2>4
    <3>3. CASE k >= x
      BY <2>4, <3>1, <3>2, <3>3
    <3>4. CASE x >= k
      BY <2>3, <2>4, <3>1, <3>2, <3>4
    <3> QED
      BY <3>2, <3>3, <3>4
  <2> QED
    BY <2>6, <2>7, <2>8
<1>2. \E k \in S : \A j \in S : k >= j
  BY <1>1
<1> QED
  BY <1>2 DEF Max

LEMMA MaxOfTwo ==
    ASSUME NEW x \in Int, NEW y \in Int
    PROVE  Max({x, y}) \in {x, y} /\ Max({x, y}) >= x /\ Max({x, y}) >= y
<1>1. \E k \in {x, y} : \A j \in {x, y} : k >= j
  OBVIOUS
<1> QED
  BY <1>1 DEF Max

LEMMA MinOfTwo ==
    ASSUME NEW x \in Int, NEW y \in Int
    PROVE  Min({x, y}) \in {x, y} /\ Min({x, y}) <= x /\ Min({x, y}) <= y
<1>1. \E k \in {x, y} : \A j \in {x, y} : k <= j
  OBVIOUS
<1> QED
  BY <1>1 DEF Min

LEMMA ClampIsBetween ==
    ASSUME NEW x \in Int, NEW hi \in Nat PROVE Clamp(x, 0, hi) \in 0..hi
<1> DEFINE low == Min({hi, x})
           both == Max({0, low})
<1>1. low \in Int /\ low <= hi
  BY MinOfTwo
<1> HIDE DEF low
<1>2. both \in {0, low} /\ both >= 0
  BY <1>1, MaxOfTwo
<1> HIDE DEF both
<1>3. both \in 0..hi
  BY <1>1, <1>2
<1> QED
  BY <1>3 DEF Clamp, both, low

(* When a contact was last met is the day of an interaction with it that none *)
(* is later than, or NeverMet.                                                *)
LEMMA LatestIsLast ==
    ASSUME NEW c \in People, NEW ts \in Seq(People \X (0..Days))
    PROVE  LET met == LatestInteraction(c, ts)
               own == {k \in DOMAIN ts : ts[k][1] = c}
           IN  /\ met \in Int /\ met >= NeverMet
               /\ met = NeverMet \/ \E k \in own : ts[k][2] = met
               /\ \A k \in own : ts[k][2] <= met
<1> DEFINE own == {j \in DOMAIN ts : ts[j][1] = c}
           met == {ts[k][2] : k \in own}
<1>1. DOMAIN ts = 1..Len(ts) /\ Len(ts) \in Nat /\ \A k \in DOMAIN ts : ts[k][2] \in 0..Days
  OBVIOUS
<1>2. IsFiniteSet(own)
  <2>1. IsFiniteSet(DOMAIN ts)
    BY <1>1, FS_Interval
  <2> QED
    BY <2>1, FS_Subset
<1>3. IsFiniteSet(met)
  <2> DEFINE day == [k \in own |-> ts[k][2]]
  <2>1. day \in Surjection(own, met)
    BY DEF Surjection
  <2> HIDE DEF own, met, day
  <2> QED
    BY <1>2, <2>1, FS_Surjection
<1>4. met \subseteq Int /\ \A d \in met : d \in Int
  BY <1>1
<1>5. \A k \in own : ts[k][2] \in met
  OBVIOUS
<1>6. \A d \in met : \E k \in own : ts[k][2] = d
  OBVIOUS
<1> DEFINE last == Max({NeverMet} \cup met)
<1> HIDE DEF met
<1>7. {NeverMet} \cup met \in SUBSET Int
  BY <1>4 DEF NeverMet
<1>8. IsFiniteSet({NeverMet} \cup met)
  BY <1>3, FS_Singleton, FS_Union
<1>9. last \in {NeverMet} \cup met /\ \A d \in {NeverMet} \cup met : last >= d
  BY <1>7, <1>8, MaxOfNumbers
<1>10. LatestInteraction(c, ts) = last
  BY DEF LatestInteraction, met
<1> HIDE DEF last, own
<1>11. last \in Int /\ last >= NeverMet /\ NeverMet \in Int
  BY <1>4, <1>9 DEF NeverMet
<1>12. last = NeverMet \/ \E k \in own : ts[k][2] = last
  BY <1>6, <1>9
<1>13. \A k \in own : ts[k][2] <= last
  BY <1>4, <1>5, <1>9, <1>11
<1> QED
  BY <1>10, <1>11, <1>12, <1>13 DEF own

(* Every profile has a tier, and a cadence, whatever is known. *)
LEMMA ProfileIsRated ==
    ASSUME NEW x \in Profiles
    PROVE  /\ Tier(x) \in DOMAIN TierWeight /\ TierWeight[Tier(x)] \in Nat
           /\ CadenceDays(x) \in Int
<1>1. Tier(x) \in DOMAIN TierWeight
  BY Weights DEF Tier
<1>2. TierWeight[Tier(x)] \in Nat /\ CadenceDefault[Tier(x)] \in Int
  BY <1>1, Weights
<1>3. CadenceDays(x) \in Int
  BY <1>2, Knowledge DEF CadenceDays
<1> QED
  BY <1>1, <1>2, <1>3

LEMMA OverdueIsCapped ==
    ASSUME NEW c \in People, NEW x \in Profiles, NEW ts \in Seq(People \X (0..Days)),
           NEW at \in 0..Days
    PROVE  Overdue(c, x, ts, at) \in 0..(3 * Unit)
<1> DEFINE met == LatestInteraction(c, ts)
           days == CadenceDays(x)
<1>1. Unit \in Nat /\ Days \in Nat /\ days \in Int /\ at \in Int /\ 3 * Unit \in Nat
  BY Weights, ProfileIsRated
<1>2. met \in Int
  BY LatestIsLast
<1> HIDE DEF met, days
<1>3. CASE days > 0
  <2>1. (at - met) * Unit \in Int
    BY <1>1, <1>2
  <2>2. ((at - met) * Unit) \div days \in Int
    BY <1>1, <1>3, <2>1
  <2>3. Clamp(((at - met) * Unit) \div days, 0, 3 * Unit) \in 0..(3 * Unit)
    BY <1>1, <2>2, ClampIsBetween
  <2> QED
    BY <1>1, <1>3, <2>3 DEF Overdue, met, days
<1>4. CASE ~(days > 0)
  BY <1>1, <1>4 DEF Overdue, met, days
<1> QED
  BY <1>3, <1>4

LEMMA TimesWeight ==
    ASSUME NEW x \in Nat, NEW y \in Nat, x <= y, NEW w \in Nat
    PROVE  x * w \in Nat /\ x * w <= y * w
  OBVIOUS

(* Dividing by the same keeps the order of what is divided. *)
LEMMA QuotientGrows ==
    ASSUME NEW x \in Int, NEW y \in Int, x <= y, NEW d \in Int, d > 0
    PROVE  x \div d \in Int /\ y \div d \in Int /\ x \div d <= y \div d
<1> DEFINE q == x \div d
           r == y \div d
<1>1. q \in Int /\ r \in Int /\ d * q <= x /\ y < d * r + d
  OBVIOUS
<1> HIDE DEF q, r
<1>2. CASE q <= r
  BY <1>2 DEF q, r
<1>3. CASE q > r
  <2> DEFINE k == q - (r + 1)
  <2>1. k \in Nat /\ q = r + 1 + k
    BY <1>1, <1>3
  <2> HIDE DEF k
  <2>2. d * q = d * r + d + d * k
    BY <1>1, <2>1
  <2>3. d * k >= 0 /\ d * k \in Int /\ d * r \in Int
    BY <1>1, <2>1
  <2> QED
    BY <1>1, <2>2, <2>3
<1> QED
  BY <1>1, <1>2, <1>3

(* More open changes weigh no less. *)
LEMMA TenthsGrow ==
    ASSUME NEW T \in SUBSET Volatile, NEW S \in SUBSET T
    PROVE  Tenths(S) \in Nat /\ Tenths(T) \in Nat /\ Tenths(S) <= Tenths(T)
<1> DEFINE Blocks(X) == {{f} \X (1..EventWeight[f]) : f \in X}
<1>1. ASSUME NEW X \in SUBSET Volatile PROVE IsFiniteSet(UNION Blocks(X))
  <2> DEFINE block == [f \in X |-> {f} \X (1..EventWeight[f])]
  <2>1. IsFiniteSet(X)
    BY Weights, FS_Subset
  <2>2. \A f \in X : IsFiniteSet({f} \X (1..EventWeight[f]))
    <3> SUFFICES ASSUME NEW f \in X PROVE IsFiniteSet({f} \X (1..EventWeight[f]))
      OBVIOUS
    <3>1. EventWeight[f] \in Int
      BY Weights
    <3>2. IsFiniteSet({f})
      BY FS_Singleton
    <3>3. IsFiniteSet(1..EventWeight[f])
      BY <3>1, FS_Interval
    <3> QED
      BY <3>2, <3>3, FS_Product
  <2>3. block \in Surjection(X, Blocks(X))
    <3>1. \A f \in X : block[f] \in Blocks(X)
      OBVIOUS
    <3>2. \A B \in Blocks(X) : \E f \in X : block[f] = B
      OBVIOUS
    <3>3. block = [f \in X |-> block[f]]
      OBVIOUS
    <3> HIDE DEF block, Blocks
    <3> QED
      BY <3>1, <3>2, <3>3 DEF Surjection
  <2>4. \A B \in Blocks(X) : IsFiniteSet(B)
    BY <2>2
  <2> HIDE DEF block, Blocks
  <2>5. IsFiniteSet(Blocks(X))
    BY <2>1, <2>3, FS_Surjection
  <2> QED
    BY <2>4, <2>5, FS_UNION
<1>2. UNION Blocks(S) \in SUBSET (UNION Blocks(T))
  OBVIOUS
<1>3. IsFiniteSet(UNION Blocks(S)) /\ IsFiniteSet(UNION Blocks(T))
  BY <1>1
<1>4. Tenths(S) = Cardinality(UNION Blocks(S)) /\ Tenths(T) = Cardinality(UNION Blocks(T))
  BY DEF Tenths
<1> HIDE DEF Blocks
<1> QED
  BY <1>2, <1>3, <1>4, FS_CardinalityType, FS_Subset

LEMMA BoostGrows ==
    ASSUME NEW T \in SUBSET Volatile, NEW open \in SUBSET T
    PROVE  /\ EventBoost(open) \in Nat /\ EventBoost(T) \in Nat
           /\ EventBoost(open) <= EventBoost(T)
<1> DEFINE some == Tenths(open)
           all == Tenths(T)
<1>1. some \in Nat /\ all \in Nat /\ some <= all
  BY TenthsGrow
<1>2. Unit \in Nat
  BY Weights
<1> HIDE DEF some, all
<1>3. some * Unit \in Nat /\ all * Unit \in Nat /\ some * Unit <= all * Unit
  BY <1>1, <1>2, TimesWeight
<1>4. /\ (some * Unit) \div 20 \in Nat /\ (all * Unit) \div 20 \in Nat
      /\ (some * Unit) \div 20 <= (all * Unit) \div 20
  BY <1>3
<1> QED
  BY <1>4 DEF EventBoost, some, all

(* What a contact scores that is not pinned stays below the floor. *)
Base(c) ==
    (Overdue(c, profile[c], talks, now) + EventBoost(news[c])) * TierWeight[Tier(profile[c])]

LEMMA BaseBelowFloor ==
    ASSUME QueueTypeOK, NEW c \in People
    PROVE  Base(c) \in Nat /\ PinFloor \in Nat /\ Base(c) < PinFloor
<1> DEFINE overdue == Overdue(c, profile[c], talks, now)
           boost == EventBoost(news[c])
           most == EventBoost(Volatile)
           weight == TierWeight[Tier(profile[c])]
<1>1. profile[c] \in Profiles /\ news[c] \in SUBSET Volatile
  BY DEF QueueTypeOK
<1>2. overdue \in 0..(3 * Unit)
  BY <1>1, OverdueIsCapped DEF QueueTypeOK
<1>3. boost \in Nat /\ most \in Nat /\ boost <= most
  BY <1>1, BoostGrows
<1>4. Unit \in Nat /\ weight \in Nat
  BY <1>1, Weights, ProfileIsRated
<1>5. (3 * Unit + most) * weight < PinFloor
  BY <1>1, FloorIsHigh, ProfileIsRated DEF EventBoost
<1> HIDE DEF overdue, boost, most, weight
<1>6. overdue + boost \in Nat /\ 3 * Unit + most \in Nat /\ overdue + boost <= 3 * Unit + most
  BY <1>2, <1>3, <1>4
<1>7. /\ (overdue + boost) * weight \in Nat
      /\ (3 * Unit + most) * weight \in Nat
      /\ (overdue + boost) * weight <= (3 * Unit + most) * weight
  BY <1>4, <1>6, TimesWeight
<1>8. PinFloor \in Nat
  BY <1>4 DEF PinFloor
<1>9. (overdue + boost) * weight < PinFloor
  BY <1>5, <1>7, <1>8
<1> QED
  BY <1>7, <1>8, <1>9 DEF Base, overdue, boost, weight

(* A score is its base, or the floor if that is more and the contact pinned. *)
LEMMA ScoreIsBase ==
    ASSUME NEW c \in People
    PROVE  ScoreNow(c) = IF Pinned(c, acts) THEN Max({Base(c), PinFloor}) ELSE Base(c)
  BY DEF ScoreNow, Score, Base

(* A pinned contact comes first however long others have been waiting and     *)
(* whatever has changed about them, for any cadences, tiers and histories.    *)
THEOREM PinnedComeFirst == Spec => []PinnedFirst
<1>1. QueueTypeOK => PinnedFirst
  <2> SUFFICES ASSUME QueueTypeOK, NEW c \in People, NEW d \in People,
                      Pinned(c, acts), ~Pinned(d, acts)
               PROVE  ScoreNow(c) > ScoreNow(d)
    BY DEF PinnedFirst, Live
  <2> DEFINE top == Max({Base(c), PinFloor})
  <2>1. Base(c) \in Nat /\ Base(d) \in Nat /\ PinFloor \in Nat /\ Base(d) < PinFloor
    BY BaseBelowFloor
  <2>2. ScoreNow(c) = top /\ ScoreNow(d) = Base(d)
    BY ScoreIsBase
  <2>3. top \in {Base(c), PinFloor} /\ top >= PinFloor
    <3>1. Base(c) \in Int /\ PinFloor \in Int
      BY <2>1
    <3> QED
      BY <3>1, MaxOfTwo
  <2> HIDE DEF top
  <2> QED
    BY <2>1, <2>2, <2>3
<1>2. TypeOK => QueueTypeOK
  BY DEF TypeOK
<1> QED
  BY <1>1, <1>2, DeskTypeCorrect, PTL

(* Clamp keeps an order. *)
LEMMA ClampGrows ==
    ASSUME NEW x \in Int, NEW y \in Int, x <= y, NEW hi \in Nat
    PROVE  Clamp(x, 0, hi) <= Clamp(y, 0, hi)
<1> DEFINE lowX == Min({hi, x})
           lowY == Min({hi, y})
           topX == Max({0, lowX})
           topY == Max({0, lowY})
<1>1. lowX \in {hi, x} /\ lowX <= hi /\ lowX <= x
  BY MinOfTwo
<1>2. lowY \in {hi, y} /\ lowY <= hi /\ lowY <= y
  BY MinOfTwo
<1> HIDE DEF lowX, lowY
<1>3. lowX \in Int /\ lowY \in Int /\ lowX <= lowY
  BY <1>1, <1>2
<1>4. topX \in {0, lowX} /\ topX >= 0 /\ topX >= lowX
  BY <1>3, MaxOfTwo
<1>5. topY \in {0, lowY} /\ topY >= 0 /\ topY >= lowY
  BY <1>3, MaxOfTwo
<1> HIDE DEF topX, topY
<1>6. topX <= topY
  BY <1>3, <1>4, <1>5
<1> QED
  BY <1>6 DEF Clamp, topX, topY, lowX, lowY

(* A contact not met since is no less overdue on a later day. *)
LEMMA OverdueGrows ==
    ASSUME NEW c \in People, NEW x \in Profiles, NEW y \in Profiles,
           CadenceDays(y) = CadenceDays(x),
           NEW ts \in Seq(People \X (0..Days)), NEW us \in Seq(People \X (0..Days)),
           LatestInteraction(c, us) = LatestInteraction(c, ts),
           NEW at \in 0..Days, NEW later \in 0..Days, at <= later
    PROVE  Overdue(c, x, ts, at) <= Overdue(c, y, us, later)
<1> DEFINE met == LatestInteraction(c, ts)
           days == CadenceDays(x)
<1>1. Unit \in Nat /\ days \in Int /\ at \in Int /\ later \in Int /\ 3 * Unit \in Nat
  BY Weights, ProfileIsRated
<1>2. met \in Int
  BY LatestIsLast
<1>3. LatestInteraction(c, us) = met /\ CadenceDays(y) = days
  OBVIOUS
<1> HIDE DEF met, days
<1>4. CASE met # NeverMet /\ days > 0
  <2> DEFINE before == (at - met) * Unit
             after == (later - met) * Unit
  <2>1. before \in Int /\ after \in Int /\ before <= after
    <3> DEFINE gap == later - at
    <3>1. gap \in Nat /\ (later - met) * Unit = (at - met) * Unit + gap * Unit
      BY <1>1, <1>2
    <3> HIDE DEF gap
    <3>2. gap * Unit \in Nat
      BY <1>1, <3>1
    <3>3. (at - met) * Unit \in Int
      BY <1>1, <1>2
    <3> QED
      BY <3>1, <3>2, <3>3
  <2> HIDE DEF before, after
  <2>2. /\ before \div days \in Int /\ after \div days \in Int
        /\ before \div days <= after \div days
    BY <1>1, <1>4, <2>1, QuotientGrows
  <2>3. Clamp(before \div days, 0, 3 * Unit) <= Clamp(after \div days, 0, 3 * Unit)
    BY <1>1, <2>2, ClampGrows
  <2> QED
    BY <1>3, <1>4, <2>3 DEF Overdue, met, days, before, after
<1>5. CASE ~(met # NeverMet /\ days > 0)
  <2>1. Overdue(c, x, ts, at) = Overdue(c, y, us, later)
    BY <1>3, <1>5 DEF Overdue, met, days
  <2>2. Overdue(c, y, us, later) \in 0..(3 * Unit)
    BY OverdueIsCapped
  <2> QED
    BY <1>1, <2>1, <2>2
<1> QED
  BY <1>4, <1>5

LEMMA BasesAreNumbers ==
    ASSUME QueueTypeOK, QueueTypeOK', NEW c \in People
    PROVE  Base(c) \in Nat /\ Base(c)' \in Nat
<1> DEFINE later == Overdue(c, profile'[c], talks', now')
           new == EventBoost(news'[c])
           weight == TierWeight[Tier(profile'[c])]
<1>1. profile'[c] \in Profiles /\ news'[c] \in SUBSET Volatile
  BY DEF QueueTypeOK
<1>2. later \in 0..(3 * Unit)
  BY <1>1, OverdueIsCapped DEF QueueTypeOK
<1>3. new \in Nat
  BY <1>1, BoostGrows
<1>4. weight \in Nat /\ Unit \in Nat
  BY <1>1, ProfileIsRated, Weights
<1>5. Base(c)' = (later + new) * weight
  BY DEF Base
<1> HIDE DEF later, new, weight
<1>6. (later + new) * weight \in Nat
  BY <1>2, <1>3, <1>4
<1> QED
  BY <1>5, <1>6, BaseBelowFloor

(* A score falls no further than its base, unless it is unpinned. *)
LEMMA ScoreFollowsBase ==
    ASSUME QueueTypeOK, QueueTypeOK', NEW c \in People, NEW less \in Nat,
           Base(c) <= Base(c)' + less,
           Pinned(c, acts) => Pinned(c, acts')
    PROVE  ScoreNow(c) <= ScoreNow(c)' + less /\ ScoreNow(c) \in Nat /\ ScoreNow(c)' \in Nat
<1> DEFINE base == Base(c)
           later == Base(c)'
           top == Max({base, PinFloor})
           above == Max({later, PinFloor})
<1>1. base \in Nat /\ PinFloor \in Nat
  BY BaseBelowFloor
<1>2. later \in Nat
  BY BasesAreNumbers
<1>3. /\ ScoreNow(c) = IF Pinned(c, acts) THEN top ELSE base
      /\ ScoreNow(c)' = IF Pinned(c, acts') THEN above ELSE later
  BY DEF ScoreNow, Score, Base
<1> HIDE DEF base, later
<1>4. base \in Int /\ later \in Int /\ PinFloor \in Int
  BY <1>1, <1>2
<1>5. top \in {base, PinFloor} /\ top >= base /\ top >= PinFloor
  BY <1>4, MaxOfTwo
<1>6. above \in {later, PinFloor} /\ above >= later /\ above >= PinFloor
  BY <1>4, MaxOfTwo
<1>7. base <= later + less
  BY DEF base, later
<1> HIDE DEF top, above
<1> QED
  BY <1>1, <1>2, <1>3, <1>5, <1>6, <1>7

(* While its rating and its open changes stay, a base follows the days; when  *)
(* they are replaced, it loses at most what the changes had added.            *)
LEMMA BaseGrows ==
    ASSUME QueueTypeOK, QueueTypeOK', NEW c \in People,
           Tier(profile'[c]) = Tier(profile[c]),
           CadenceDays(profile'[c]) = CadenceDays(profile[c]),
           LatestInteraction(c, talks') = LatestInteraction(c, talks), now <= now'
    PROVE  /\ Base(c) <= Base(c)' + Boost(c) /\ Boost(c) \in Nat
           /\ news'[c] = news[c] => Base(c) <= Base(c)'
<1> DEFINE overdue == Overdue(c, profile[c], talks, now)
           later == Overdue(c, profile'[c], talks', now')
           boost == EventBoost(news[c])
           new == EventBoost(news'[c])
           weight == TierWeight[Tier(profile[c])]
<1>1. /\ profile[c] \in Profiles /\ profile'[c] \in Profiles
      /\ news[c] \in SUBSET Volatile /\ news'[c] \in SUBSET Volatile
  BY DEF QueueTypeOK
<1>2. overdue \in 0..(3 * Unit) /\ later \in 0..(3 * Unit) /\ overdue <= later
  BY <1>1, OverdueIsCapped, OverdueGrows DEF QueueTypeOK
<1>3. boost \in Nat /\ new \in Nat
  BY <1>1, BoostGrows
<1>4. weight \in Nat /\ Unit \in Nat
  BY <1>1, ProfileIsRated, Weights
<1>5. /\ Base(c) = (overdue + boost) * weight /\ Boost(c) = boost * weight
      /\ Base(c)' = (later + new) * weight
  BY DEF Base, Boost
<1>6. news'[c] = news[c] => new = boost
  OBVIOUS
<1> HIDE DEF overdue, later, boost, new, weight
<1>7. /\ (overdue + boost) * weight = overdue * weight + boost * weight
      /\ (later + new) * weight = later * weight + new * weight
      /\ overdue * weight \in Nat /\ boost * weight \in Nat
      /\ later * weight \in Nat /\ new * weight \in Nat
  BY <1>2, <1>3, <1>4
<1>8. overdue * weight <= later * weight
  BY <1>2, <1>4, TimesWeight
<1> QED
  BY <1>5, <1>6, <1>7, <1>8

(* An interaction that was not the latest leaves the latest what it was. *)
LEMMA LatestStays ==
    ASSUME NEW c \in People, NEW d \in People, NEW when \in 0..Days,
           NEW ts \in Seq(People \X (0..Days)),
           d = c => \E k \in DOMAIN ts : ts[k][1] = c /\ when <= ts[k][2]
    PROVE  LatestInteraction(c, Append(ts, <<d, when>>)) = LatestInteraction(c, ts)
<1> DEFINE us == Append(ts, <<d, when>>)
           met == LatestInteraction(c, ts)
           new == LatestInteraction(c, us)
           n == Len(ts)
<1>1. /\ n \in Nat /\ DOMAIN ts = 1..n
      /\ DOMAIN us = 1..(n + 1)
      /\ us[n + 1] = <<d, when>>
      /\ \A k \in 1..n : us[k] = ts[k]
  OBVIOUS
<1>2. us \in Seq(People \X (0..Days))
  OBVIOUS
<1>3. when \in Int /\ \A k \in 1..n : ts[k][2] \in Int
  BY <1>1
<1> HIDE DEF us
<1>4. /\ met \in Int /\ met >= NeverMet
      /\ met = NeverMet \/ \E k \in DOMAIN ts : ts[k][1] = c /\ ts[k][2] = met
      /\ \A k \in DOMAIN ts : ts[k][1] = c => ts[k][2] <= met
  BY LatestIsLast
<1>5. /\ new \in Int /\ new >= NeverMet
      /\ new = NeverMet \/ \E k \in DOMAIN us : us[k][1] = c /\ us[k][2] = new
      /\ \A k \in DOMAIN us : us[k][1] = c => us[k][2] <= new
  BY <1>2, LatestIsLast
<1> HIDE DEF met, new, n
<1>6. NeverMet \in Int
  BY DEF NeverMet
<1>7. met <= new
  <2>1. CASE met = NeverMet
    BY <1>5, <2>1
  <2>2. ASSUME NEW k \in 1..n, ts[k][1] = c, ts[k][2] = met PROVE met <= new
    <3>1. k \in DOMAIN us /\ us[k] = ts[k]
      BY <1>1, <2>2
    <3> QED
      BY <1>5, <2>2, <3>1
  <2> QED
    BY <1>1, <1>4, <2>1, <2>2
<1>8. new <= met
  <2>1. CASE new = NeverMet
    BY <1>4, <2>1
  <2>2. ASSUME NEW k \in 1..(n + 1), us[k][1] = c, us[k][2] = new PROVE new <= met
    <3>1. CASE k \in 1..n
      BY <1>1, <1>4, <2>2, <3>1
    <3>2. CASE k = n + 1
      <4>1. d = c /\ when = new
        BY <1>1, <2>2, <3>2
      <4>2. PICK j \in 1..n : ts[j][1] = c /\ when <= ts[j][2]
        BY <1>1, <4>1
      <4>3. ts[j][2] <= met
        BY <1>1, <1>4, <4>2
      <4> QED
        BY <1>3, <1>4, <1>5, <4>1, <4>2, <4>3
    <3> QED
      BY <1>1, <3>1, <3>2
  <2> QED
    BY <1>1, <1>5, <2>1, <2>2
<1>9. met = new
  BY <1>4, <1>5, <1>7, <1>8
<1> QED
  BY <1>9 DEF met, new, us

(* Whatever happens, a contact moves down only because it was dealt with or   *)
(* rated anew, but for the part that its open changes had, which the next     *)
(* reprojection may take: for any cadences, weights and histories.            *)
THEOREM OnlyDealingCalmsDown == Spec => OnlyDealingCalms
<1> DEFINE Calm(c) == ScoreNow(c)' < ScoreNow(c) =>
                          \/ MetLater(c)
                          \/ Pinned(c, acts) /\ ~Pinned(c, acts')
                          \/ Rerated(c)
                          \/ /\ \E k \in Commands : ReplaceChanges(k)
                             /\ ScoreNow(c)' + Boost(c) >= ScoreNow(c)
<1>1. ASSUME TypeOK, TypeOK', [Next]_vars
      PROVE  [\A c \in People : Calm(c)]_queueVars
  <2> SUFFICES ASSUME queueVars' # queueVars, NEW c \in People, ~MetLater(c), ~Rerated(c),
                      Pinned(c, acts) => Pinned(c, acts')
               PROVE  ScoreNow(c)' < ScoreNow(c) =>
                          /\ \E k \in Commands : ReplaceChanges(k)
                          /\ ScoreNow(c)' + Boost(c) >= ScoreNow(c)
    OBVIOUS
  <2>1. QueueTypeOK /\ QueueTypeOK'
    BY <1>1 DEF TypeOK
  <2>2. QueueNext
    BY <1>1 DEF Next, vars
  <2>3. LatestInteraction(c, talks') = LatestInteraction(c, talks) /\ now <= now'
    <3>1. ASSUME NEW d \in People, NEW when \in 0..Days, LogInteraction(d, when)
          PROVE  LatestInteraction(c, talks') = LatestInteraction(c, talks) /\ now <= now'
      <4>1. talks' = Append(talks, <<d, when>>) /\ now' = now
        BY <3>1 DEF LogInteraction, Call
      <4>2. talks \in Seq(People \X (0..Days)) /\ now \in 0..Days
        BY <2>1 DEF QueueTypeOK
      <4>3. d = c => \E k \in DOMAIN talks : talks[k][1] = c /\ when <= talks[k][2]
        <5> SUFFICES ASSUME d = c
                     PROVE  \E k \in DOMAIN talks : talks[k][1] = c /\ when <= talks[k][2]
          OBVIOUS
        <5>1. Len(talks') > Len(talks) /\ talks'[Len(talks')] = <<c, when>>
          BY <4>1, <4>2
        <5>2. PICK k \in DOMAIN talks : talks[k][1] = c /\ ~(talks[k][2] < when)
          BY <5>1 DEF MetLater
        <5>3. talks[k][2] \in Int /\ when \in Int
          BY <4>2
        <5> QED
          BY <5>2, <5>3
      <4>4. LatestInteraction(c, talks') = LatestInteraction(c, talks)
        BY <4>1, <4>2, <4>3, LatestStays
      <4> QED
        BY <4>1, <4>2, <4>4
    <3>2. CASE talks' = talks /\ now' = now
      BY <2>1, <3>2 DEF QueueTypeOK
    <3>3. CASE Tick
      BY <2>1, <3>3 DEF Tick, QueueTypeOK
    <3> QED
      BY <2>2, <3>1, <3>2, <3>3
      DEF QueueNext, AppendAct, Call, Learn, Reproject, Load, Read, Save, ReplaceChanges
  <2>4. /\ Tier(profile'[c]) = Tier(profile[c])
        /\ CadenceDays(profile'[c]) = CadenceDays(profile[c])
    BY DEF Rerated, Tier, CadenceDays
  <2>5. /\ Base(c) <= Base(c)' + Boost(c) /\ Boost(c) \in Nat
        /\ news'[c] = news[c] => Base(c) <= Base(c)'
    BY <2>1, <2>3, <2>4, BaseGrows
  <2>6. CASE news'[c] = news[c]
    <3>1. Base(c)' \in Nat /\ Base(c) \in Nat
      BY <2>1, BasesAreNumbers
    <3>2. Base(c) <= Base(c)' + 0
      BY <2>5, <2>6, <3>1
    <3>3. /\ ScoreNow(c) <= ScoreNow(c)' + 0
          /\ ScoreNow(c) \in Nat /\ ScoreNow(c)' \in Nat
      BY <2>1, <3>2, ScoreFollowsBase
    <3> QED
      BY <3>3
  <2>7. CASE news'[c] # news[c]
    <3>1. \E k \in Commands : ReplaceChanges(k)
      BY <2>2, <2>7
      DEF QueueNext, LogInteraction, AppendAct, Call, Learn, Reproject, Load, Read, Save,
          Tick
    <3>2. /\ ScoreNow(c) <= ScoreNow(c)' + Boost(c)
          /\ ScoreNow(c) \in Nat /\ ScoreNow(c)' \in Nat
      BY <2>1, <2>5, ScoreFollowsBase
    <3> QED
      BY <2>5, <3>1, <3>2
  <2> QED
    BY <2>6, <2>7
<1> QED
  BY <1>1, DeskTypeCorrect, PTL DEF Spec, OnlyDealingCalms

-----------------------------------------------------------------------------
(* One command at a time: how much of the two tables each phase of the one    *)
(* that runs has brought up to date.                                          *)

Quiet == ~overlapped /\ ~crashed
OneAtATime == \A c, d \in Commands : Busy(c) /\ Busy(d) => c = d
TablesExact == edges = TrueEdges /\ Repairs = seen \ Resolved
Known(r) == Resolve(r, owner) # Nobody

Building(c) ==
    /\ built[c] = {Edge(r, Resolve(r, owner)) : r \in Resolved \ todo[c]}
    /\ broken[c] = (seen \ todo[c]) \ Resolved

Phase(c) ==
    /\ pc[c] \in {"save", "build"} => Building(c)
    /\ pc[c] \in {"changes", "repairs"} => edges = TrueEdges /\ broken[c] = seen \ Resolved

OnScreen ==
    /\ (\A c \in Commands : ~Busy(c)) => TablesExact
    /\ pc[Screen] \in {"act", "mark"} => TablesExact /\ memo = rows

ExactInv ==
    Quiet => OneAtATime /\ (\A c \in Commands : Phase(c)) /\ OnScreen

LEMMA SameReferences ==
    ASSUME UNCHANGED <<seen, owner>>
    PROVE  /\ Resolved' = Resolved /\ TrueEdges' = TrueEdges
           /\ \A r \in Refs : Known(r)' <=> Known(r)
<1>1. \A r \in Refs : Resolve(r, owner)' = Resolve(r, owner)
  BY DEF Resolve
<1>2. Resolved' = Resolved
  BY DEF Resolved, Resolve
<1>3. TrueEdges' = TrueEdges
  BY <1>2 DEF TrueEdges, Resolve, Edge
<1> QED
  BY <1>1, <1>2, <1>3 DEF Known

LEMMA SameTables ==
    ASSUME UNCHANGED <<seen, owner, edges, rows>>
    PROVE  TablesExact' <=> TablesExact
  BY SameReferences DEF TablesExact, Repairs

(* A command that goes on is the only one that runs. *)
LEMMA GoesOnAlone ==
    ASSUME Locals, ExactInv, NEW c \in Commands, NEW step, Goto(c, step), UNCHANGED crashed,
           Quiet', Busy(c) \/ step \notin {"idle", "look"}
    PROVE  /\ Quiet /\ OneAtATime'
           /\ pc'[c] = step
           /\ \A d \in Commands \ {c} : pc[d] \in {"idle", "look"} /\ pc'[d] = pc[d]
<1>1. Quiet
  BY Zenon DEF Quiet, Goto
<1>2. \A d \in Commands \ {c} : ~Busy(d)
  <2>1. CASE Busy(c)
    BY <1>1, <2>1 DEF ExactInv, OneAtATime
  <2>2. CASE ~Busy(c) /\ step \notin {"idle", "look"}
    BY Zenon, <2>2 DEF Quiet, Goto
  <2> QED
    BY <2>1, <2>2
<1>3. pc'[c] = step /\ \A d \in Commands \ {c} : pc'[d] = pc[d]
  BY DEF Locals, Goto
<1>4. \A d \in Commands \ {c} : pc[d] \in {"idle", "look"}
  BY <1>2 DEF Busy
<1>5. OneAtATime'
  BY <1>3, <1>4 DEF OneAtATime, Busy
<1> QED
  BY <1>1, <1>3, <1>4, <1>5

LEMMA ExactInit == GraphInit => ExactInv
<1> SUFFICES ASSUME GraphInit PROVE ExactInv
  OBVIOUS
<1>1. Resolved = {} /\ TrueEdges = {} /\ Repairs = {}
  BY DEF GraphInit, Resolved, TrueEdges, Repairs, NoRows
<1>2. TablesExact
  BY <1>1 DEF TablesExact, GraphInit
<1>3. \A c \in Commands : pc[c] = "idle"
  BY DEF GraphInit
<1> QED
  BY <1>2, <1>3, Processes
  DEF ExactInv, OneAtATime, Phase, OnScreen, Busy, GraphInit

LEMMA ExactStays == Shape /\ ExactInv /\ UNCHANGED graphVars => ExactInv'
<1> SUFFICES ASSUME Shape, ExactInv, UNCHANGED graphVars PROVE ExactInv'
  OBVIOUS
<1>1. UNCHANGED <<seen, dismissals, owner, edges, rows, pc, read, judged, todo, built,
                  broken, item, memo, overlapped, crashed>>
  BY DEF graphVars, stores, local, graphHistory
<1>2. TablesExact' <=> TablesExact
  BY <1>1, SameTables
<1>3. /\ Resolved' = Resolved /\ TrueEdges' = TrueEdges
      /\ \A r \in Refs : Known(r)' <=> Known(r)
  BY <1>1, SameReferences
<1>4. ASSUME NEW c \in Commands, Phase(c) PROVE Phase(c)'
  <2>1. \A r : Edge(r, Resolve(r, owner))' = Edge(r, Resolve(r, owner))
    BY <1>1 DEF Resolve, Edge
  <2>2. Building(c) => Building(c)'
    BY <1>1, <1>3, <2>1 DEF Building
  <2> QED
    BY <1>1, <1>3, <1>4, <2>2 DEF Phase
<1>5. OnScreen => OnScreen'
  BY <1>1, <1>2 DEF OnScreen, Busy
<1>6. OneAtATime => OneAtATime'
  BY <1>1 DEF OneAtATime, Busy
<1>7. Quiet' => Quiet
  BY <1>1 DEF Quiet
<1> QED
  BY <1>4, <1>5, <1>6, <1>7 DEF ExactInv

(* A command that begins, or is about to read, leaves the tables as they are. *)
LEMMA ExactOfStart ==
    ASSUME Shape, ExactInv, NEW c \in Commands, NEW step \in {"fetch", "load", "read"},
           Goto(c, step), UNCHANGED <<seen, owner, edges, rows, crashed>>
    PROVE  ExactInv'
<1> SUFFICES ASSUME Quiet' PROVE ExactInv'
  BY DEF ExactInv
<1>1. /\ Quiet /\ OneAtATime' /\ pc'[c] = step
      /\ \A d \in Commands \ {c} : pc[d] \in {"idle", "look"} /\ pc'[d] = pc[d]
  BY GoesOnAlone DEF Shape
<1>2. \A d \in Commands : Phase(d)'
  BY <1>1 DEF Phase
<1>3. OnScreen'
  BY <1>1, Processes DEF OnScreen, Busy
<1> QED
  BY <1>1, <1>2, <1>3 DEF ExactInv

(* A command that has built, or replaced, still has. *)
LEMMA ExactOfPass ==
    ASSUME Shape, ExactInv, NEW c \in Commands, Passing(c) PROVE ExactInv'
<1>1. PICK p \in Passes : Pass(c, p[1], p[2])
  BY DEF Passing
<1>2. /\ UNCHANGED <<seen, owner, edges, rows, todo, built, broken, crashed>>
      /\ pc[c] = p[1] /\ Goto(c, p[2])
  BY <1>1 DEF Pass, stores, local
<1>3. CASE p[2] \in {"fetch", "load", "read"}
  BY <1>2, <1>3, ExactOfStart
<1>4. CASE p[2] \notin {"fetch", "load", "read"}
  <2> SUFFICES ASSUME Quiet' PROVE ExactInv'
    BY DEF ExactInv
  <2>1. p \in {<<"save", "build">>, <<"changes", "repairs">>} /\ Busy(c)
    BY <1>2, <1>4 DEF Passes, Busy
  <2>2. /\ Quiet /\ OneAtATime' /\ pc'[c] = p[2]
        /\ \A d \in Commands \ {c} : pc[d] \in {"idle", "look"} /\ pc'[d] = pc[d]
    BY <1>2, <2>1, GoesOnAlone DEF Shape
  <2>3. Resolved' = Resolved /\ TrueEdges' = TrueEdges
    BY <1>2, SameReferences
  <2>4. \A r : Edge(r, Resolve(r, owner))' = Edge(r, Resolve(r, owner))
    BY <1>2 DEF Resolve, Edge
  <2>5. Building(c) => Building(c)'
    BY <1>2, <2>3, <2>4 DEF Building
  <2>6. Phase(c)'
    BY <1>2, <2>1, <2>2, <2>3, <2>5 DEF ExactInv, Phase
  <2>7. \A d \in Commands : Phase(d)'
    BY <2>2, <2>6 DEF Phase
  <2>8. OnScreen'
    BY <2>1, <2>2, Processes DEF OnScreen, Busy
  <2> QED
    BY <2>2, <2>7, <2>8 DEF ExactInv
<1> QED
  BY <1>3, <1>4

(* While the one command that runs is fetching, nothing is said of the tables. *)
LEMMA ExactOfFetch ==
    ASSUME Shape, ExactInv, NEW c \in Commands, pc[c] = "fetch",
           UNCHANGED <<pc, graphHistory>>
    PROVE  ExactInv'
<1> SUFFICES ASSUME Quiet' PROVE ExactInv'
  BY DEF ExactInv
<1>1. Quiet /\ OneAtATime' /\ UNCHANGED pc
  BY DEF ExactInv, Quiet, OneAtATime, Busy, graphHistory
<1>2. \A d \in Commands : pc[d] \in {"idle", "look", "fetch"}
  BY <1>1 DEF ExactInv, OneAtATime, Busy
<1>3. \A d \in Commands : Phase(d)'
  BY <1>1, <1>2 DEF Phase
<1>4. OnScreen'
  BY <1>1, <1>2, Processes DEF OnScreen, Busy
<1> QED
  BY <1>1, <1>3, <1>4 DEF ExactInv

LEMMA ExactOfRecords ==
    ASSUME Shape, ExactInv, NEW c \in Commands,
           \/ \E r \in Refs : Observe(c, r)
           \/ \E path \in Paths, e \in Noted : Identify(c, path, e)
    PROVE  ExactInv'
  BY ExactOfFetch DEF Observe, Identify

LEMMA ExactOfBuild ==
    ASSUME Shape, ExactInv, NEW c \in Commands, ReadEvents(c) \/ BuildEdge(c) PROVE ExactInv'
<1> SUFFICES ASSUME Quiet' PROVE ExactInv'
  BY DEF ExactInv
<1>1. UNCHANGED <<seen, owner, edges, rows, crashed>>
  BY DEF ReadEvents, BuildEdge, stores, graphHistory
<1>2. Resolved' = Resolved /\ \A r \in Refs : Known(r)' <=> Known(r)
  BY <1>1, SameReferences
<1>3. pc[c] \in {"read", "build"} /\ Busy(c)
  BY DEF ReadEvents, BuildEdge, Busy
<1>4. /\ Quiet /\ OneAtATime' /\ pc'[c] \in {"save", "build"}
      /\ \A d \in Commands \ {c} : pc[d] \in {"idle", "look"} /\ pc'[d] = pc[d]
  <2>1. CASE ReadEvents(c)
    BY <1>1, <1>3, <2>1, GoesOnAlone DEF ReadEvents, Shape
  <2>2. CASE BuildEdge(c)
    <3>1. pc[c] = "build" /\ UNCHANGED <<pc, overlapped, crashed>>
      BY <2>2 DEF BuildEdge, graphHistory
    <3>2. Quiet /\ OneAtATime
      BY <3>1 DEF Quiet, ExactInv
    <3>3. OneAtATime'
      BY <3>1, <3>2 DEF OneAtATime, Busy
    <3> QED
      BY <1>3, <3>1, <3>2, <3>3 DEF OneAtATime, Busy
  <2> QED
    BY <2>1, <2>2
<1>5. Building(c)'
  <2>1. CASE ReadEvents(c)
    <3>1. todo'[c] = seen /\ built'[c] = {} /\ broken'[c] = {}
      BY <2>1 DEF ReadEvents, Shape, Locals
    <3>2. Resolved' \ todo'[c] = {}
      BY <1>2, <3>1 DEF Resolved
    <3> QED
      BY <1>1, <3>1, <3>2 DEF Building
  <2>2. CASE BuildEdge(c)
    <3> DEFINE r == CHOOSE r \in todo[c] : TRUE
               dst == Resolve(r, owner)
    <3>1. Building(c)
      BY <1>4, <2>2 DEF ExactInv, Phase, BuildEdge
    <3>2. r \in todo[c] /\ todo[c] \subseteq seen
      BY <2>2 DEF BuildEdge, Shape, Locals
    <3>3. /\ todo'[c] = todo[c] \ {r}
          /\ \/ /\ dst # Nobody /\ broken'[c] = broken[c]
                /\ built'[c] = built[c] \cup {Edge(r, Resolve(r, owner))}
             \/ /\ dst = Nobody /\ broken'[c] = broken[c] \cup {r}
                /\ built'[c] = built[c]
      BY <2>2 DEF BuildEdge, Shape, Locals
    <3>4. r \in Resolved <=> dst # Nobody
      BY <3>2 DEF Resolved
    <3>5. \A q \in Refs : Edge(q, Resolve(q, owner))' = Edge(q, Resolve(q, owner))
      BY <1>1 DEF Edge, Resolve
    <3> HIDE DEF r, dst
    <3>6. broken'[c] = (seen \ todo'[c]) \ Resolved
      BY <3>1, <3>2, <3>3, <3>4 DEF Building
    <3>7. built'[c] = {Edge(q, Resolve(q, owner)) : q \in Resolved \ todo'[c]}
      <4>1. CASE dst # Nobody
        <5>1. Resolved \ todo'[c] = (Resolved \ todo[c]) \cup {r}
          BY <3>2, <3>3, <3>4, <4>1
        <5> QED
          BY <3>1, <3>3, <4>1, <5>1 DEF Building
      <4>2. CASE dst = Nobody
        <5>1. Resolved \ todo'[c] = Resolved \ todo[c]
          BY <3>2, <3>3, <3>4, <4>2
        <5> QED
          BY <3>1, <3>3, <4>2, <5>1 DEF Building
      <4> QED
        BY <4>1, <4>2
    <3>8. Resolved \subseteq Refs
      BY DEF Resolved, Shape, Tables
    <3>9. {Edge(q, Resolve(q, owner)) : q \in Resolved \ todo'[c]}
            = {Edge(q, Resolve(q, owner))' : q \in Resolved \ todo'[c]}
      BY <3>5, <3>8
    <3> QED
      BY <1>1, <1>2, <3>6, <3>7, <3>9 DEF Building
  <2> QED
    BY <2>1, <2>2
<1>6. \A d \in Commands : Phase(d)'
  BY <1>4, <1>5 DEF Phase
<1>7. OnScreen'
  BY <1>4, Processes DEF OnScreen, Busy
<1> QED
  BY <1>4, <1>6, <1>7 DEF ExactInv

LEMMA ExactOfReplaceEdges ==
    ASSUME Shape, ExactInv, NEW c \in Commands, ReplaceEdges(c) PROVE ExactInv'
<1> SUFFICES ASSUME Quiet' PROVE ExactInv'
  BY DEF ExactInv
<1>1. /\ UNCHANGED <<seen, owner, rows, broken, crashed>>
      /\ pc[c] = "build" /\ todo[c] = {} /\ edges' = built[c] /\ Goto(c, "changes")
  BY DEF ReplaceEdges, local
<1>2. /\ Resolved' = Resolved /\ TrueEdges' = TrueEdges
  BY <1>1, SameReferences
<1>3. /\ Quiet /\ OneAtATime' /\ pc'[c] = "changes"
      /\ \A d \in Commands \ {c} : pc[d] \in {"idle", "look"} /\ pc'[d] = pc[d]
  BY <1>1, GoesOnAlone DEF Shape
<1>4. Building(c)
  BY <1>1, <1>3 DEF ExactInv, Phase
<1>5. edges' = TrueEdges' /\ broken'[c] = seen' \ Resolved'
  BY <1>1, <1>2, <1>4 DEF Building, TrueEdges
<1>6. \A d \in Commands : Phase(d)'
  BY <1>3, <1>5 DEF Phase
<1>7. OnScreen'
  BY <1>3, Processes DEF OnScreen, Busy
<1> QED
  BY <1>3, <1>6, <1>7 DEF ExactInv

LEMMA ExactOfReplaceRepairs ==
    ASSUME Shape, ExactInv, NEW c \in Commands, ReplaceRepairs(c) PROVE ExactInv'
<1> SUFFICES ASSUME Quiet' PROVE ExactInv'
  BY DEF ExactInv
<1>1. /\ UNCHANGED <<seen, owner, edges, crashed>>
      /\ pc[c] = "repairs" /\ rows' = Overlaid(Suggested(c), judged[c]) /\ Goto(c, "idle")
  BY DEF ReplaceRepairs, Suggested
<1>2. /\ Resolved' = Resolved /\ TrueEdges' = TrueEdges
  BY <1>1, SameReferences
<1>3. /\ Quiet /\ OneAtATime' /\ pc'[c] = "idle"
      /\ \A d \in Commands \ {c} : pc[d] \in {"idle", "look"} /\ pc'[d] = pc[d]
  BY <1>1, GoesOnAlone DEF Shape, Busy
<1>4. edges = TrueEdges /\ broken[c] = seen \ Resolved
  BY <1>1, <1>3 DEF ExactInv, Phase
<1>5. \A r \in Refs : rows'[r] = NoRow <=> r \notin broken[c]
  BY <1>1, SuggestedRows, OverlaidRows DEF Shape, Tables
<1>6. Repairs' = broken[c]
  BY <1>5 DEF Repairs, Shape, Locals
<1>7. TablesExact'
  BY <1>1, <1>2, <1>4, <1>6 DEF TablesExact
<1>8. \A d \in Commands : Phase(d)'
  BY <1>3 DEF Phase
<1>9. OnScreen'
  BY <1>3, <1>7, Processes DEF OnScreen
<1> QED
  BY <1>3, <1>8, <1>9 DEF ExactInv

LEMMA ExactOfLook ==
    ASSUME Shape, ExactInv, (\E r \in Refs : Look(r)) PROVE ExactInv'
<1> SUFFICES ASSUME Quiet' PROVE ExactInv'
  BY DEF ExactInv
<1>1. /\ UNCHANGED <<seen, owner, edges, rows, todo, built, broken, crashed>>
      /\ pc[Screen] = "idle" /\ Goto(Screen, "look")
  BY DEF Look, stores
<1>2. /\ Resolved' = Resolved /\ TrueEdges' = TrueEdges /\ (TablesExact' <=> TablesExact)
  BY <1>1, SameReferences, SameTables
<1>3. Quiet
  BY Zenon, <1>1 DEF Quiet, Goto
<1>4. /\ pc'[Screen] = "look"
      /\ \A d \in Commands \ {Screen} : pc'[d] = pc[d]
      /\ \A d \in Commands : Busy(d)' <=> Busy(d)
  BY <1>1, Processes DEF Goto, Shape, Locals, Busy
<1>5. OneAtATime'
  BY <1>3, <1>4 DEF ExactInv, OneAtATime
<1>6. ASSUME NEW d \in Commands PROVE Phase(d)'
  <2>1. CASE d = Screen
    BY <1>4, <2>1 DEF Phase
  <2>2. CASE d # Screen
    <3>1. Phase(d) /\ pc'[d] = pc[d]
      BY <1>3, <1>4, <2>2 DEF ExactInv
    <3>2. \A r : Edge(r, Resolve(r, owner))' = Edge(r, Resolve(r, owner))
      BY <1>1 DEF Resolve, Edge
    <3>3. Building(d) => Building(d)'
      BY <1>1, <1>2, <3>2 DEF Building
    <3> QED
      BY <1>1, <1>2, <3>1, <3>3 DEF Phase
  <2> QED
    BY <2>1, <2>2
<1>7. OnScreen'
  BY <1>2, <1>3, <1>4 DEF ExactInv, OnScreen
<1> QED
  BY <1>5, <1>6, <1>7 DEF ExactInv

(* The table that apply_graph_repair reads is the one it will write back. *)
LEMMA ExactOfFindRepair ==
    ASSUME Shape, ExactInv, FindRepair PROVE ExactInv'
<1> SUFFICES ASSUME Quiet' PROVE ExactInv'
  BY DEF ExactInv
<1>1. /\ UNCHANGED <<seen, owner, edges, rows, crashed>>
      /\ pc[Screen] = "look" /\ memo' = rows /\ Goto(Screen, "act") /\ Screen \in Commands
  BY Processes DEF FindRepair, stores
<1>2. TablesExact' <=> TablesExact
  BY <1>1, SameTables
<1>3. /\ Quiet /\ OneAtATime' /\ pc'[Screen] = "act"
      /\ \A d \in Commands \ {Screen} : pc[d] \in {"idle", "look"} /\ pc'[d] = pc[d]
  BY <1>1, GoesOnAlone DEF Shape
<1>4. TablesExact
  BY <1>1, <1>3 DEF ExactInv, OnScreen, Busy
<1>5. \A d \in Commands : Phase(d)'
  BY <1>3 DEF Phase
<1>6. OnScreen'
  BY <1>1, <1>2, <1>4 DEF OnScreen
<1> QED
  BY <1>3, <1>5, <1>6 DEF ExactInv

LEMMA ExactOfAppendApply ==
    ASSUME Shape, ExactInv, AppendApply PROVE ExactInv'
<1> SUFFICES ASSUME Quiet' PROVE ExactInv'
  BY DEF ExactInv
<1>1. PICK step \in {"mark", "load"} :
          /\ pc[Screen] = "act" /\ Goto(Screen, step)
          /\ UNCHANGED <<seen, owner, edges, rows, crashed>> /\ Screen \in Commands
          /\ step = "mark" => memo' = memo
  BY Processes DEF AppendApply, stores
<1>2. TablesExact' <=> TablesExact
  BY <1>1, SameTables
<1>3. /\ Quiet /\ OneAtATime' /\ pc'[Screen] = step
      /\ \A d \in Commands \ {Screen} : pc[d] \in {"idle", "look"} /\ pc'[d] = pc[d]
  BY <1>1, GoesOnAlone DEF Shape
<1>4. TablesExact /\ memo = rows
  BY <1>1, <1>3 DEF ExactInv, OnScreen
<1>5. \A d \in Commands : Phase(d)'
  BY <1>3 DEF Phase
<1>6. OnScreen'
  BY <1>1, <1>2, <1>3, <1>4 DEF OnScreen, Busy
<1> QED
  BY <1>3, <1>5, <1>6 DEF ExactInv

LEMMA ExactOfMarkResolved ==
    ASSUME Shape, ExactInv, MarkResolved PROVE ExactInv'
<1> SUFFICES ASSUME Quiet' PROVE ExactInv'
  BY DEF ExactInv
<1>1. /\ UNCHANGED crashed /\ Screen \in Commands
      /\ pc[Screen] = "mark" /\ Goto(Screen, "load")
  BY Processes DEF MarkResolved
<1>2. /\ Quiet /\ OneAtATime' /\ pc'[Screen] = "load"
      /\ \A d \in Commands \ {Screen} : pc[d] \in {"idle", "look"} /\ pc'[d] = pc[d]
  BY <1>1, GoesOnAlone DEF Shape
<1>3. \A d \in Commands : Phase(d)'
  BY <1>2 DEF Phase
<1>4. OnScreen'
  BY <1>1, <1>2 DEF OnScreen, Busy
<1> QED
  BY <1>2, <1>3, <1>4 DEF ExactInv

LEMMA ExactStep == Shape /\ ExactInv /\ [Next]_vars => ExactInv'
<1> SUFFICES ASSUME Shape, ExactInv, [Next]_vars PROVE ExactInv'
  OBVIOUS
<1>0. Screen \in Commands
  BY Processes
<1>1. ASSUME NEW c \in Commands, Crash(c) PROVE ExactInv'
  BY <1>1 DEF Crash, ExactInv, Quiet
<1>2. CASE Dismiss \/ OtherAction
  <2>1. Goto(Screen, "load") /\ UNCHANGED <<seen, owner, edges, rows, crashed>>
    BY <1>2 DEF Dismiss, OtherAction, stores
  <2> QED
    BY <1>0, <2>1, ExactOfStart
<1> QED
  BY <1>1, <1>2, StepsOfDesk, ExactStays, ExactOfPass, ExactOfRecords, ExactOfBuild,
     ExactOfReplaceEdges, ExactOfReplaceRepairs, ExactOfLook, ExactOfFindRepair,
     ExactOfAppendApply, ExactOfMarkResolved

LEMMA ExactAlways == Spec => [](Shape /\ ExactInv)
<1>1. Init => Shape /\ ExactInv
  BY ShapeInit, ExactInit DEF Init
<1>2. Shape /\ ExactInv /\ [Next]_vars => (Shape /\ ExactInv)'
  BY ShapeStep, ExactStep
<1> QED
  BY <1>1, <1>2, PTL DEF Spec

(* With one command at a time the edges and the repairs are those of the      *)
(* ledger whenever nothing runs, however the user has used the review screen. *)
THEOREM GraphIsExactWhenIdle == Spec => []IdleGraphIsExact
<1>1. ExactInv => IdleGraphIsExact
  BY DEF ExactInv, OnScreen, TablesExact, Quiet, IdleGraphIsExact
<1> QED
  BY <1>1, ExactAlways, PTL

-----------------------------------------------------------------------------
(* Repairs the user has applied, whatever overlaps and crashes.  A row that   *)
(* was marked keeps what was decided of it as long as it is there, and one    *)
(* that goes does because its target is known, which it then stays: so that   *)
(* a command can bring the row back only if it looked that reference up       *)
(* before, and read the ledger before another wrote the table.                *)

Marking(r) == pc[Screen] = "mark" /\ item[1][1] = r
Settled == {r \in applied : r \notin missed /\ r \notin outrun /\ ~Marking(r)}

Kept(r) ==
    /\ rows[r].status # "open"
    /\ pc[Screen] \in {"act", "mark"} =>
          memo[r].status # "open" /\ (memo[r] = NoRow => rows[r] = NoRow)
    /\ rows[r] = NoRow => Known(r) /\ \A c \in Commands \ overtaken : r \notin broken[c]

(* A command that was not overtaken has read every reference with a row, *)
ReadAll(c) ==
    Reprojecting(c) /\ c \notin overtaken =>
        \A r \in Refs : rows[r] # NoRow \/ memo[r] # NoRow => r \in read[c]
(* and those it has looked up and found are known. *)
LookedUp(c) ==
    Reprojecting(c) => \A r \in read[c] \ (todo[c] \cup broken[c]) : Known(r)

AppliedInv ==
    /\ \A r \in Settled : Kept(r)
    /\ \A c \in Commands : ReadAll(c) /\ LookedUp(c)

LEMMA AppliedInit == GraphInit => AppliedInv
<1> SUFFICES ASSUME GraphInit PROVE AppliedInv
  OBVIOUS
<1>1. Settled = {}
  BY DEF GraphInit, Settled
<1>2. \A c \in Commands : ~Reprojecting(c)
  BY DEF GraphInit, Reprojecting
<1> QED
  BY <1>1, <1>2 DEF AppliedInv, ReadAll, LookedUp

(* What is known stays known. *)
LEMMA KnownStays ==
    ASSUME Shape, [Next]_vars, NEW r \in Refs, Known(r) PROVE Known(r)'
<1>1. ASSUME NEW c \in Commands, NEW path \in Paths, NEW e \in Noted, Identify(c, path, e)
      PROVE  Known(r)'
  <2>1. /\ owner \in [Paths -> Entities \cup {Nobody}] /\ owner[path] = Nobody
        /\ owner' = [owner EXCEPT ![path] = e] /\ e \in Entities
    BY <1>1, NobodyIsNone DEF Identify, Shape, Tables
  <2>2. Resolve(r, [owner EXCEPT ![path] = e]) # Nobody
    BY <2>1, ResolveStays DEF Known
  <2>3. Resolve(r, owner') # Nobody
    BY <2>1, <2>2
  <2> QED
    BY <2>3 DEF Known, Resolve
<1>2. CASE owner' = owner
  BY <1>2 DEF Known, Resolve
<1>3. \/ \E c \in Commands, path \in Paths, e \in Noted : Identify(c, path, e)
      \/ owner' = owner
  BY StepsOfDesk
  DEF Passing, Pass, ReadEvents, BuildEdge, ReplaceEdges, ReplaceRepairs, Crash, Observe,
      Look, FindRepair, AppendApply, MarkResolved, Dismiss, OtherAction, graphVars, stores
<1> QED
  BY <1>1, <1>2, <1>3

(* Settled repairs stay so when no row is written, *)
LEMMA KeptStays ==
    ASSUME Shape, AppliedInv, UNCHANGED rows, Settled' \subseteq Settled,
           \A r \in Refs : Known(r) => Known(r)',
           pc'[Screen] \in {"act", "mark"} => pc[Screen] \in {"act", "mark"} /\ memo' = memo,
           \A d \in Commands \ overtaken' :
               broken'[d] = {} \/ (broken'[d] = broken[d] /\ d \notin overtaken)
    PROVE  \A r \in Settled' : Kept(r)'
<1> SUFFICES ASSUME NEW r \in Settled' PROVE Kept(r)'
  OBVIOUS
<1>1. r \in Settled /\ r \in Refs /\ Kept(r)
  BY DEF AppliedInv, Settled, Shape, Chosen, Tables
<1>2. rows'[r].status # "open"
  BY <1>1 DEF Kept
<1>3. pc'[Screen] \in {"act", "mark"} =>
          memo'[r].status # "open" /\ (memo'[r] = NoRow => rows'[r] = NoRow)
  BY <1>1 DEF Kept
<1>4. rows'[r] = NoRow =>
          Known(r)' /\ \A d \in Commands \ overtaken' : r \notin broken'[d]
  BY <1>1 DEF Kept
<1> QED
  BY <1>2, <1>3, <1>4 DEF Kept

(* and so does what is known of a command that goes on, or has just read. *)
LEMMA CommandStays ==
    ASSUME Shape, AppliedInv, NEW d \in Commands, UNCHANGED <<rows, seen>>,
           \A r \in Refs : Known(r) => Known(r)',
           \A r \in Refs : memo'[r] # NoRow => memo[r] # NoRow \/ rows[r] # NoRow,
           Reprojecting(d)' =>
               \/ read'[d] = seen /\ todo'[d] = seen
               \/ /\ Reprojecting(d) /\ (d \in overtaken => d \in overtaken')
                  /\ read'[d] = read[d] /\ todo'[d] = todo[d] /\ broken'[d] = broken[d]
    PROVE  ReadAll(d)' /\ LookedUp(d)'
<1>1. CASE ~Reprojecting(d)'
  BY <1>1 DEF ReadAll, LookedUp
<1>2. CASE read'[d] = seen /\ todo'[d] = seen
  <2>1. \A r \in Refs : rows'[r] # NoRow \/ memo'[r] # NoRow => r \in read'[d]
    BY <1>2 DEF Shape, Tables
  <2> QED
    BY <1>2, <2>1 DEF ReadAll, LookedUp
<1>3. CASE /\ Reprojecting(d) /\ (d \in overtaken => d \in overtaken')
           /\ read'[d] = read[d] /\ todo'[d] = todo[d] /\ broken'[d] = broken[d]
  <2>1. ReadAll(d) /\ LookedUp(d) /\ read[d] \subseteq Refs
    BY DEF AppliedInv, Shape, Locals
  <2>2. ReadAll(d)'
    BY <1>3, <2>1 DEF ReadAll
  <2>3. LookedUp(d)'
    BY <1>3, <2>1 DEF LookedUp
  <2> QED
    BY <2>2, <2>3
<1> QED
  BY <1>1, <1>2, <1>3

(* Steps that write neither rows nor references found. *)
LEMMA AppliedStays ==
    ASSUME Shape, AppliedInv, UNCHANGED <<rows, seen>>, Settled' \subseteq Settled,
           \A r \in Refs : Known(r) => Known(r)',
           memo' = memo \/ (memo' = NoRows /\ pc'[Screen] \notin {"act", "mark"}),
           pc'[Screen] \in {"act", "mark"} => pc[Screen] \in {"act", "mark"},
           UNCHANGED <<read, todo, broken, overtaken>>,
           \A d \in Commands : Reprojecting(d)' => Reprojecting(d)
    PROVE  AppliedInv'
<1>1. \A r \in Settled' : Kept(r)'
  BY KeptStays
<1>2. \A r \in Refs : memo'[r] # NoRow => memo[r] # NoRow
  BY DEF NoRows
<1>3. \A d \in Commands : ReadAll(d)' /\ LookedUp(d)'
  BY <1>2, CommandStays
<1> QED
  BY <1>1, <1>3 DEF AppliedInv

(* Steps that only go on, or only add to the ledger. *)
LEMMA AppliedOfPass ==
    ASSUME Shape, AppliedInv, NEW c \in Commands, Passing(c) \/ ReplaceEdges(c),
           \A r \in Refs : Known(r) => Known(r)'
    PROVE  AppliedInv'
<1>1. /\ UNCHANGED <<seen, rows, memo, item, read, todo, broken, applied, missed, outrun,
                     overtaken>>
      /\ \E p \in Passes \cup {<<"build", "changes">>} :
            pc[c] = p[1] /\ pc' = [pc EXCEPT ![c] = p[2]]
  <2>1. CASE Passing(c)
    BY <2>1 DEF Passing, Pass, Goto, stores, local, repairHistory
  <2>2. CASE ReplaceEdges(c)
    <3>1. pc[c] = "build" /\ pc' = [pc EXCEPT ![c] = "changes"]
      BY <2>2 DEF ReplaceEdges, Goto
    <3>2. UNCHANGED <<seen, rows, memo, item, read, todo, broken, applied, missed, outrun,
                      overtaken>>
      BY <2>2 DEF ReplaceEdges, local, repairHistory
    <3>3. PICK p \in Passes \cup {<<"build", "changes">>} : p = <<"build", "changes">>
      OBVIOUS
    <3> QED
      BY <3>1, <3>2, <3>3
  <2> QED
    BY <2>1, <2>2
<1>2. Settled' \subseteq Settled
  BY <1>1, Processes DEF Settled, Marking, Passes, Shape, Locals
<1>3. \A d \in Commands : Reprojecting(d)' => Reprojecting(d)
  BY <1>1 DEF Reprojecting, Passes, Shape, Locals
<1>4. pc'[Screen] \in {"act", "mark"} => pc[Screen] \in {"act", "mark"}
  BY <1>1, Processes DEF Passes, Shape, Locals
<1> QED
  BY <1>1, <1>2, <1>3, <1>4, AppliedStays

LEMMA AppliedOfRecords ==
    ASSUME Shape, AppliedInv, NEW c \in Commands,
           \/ \E r \in Refs : Observe(c, r)
           \/ \E path \in Paths, e \in Noted : Identify(c, path, e)
           \/ UNCHANGED graphVars,
           \A r \in Refs : Known(r) => Known(r)'
    PROVE  AppliedInv'
<1>1. UNCHANGED <<pc, rows, memo, item, read, todo, broken, applied, missed, outrun, overtaken>>
  BY DEF Observe, Identify, graphVars, stores, local, graphHistory, repairHistory
<1>2. Settled' = Settled /\ \A d \in Commands : Reprojecting(d)' <=> Reprojecting(d)
  BY <1>1 DEF Settled, Marking, Reprojecting
<1>3. \A r \in Settled' : Kept(r)'
  BY <1>1, <1>2, KeptStays
<1>4. ASSUME NEW d \in Commands PROVE ReadAll(d)' /\ LookedUp(d)'
  <2>1. ReadAll(d) /\ LookedUp(d) /\ read[d] \subseteq Refs
    BY DEF AppliedInv, Shape, Locals
  <2> QED
    BY <1>1, <1>2, <2>1 DEF ReadAll, LookedUp
<1> QED
  BY <1>3, <1>4 DEF AppliedInv

LEMMA AppliedOfReadEvents ==
    ASSUME Shape, AppliedInv, NEW c \in Commands, ReadEvents(c),
           \A r \in Refs : Known(r) => Known(r)'
    PROVE  AppliedInv'
<1>1. /\ UNCHANGED <<seen, rows, memo, item, applied, missed, outrun, overtaken>>
      /\ pc[c] = "read" /\ pc' = [pc EXCEPT ![c] = "save"]
      /\ read' = [read EXCEPT ![c] = seen] /\ todo' = [todo EXCEPT ![c] = seen]
      /\ broken' = [broken EXCEPT ![c] = {}]
  BY DEF ReadEvents, Goto, stores, repairHistory
<1>2. /\ pc' \in [Commands -> Steps] /\ pc'[c] = "save"
      /\ read'[c] = seen /\ todo'[c] = seen /\ broken'[c] = {}
      /\ \A d \in Commands \ {c} : /\ pc'[d] = pc[d] /\ read'[d] = read[d]
                                   /\ todo'[d] = todo[d] /\ broken'[d] = broken[d]
  BY <1>1 DEF Shape, Locals, Steps
<1>3. Settled' \subseteq Settled
  BY <1>1, <1>2, Processes DEF Settled, Marking
<1>4. \A r \in Settled' : Kept(r)'
  BY <1>1, <1>2, <1>3, Processes, KeptStays
<1>5. \A d \in Commands \ {c} : Reprojecting(d)' => Reprojecting(d)
  BY <1>2 DEF Reprojecting
<1>6. \A d \in Commands : ReadAll(d)' /\ LookedUp(d)'
  BY <1>1, <1>2, <1>5, CommandStays
<1> QED
  BY <1>4, <1>6 DEF AppliedInv

(* A reference that is looked up is found, and known, or it is broken. *)
LEMMA AppliedOfBuildEdge ==
    ASSUME Shape, AppliedInv, NEW c \in Commands, BuildEdge(c) PROVE AppliedInv'
<1> DEFINE q == CHOOSE r \in todo[c] : TRUE
           dst == Resolve(q, owner)
<1>1. /\ UNCHANGED <<seen, owner, rows, memo, item, pc, read, applied, missed, outrun, overtaken>>
      /\ todo' = [todo EXCEPT ![c] = @ \ {q}]
      /\ \/ dst # Nobody /\ UNCHANGED broken
         \/ dst = Nobody /\ broken' = [broken EXCEPT ![c] = @ \cup {q}]
  BY DEF BuildEdge, stores, graphHistory, repairHistory
<1>2. dst # Nobody <=> Known(q)
  BY DEF Known
<1> HIDE DEF q, dst
<1>3. /\ \A d \in Commands \ {c} : todo'[d] = todo[d] /\ broken'[d] = broken[d]
      /\ todo'[c] = todo[c] \ {q}
      /\ \/ Known(q) /\ broken'[c] = broken[c]
         \/ ~Known(q) /\ broken'[c] = broken[c] \cup {q}
  BY <1>1, <1>2 DEF Shape, Locals
<1>4. /\ \A r \in Refs : Known(r)' <=> Known(r)
      /\ \A d \in Commands : Reprojecting(d)' <=> Reprojecting(d)
      /\ Settled' = Settled
  BY <1>1 DEF Known, Resolve, Reprojecting, Settled, Marking
<1>5. ASSUME NEW r \in Settled PROVE Kept(r)'
  <2>1. r \in Refs /\ Kept(r)
    BY DEF AppliedInv, Settled, Shape, Chosen, Tables
  <2>2. rows[r] = NoRow => r \notin broken'[c] \/ c \in overtaken
    BY <1>3, <2>1 DEF Kept
  <2>3. rows'[r] = NoRow => Known(r)' /\ \A d \in Commands \ overtaken' : r \notin broken'[d]
    BY <1>1, <1>3, <1>4, <2>1, <2>2 DEF Kept
  <2> QED
    BY <1>1, <2>1, <2>3 DEF Kept
<1>6. ASSUME NEW d \in Commands PROVE ReadAll(d)' /\ LookedUp(d)'
  <2>1. ReadAll(d) /\ LookedUp(d) /\ read[d] \subseteq Refs
    BY DEF AppliedInv, Shape, Locals
  <2>2. ReadAll(d)'
    BY <1>1, <1>4, <2>1 DEF ReadAll
  <2>3. LookedUp(d)'
    BY <1>1, <1>3, <1>4, <2>1 DEF LookedUp
  <2> QED
    BY <2>2, <2>3
<1> QED
  BY <1>4, <1>5, <1>6 DEF AppliedInv

(* A row that goes was looked up and found; one that comes was not settled.   *)
(* A command that was overtaken accounts for what it does to the others.      *)
LEMMA AppliedOfReplaceRepairs ==
    ASSUME Shape, AppliedInv, NEW c \in Commands, ReplaceRepairs(c) PROVE AppliedInv'
<1>1. /\ UNCHANGED <<seen, owner, memo, item, todo, applied, missed>>
      /\ pc[c] = "repairs" /\ pc' = [pc EXCEPT ![c] = "idle"]
      /\ rows' = Overlaid(Suggested(c), judged[c])
      /\ read' = [read EXCEPT ![c] = {}] /\ broken' = [broken EXCEPT ![c] = {}]
      /\ overtaken' = (overtaken \cup {d \in Commands : Reprojecting(d)}) \ {c}
      /\ outrun' = IF c \in overtaken
                   THEN outrun \cup {r \in applied : rows[r] = NoRow <=> rows'[r] # NoRow}
                   ELSE outrun
  BY DEF ReplaceRepairs, Suggested, Goto
<1>2. /\ pc'[c] = "idle" /\ broken'[c] = {}
      /\ \A d \in Commands \ {c} : /\ pc'[d] = pc[d] /\ read'[d] = read[d]
                                   /\ broken'[d] = broken[d]
  BY <1>1 DEF Shape, Locals
<1>3. \A r \in Refs : Known(r)' <=> Known(r)
  BY <1>1 DEF Known, Resolve
<1>4. \A r \in Refs :
          /\ rows'[r] = NoRow <=> r \notin broken[c]
          /\ rows'[r].status = "open" => rows[r].status \in {"none", "open"}
  BY <1>1, SuggestedRows, OverlaidRows DEF Shape, Tables
<1>5. ~Reprojecting(c)' /\ \A d \in Commands \ {c} : Reprojecting(d)' <=> Reprojecting(d)
  BY <1>2 DEF Reprojecting
<1>6. \A d \in Commands \ overtaken' : ~Reprojecting(d)' /\ broken'[d] = {}
  <2> SUFFICES ASSUME NEW d \in Commands \ overtaken'
               PROVE  ~Reprojecting(d)' /\ broken'[d] = {}
    OBVIOUS
  <2>1. CASE d = c
    BY <1>2, <1>5, <2>1
  <2>2. CASE d # c
    <3>1. ~Reprojecting(d)
      BY <1>1, <2>2
    <3> QED
      BY <1>2, <1>5, <2>2, <3>1 DEF Shape, Locals
  <2> QED
    BY <2>1, <2>2
<1>7. ASSUME NEW r \in Settled' PROVE Kept(r)'
  <2>1. outrun \subseteq outrun' /\ (Marking(r) => Marking(r)')
    <3>1. outrun \subseteq outrun'
      BY <1>1
    <3>2. pc[Screen] = "mark" => pc'[Screen] = "mark"
      BY <1>1, <1>2, Processes
    <3> QED
      BY <1>1, <3>1, <3>2 DEF Marking
  <2>2. r \in Settled /\ r \in Refs /\ r \in applied /\ r \notin outrun'
    BY <1>1, <2>1 DEF Settled, Shape, Chosen, Tables
  <2>3. Kept(r)
    BY <2>2 DEF AppliedInv
  <2>4. /\ rows[r] = NoRow => rows'[r] = NoRow
        /\ rows'[r] = NoRow => Known(r)
    <3>1. CASE c \in overtaken
      <4>1. ~(rows[r] = NoRow <=> rows'[r] # NoRow)
        BY <1>1, <2>2, <3>1
      <4> QED
        BY <2>3, <4>1 DEF Kept
    <3>2. CASE c \notin overtaken
      <4>1. Reprojecting(c) /\ todo[c] = {}
        BY <1>1 DEF Reprojecting, Shape, Locals
      <4>2. rows[r] # NoRow /\ r \notin broken[c] => Known(r)
        BY <2>2, <3>2, <4>1 DEF AppliedInv, ReadAll, LookedUp
      <4> QED
        BY <1>4, <2>2, <2>3, <3>2, <4>2 DEF Kept
    <3> QED
      BY <3>1, <3>2
  <2>5. rows'[r].status # "open"
    <3>1. rows[r].status = "none" => rows[r] = NoRow
      BY <2>2, NoRowIsNone DEF Shape, Tables, Statuses
    <3> QED
      BY <1>4, <2>2, <2>3, <2>4, <3>1, NoRowIsNone DEF Kept
  <2>6. pc'[Screen] \in {"act", "mark"} =>
            memo'[r].status # "open" /\ (memo'[r] = NoRow => rows'[r] = NoRow)
    <3>1. pc'[Screen] \in {"act", "mark"} => pc[Screen] \in {"act", "mark"}
      BY <1>2, Processes
    <3> QED
      BY <1>1, <2>3, <2>4, <3>1 DEF Kept
  <2>7. rows'[r] = NoRow => Known(r)' /\ \A d \in Commands \ overtaken' : r \notin broken'[d]
    BY <1>3, <1>6, <2>2, <2>4
  <2> QED
    BY <2>5, <2>6, <2>7 DEF Kept
<1>8. ASSUME NEW d \in Commands PROVE ReadAll(d)' /\ LookedUp(d)'
  <2>1. ReadAll(d)'
    BY <1>6 DEF ReadAll
  <2>2. CASE d = c
    BY <1>2, <2>1, <2>2 DEF LookedUp, Reprojecting
  <2>3. CASE d # c
    <3>1. LookedUp(d) /\ read[d] \subseteq Refs
      BY DEF AppliedInv, Shape, Locals
    <3>2. LookedUp(d)'
      BY <1>1, <1>2, <1>3, <1>5, <2>3, <3>1 DEF LookedUp
    <3> QED
      BY <2>1, <3>2
  <2>4. LookedUp(d)'
    BY <2>2, <2>3
  <2> QED
    BY <2>1, <2>4
<1> QED
  BY <1>7, <1>8 DEF AppliedInv

(* The screen: what is read is what is there, *)
LEMMA AppliedOfScreen ==
    ASSUME Shape, AppliedInv,
           (\E r \in Refs : Look(r)) \/ FindRepair \/ AppendApply \/ Dismiss \/ OtherAction
    PROVE  AppliedInv'
<1>0. Screen \in Commands
  BY Processes
<1>1. /\ UNCHANGED <<seen, owner, rows, read, todo, broken, outrun, overtaken>>
      /\ \E step \in {"look", "act", "mark", "load"} : pc' = [pc EXCEPT ![Screen] = step]
      /\ pc[Screen] \in {"idle", "look", "act"}
  BY DEF Look, FindRepair, AppendApply, Dismiss, OtherAction, Goto, stores, repairHistory
<1>2. /\ \A r \in Refs : Known(r)' <=> Known(r)
      /\ \A d \in Commands : Reprojecting(d)' => Reprojecting(d)
  BY <1>0, <1>1 DEF Known, Resolve, Reprojecting, Shape, Locals
<1>3. CASE (\E r \in Refs : Look(r)) \/ Dismiss \/ OtherAction
  <2>1. /\ UNCHANGED <<memo, applied, missed>> /\ pc[Screen] # "mark"
        /\ pc'[Screen] \in {"look", "load"}
    BY <1>0, <1>3
    DEF Look, Dismiss, OtherAction, Goto, stores, repairHistory, Shape, Locals
  <2>2. Settled' \subseteq Settled
    BY <1>1, <2>1 DEF Settled, Marking
  <2> QED
    BY <1>1, <1>2, <2>1, <2>2, AppliedStays
<1>4. CASE FindRepair
  <2>1. /\ UNCHANGED <<applied, missed, item>> /\ pc[Screen] # "mark" /\ memo' = rows
        /\ pc'[Screen] = "act"
    BY <1>0, <1>4 DEF FindRepair, Goto, stores, repairHistory, Shape, Locals
  <2>2. Settled' = Settled
    BY <1>1, <2>1 DEF Settled, Marking
  <2>3. ASSUME NEW r \in Settled PROVE Kept(r)'
    <3>1. r \in Refs /\ Kept(r)
      BY DEF AppliedInv, Settled, Shape, Chosen, Tables
    <3> QED
      BY <1>1, <1>2, <2>1, <3>1 DEF Kept
  <2>4. \A d \in Commands : ReadAll(d)' /\ LookedUp(d)'
    BY <1>1, <1>2, <2>1, CommandStays
  <2> QED
    BY <2>2, <2>3, <2>4 DEF AppliedInv
<1>5. CASE AppendApply
  <2>1. PICK r \in seen, n \in Nat : item = <<<<r, n>>>>
    BY <1>5 DEF Shape, Chosen, AppendApply
  <2>2. item[1][1] = r /\ item[1][2] = n
    BY <2>1
  <2>3. /\ pc[Screen] = "act" /\ applied' = applied \cup {r}
        /\ \/ /\ pc'[Screen] = "mark" /\ UNCHANGED <<missed, item, memo>>
           \/ /\ pc'[Screen] = "load" /\ missed' = missed \cup {r} /\ memo' = NoRows
    BY <1>0, <1>5, <2>2 DEF AppendApply, Goto, Shape, Locals
  <2>4. Settled' \subseteq Settled
    BY <1>1, <2>2, <2>3 DEF Settled, Marking
  <2> QED
    BY <1>1, <1>2, <2>3, <2>4, AppliedStays
<1> QED
  BY <1>3, <1>4, <1>5

(* and what is written back is that, but for the repair that is marked. *)
LEMMA AppliedOfMarkResolved ==
    ASSUME Shape, AppliedInv, MarkResolved PROVE AppliedInv'
<1>0. PICK r \in seen, n \in Nat : item = <<<<r, n>>>>
  BY DEF MarkResolved, Shape, Chosen
<1>1. r \in Refs /\ item[1][1] = r /\ item[1][2] = n
  BY <1>0 DEF Shape, Tables
<1> DEFINE marked == [memo EXCEPT ![r].status = "resolved"]
<1>2. /\ UNCHANGED <<seen, owner, read, todo, broken, applied, overtaken, outrun>>
      /\ pc[Screen] = "mark" /\ pc' = [pc EXCEPT ![Screen] = "load"] /\ memo' = NoRows
      /\ rows' = Overlaid(marked, {}) /\ missed' = missed \ {r} /\ Screen \in Commands
  BY <1>1, Processes DEF MarkResolved, Goto
<1>3. /\ marked \in [Refs -> Row] /\ marked[r].status = "resolved" /\ memo[r] # NoRow
      /\ \A q \in Refs : (marked[q] = NoRow <=> memo[q] = NoRow)
                          /\ (q # r => marked[q] = memo[q])
  <2>1. memo[r].id \in Nat /\ memo \in [Refs -> Row]
    BY <1>1, <1>2 DEF Shape, Tables, Chosen
  <2> QED
    BY <1>1, <2>1, MarkedRows, NoRowIsNone
<1> HIDE DEF marked
<1>4. \A q \in Refs :
          /\ rows'[q] = NoRow <=> memo[q] = NoRow
          /\ rows'[q].status = "open" => q # r /\ memo[q].status = "open"
  BY <1>1, <1>2, <1>3, OverlaidRows DEF Shape, Tables
<1>5. /\ \A q \in Refs : Known(q)' <=> Known(q)
      /\ pc'[Screen] = "load"
      /\ \A d \in Commands : Reprojecting(d)' => Reprojecting(d)
  BY <1>2 DEF Known, Resolve, Reprojecting, Shape, Locals
<1>6. ASSUME NEW q \in Settled' PROVE Kept(q)'
  <2>1. q \in applied /\ q \in Refs
    BY <1>2 DEF Settled, Shape, Chosen, Tables
  <2>2. CASE q = r
    BY <1>1, <1>3, <1>4, <1>5, <2>2 DEF Kept
  <2>3. CASE q # r
    <3>1. q \in Settled
      BY <1>1, <1>2, <2>3 DEF Settled, Marking
    <3>2. Kept(q)
      BY <3>1 DEF AppliedInv
    <3> QED
      BY <1>2, <1>4, <1>5, <2>1, <2>3, <3>2 DEF Kept
  <2> QED
    BY <2>2, <2>3
<1>7. ASSUME NEW d \in Commands PROVE ReadAll(d)' /\ LookedUp(d)'
  <2>1. ReadAll(d) /\ LookedUp(d) /\ read[d] \subseteq Refs
    BY DEF AppliedInv, Shape, Locals
  <2>2. ReadAll(d)'
    BY <1>2, <1>4, <1>5, <2>1 DEF ReadAll, NoRows
  <2>3. LookedUp(d)'
    BY <1>2, <1>5, <2>1 DEF LookedUp
  <2> QED
    BY <2>2, <2>3
<1> QED
  BY <1>6, <1>7 DEF AppliedInv

(* A command that dies forgets what it had read; the mark it had not made is  *)
(* accounted for.                                                             *)
LEMMA AppliedOfCrash ==
    ASSUME Shape, AppliedInv, NEW c \in Commands, Crash(c) PROVE AppliedInv'
<1>1. /\ UNCHANGED <<seen, owner, rows, applied, outrun>>
      /\ pc' = [pc EXCEPT ![c] = "idle"] /\ read' = [read EXCEPT ![c] = {}]
      /\ todo' = [todo EXCEPT ![c] = {}] /\ broken' = [broken EXCEPT ![c] = {}]
      /\ IF c = Screen THEN item' = NoItem /\ memo' = NoRows ELSE UNCHANGED <<item, memo>>
      /\ missed' = IF pc[c] = "mark" THEN missed \cup {item[1][1]} ELSE missed
      /\ overtaken' = overtaken \ {c}
  BY DEF Crash, stores
<1>2. /\ pc'[c] = "idle" /\ read'[c] = {} /\ broken'[c] = {}
      /\ \A d \in Commands \ {c} : /\ pc'[d] = pc[d] /\ read'[d] = read[d]
                                   /\ todo'[d] = todo[d] /\ broken'[d] = broken[d]
  BY <1>1 DEF Shape, Locals
<1>3. /\ \A r \in Refs : Known(r)' <=> Known(r)
      /\ \A d \in Commands : Reprojecting(d)' => Reprojecting(d) /\ d # c
  BY <1>1, <1>2 DEF Known, Resolve, Reprojecting
<1>4. Settled' \subseteq Settled
  <2> SUFFICES ASSUME NEW r \in Settled' PROVE r \in Settled
    OBVIOUS
  <2>1. missed \subseteq missed'
    BY <1>1
  <2>2. Marking(r) => r \in missed' \/ Marking(r)'
    BY <1>1, <1>2, Processes DEF Marking
  <2> QED
    BY <1>1, <2>1, <2>2 DEF Settled
<1>5. pc'[Screen] \in {"act", "mark"} => pc[Screen] \in {"act", "mark"} /\ memo' = memo
  BY <1>1, <1>2, Processes
<1>6. \A r \in Settled' : Kept(r)'
  <2>1. \A d \in Commands \ overtaken' :
            broken'[d] = {} \/ (broken'[d] = broken[d] /\ d \notin overtaken)
    BY <1>1, <1>2
  <2>2. rows' = rows /\ \A r \in Refs : Known(r) => Known(r)'
    BY <1>1, <1>3
  <2> QED
    BY <1>4, <1>5, <2>1, <2>2, KeptStays
<1>7. \A r \in Refs : memo'[r] # NoRow => memo[r] # NoRow
  BY <1>1 DEF NoRows
<1>8. \A d \in Commands : ReadAll(d)' /\ LookedUp(d)'
  BY <1>1, <1>2, <1>3, <1>7, CommandStays
<1> QED
  BY <1>6, <1>8 DEF AppliedInv

LEMMA AppliedStep == Shape /\ AppliedInv /\ [Next]_vars => AppliedInv'
<1> SUFFICES ASSUME Shape, AppliedInv, [Next]_vars PROVE AppliedInv'
  OBVIOUS
<1>1. \A r \in Refs : Known(r) => Known(r)'
  BY KnownStays
<1> QED
  BY <1>1, Processes, StepsOfDesk, AppliedOfPass, AppliedOfRecords, AppliedOfReadEvents,
     AppliedOfBuildEdge, AppliedOfReplaceRepairs, AppliedOfScreen, AppliedOfMarkResolved,
     AppliedOfCrash

(* A repair the user has applied is not offered again, whatever overlaps and  *)
(* crashes, unless that very repair was never marked for it, or its row was   *)
(* written by a reprojection that another had overtaken.                      *)
THEOREM AppliedRepairsStayAway == Spec => []AppliedStaysAway
<1>1. Init => Shape /\ AppliedInv
  BY ShapeInit, AppliedInit DEF Init
<1>2. Shape /\ AppliedInv /\ [Next]_vars => (Shape /\ AppliedInv)'
  BY ShapeStep, AppliedStep
<1>3. AppliedInv => AppliedStaysAway
  BY DEF AppliedInv, Kept, Settled, Marking, AppliedStaysAway
<1> QED
  BY <1>1, <1>2, <1>3, PTL DEF Spec
=============================================================================
