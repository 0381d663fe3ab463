---------------------------- MODULE ReadOrderProofs ----------------------------
(* Theorems about ProjectionCheck: the sorting and looping of the code comes  *)
(* to what Projection says, for every number of observations.                 *)
EXTENDS ProjectionCheck, ProjectionProofs

(* Rows as a SELECT may return them: an id occurs once. *)
OnceEach(S) == \A i, j \in DOMAIN S : S[i].id = S[j].id => i = j

LEMMA ObservationsAreRated ==
    ASSUME NEW o \in Observations PROVE Rated(o) /\ o # NoValue
  BY Comparable, NoValueIsNone DEF Observations, Rated

-----------------------------------------------------------------------------
(* Sorting. *)

(* Rows differ, so stability decides nothing. *)
LEMMA BeforeIsBelow ==
    ASSUME NEW S \in Seq(Observations), OnceEach(S), NEW i \in DOMAIN S, NEW j \in DOMAIN S
    PROVE  /\ Before(S, i, j) <=> Outranks(S[j], S[i])
           /\ i # j => Before(S, i, j) \/ Before(S, j, i)
<1>1. Rated(S[i]) /\ Rated(S[j]) /\ i \in Int /\ j \in Int
  BY ObservationsAreRated
<1>2. i # j => S[i] # S[j] /\ S[i].id # S[j].id
  BY DEF OnceEach
<1>3. i # j => Outranks(S[i], S[j]) \/ Outranks(S[j], S[i])
  BY <1>1, <1>2, Lexicographic DEF Rated
<1>4. Outranks(S[i], S[j]) => ~Outranks(S[j], S[i])
  BY <1>1, OutranksOrder
<1> QED
  BY <1>1, <1>3, <1>4 DEF Before

LEMMA BeforeIsOrder ==
    ASSUME NEW S \in Seq(Observations), OnceEach(S),
           NEW i \in DOMAIN S, NEW j \in DOMAIN S, NEW k \in DOMAIN S
    PROVE  /\ ~Before(S, i, i)
           /\ Before(S, i, j) => ~Before(S, j, i)
           /\ Before(S, i, j) /\ Before(S, j, k) => Before(S, i, k)
<1>1. Rated(S[i]) /\ Rated(S[j]) /\ Rated(S[k])
  BY ObservationsAreRated
<1> QED
  BY <1>1, BeforeIsBelow, OutranksOrder

Places(S) == [j \in DOMAIN S |-> Cardinality({i \in DOMAIN S : Before(S, i, j)}) + 1]

(* Every place is taken, by one row. *)
LEMMA PlacesAreTaken ==
    ASSUME NEW S \in Seq(Observations), OnceEach(S)
    PROVE  /\ Places(S) \in [DOMAIN S -> DOMAIN S]
           /\ \A i, j \in DOMAIN S : Before(S, i, j) => Places(S)[i] < Places(S)[j]
           /\ \A k \in DOMAIN S : \E j \in DOMAIN S : Places(S)[j] = k
<1> DEFINE D == DOMAIN S
           below(j) == {i \in D : Before(S, i, j)}
           n == Len(S)
<1>1. n \in Nat /\ D = 1..n /\ IsFiniteSet(D) /\ Cardinality(D) = n
  <2>1. n \in Nat /\ D = 1..n
    OBVIOUS
  <2>2. IsFiniteSet(1..n) /\ Cardinality(1..n) = n
    BY <2>1, FS_Interval
  <2> QED
    BY <2>1, <2>2
<1>2. \A j \in D : Places(S)[j] = Cardinality(below(j)) + 1
  BY DEF Places
<1>3. \A i, j \in D : Before(S, i, j) => below(i) \subseteq below(j) /\ i \in below(j)
  BY BeforeIsOrder
<1>4. \A j \in D : below(j) \subseteq D /\ j \notin below(j)
  BY BeforeIsOrder
<1>5. \A j \in D : IsFiniteSet(below(j)) /\ Cardinality(below(j)) \in 0..(n - 1)
  <2> SUFFICES ASSUME NEW j \in D
               PROVE  IsFiniteSet(below(j)) /\ Cardinality(below(j)) \in 0..(n - 1)
    OBVIOUS
  <2> DEFINE B == below(j)
  <2>1. B \in SUBSET D /\ j \notin B
    BY <1>4
  <2> HIDE DEF B, D, n
  <2>2. IsFiniteSet(B) /\ Cardinality(B) <= n /\ Cardinality(B) # n
    BY <1>1, <2>1, FS_Subset
  <2>3. Cardinality(B) \in Nat
    BY <2>2, FS_CardinalityType
  <2>4. Cardinality(B) \in 0..(n - 1)
    BY <1>1, <2>2, <2>3
  <2> QED
    BY <2>2, <2>4 DEF B
<1>6. Places(S) \in [D -> D]
  <2>1. \A c \in 0..(n - 1) : c + 1 \in D
    BY <1>1
  <2>2. \A j \in D : Places(S)[j] \in D
    BY <1>2, <1>5, <2>1
  <2> QED
    BY <2>2 DEF Places
<1>7. ASSUME NEW i \in D, NEW j \in D, Before(S, i, j) PROVE Places(S)[i] < Places(S)[j]
  <2> DEFINE A == below(i)
             B == below(j)
  <2>1. A \in SUBSET B /\ i \in B /\ i \notin A
    BY <1>3, <1>4, <1>7
  <2>2. IsFiniteSet(A) /\ IsFiniteSet(B)
    BY <1>5
  <2>3. Places(S)[i] = Cardinality(A) + 1 /\ Places(S)[j] = Cardinality(B) + 1
    BY <1>2
  <2> HIDE DEF A, B
  <2>4. Cardinality(A) <= Cardinality(B) /\ Cardinality(A) # Cardinality(B)
    BY <2>1, <2>2, FS_Subset
  <2>5. Cardinality(A) \in Nat /\ Cardinality(B) \in Nat
    BY <2>2, FS_CardinalityType
  <2> QED
    BY <2>3, <2>4, <2>5
<1>8. ASSUME NEW k \in D PROVE \E j \in D : Places(S)[j] = k
  <2>1. \A i, j \in D : Places(S)[i] = Places(S)[j] => i = j
    <3> SUFFICES ASSUME NEW i \in D, NEW j \in D, Places(S)[i] = Places(S)[j], i # j
                 PROVE  FALSE
      OBVIOUS
    <3>1. Before(S, i, j) \/ Before(S, j, i)
      BY BeforeIsBelow
    <3>2. Places(S)[i] \in Int /\ Places(S)[j] \in Int
      BY <1>1, <1>6
    <3> QED
      BY <1>7, <3>1, <3>2
  <2> HIDE DEF D
  <2>2. Places(S) \in Injection(D, D)
    BY <1>6, <2>1 DEF Injection, IsInjective
  <2>3. Places(S) \in Surjection(D, D)
    BY <1>1, <2>2, FS_Injection
  <2> QED
    BY <1>8, <2>3 DEF Surjection
<1> QED
  BY <1>6, <1>7, <1>8

(* sorted() returns the rows again, the lowest first. *)
LEMMA Sorted ==
    ASSUME NEW S \in Seq(Observations), OnceEach(S)
    PROVE  /\ Ordered(S) \in Seq(Observations) /\ Len(Ordered(S)) = Len(S)
           /\ \A o : (\E k \in DOMAIN S : Ordered(S)[k] = o) <=> (\E k \in DOMAIN S : S[k] = o)
           /\ \A k, l \in DOMAIN S : k < l => Outranks(Ordered(S)[l], Ordered(S)[k])
<1> DEFINE D == DOMAIN S
           at == [k \in D |-> CHOOSE j \in D : Places(S)[j] = k]
<1>1. D = 1..Len(S) /\ Len(S) \in Nat
  OBVIOUS
<1>2. \A k \in D : at[k] \in D /\ Places(S)[at[k]] = k
  BY PlacesAreTaken
<1>3. Ordered(S) = [k \in D |-> S[at[k]]]
  BY DEF Ordered, Places
<1> HIDE DEF at
<1>4. \A i, j \in D : i # j => Before(S, i, j) \/ Before(S, j, i)
  BY BeforeIsBelow
<1>5. \A i, j \in D : Before(S, i, j) => Places(S)[i] < Places(S)[j]
  BY PlacesAreTaken
<1>6. \A i \in D : Places(S)[i] \in D
  BY PlacesAreTaken
<1>7. \A j \in D : at[Places(S)[j]] = j
  <2> SUFFICES ASSUME NEW j \in D, at[Places(S)[j]] # j PROVE FALSE
    OBVIOUS
  <2> DEFINE i == at[Places(S)[j]]
  <2>1. i \in D /\ Places(S)[i] = Places(S)[j] /\ Places(S)[i] \in Int
    BY <1>1, <1>2, <1>6
  <2> HIDE DEF i
  <2>2. i # j
    BY DEF i
  <2> QED
    BY <1>4, <1>5, <2>1, <2>2
<1>8. Ordered(S) \in Seq(Observations) /\ Len(Ordered(S)) = Len(S)
  <2>1. \A k \in 1..Len(S) : S[at[k]] \in Observations
    BY <1>1, <1>2
  <2>2. [k \in 1..Len(S) |-> S[at[k]]] \in Seq(Observations)
    BY <1>1, <2>1
  <2> QED
    BY <1>1, <1>3, <2>2
<1>9. ASSUME NEW o
      PROVE  (\E k \in D : Ordered(S)[k] = o) <=> (\E k \in D : S[k] = o)
  <2>1. ASSUME NEW k \in D PROVE at[k] \in D /\ Ordered(S)[k] = S[at[k]]
    BY <1>2, <1>3
  <2>2. ASSUME NEW k \in D PROVE Places(S)[k] \in D /\ Ordered(S)[Places(S)[k]] = S[k]
    BY <1>6, <1>7, <2>1
  <2> QED
    BY <2>1, <2>2
<1>10. ASSUME NEW k \in D, NEW l \in D, k < l
       PROVE  Outranks(Ordered(S)[l], Ordered(S)[k])
  <2>1. at[k] \in D /\ at[l] \in D /\ Places(S)[at[k]] = k /\ Places(S)[at[l]] = l
    BY <1>2
  <2>2. at[k] # at[l] /\ k \in Int /\ l \in Int
    BY <1>1, <1>10, <2>1
  <2>3. Before(S, at[k], at[l])
    BY <1>4, <1>5, <1>10, <2>1, <2>2
  <2>4. Outranks(S[at[l]], S[at[k]])
    BY <2>1, <2>3, BeforeIsBelow
  <2> QED
    BY <1>3, <2>4
<1> QED
  BY <1>8, <1>9, <1>10

-----------------------------------------------------------------------------
(* What resolve_field and project() take from the sorted rows. *)

LEMMA RowsAreALedger ==
    ASSUME NEW S \in Seq(Observations), OnceEach(S)
    PROVE  Ledger(ToSet(S)) /\ ToSet(S) \subseteq Observations
<1> DEFINE O == ToSet(S)
<1>1. O \subseteq Observations /\ \A o \in O : \E i \in DOMAIN S : S[i] = o
  BY DEF ToSet
<1>2. IsFiniteSet(O)
  <2>1. Len(S) \in Nat /\ DOMAIN S = 1..Len(S)
    OBVIOUS
  <2>2. IsFiniteSet(1..Len(S))
    BY <2>1, FS_Interval
  <2>3. S \in Surjection(DOMAIN S, O)
    BY <2>1 DEF Surjection, ToSet
  <2> QED
    BY <2>1, <2>2, <2>3, FS_Surjection
<1>3. \A a, b \in O : a # b => a.id # b.id
  BY <1>1 DEF OnceEach
<1>4. \A o \in O : Rated(o)
  BY <1>1, ObservationsAreRated
<1> QED
  BY <1>1, <1>2, <1>3, <1>4 DEF Ledger

LEMMA DisputedUnique ==
    ASSUME NEW S, Ledger(S), NEW l \in Disagreeing(S),
           \A m \in Disagreeing(S) \ {l} : Outranks(m, l)
    PROVE  Disputed(S) = l
<1> DEFINE d == Disputed(S)
<1>1. d \in Disagreeing(S) /\ \A m \in Disagreeing(S) \ {d} : Outranks(m, d)
  BY DisputedDisagrees
<1>2. Disagreeing(S) \subseteq S
  BY DEF Disagreeing
<1> HIDE DEF d
<1>3. Rated(d) /\ Rated(l)
  BY <1>1, <1>2 DEF Ledger
<1>4. d = l
  BY <1>1, <1>3, OutranksOrder
<1> QED
  BY <1>4 DEF d

LEMMA LastIsWinner ==
    ASSUME NEW S \in Seq(Observations), OnceEach(S), S # <<>>
    PROVE  ResolveField(S) = Winner(ToSet(S))
<1> DEFINE T == Ordered(S)
           n == Len(S)
<1>1. n \in Nat /\ n > 0 /\ DOMAIN S = 1..n
  OBVIOUS
<1>2. /\ T \in Seq(Observations) /\ Len(T) = n
      /\ \A o : (\E k \in DOMAIN S : T[k] = o) <=> (\E k \in DOMAIN S : S[k] = o)
  BY Sorted
<1>3. \A k \in 1..n : k < n => Outranks(T[n], T[k])
  BY <1>1, Sorted
<1>4. \A o : o \in ToSet(S) <=> \E k \in 1..n : T[k] = o
  <2>1. \A o : o \in ToSet(S) <=> \E k \in DOMAIN S : S[k] = o
    BY DEF ToSet
  <2> HIDE DEF T, n
  <2> QED
    BY <1>1, <1>2, <2>1
<1> HIDE DEF T, n
<1>5. T[n] \in ToSet(S)
  BY <1>1, <1>4
<1>6. \A o \in ToSet(S) \ {T[n]} : Outranks(T[n], o)
  <2> SUFFICES ASSUME NEW o \in ToSet(S), o # T[n] PROVE Outranks(T[n], o)
    OBVIOUS
  <2>1. PICK k \in 1..n : T[k] = o
    BY <1>4
  <2> QED
    BY <1>1, <1>3, <2>1
<1>7. T[n] = Winner(ToSet(S))
  BY <1>5, <1>6, RowsAreALedger, WinnerUnique
<1> QED
  BY <1>2, <1>7 DEF ResolveField, Last, T

(* A finite set of numbers has a least one. *)
LEMMA LeastOf ==
    ASSUME NEW H, IsFiniteSet(H), H # {}, \A k \in H : k \in Int
    PROVE  Min(H) \in H /\ \A k \in H : Min(H) <= k
<1> DEFINE R == {p \in H \X H : p[1] < p[2]}
<1>1. \A a, b \in H : <<a, b>> \in R <=> a < b
  OBVIOUS
<1> HIDE DEF R
<1>2. /\ \A a, b, c \in H : <<a, b>> \in R /\ <<b, c>> \in R => <<a, c>> \in R
      /\ \A a, b \in H : a # b => <<a, b>> \in R \/ <<b, a>> \in R
  BY <1>1
<1>3. PICK w \in H : \A o \in H \ {w} : <<w, o>> \in R
  BY <1>2, Greatest
<1>4. \A o \in H \ {w} : w < o
  BY <1>1, <1>3
<1>5. \A o \in H : w <= o
  BY <1>4
<1> QED
  BY <1>5 DEF Min

LEMMA FirstIsDisputed ==
    ASSUME NEW S \in Seq(Observations), OnceEach(S), S # <<>>
    PROVE  FirstConflict(S) = Disputed(ToSet(S))
<1> DEFINE T == Ordered(S)
           n == Len(S)
           w == Last(T)
           losers == Front(T)
           hits == {k \in DOMAIN losers : Disagrees(losers[k], w)}
           O == ToSet(S)
<1>1. n \in Nat /\ n > 0 /\ DOMAIN S = 1..n
  OBVIOUS
<1>2. /\ T \in Seq(Observations) /\ Len(T) = n
      /\ \A o : (\E k \in 1..n : T[k] = o) <=> (\E k \in 1..n : S[k] = o)
      /\ \A k, l \in 1..n : k < l => Outranks(T[l], T[k])
  BY <1>1, Sorted
<1>3. Ledger(O) /\ O \subseteq Observations
  BY RowsAreALedger
<1>4. w = Winner(O) /\ w = T[n]
  BY <1>2, LastIsWinner DEF ResolveField, Last
<1>5. FirstConflict(S) = IF hits = {} THEN NoValue ELSE losers[Min(hits)]
  BY DEF FirstConflict
<1> HIDE DEF T, n, O
<1>6. DOMAIN losers = 1..(n - 1) /\ \A k \in 1..(n - 1) : losers[k] = T[k]
  BY <1>1, <1>2 DEF Front
<1> HIDE DEF w, losers
<1>7. \A k \in 1..n : T[k] \in O
  BY <1>1, <1>2 DEF O, ToSet
<1>8. ~Disagrees(w, w)
  BY <1>1, <1>3, <1>4, <1>7 DEF Disagrees, Ledger, Rated
<1>9. \A k \in hits : k \in 1..(n - 1) /\ T[k] \in Disagreeing(O) /\ losers[k] = T[k]
  BY <1>1, <1>4, <1>6, <1>7 DEF Disagreeing
<1>10. \A o \in Disagreeing(O) : \E k \in hits : T[k] = o
  <2> SUFFICES ASSUME NEW o \in O, Disagrees(o, w) PROVE \E k \in hits : T[k] = o
    BY <1>4 DEF Disagreeing
  <2>1. PICK k \in 1..n : T[k] = o
    BY <1>1, <1>2 DEF O, ToSet
  <2>2. k # n
    BY <1>4, <1>8, <2>1
  <2> QED
    BY <1>1, <1>6, <2>1, <2>2
<1> HIDE DEF hits
<1>11. CASE hits = {}
  BY <1>5, <1>10, <1>11 DEF Disputed, O
<1>12. CASE hits # {}
  <2> DEFINE k == Min(hits)
  <2>1. k \in hits /\ \A j \in hits : k <= j
    <3>1. hits \in SUBSET (1..(n - 1)) /\ \A j \in hits : j \in Int
      BY <1>1, <1>9
    <3>2. IsFiniteSet(1..(n - 1))
      BY <1>1, FS_Interval
    <3>3. IsFiniteSet(hits)
      BY <3>1, <3>2, FS_Subset
    <3> QED
      BY <1>12, <3>1, <3>3, LeastOf
  <2> HIDE DEF k
  <2>2. T[k] \in Disagreeing(O)
    BY <1>9, <2>1
  <2>3. \A m \in Disagreeing(O) \ {T[k]} : Outranks(m, T[k])
    <3> SUFFICES ASSUME NEW m \in Disagreeing(O), m # T[k] PROVE Outranks(m, T[k])
      OBVIOUS
    <3>1. PICK j \in hits : T[j] = m
      BY <1>10
    <3>2. j \in 1..n /\ k \in 1..n /\ k < j
      BY <1>1, <1>9, <2>1, <3>1
    <3> QED
      BY <1>2, <3>1, <3>2
  <2>4. Disputed(O) = T[k]
    BY <1>3, <2>2, <2>3, DisputedUnique
  <2> QED
    BY <1>5, <1>9, <1>12, <2>1, <2>4 DEF k, O
<1> QED
  BY <1>11, <1>12

-----------------------------------------------------------------------------
(* The rows of the machine: ids are unique, and ingested_at grows. *)

RowsInv ==
    /\ rows \in Seq(Observations) /\ batch \in 1..(Len(rows) + 1)
    /\ OnceEach(rows)
    /\ \A i \in DOMAIN rows : rows[i].got = i /\ rows[i].id \in Ids

LEMMA RowsInit == Init => RowsInv
  BY DEF Init, RowsInv, OnceEach

LEMMA RowsStep == RowsInv /\ [Next]_vars => RowsInv'
<1> SUFFICES ASSUME RowsInv, [Next]_vars PROVE RowsInv'
  OBVIOUS
<1>1. Len(rows) \in Nat /\ DOMAIN rows = 1..Len(rows)
  BY DEF RowsInv
<1>2. CASE Ingest
  <2> DEFINE n == Len(rows)
  <2>1. PICK d \in [src: Sources, val: Values, at: Times], id \in Ids \ UsedIds :
           rows' = Append(rows, Finalize(d, id, n + 1))
    BY <1>2 DEF Ingest
  <2> DEFINE o == Finalize(d, id, n + 1)
  <2>2. o \in Observations /\ o.got = n + 1 /\ o.id = id
    BY <1>1 DEF Finalize, Observations
  <2>3. \A i \in DOMAIN rows : rows[i].id # id
    BY <2>1 DEF UsedIds
  <2> HIDE DEF o
  <2>4. /\ rows' \in Seq(Observations) /\ Len(rows') = n + 1 /\ rows'[n + 1] = o
        /\ DOMAIN rows' = 1..(n + 1) /\ \A i \in 1..n : rows'[i] = rows[i]
    BY <1>1, <2>1, <2>2 DEF RowsInv, o
  <2>5. \A i \in 1..(n + 1) : i \in 1..n \/ i = n + 1
    BY <1>1
  <2>6. OnceEach(rows)'
    BY <1>1, <2>2, <2>3, <2>4, <2>5 DEF RowsInv, OnceEach
  <2>7. \A i \in DOMAIN rows' : rows'[i].got = i /\ rows'[i].id \in Ids
    BY <1>1, <2>1, <2>2, <2>4, <2>5 DEF RowsInv
  <2>8. batch' \in 1..(n + 2)
    BY <1>1, <1>2 DEF Ingest, RowsInv
  <2> QED
    BY <1>1, <2>4, <2>6, <2>7, <2>8 DEF RowsInv
<1>3. CASE NextFetch
  BY <1>1, <1>3 DEF NextFetch, RowsInv, OnceEach
<1>4. CASE UNCHANGED vars
  BY <1>4 DEF vars, RowsInv, OnceEach
<1> QED
  BY <1>2, <1>3, <1>4 DEF Next

LEMMA RowsAlways == Spec => []RowsInv
  BY RowsInit, RowsStep, PTL DEF Spec

(* A read returns each row once. *)
LEMMA ReadsAreRows ==
    ASSUME RowsInv, NEW S \in Reads
    PROVE  S \in Seq(Observations) /\ OnceEach(S) /\ ToSet(S) = ToSet(rows)
           /\ (rows # <<>> => S # <<>>)
<1> DEFINE D == DOMAIN rows
<1>1. Len(rows) \in Nat /\ D = 1..Len(rows) /\ IsFiniteSet(D)
  <2>1. Len(rows) \in Nat /\ D = 1..Len(rows)
    BY DEF RowsInv
  <2> QED
    BY <2>1, FS_Interval
<1>2. PICK p \in [D -> D] : IsInjective(p) /\ S = [i \in D |-> rows[p[i]]]
  BY DEF Reads
<1>3. \A j \in D : \E i \in D : p[i] = j
  <2> HIDE DEF D
  <2>1. p \in Injection(D, D)
    BY <1>2 DEF Injection
  <2>2. p \in Surjection(D, D)
    BY <1>1, <2>1, FS_Injection
  <2> QED
    BY <2>2 DEF Surjection
<1>4. S \in Seq(Observations) /\ DOMAIN S = D /\ Len(S) = Len(rows)
  <2>1. \A i \in D : rows[p[i]] \in Observations
    BY <1>1, <1>2 DEF RowsInv
  <2>2. S \in [1..Len(rows) -> Observations]
    BY <1>1, <1>2, <2>1
  <2> QED
    BY <1>1, <2>2
<1>5. OnceEach(S)
  BY <1>2, <1>4 DEF RowsInv, OnceEach, IsInjective
<1>6. ToSet(S) = ToSet(rows)
  <2>1. \A i \in D : S[i] = rows[p[i]] /\ p[i] \in D
    BY <1>2
  <2> QED
    BY <1>3, <1>4, <2>1 DEF ToSet
<1>7. rows # <<>> => S # <<>>
  BY <1>1, <1>4 DEF RowsInv
<1> QED
  BY <1>4, <1>5, <1>6, <1>7

(* For any number of observations, sources and values, and in whatever order  *)
(* the store returns them: sorting and taking the last finds the observation  *)
(* no other outranks, and walking the rest the lowest that disagrees with it. *)
THEOREM ReadOrderDoesNotMatter == Spec => []ReadOrderIrrelevant
<1>1. RowsInv => ReadOrderIrrelevant
  BY ReadsAreRows, LastIsWinner, FirstIsDisputed DEF ReadOrderIrrelevant
<1> QED
  BY <1>1, RowsAlways, PTL

-----------------------------------------------------------------------------
(* The latest fetch once more. *)

LEMMA LengthOfBoth ==
    ASSUME NEW T, NEW A \in Seq(T), NEW B \in Seq(T) PROVE Len(A \o B) = Len(A) + Len(B)
  OBVIOUS

(* The rows with the copies: the old ones where they were, and a copy of each *)
(* row of the latest fetch.                                                   *)
LEMMA RefetchedRows ==
    ASSUME RowsInv, NEW f \in FreshIds
    PROVE  LET again == Refetch(f)
               n == Len(rows)
               m == n - batch + 1
           IN /\ n \in Nat /\ m \in 0..n /\ DOMAIN rows = 1..n
              /\ again \in Seq(Observations) /\ DOMAIN again = 1..(n + m)
              /\ \A i \in 1..n : again[i] = rows[i]
              /\ \A i \in 1..m :
                    /\ Copies(again[n + i], rows[batch + i - 1])
                    /\ batch + i - 1 \in 1..n
                    /\ again[n + i].got = n + i /\ again[n + i].id = f[i]
<1> DEFINE n == Len(rows)
           m == n - batch + 1
           copies == [i \in 1..m |-> Finalize(rows[batch + i - 1], f[i], n + i)]
<1>1. n \in Nat /\ batch \in 1..(n + 1) /\ m \in 0..n /\ DOMAIN rows = 1..n
  BY DEF RowsInv
<1>2. f \in [1..m -> LaterIds]
  BY DEF FreshIds
<1>3. ASSUME NEW i \in 1..m
      PROVE  /\ batch + i - 1 \in 1..n /\ copies[i] \in Observations
             /\ Copies(copies[i], rows[batch + i - 1])
             /\ copies[i].got = n + i /\ copies[i].id = f[i]
  <2> DEFINE o == rows[batch + i - 1]
  <2>1. batch + i - 1 \in 1..n /\ n + i \in Nat
    BY <1>1, <1>3
  <2>2. o \in Observations /\ f[i] \in LaterIds
    BY <1>1, <1>2, <2>1 DEF RowsInv
  <2>3. copies[i] = [id |-> f[i], src |-> o.src, val |-> o.val, at |-> o.at, got |-> n + i]
    BY DEF Finalize
  <2> HIDE DEF o, copies, n
  <2>4. copies[i] \in Observations
    BY <2>1, <2>2, <2>3 DEF Observations
  <2>5. Copies(copies[i], o) /\ copies[i].got = n + i /\ copies[i].id = f[i]
    BY <2>3 DEF Copies
  <2> QED
    BY <2>1, <2>4, <2>5 DEF o
<1>4. copies \in Seq(Observations) /\ Len(copies) = m
  <2> HIDE DEF m
  <2>1. copies \in [1..m -> Observations]
    BY <1>3
  <2> QED
    BY <1>1, <2>1
<1>5. rows \in Seq(Observations) /\ Refetch(f) = rows \o copies
  BY DEF RowsInv, Refetch
<1> HIDE DEF copies
<1>6. /\ Refetch(f) \in Seq(Observations) /\ DOMAIN Refetch(f) = 1..(n + m)
      /\ \A i \in 1..n : Refetch(f)[i] = rows[i]
      /\ \A i \in 1..m : Refetch(f)[n + i] = copies[i]
  <2> HIDE DEF m
  <2>1. Refetch(f) \in Seq(Observations) /\ Len(Refetch(f)) = n + m
    <3>1. Refetch(f) \in Seq(Observations)
      BY <1>4, <1>5
    <3>2. Len(rows \o copies) = Len(rows) + Len(copies)
      BY <1>4, <1>5, LengthOfBoth
    <3> QED
      BY <1>4, <1>5, <3>1, <3>2
  <2>2. \A i \in 1..n : Refetch(f)[i] = rows[i]
    BY <1>1, <1>4, <1>5
  <2>3. \A i \in 1..m : Refetch(f)[n + i] = copies[i]
    BY <1>1, <1>4, <1>5
  <2> QED
    BY <1>1, <2>1, <2>2, <2>3
<1> QED
  BY <1>1, <1>3, <1>6

LEMMA RefetchIsRefetched ==
    ASSUME RowsInv, NEW f \in FreshIds
    PROVE  /\ Refetch(f) \in Seq(Observations) /\ OnceEach(Refetch(f))
           /\ \E F, C, copy :
                 /\ ToSet(Refetch(f)) = ToSet(rows) \cup C
                 /\ Refetched(ToSet(rows), F, C, copy)
<1> DEFINE n == Len(rows)
           m == n - batch + 1
           again == Refetch(f)
<1>1. /\ n \in Nat /\ m \in 0..n /\ DOMAIN rows = 1..n
      /\ again \in Seq(Observations) /\ DOMAIN again = 1..(n + m)
      /\ \A i \in 1..n : again[i] = rows[i]
      /\ \A i \in 1..m :
            /\ Copies(again[n + i], rows[batch + i - 1])
            /\ batch + i - 1 \in 1..n
            /\ again[n + i].got = n + i /\ again[n + i].id = f[i]
  BY RefetchedRows
<1>2. /\ f \in [1..m -> LaterIds]
      /\ \A i, j \in 1..m : f[i] = f[j] => i = j
  BY DEF FreshIds, IsInjective
<1>3. /\ batch \in 1..(n + 1)
      /\ \A i \in 1..n : rows[i].got = i /\ rows[i].id \in Ids
      /\ \A i, j \in 1..n : rows[i].id = rows[j].id => i = j
  BY <1>1 DEF RowsInv, OnceEach
<1> HIDE DEF again
<1>4. \A i \in 1..(n + m) : i \in 1..n \/ (i - n \in 1..m /\ n + (i - n) = i)
  BY <1>1
<1>5. \A i \in 1..m : n + i \in 1..(n + m)
  BY <1>1
<1>6. batch + m - 1 = n /\ \A i \in 1..n : i >= batch => i - batch + 1 \in 1..m
  BY <1>1, <1>3
<1>7. m \in Int /\ batch \in Int
  BY <1>1, <1>3
<1> HIDE DEF m, n
<1>8. OnceEach(again)
  <2> SUFFICES ASSUME NEW i \in 1..(n + m), NEW j \in 1..(n + m), again[i].id = again[j].id
               PROVE  i = j
    BY <1>1 DEF OnceEach
  <2>1. CASE i \in 1..n /\ j \in 1..n
    BY <1>1, <1>3, <2>1
  <2>2. CASE i - n \in 1..m /\ j - n \in 1..m
    <3>1. again[i].id = f[i - n] /\ again[j].id = f[j - n]
      BY <1>1, <1>4, <2>2
    <3>2. i - n = j - n
      BY <1>2, <2>2, <3>1
    <3> QED
      BY <1>1, <3>2
  <2>3. \A k \in 1..(n + m) : k \in 1..n => again[k].id \in Ids
    BY <1>1, <1>3
  <2>4. \A k \in 1..(n + m) : k - n \in 1..m => again[k].id \in LaterIds
    <3> SUFFICES ASSUME NEW k \in 1..(n + m), k - n \in 1..m PROVE again[k].id \in LaterIds
      OBVIOUS
    <3> DEFINE from == k - n
    <3>1. from \in 1..m /\ n + from = k
      BY <1>1
    <3> HIDE DEF from
    <3>2. again[k].id = f[from]
      BY <1>1, <3>1
    <3> QED
      BY <1>2, <3>1, <3>2
  <2> QED
    BY <1>4, <2>1, <2>2, <2>3, <2>4, NewIds
<1> DEFINE S == ToSet(rows)
           F == {rows[i] : i \in batch..n}
           C == {again[n + i] : i \in 1..m}
           copy == [o \in F |-> again[n + (o.got - batch + 1)]]
<1>9. \A i \in batch..n : i \in 1..n /\ i - batch + 1 \in 1..m /\ rows[i].got = i
  BY <1>1, <1>3, <1>6
<1>10. \A i \in 1..m : batch + i - 1 \in batch..n
  BY <1>1, <1>6, <1>7
<1>11. ToSet(again) = S \cup C
  <2>1. ToSet(again) = {again[i] : i \in 1..(n + m)} /\ S = {rows[i] : i \in 1..n}
    BY <1>1 DEF ToSet
  <2>2. \A i \in 1..n : i \in 1..(n + m) /\ again[i] = rows[i]
    BY <1>1
  <2>3. {again[i] : i \in 1..(n + m)} \subseteq {rows[i] : i \in 1..n} \cup C
    <3> SUFFICES ASSUME NEW i \in 1..(n + m)
                 PROVE  again[i] \in {rows[k] : k \in 1..n} \cup C
      OBVIOUS
    <3>1. CASE i \in 1..n
      BY <2>2, <3>1
    <3>2. CASE i - n \in 1..m /\ n + (i - n) = i
      BY <3>2
    <3> QED
      BY <1>4, <3>1, <3>2
  <2>4. {rows[i] : i \in 1..n} \cup C \subseteq {again[i] : i \in 1..(n + m)}
    BY <1>5, <2>2
  <2> QED
    BY <2>1, <2>3, <2>4
<1>12. \A o \in F : /\ o.got \in batch..n /\ o = rows[o.got]
                      /\ copy[o] = again[n + (o.got - batch + 1)]
  BY <1>9
<1>13. F \subseteq S /\ \A o \in S : o.got \in 1..n /\ o = rows[o.got]
  BY <1>1, <1>3, <1>9 DEF ToSet
<1>14. \A c \in C : c.got > n /\ c.got \in Int
  BY <1>1
<1> HIDE DEF copy
<1>15. copy \in [F -> C]
  <2>1. \A o \in F : copy[o] \in C
    BY <1>9, <1>12
  <2> QED
    BY <2>1 DEF copy
<1>16. \A c \in C : \E o \in F : copy[o] = c
  <2> SUFFICES ASSUME NEW i \in 1..m PROVE \E o \in F : copy[o] = again[n + i]
    OBVIOUS
  <2> DEFINE o == rows[batch + i - 1]
  <2>1. o \in F /\ o.got = batch + i - 1
    BY <1>9, <1>10
  <2>2. (batch + i - 1) - batch + 1 = i
    BY <1>7
  <2> HIDE DEF o, F
  <2>3. copy[o] = again[n + i]
    BY <1>12, <2>1, <2>2
  <2> QED
    BY <2>1, <2>3
<1>17. \A o \in F : Copies(copy[o], o) /\ copy[o].got = n + (o.got - batch + 1)
  <2> SUFFICES ASSUME NEW o \in F
               PROVE  Copies(copy[o], o) /\ copy[o].got = n + (o.got - batch + 1)
    OBVIOUS
  <2> DEFINE k == o.got - batch + 1
  <2>1. o.got \in batch..n /\ o = rows[o.got] /\ copy[o] = again[n + k]
    BY <1>12
  <2>2. k \in 1..m /\ batch + k - 1 = o.got
    BY <1>7, <1>9, <2>1
  <2> QED
    BY <1>1, <2>1, <2>2
<1>18. Refetched(S, F, C, copy)
  <2>1. \A o \in S, c \in C : c.got > o.got
    <3> SUFFICES ASSUME NEW o \in S, NEW c \in C PROVE c.got > o.got
      OBVIOUS
    <3>1. o.got \in 1..n /\ c.got > n /\ c.got \in Int
      BY <1>13, <1>14
    <3> QED
      BY <1>1, <3>1
  <2>2. \A o \in S \ F, p \in F : p.got > o.got
    <3> SUFFICES ASSUME NEW o \in S, o \notin F, NEW p \in F PROVE p.got > o.got
      OBVIOUS
    <3>1. o.got \in 1..n /\ o = rows[o.got] /\ p.got \in batch..n
      BY <1>12, <1>13
    <3>2. o.got \notin batch..n
      BY <3>1
    <3> QED
      BY <1>1, <1>7, <3>1, <3>2
  <2>3. \A o, p \in F : o.got > p.got => copy[o].got > copy[p].got
    <3> SUFFICES ASSUME NEW o \in F, NEW p \in F, o.got > p.got
                 PROVE  copy[o].got > copy[p].got
      OBVIOUS
    <3>1. o.got \in Int /\ p.got \in Int
      BY <1>12
    <3> QED
      BY <1>1, <1>7, <1>17, <3>1
  <2> QED
    BY <1>13, <1>15, <1>16, <1>17, <2>1, <2>2, <2>3 DEF Refetched
<1> QED
  BY <1>1, <1>8, <1>11, <1>18 DEF again

LEMMA DisputedIsNone ==
    ASSUME NEW S \in Seq(Observations), OnceEach(S), S # <<>>
    PROVE  FirstConflict(S) = NoValue <=> Disagreeing(ToSet(S)) = {}
<1> DEFINE O == ToSet(S)
<1>1. Ledger(O) /\ O \subseteq Observations /\ FirstConflict(S) = Disputed(O)
  BY RowsAreALedger, FirstIsDisputed
<1> HIDE DEF O
<1>2. CASE Disagreeing(O) = {}
  BY <1>1, <1>2 DEF Disputed, O
<1>3. CASE Disagreeing(O) # {}
  <2>1. Disputed(O) \in O
    BY <1>1, <1>3, DisputedDisagrees DEF Disagreeing
  <2> QED
    BY <1>1, <1>3, <2>1, ObservationsAreRated DEF O
<1> QED
  BY <1>2, <1>3

(* For any ledger and a fetch of any size that is recorded again unchanged,   *)
(* under whatever ids: the canonical value of the field stays, no conflict is *)
(* raised and none goes away, as the code computes them.                      *)
THEOREM RefetchesAreQuiet == Spec => []RefetchIsQuiet
<1>1. RowsInv => RefetchIsQuiet
  <2> SUFFICES ASSUME RowsInv, rows # <<>>, NEW f \in FreshIds
               PROVE  /\ Canon[ResolveField(Refetch(f)).val] = Canon[ResolveField(rows).val]
                      /\ FirstConflict(Refetch(f)) = NoValue <=> FirstConflict(rows) = NoValue
    BY DEF RefetchIsQuiet
  <2> DEFINE S == ToSet(rows)
             again == Refetch(f)
  <2>1. rows \in Seq(Observations) /\ OnceEach(rows) /\ again \in Seq(Observations)
        /\ OnceEach(again)
    BY RefetchIsRefetched DEF RowsInv
  <2>2. PICK F, C, copy : ToSet(again) = S \cup C /\ Refetched(S, F, C, copy)
    BY RefetchIsRefetched
  <2>3. S # {} /\ again # <<>>
    <3>1. Len(rows) \in Nat /\ DOMAIN rows = 1..Len(rows) /\ Len(rows) > 0
      BY <2>1
    <3>2. 1 \in DOMAIN rows
      BY <3>1
    <3>3. S # {}
      BY <3>2 DEF ToSet
    <3> HIDE DEF again, S
    <3>4. ToSet(again) # {}
      BY <2>2, <3>3
    <3>5. DOMAIN again # {}
      BY <3>4 DEF ToSet
    <3> QED
      BY <2>1, <3>3, <3>5
  <2>4. Ledger(S) /\ Ledger(S \cup C)
    BY <2>1, <2>2, RowsAreALedger
  <2>5. \A o, p \in S : o # p => o.got # p.got
    BY DEF RowsInv, ToSet
  <2> HIDE DEF S, again
  <2>6. /\ Winner(S \cup C).val = Winner(S).val
        /\ Disagreeing(S \cup C) = {} <=> Disagreeing(S) = {}
    BY <2>2, <2>3, <2>4, <2>5, RefetchChangesNothing
  <2>7. ResolveField(again) = Winner(S \cup C) /\ ResolveField(rows) = Winner(S)
    BY <2>1, <2>2, <2>3, LastIsWinner DEF S
  <2>8. /\ FirstConflict(again) = NoValue <=> Disagreeing(S \cup C) = {}
        /\ FirstConflict(rows) = NoValue <=> Disagreeing(S) = {}
    BY <2>1, <2>2, <2>3, DisputedIsNone DEF S
  <2> QED
    BY <2>6, <2>7, <2>8 DEF again
<1> QED
  BY <1>1, RowsAlways, PTL
=============================================================================
