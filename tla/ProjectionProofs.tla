-------------------------- MODULE ProjectionProofs --------------------------
(* Theorems about Projection, for every finite set of observations. *)
EXTENDS Projection, FiniteSets, FiniteSetTheorems, WellFoundedInduction, TLAPS

(* What the ledger guarantees: numbers to compare by, and unique ids. *)
Rated(o) == Trust[o.src] \in Int /\ o.at \in Int /\ o.got \in Int /\ o.id \in Int

Ledger(S) ==
    /\ IsFiniteSet(S)
    /\ \A o \in S : Rated(o)
    /\ \A a, b \in S : a # b => a.id # b.id

-----------------------------------------------------------------------------
(* The order of the sort key. *)

(* Tuple comparison, spelt out. *)
LEMMA Lexicographic ==
    ASSUME NEW a, NEW b, Rated(a), Rated(b)
    PROVE  Outranks(a, b) <=>
             \/ Trust[a.src] > Trust[b.src]
             \/ /\ Trust[a.src] = Trust[b.src]
                /\ \/ a.at > b.at
                   \/ /\ a.at = b.at
                      /\ \/ a.got > b.got
                         \/ a.got = b.got /\ a.id > b.id
<1>1. /\ Key(a)[1] = Trust[a.src] /\ Key(b)[1] = Trust[b.src]
      /\ Key(a)[2] = a.at /\ Key(b)[2] = b.at
      /\ Key(a)[3] = a.got /\ Key(b)[3] = b.got
      /\ Key(a)[4] = a.id /\ Key(b)[4] = b.id
  BY DEF Key
<1> DEFINE Above(i) == /\ Key(a)[i] > Key(b)[i]
                       /\ \A j \in 1..(i - 1) : Key(a)[j] = Key(b)[j]
<1>2. Outranks(a, b) <=> Above(1) \/ Above(2) \/ Above(3) \/ Above(4)
  <2>1. \A i \in 1..4 : i = 1 \/ i = 2 \/ i = 3 \/ i = 4
    OBVIOUS
  <2>2. 1 \in 1..4 /\ 2 \in 1..4 /\ 3 \in 1..4 /\ 4 \in 1..4
    OBVIOUS
  <2>3. Outranks(a, b) <=> \E i \in 1..4 : Above(i)
    BY DEF Outranks
  <2> HIDE DEF Above
  <2> QED  BY <2>1, <2>2, <2>3
<1>3. /\ Above(1) <=> Key(a)[1] > Key(b)[1]
      /\ Above(2) <=> Key(a)[2] > Key(b)[2] /\ Key(a)[1] = Key(b)[1]
      /\ Above(3) <=> /\ Key(a)[3] > Key(b)[3]
                      /\ Key(a)[1] = Key(b)[1] /\ Key(a)[2] = Key(b)[2]
      /\ Above(4) <=> /\ Key(a)[4] > Key(b)[4] /\ Key(a)[1] = Key(b)[1]
                      /\ Key(a)[2] = Key(b)[2] /\ Key(a)[3] = Key(b)[3]
  <2>1. /\ \A j \in 1..(1 - 1) : FALSE
        /\ \A j \in 1..(2 - 1) : j = 1
        /\ \A j \in 1..(3 - 1) : j = 1 \/ j = 2
        /\ \A j \in 1..(4 - 1) : j = 1 \/ j = 2 \/ j = 3
    OBVIOUS
  <2>2. /\ 1 \in 1..(2 - 1) /\ 1 \in 1..(3 - 1) /\ 2 \in 1..(3 - 1)
        /\ 1 \in 1..(4 - 1) /\ 2 \in 1..(4 - 1) /\ 3 \in 1..(4 - 1)
    OBVIOUS
  <2> QED  BY <2>1, <2>2
<1> HIDE DEF Above
<1> QED
  BY <1>1, <1>2, <1>3 DEF Rated

(* A strict total order on what has distinct ids. *)
LEMMA OutranksOrder ==
    ASSUME NEW a, NEW b, NEW c, Rated(a), Rated(b), Rated(c)
    PROVE  /\ ~ Outranks(a, a)
           /\ Outranks(a, b) => ~ Outranks(b, a)
           /\ Outranks(a, b) /\ Outranks(b, c) => Outranks(a, c)
           /\ a.id # b.id => Outranks(a, b) \/ Outranks(b, a)
  BY Lexicographic DEF Rated

-----------------------------------------------------------------------------
(* A finite set on which R is transitive and total has a greatest element: *)
(* a smallest set without one would have one less the first.               *)
LEMMA Greatest ==
    ASSUME NEW S, IsFiniteSet(S), S # {}, NEW R,
           \A a, b, c \in S : <<a, b>> \in R /\ <<b, c>> \in R => <<a, c>> \in R,
           \A a, b \in S : a # b => <<a, b>> \in R \/ <<b, a>> \in R
    PROVE  \E w \in S : \A o \in S \ {w} : <<w, o>> \in R
<1> DEFINE Has(T) == \E w \in T : \A o \in T \ {w} : <<w, o>> \in R
           Lacking == {T \in SUBSET S : T # {} /\ ~ Has(T)}
<1> SUFFICES ASSUME Lacking # {} PROVE FALSE
  <2>1. S \in SUBSET S
    OBVIOUS
  <2> QED  BY <2>1
<1>1. IsWellFoundedOn(StrictSubsetOrdering(S), SUBSET S)
  BY FS_StrictSubsetOrderingWellFounded, FS_FiniteSubsetsOfFinite
<1>2. PICK T \in Lacking : \A U \in Lacking : ~ (<<U, T>> \in StrictSubsetOrdering(S))
  <2>1. Lacking \subseteq SUBSET S
    OBVIOUS
  <2> HIDE DEF Lacking
  <2> QED  BY <1>1, <2>1, WFMin
<1>3. PICK x \in T : TRUE
  BY <1>2
<1>4. T \in SUBSET S /\ T \ {x} \in SUBSET S /\ T \ {x} # T
  BY <1>2, <1>3
<1>5. <<T \ {x}, T>> \in StrictSubsetOrdering(S)
  BY <1>4 DEF StrictSubsetOrdering
<1>6. T \ {x} = {} \/ Has(T \ {x})
  BY <1>2, <1>4, <1>5
<1>7. CASE T \ {x} = {}
  BY <1>2, <1>3, <1>7
<1>8. CASE Has(T \ {x})
  <2>1. PICK w \in T \ {x} : \A o \in (T \ {x}) \ {w} : <<w, o>> \in R
    BY <1>8
  <2>2. CASE <<w, x>> \in R
    <3>1. \A o \in T \ {w} : <<w, o>> \in R
      BY <2>1, <2>2
    <3> QED  BY <1>2, <2>1, <3>1
  <2>3. CASE <<x, w>> \in R
    <3>1. \A o \in T \ {x} : <<x, o>> \in R
      BY <1>4, <1>3, <2>1, <2>3
    <3> QED  BY <1>2, <1>3, <3>1
  <2> QED  BY <1>3, <1>4, <2>1, <2>2, <2>3
<1> QED  BY <1>6, <1>7, <1>8

-----------------------------------------------------------------------------
(* resolve_field picks one of the observations, and it outranks every other. *)
THEOREM WinnerWins ==
    ASSUME NEW S, Ledger(S), S # {}
    PROVE  Winner(S) \in S /\ \A o \in S \ {Winner(S)} : Outranks(Winner(S), o)
<1> DEFINE R == {p \in S \X S : Outranks(p[1], p[2])}
<1>1. \A a, b \in S : <<a, b>> \in R <=> Outranks(a, b)
  OBVIOUS
<1>2. \A a, b, c \in S : Outranks(a, b) /\ Outranks(b, c) => Outranks(a, c)
  BY OutranksOrder DEF Ledger
<1>3. \A a, b \in S : a # b => Outranks(a, b) \/ Outranks(b, a)
  BY OutranksOrder DEF Ledger
<1> HIDE DEF R
<1>4. \E w \in S : \A o \in S \ {w} : <<w, o>> \in R
  BY <1>1, <1>2, <1>3, Greatest DEF Ledger
<1> QED
  BY <1>1, <1>4 DEF Winner

(* No other observation could be meant. *)
LEMMA WinnerUnique ==
    ASSUME NEW S, Ledger(S), NEW w \in S, \A o \in S \ {w} : Outranks(w, o)
    PROVE  Winner(S) = w
<1>1. Winner(S) \in S /\ \A o \in S \ {Winner(S)} : Outranks(Winner(S), o)
  BY WinnerWins
<1> QED
  BY <1>1, OutranksOrder DEF Ledger

(* The conflict suggestion of a field, if it has one, names an observation of *)
(* lower trust and another canonical value; project() suggests the one that   *)
(* every other such observation outranks.                                     *)
THEOREM DisputedDisagrees ==
    ASSUME NEW S, Ledger(S), Disagreeing(S) # {}
    PROVE  /\ Disputed(S) \in Disagreeing(S)
           /\ \A m \in Disagreeing(S) \ {Disputed(S)} : Outranks(m, Disputed(S))
<1> DEFINE D == Disagreeing(S)
           R == {p \in D \X D : Outranks(p[2], p[1])}
<1>1. D \in SUBSET S
  BY DEF Disagreeing
<1>2. IsFiniteSet(D) /\ D # {}
  BY <1>1, FS_Subset DEF Ledger
<1>3. \A a, b \in D : <<a, b>> \in R <=> Outranks(b, a)
  OBVIOUS
<1>4. \A a, b, c \in D : Outranks(b, a) /\ Outranks(c, b) => Outranks(c, a)
  BY <1>1, OutranksOrder DEF Ledger
<1>5. \A a, b \in D : a # b => Outranks(a, b) \/ Outranks(b, a)
  BY <1>1, OutranksOrder DEF Ledger
<1> HIDE DEF R
<1>6. \E w \in D : \A o \in D \ {w} : <<w, o>> \in R
  <2> HIDE DEF D
  <2> QED  BY <1>2, <1>3, <1>4, <1>5, Greatest
<1> QED
  BY <1>3, <1>6 DEF Disputed

(* New observations only add candidates: the winner stays, or is a new one. *)
THEOREM WinnerOfMore ==
    ASSUME NEW S, NEW T, Ledger(T), S \subseteq T, S # {}
    PROVE  Winner(T) = Winner(S) \/ Winner(T) \in T \ S
<1>1. Ledger(S)
  BY FS_Subset DEF Ledger
<1>2. Winner(S) \in S /\ \A o \in S \ {Winner(S)} : Outranks(Winner(S), o)
  BY <1>1, WinnerWins
<1>3. Winner(T) \in T /\ \A o \in T \ {Winner(T)} : Outranks(Winner(T), o)
  BY WinnerWins
<1> QED
  BY <1>2, <1>3, OutranksOrder DEF Ledger

-----------------------------------------------------------------------------
(* Repeating a fetch. *)

(* c is o, fetched again. *)
Copies(c, o) == c.src = o.src /\ c.val = o.val /\ c.at = o.at

(* The latest fetch F of the ledger S is recorded again as C: F came after *)
(* the rest of S and C after all of it, each in the order of the source.   *)
Refetched(S, F, C, copy) ==
    /\ F \subseteq S /\ copy \in [F -> C]
    /\ \A c \in C : \E o \in F : copy[o] = c
    /\ \A o \in F : Copies(copy[o], o)
    /\ \A o \in S, c \in C : c.got > o.got
    /\ \A o \in S \ F, p \in F : p.got > o.got
    /\ \A o, p \in F : o.got > p.got => copy[o].got > copy[p].got

(* Every sync appends all it fetches again.  Whatever the size of the ledger  *)
(* and of the fetch, and whatever ids the copies get, a fetch that is         *)
(* repeated unchanged leaves the canonical value where it was, raises no      *)
(* conflict and ends none.                                                    *)
THEOREM RefetchChangesNothing ==
    ASSUME NEW S, NEW F, NEW C, NEW copy, S # {},
           Ledger(S), Ledger(S \cup C), Refetched(S, F, C, copy),
           \A o, p \in S : o # p => o.got # p.got
    PROVE  /\ Winner(S \cup C).val = Winner(S).val
           /\ Winner(S \cup C).src = Winner(S).src
           /\ Disagreeing(S \cup C) = {} <=> Disagreeing(S) = {}
<1> DEFINE w == Winner(S)
           T == S \cup C
<1>1. w \in S /\ \A o \in S \ {w} : Outranks(w, o)
  BY WinnerWins
<1>2. \A o \in T : Rated(o)
  BY DEF Ledger
<1> HIDE DEF w
<1> DEFINE Same == Winner(T).val = w.val /\ Winner(T).src = w.src
<1>3. ASSUME w \in F PROVE Same
  <2> DEFINE v == copy[w]
  <2>1. v \in C /\ v \in T /\ Copies(v, w)
    BY <1>3 DEF Refetched
  <2>2. ASSUME NEW o \in S PROVE Outranks(v, o)
    <3>1. v.got > o.got
      BY <2>1, <2>2 DEF Refetched
    <3>2. Rated(v) /\ Rated(o) /\ Rated(w)
      BY <1>1, <1>2, <2>1, <2>2
    <3>3. o = w \/ Outranks(w, o)
      BY <1>1, <2>2
    <3> QED
      BY <2>1, <3>1, <3>2, <3>3, Lexicographic DEF Copies, Rated
  <2>3. ASSUME NEW c \in C \ {v} PROVE Outranks(v, c)
    <3>1. PICK o \in F : copy[o] = c
      BY <2>3 DEF Refetched
    <3>2. o \in S /\ o # w /\ Copies(c, o)
      BY <2>3, <3>1 DEF Refetched
    <3>3. Rated(v) /\ Rated(o) /\ Rated(w) /\ Rated(c)
      BY <1>1, <1>2, <2>1, <2>3, <3>2
    <3>4. Outranks(w, o) /\ w.got # o.got
      BY <1>1, <3>2
    <3>5. w.got > o.got => v.got > c.got
      BY <1>3, <3>1 DEF Refetched
    <3> QED
      BY <2>1, <3>2, <3>3, <3>4, <3>5, Lexicographic DEF Copies, Rated
  <2> HIDE DEF v
  <2>4. Winner(T) = v
    BY <2>1, <2>2, <2>3, WinnerUnique
  <2> QED
    BY <2>1, <2>4 DEF Copies
<1>4. ASSUME w \notin F PROVE Same
  <2>1. ASSUME NEW c \in C PROVE Outranks(w, c)
    <3>1. PICK o \in F : copy[o] = c
      BY <2>1 DEF Refetched
    <3>2. o \in S /\ o # w /\ Copies(c, o) /\ o.got > w.got
      BY <1>1, <1>4, <2>1, <3>1 DEF Refetched
    <3>3. Rated(o) /\ Rated(w) /\ Rated(c)
      BY <1>1, <1>2, <2>1, <3>2
    <3> QED
      BY <1>1, <3>2, <3>3, Lexicographic DEF Copies, Rated
  <2>2. Winner(T) = w
    BY <1>1, <2>1, WinnerUnique
  <2> QED  BY <2>2
<1>5. Same
  BY <1>3, <1>4
<1>6. \A l : Disagrees(l, Winner(T)) <=> Disagrees(l, w)
  BY <1>5 DEF Disagrees
<1>7. Disagreeing(S) \subseteq Disagreeing(T)
  BY <1>6 DEF Disagreeing, w
<1>8. ASSUME Disagreeing(T) # {} PROVE Disagreeing(S) # {}
  <2>1. PICK l \in T : Disagrees(l, w)
    BY <1>6, <1>8 DEF Disagreeing
  <2>2. CASE l \in S
    BY <2>1, <2>2 DEF Disagreeing, w
  <2>3. CASE l \in C
    <3>1. PICK o \in F : copy[o] = l
      BY <2>3 DEF Refetched
    <3>2. o \in S /\ Copies(l, o)
      BY <2>3, <3>1 DEF Refetched
    <3>3. Disagrees(o, w)
      BY <2>1, <3>2 DEF Disagrees, Copies
    <3> QED  BY <3>2, <3>3 DEF Disagreeing, w
  <2> QED  BY <2>1, <2>2, <2>3
<1> QED
  BY <1>5, <1>7, <1>8 DEF w
=============================================================================
