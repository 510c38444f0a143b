----------------------------- MODULE PagesProofs ------------------------------
(***************************************************************************)
(* The pages of the dashboard.                                             *)
(*                                                                         *)
(* The pages that show (Views): for every list of records the charts of a  *)
(* queue page count each record once, for every fleet the fleet chart      *)
(* counts the list that it has, and for any number of readings, in any     *)
(* order, the cards never go back and the curve is one of readings.        *)
(*                                                                         *)
(* The accounts (Accounts): for every set of users and any number of       *)
(* logins, saves, visits and failures, the browser holds one identity, and *)
(* the page of profiles shows only roles that the server once stored.      *)
(***************************************************************************)
EXTENDS Accounts, Views, FiniteSetTheorems, TLAPS

-----------------------------------------------------------------------------
(* Induction and reduction *)

\* Induction over the numbers: no number is the least that S lacks.
LEMMA Induction ==
  ASSUME NEW S, 0 \in S, \A n \in Nat : n \in S => n + 1 \in S
  PROVE  Nat \subseteq S
<1> SUFFICES ASSUME NEW m \in Nat, m \notin S PROVE FALSE
  OBVIOUS
<1> DEFINE Missed == {0..n : n \in Nat \ S}
<1>1. Missed \subseteq FiniteSubsetsOf(Nat)
  <2> SUFFICES ASSUME NEW n \in Nat PROVE 0..n \in FiniteSubsetsOf(Nat)
    OBVIOUS
  <2>1. IsFiniteSet(0..n)
    BY FS_Interval
  <2>2. QED
    BY <2>1 DEF FiniteSubsetsOf
<1>2. Missed # {}
  OBVIOUS
<1>3. PICK x \in Missed : \A y \in Missed : <<y, x>> \notin StrictSubsetOrdering(Nat)
  <2>1. IsWellFoundedOn(StrictSubsetOrdering(Nat), FiniteSubsetsOf(Nat))
    BY FS_StrictSubsetOrderingWellFounded
  <2> HIDE DEF Missed
  <2>2. QED
    BY <2>1, <1>1, <1>2, WFMin
<1>4. PICK n \in Nat \ S : x = 0..n
  BY <1>3
<1>5. n # 0 /\ n - 1 \in Nat \ S
  OBVIOUS
<1>6. 0..(n - 1) \in Missed /\ 0..(n - 1) \subseteq x /\ 0..(n - 1) # x /\ x \subseteq Nat
  BY <1>4, <1>5
<1>7. QED
  BY <1>3, <1>6 DEF StrictSubsetOrdering

\* Up to a bound.
LEMMA UpTo ==
  ASSUME NEW size \in Nat, NEW Set, 0 \in Set, \A i \in 1..size : i - 1 \in Set => i \in Set
  PROVE  0..size \subseteq Set
<1> DEFINE Reached == {i \in Nat : i <= size => i \in Set}
<1>1. 0 \in Reached
  OBVIOUS
<1>2. ASSUME NEW i \in Nat, i \in Reached PROVE i + 1 \in Reached
  <2> SUFFICES ASSUME i + 1 <= size PROVE i + 1 \in Set
    OBVIOUS
  <2>1. i + 1 \in 1..size /\ (i + 1) - 1 = i /\ i \in Set
    BY <1>2
  <2>2. QED
    BY <2>1
<1>3. Nat \subseteq Reached
  <2> HIDE DEF Reached
  <2>1. QED
    BY <1>1, <1>2, Induction
<1>4. QED
  BY <1>3

IsReduce(f, size, Values, start, turn) ==
  f \in [0..size -> Values] /\ f[0] = start /\ \A i \in 1..size : f[i] = turn[i][f[i - 1]]

\* A reduce has a value at each place of the list.
LEMMA Reduced ==
  ASSUME NEW size \in Nat, NEW Values, NEW start \in Values,
         NEW turn \in [1..size -> [Values -> Values]]
  PROVE  \E f : IsReduce(f, size, Values, start, turn)
<1> DEFINE Reduces(m, f) == IsReduce(f, m, Values, start, turn)
           Done == {m \in 0..size : \E f : Reduces(m, f)}
<1>1. 0 \in Done
  <2>1. \E f : Reduces(0, f)
    <3>1. Reduces(0, [i \in 0..0 |-> start])
      BY DEF IsReduce
    <3> HIDE DEF Reduces
    <3>2. QED
      BY <3>1
  <2>2. 0 \in 0..size
    OBVIOUS
  <2>3. QED
    <3> HIDE DEF Reduces
    <3>1. QED
      BY <2>1, <2>2
<1>2. ASSUME NEW i \in 1..size, i - 1 \in Done PROVE i \in Done
  <2>0. PICK f : Reduces(i - 1, f)
    <3> HIDE DEF Reduces
    <3>1. QED
      BY <1>2
  <2>1. /\ f \in [0..(i - 1) -> Values] /\ f[0] = start
        /\ \A j \in 1..(i - 1) : f[j] = turn[j][f[j - 1]]
    BY <2>0 DEF IsReduce
  <2> DEFINE h == [j \in 0..i |-> IF j = i THEN turn[i][f[i - 1]] ELSE f[j]]
  <2>2. f[i - 1] \in Values
    BY <2>1
  <2>3. turn[i][f[i - 1]] \in Values
    BY <2>2
  <2>4. h \in [0..i -> Values]
    BY <2>1, <2>3
  <2>5. h[0] = start
    BY <2>1
  <2>6. ASSUME NEW j \in 1..i PROVE h[j] = turn[j][h[j - 1]]
    <3>1. h[j - 1] = f[j - 1]
      OBVIOUS
    <3>2. CASE j = i
      BY <3>1, <3>2
    <3>3. CASE j # i
      <4>1. j \in 1..(i - 1) /\ h[j] = f[j]
        BY <3>3
      <4>2. QED
        BY <2>1, <3>1, <4>1
    <3>4. QED
      BY <3>2, <3>3
  <2>7. Reduces(i, h)
    <3> HIDE DEF h
    <3>1. QED
      BY <2>4, <2>5, <2>6 DEF IsReduce
  <2>8. i \in 0..size
    OBVIOUS
  <2>9. QED
    <3> HIDE DEF h, Reduces
    <3>1. QED
      BY <2>7, <2>8
<1>3. 0..size \subseteq Done
  <2> HIDE DEF Done
  <2>1. QED
    BY <1>1, <1>2, UpTo
<1>4. size \in Done
  <2> HIDE DEF Done
  <2>1. QED
    BY <1>3
<1>5. QED
  <2> HIDE DEF Reduces
  <2>1. \E f : Reduces(size, f)
    BY <1>4
  <2>2. QED
    BY <2>1 DEF Reduces

-----------------------------------------------------------------------------
(* The lists *)

\* What a filter has kept up to each place of the list.
KeepsAt(kept, list, wanted) ==
  /\ kept[0] = <<>>
  /\ \A i \in 1..Len(list) :
       kept[i] = IF list[i] \in wanted THEN Append(kept[i - 1], list[i]) ELSE kept[i - 1]

LEMMA FilterSteps ==
  ASSUME NEW T, NEW list \in Seq(T), NEW wanted
  PROVE  \E kept \in [0..Len(list) -> Seq(T)] :
           KeepsAt(kept, list, wanted) /\ Filter(list, wanted) = kept[Len(list)]
<1> DEFINE n == Len(list)
           Kept(g, i) == IF i = 0 THEN <<>>
                         ELSE IF list[i] \in wanted THEN Append(g[i - 1], list[i]) ELSE g[i - 1]
           g == CHOOSE g : g = [i \in 0..n |-> Kept(g, i)]
           step == [i \in 1..n |-> [s \in Seq(T) |->
                      IF list[i] \in wanted THEN Append(s, list[i]) ELSE s]]
<1>1. n \in Nat
  OBVIOUS
<1>2. step \in [1..n -> [Seq(T) -> Seq(T)]]
  <2> SUFFICES ASSUME NEW i \in 1..n, NEW s \in Seq(T)
               PROVE  (IF list[i] \in wanted THEN Append(s, list[i]) ELSE s) \in Seq(T)
    OBVIOUS
  <2>1. list[i] \in T
    OBVIOUS
  <2>2. QED
    BY <2>1
<1>3. <<>> \in Seq(T)
  OBVIOUS
<1>4. PICK f \in [0..n -> Seq(T)] : f[0] = <<>> /\ \A i \in 1..n : f[i] = step[i][f[i - 1]]
  <2> DEFINE SeqT == Seq(T)
  <2>1. step \in [1..n -> [SeqT -> SeqT]] /\ <<>> \in SeqT
    BY <1>2, <1>3
  <2> HIDE DEF n, step, SeqT
  <2>2. \E f : IsReduce(f, n, SeqT, <<>>, step)
    BY <1>1, <2>1, Reduced
  <2>3. QED
    BY <2>2 DEF SeqT, IsReduce
<1>5. \A i \in 0..n : f[i] = Kept(f, i)
  <2>1. f[0] = Kept(f, 0)
    BY <1>4
  <2>2. ASSUME NEW i \in 1..n PROVE f[i] = Kept(f, i)
    <3>1. i - 1 \in 0..n /\ i # 0
      OBVIOUS
    <3>2. f[i - 1] \in Seq(T)
      <4> HIDE DEF n
      <4>1. QED
        BY <3>1
    <3>3. step[i][f[i - 1]] = IF list[i] \in wanted THEN Append(f[i - 1], list[i]) ELSE f[i - 1]
      <4> HIDE DEF n
      <4>1. QED
        BY <3>2
    <3>4. QED
      BY <1>4, <3>1, <3>3
  <2>3. QED
    <3> HIDE DEF Kept
    <3>1. QED
      BY <2>1, <2>2
<1>6. f = [i \in 0..n |-> Kept(f, i)]
  <2> HIDE DEF n
  <2>1. QED
    BY <1>5
<1>7. g = [i \in 0..n |-> Kept(g, i)]
  <2> HIDE DEF n
  <2>1. QED
    BY <1>6
<1>8. g[0] = <<>> /\ \A i \in 1..n :
        g[i] = IF list[i] \in wanted THEN Append(g[i - 1], list[i]) ELSE g[i - 1]
  <2> HIDE DEF g
  <2>1. \A i \in 0..n : g[i] = Kept(g, i)
    <3> HIDE DEF n, Kept
    <3>1. QED
      BY <1>7
  <2>2. QED
    BY <2>1
<1>9. 0..n \subseteq {i \in 0..n : g[i] \in Seq(T)}
  <2> DEFINE Reached == {i \in 0..n : g[i] \in Seq(T)}
  <2> HIDE DEF g
  <2>1. 0 \in Reached
    <3>1. g[0] \in Seq(T) /\ 0 \in 0..n
      BY <1>1, <1>3, <1>8
    <3>2. QED
      BY <3>1
  <2>2. ASSUME NEW i \in 1..n, i - 1 \in Reached PROVE i \in Reached
    <3>1. list[i] \in T /\ i \in 0..n
      OBVIOUS
    <3>2. g[i - 1] \in Seq(T)
      BY <2>2
    <3>3. Append(g[i - 1], list[i]) \in Seq(T)
      BY <3>1, <3>2
    <3>4. g[i] \in Seq(T)
      BY <1>8, <3>2, <3>3
    <3>5. QED
      BY <3>1, <3>4
  <2>3. QED
    <3> HIDE DEF n, Reached
    <3>1. 0..n \subseteq Reached
      BY <1>1, <2>1, <2>2, UpTo
    <3>2. QED
      BY <3>1 DEF Reached
<1>10. g \in [0..n -> Seq(T)]
  <2> HIDE DEF g, n, Kept
  <2>1. QED
    BY <1>7, <1>9
<1>11. Filter(list, wanted) = g[Len(list)]
  BY DEF Filter
<1>12. QED
  <2> HIDE DEF g
  <2>1. QED
    BY <1>8, <1>10, <1>11 DEF KeepsAt

Distinct(list) == \A i, j \in DOMAIN list : list[i] = list[j] => i = j

LEMMA AppendRange ==
  ASSUME NEW T, NEW s \in Seq(T), NEW e
  PROVE  Range(Append(s, e)) = Range(s) \cup {e}
<1>1. DOMAIN Append(s, e) = 1..(Len(s) + 1) /\ DOMAIN s = 1..Len(s) /\ Len(s) \in Nat
  OBVIOUS
<1>2. Append(s, e)[Len(s) + 1] = e /\ \A i \in 1..Len(s) : Append(s, e)[i] = s[i]
  OBVIOUS
<1>3. 1..(Len(s) + 1) = 1..Len(s) \cup {Len(s) + 1}
  BY <1>1
<1>4. QED
  BY <1>1, <1>2, <1>3, Zenon DEF Range

\* A filter keeps the items of the list that are wanted, each once if the list
\* has each once.
LEMMA FilterKeeps ==
  ASSUME NEW T, NEW list \in Seq(T), NEW wanted
  PROVE  /\ Filter(list, wanted) \in Seq(T)
         /\ Range(Filter(list, wanted)) = Range(list) \cap wanted
         /\ Distinct(list) => Distinct(Filter(list, wanted))
<1> DEFINE n == Len(list)
           Before(i) == {list[j] : j \in 1..i}
<1>1. PICK kept \in [0..n -> Seq(T)] :
        KeepsAt(kept, list, wanted) /\ Filter(list, wanted) = kept[n]
  BY FilterSteps
<1>2. n \in Nat /\ DOMAIN list = 1..n
  OBVIOUS
<1>3. kept[0] = <<>> /\ \A i \in 1..n :
        kept[i] = IF list[i] \in wanted THEN Append(kept[i - 1], list[i]) ELSE kept[i - 1]
  BY <1>1 DEF KeepsAt
<1> HIDE DEF n
<1>4. ASSUME NEW i \in 1..n
      PROVE  kept[i - 1] \in Seq(T) /\ Before(i) = Before(i - 1) \cup {list[i]}
  <2>1. i - 1 \in 0..n /\ 1..i = 1..(i - 1) \cup {i}
    BY <1>2
  <2>2. QED
    BY <2>1
<1>5. 0..n \subseteq {i \in 0..n : Range(kept[i]) = Before(i) \cap wanted}
  <2> DEFINE Kept == {i \in 0..n : Range(kept[i]) = Before(i) \cap wanted}
  <2>1. 0 \in Kept
    BY <1>2, <1>3 DEF Range
  <2>2. ASSUME NEW i \in 1..n, i - 1 \in Kept PROVE i \in Kept
    <3>1. kept[i - 1] \in Seq(T) /\ Before(i) = Before(i - 1) \cup {list[i]}
      BY <1>4
    <3>2. Range(kept[i - 1]) = Before(i - 1) \cap wanted
      BY <2>2
    <3>3. kept[i] = IF list[i] \in wanted THEN Append(kept[i - 1], list[i]) ELSE kept[i - 1]
      BY <1>3
    <3>4. Range(Append(kept[i - 1], list[i])) = Range(kept[i - 1]) \cup {list[i]}
      BY <3>1, AppendRange
    <3>5. i \in 0..n
      BY <1>2
    <3> HIDE DEF Before
    <3>6. QED
      BY <3>1, <3>2, <3>3, <3>4, <3>5
  <2>3. QED
    <3> HIDE DEF Kept
    <3>1. 0..n \subseteq Kept
      BY <1>2, <2>1, <2>2, UpTo
    <3>2. QED
      BY <3>1 DEF Kept
<1>6. Distinct(list) => 0..n \subseteq {i \in 0..n : Distinct(kept[i])}
  <2> SUFFICES ASSUME Distinct(list) PROVE 0..n \subseteq {i \in 0..n : Distinct(kept[i])}
    OBVIOUS
  <2> DEFINE Kept == {i \in 0..n : Distinct(kept[i])}
  <2>1. 0 \in Kept
    BY <1>2, <1>3 DEF Distinct
  <2>2. ASSUME NEW i \in 1..n, i - 1 \in Kept PROVE i \in Kept
    <3>1. kept[i - 1] \in Seq(T)
      BY <1>4
    <3>2. list[i] \notin Before(i - 1)
      <4> SUFFICES ASSUME NEW j \in 1..(i - 1) PROVE list[j] # list[i]
        OBVIOUS
      <4>1. i \in DOMAIN list /\ j \in DOMAIN list /\ i # j
        BY <1>2
      <4>2. QED
        BY <4>1 DEF Distinct
    <3>3. Range(kept[i - 1]) \subseteq Before(i - 1)
      <4>1. i - 1 \in 0..n
        BY <1>2
      <4>2. QED
        BY <1>5, <4>1
    <3>4. \A j \in DOMAIN kept[i - 1] : kept[i - 1][j] # list[i]
      <4> HIDE DEF Before
      <4>1. QED
        BY <3>2, <3>3 DEF Range
    <3>5. Distinct(Append(kept[i - 1], list[i]))
      BY <2>2, <3>1, <3>4 DEF Distinct
    <3>6. kept[i] = Append(kept[i - 1], list[i]) \/ kept[i] = kept[i - 1]
      BY <1>3
    <3>7. Distinct(kept[i - 1]) /\ i \in 0..n
      BY <1>2, <2>2
    <3>8. Distinct(kept[i])
      BY <3>5, <3>6, <3>7
    <3>9. QED
      BY <3>7, <3>8
  <2>3. QED
    <3> HIDE DEF Kept
    <3>1. 0..n \subseteq Kept
      BY <1>2, <2>1, <2>2, UpTo
    <3>2. QED
      BY <3>1 DEF Kept
<1>7. n \in 0..n /\ Range(list) = Before(n)
  BY <1>2 DEF Range
<1>8. QED
  <2> HIDE DEF Before
  <2>1. QED
    BY <1>1, <1>5, <1>6, <1>7

\* Of finitely many items one has the highest rank.
LEMMA HighestRank ==
  ASSUME NEW Items, IsFiniteSet(Items), Items # {}, NEW rank \in [Items -> Int]
  PROVE  \E top \in Items : \A other \in Items : rank[other] <= rank[top]
<1> DEFINE Top(S) == \E top \in S : \A other \in S : rank[other] <= rank[top]
           Sizes == {n \in Nat : \A S \in SUBSET Items : Cardinality(S) = n /\ S # {} => Top(S)}
<1>1. \A S \in SUBSET Items : IsFiniteSet(S) /\ Cardinality(S) \in Nat
  BY FS_Subset, FS_CardinalityType
<1>2. 0 \in Sizes
  BY <1>1, FS_EmptySet
<1>3. ASSUME NEW n \in Nat, n \in Sizes PROVE n + 1 \in Sizes
  <2> SUFFICES ASSUME NEW S \in SUBSET Items, Cardinality(S) = n + 1, S # {} PROVE Top(S)
    OBVIOUS
  <2>1. PICK x \in S : TRUE
    OBVIOUS
  <2>2. Cardinality(S \ {x}) = n /\ S \ {x} \in SUBSET Items
    BY <1>1, <2>1, FS_RemoveElement
  <2>3. x \in Items /\ rank[x] \in Int
    BY <2>1
  <2>4. CASE S \ {x} = {}
    <3>1. S = {x}
      BY <2>1, <2>4
    <3>2. QED
      BY <2>3, <3>1
  <2>5. CASE S \ {x} # {}
    <3>1. Top(S \ {x})
      <4> HIDE DEF Top
      <4>1. QED
        BY <1>3, <2>2, <2>5
    <3>2. PICK top \in S \ {x} : \A other \in S \ {x} : rank[other] <= rank[top]
      BY <3>1
    <3>3. rank[top] \in Int /\ \A other \in S : rank[other] \in Int
      BY <3>2
    <3>4. CASE rank[x] <= rank[top]
      <4>1. \A other \in S : rank[other] <= rank[top]
        BY <3>2, <3>4
      <4>2. QED
        BY <4>1
    <3>5. CASE ~(rank[x] <= rank[top])
      <4>1. \A other \in S : rank[other] <= rank[x]
        BY <2>3, <3>2, <3>3, <3>5
      <4>2. QED
        BY <2>1, <4>1
    <3>6. QED
      BY <3>4, <3>5
  <2>6. QED
    BY <2>4, <2>5
<1>4. Nat \subseteq Sizes
  <2> HIDE DEF Sizes
  <2>1. QED
    BY <1>2, <1>3, Induction
<1>5. Cardinality(Items) \in Sizes /\ Items \in SUBSET Items
  <2> HIDE DEF Sizes
  <2>1. QED
    BY <1>1, <1>4
<1>6. Top(Items)
  <2> HIDE DEF Top
  <2>1. QED
    BY <1>5
<1>7. QED
  BY <1>6

LEMMA MaxIsHighest ==
  ASSUME NEW S, S \in SUBSET Int, IsFiniteSet(S), S # {}
  PROVE  Max(S) \in S /\ \A x \in S : x <= Max(S)
<1> DEFINE same == [x \in S |-> x]
<1>1. same \in [S -> Int]
  OBVIOUS
<1>2. \E top \in S : \A other \in S : same[other] <= same[top]
  <2> HIDE DEF same
  <2>1. QED
    BY <1>1, HighestRank
<1>3. PICK top \in S : \A other \in S : other <= top
  BY <1>2
<1>4. top \in S /\ \A y \in S : top >= y
  BY <1>3
<1>5. Max(S) \in S /\ \A y \in S : Max(S) >= y
  BY <1>4 DEF Max
<1>6. QED
  BY <1>5

\* A list of the items, each once, by rank.
SortedList(list, Items, rank) ==
  /\ list \in [1..Cardinality(Items) -> Items]
  /\ \A i, j \in DOMAIN list : i < j => list[i] # list[j] /\ rank[list[i]] <= rank[list[j]]

LEMMA SortedExists ==
  ASSUME NEW Items, IsFiniteSet(Items), NEW rank \in [Items -> Int]
  PROVE  \E list : SortedList(list, Items, rank)
<1> DEFINE Sizes == {n \in Nat : \A S \in SUBSET Items :
                       Cardinality(S) = n => \E list : SortedList(list, S, rank)}
<1>1. \A S \in SUBSET Items : IsFiniteSet(S) /\ Cardinality(S) \in Nat
  BY FS_Subset, FS_CardinalityType
<1>2. 0 \in Sizes
  <2> SUFFICES ASSUME NEW S \in SUBSET Items, Cardinality(S) = 0
               PROVE  \E list : SortedList(list, S, rank)
    OBVIOUS
  <2> DEFINE none == [i \in 1..0 |-> i]
  <2>1. none \in [1..0 -> S] /\ \A i, j \in DOMAIN none : FALSE
    OBVIOUS
  <2> HIDE DEF none
  <2>2. SortedList(none, S, rank)
    BY <2>1 DEF SortedList
  <2>3. QED
    BY <2>2
<1>3. ASSUME NEW n \in Nat, n \in Sizes PROVE n + 1 \in Sizes
  <2> SUFFICES ASSUME NEW S \in SUBSET Items, Cardinality(S) = n + 1
               PROVE  \E list : SortedList(list, S, rank)
    OBVIOUS
  <2> DEFINE rankS == [x \in S |-> rank[x]]
  <2>1. IsFiniteSet(S) /\ S # {} /\ rankS \in [S -> Int]
    BY <1>1, FS_EmptySet
  <2>2. \E top \in S : \A other \in S : rankS[other] <= rankS[top]
    <3> HIDE DEF rankS
    <3>1. QED
      BY <2>1, HighestRank
  <2>3. PICK top \in S : \A other \in S : rank[other] <= rank[top]
    BY <2>2
  <2> DEFINE R == S \ {top}
  <2>4. Cardinality(R) = n /\ R \in SUBSET Items
    <3>1. Cardinality(R) = Cardinality(S) - 1
      BY <2>1, <2>3, FS_RemoveElement
    <3>2. QED
      BY <3>1
  <2>5. PICK short : SortedList(short, R, rank)
    <3> HIDE DEF R
    <3>1. QED
      BY <1>3, <2>4
  <2>6. /\ short \in [1..n -> R]
        /\ \A i, j \in 1..n : i < j => short[i] # short[j] /\ rank[short[i]] <= rank[short[j]]
    BY <2>4, <2>5 DEF SortedList
  <2> DEFINE long == [i \in 1..(n + 1) |-> IF i = n + 1 THEN top ELSE short[i]]
  <2>7. /\ long \in [1..(n + 1) -> S] /\ long[n + 1] = top
        /\ \A i \in 1..n : long[i] = short[i] /\ short[i] \in R
    <3>1. \A i \in 1..n : long[i] = short[i] /\ short[i] \in R
      BY <2>6
    <3>2. long[n + 1] = top
      OBVIOUS
    <3>3. \A i \in 1..(n + 1) : i = n + 1 \/ i \in 1..n
      OBVIOUS
    <3>4. \A i \in 1..(n + 1) : long[i] \in S
      <4> HIDE DEF long
      <4>1. QED
        BY <3>1, <3>2, <3>3
    <3>5. QED
      <4>1. long \in [1..(n + 1) -> S]
        BY <3>4
      <4>2. QED
        <5> HIDE DEF long
        <5>1. QED
          BY <3>1, <3>2, <4>1
  <2>8. ASSUME NEW i \in 1..(n + 1), NEW j \in 1..(n + 1), i < j
        PROVE  long[i] # long[j] /\ rank[long[i]] <= rank[long[j]]
    <3> HIDE DEF long
    <3>1. i \in 1..n /\ long[i] = short[i] /\ short[i] \in R
      BY <2>7, <2>8
    <3>2. CASE j = n + 1
      <4>1. long[j] = top
        BY <2>7, <3>2
      <4>2. QED
        BY <2>3, <3>1, <4>1
    <3>3. CASE j # n + 1
      <4>1. j \in 1..n /\ long[j] = short[j]
        BY <2>7, <3>3
      <4>2. QED
        BY <2>6, <2>8, <3>1, <4>1
    <3>4. QED
      BY <3>2, <3>3
  <2>9. SortedList(long, S, rank)
    <3> HIDE DEF long
    <3>1. DOMAIN long = 1..(n + 1)
      BY <2>7
    <3>2. QED
      BY <2>7, <2>8, <3>1 DEF SortedList
  <2>10. QED
    <3> HIDE DEF long
    <3>1. QED
      BY <2>9
<1>4. Nat \subseteq Sizes
  <2> HIDE DEF Sizes
  <2>1. QED
    BY <1>2, <1>3, Induction
<1>5. Cardinality(Items) \in Sizes /\ Items \in SUBSET Items
  <2> HIDE DEF Sizes
  <2>1. QED
    BY <1>1, <1>4
<1>6. QED
  BY <1>5

\* sort gives a list of the items, each once, by rank.
LEMMA SortedByRank ==
  ASSUME NEW Items, IsFiniteSet(Items), NEW rank \in [Items -> Int]
  PROVE  LET list == SortedBy(Items, rank)
         IN  /\ list \in Seq(Items) /\ Distinct(list) /\ Range(list) = Items
             /\ \A i, j \in DOMAIN list : i < j => rank[list[i]] <= rank[list[j]]
<1> DEFINE list == SortedBy(Items, rank)
           n == Cardinality(Items)
<1>1. n \in Nat
  BY FS_CardinalityType
<1>2. PICK l : SortedList(l, Items, rank)
  BY SortedExists
<1>3. SortedList(list, Items, rank)
  <2> DEFINE Sorts(s) == \A i, j \in DOMAIN s :
                           i < j => s[i] # s[j] /\ rank[s[i]] <= rank[s[j]]
  <2>1. l \in [1..Cardinality(Items) -> Items] /\ Sorts(l)
    BY <1>2 DEF SortedList
  <2>2. list = CHOOSE s \in [1..Cardinality(Items) -> Items] : Sorts(s)
    BY DEF SortedBy
  <2>3. list \in [1..Cardinality(Items) -> Items] /\ Sorts(list)
    <3> HIDE DEF list, Sorts
    <3>1. QED
      BY <2>1, <2>2
  <2>4. QED
    <3> HIDE DEF list
    <3>1. QED
      BY <2>3 DEF SortedList
<1> HIDE DEF list
<1>4. /\ list \in [1..n -> Items] /\ DOMAIN list = 1..n
      /\ \A i, j \in 1..n : i < j => list[i] # list[j] /\ rank[list[i]] <= rank[list[j]]
  BY <1>3 DEF SortedList
<1> HIDE DEF n
<1>5. list \in Seq(Items)
  BY <1>1, <1>4
<1>6. Distinct(list)
  <2> SUFFICES ASSUME NEW i \in 1..n, NEW j \in 1..n, list[i] = list[j] PROVE i = j
    BY <1>4 DEF Distinct
  <2>1. ~(i < j) /\ ~(j < i)
    BY <1>4
  <2>2. QED
    BY <1>1, <2>1
<1>7. Range(list) = Items
  <2>1. list \in Injection(1..n, Items)
    BY <1>4, <1>6 DEF Injection, IsInjective, Distinct
  <2>2. IsFiniteSet(1..n) /\ Cardinality(1..n) = n
    BY <1>1, FS_Interval
  <2>3. list \in Surjection(1..n, Items)
    BY <2>1, <2>2, FS_Injection DEF n
  <2>4. QED
    BY <1>4, <2>3 DEF Surjection, Range
<1>8. QED
  BY <1>4, <1>5, <1>6, <1>7 DEF list

-----------------------------------------------------------------------------
(* The charts *)

\* The places of the list up to one that hold a key.
Until(keys, i, key) == {j \in 1..i : keys[j] = key}

LEMMA UntilNext ==
  ASSUME NEW keys, NEW i \in Nat \ {0}, NEW key
  PROVE  /\ IsFiniteSet(Until(keys, i - 1, key)) /\ Cardinality(Until(keys, i - 1, key)) \in Nat
         /\ Cardinality(Until(keys, i, key)) =
              IF keys[i] = key THEN Cardinality(Until(keys, i - 1, key)) + 1
              ELSE Cardinality(Until(keys, i - 1, key))
<1>1. IsFiniteSet(1..(i - 1)) /\ Until(keys, i - 1, key) \in SUBSET (1..(i - 1))
  BY FS_Interval DEF Until
<1>2. IsFiniteSet(Until(keys, i - 1, key)) /\ Cardinality(Until(keys, i - 1, key)) \in Nat
  BY <1>1, FS_Subset, FS_CardinalityType
<1>3. 1..i = 1..(i - 1) \cup {i} /\ i \notin 1..(i - 1)
  OBVIOUS
<1>4. CASE keys[i] = key
  <2>1. Until(keys, i, key) = Until(keys, i - 1, key) \cup {i} /\ i \notin Until(keys, i - 1, key)
    BY <1>3, <1>4 DEF Until
  <2>2. QED
    BY <1>2, <1>4, <2>1, FS_AddElement
<1>5. CASE keys[i] # key
  <2>1. Until(keys, i, key) = Until(keys, i - 1, key)
    BY <1>3, <1>5 DEF Until
  <2>2. QED
    BY <1>2, <1>5, <2>1
<1>6. QED
  BY <1>4, <1>5, <1>2

\* What the reduce of the charts has counted at each place.
CountedAt(counts, keys, i) ==
  /\ DOMAIN counts = {keys[j] : j \in 1..i}
  /\ \A key \in DOMAIN counts : counts[key] = Cardinality(Until(keys, i, key))

Objects(Names, Values) == UNION {[X -> Values] : X \in SUBSET Names}

LEMMA PutTyped ==
  ASSUME NEW Names, NEW Values, NEW object \in Objects(Names, Values), NEW name \in Names,
         NEW value \in Values
  PROVE  Put(object, name, value) \in Objects(Names, Values)
<1>1. PICK X \in SUBSET Names : object \in [X -> Values]
  BY DEF Objects
<1>2. X \cup {name} \in SUBSET Names /\ DOMAIN object = X
  BY <1>1
<1>3. Put(object, name, value) = [other \in X \cup {name} |-> IF other = name THEN value ELSE object[other]]
  BY <1>2 DEF Put
<1>4. Put(object, name, value) \in [X \cup {name} -> Values]
  BY <1>1, <1>3
<1>5. QED
  BY <1>2, <1>4 DEF Objects

LEMMA NoKeysTyped ==
  ASSUME NEW Names, NEW Values
  PROVE  NoKeys \in Objects(Names, Values) /\ DOMAIN NoKeys = {}
<1>1. NoKeys \in [{} -> Values]
  BY DEF NoKeys
<1>2. {} \in SUBSET Names
  OBVIOUS
<1>3. QED
  BY <1>1, <1>2 DEF Objects

Counted(counts, key) == Put(counts, key, CountOr(counts, key, 0) + 1)

LEMMA CountedTyped ==
  ASSUME NEW Names, NEW counts \in Objects(Names, Nat), NEW key \in Names
  PROVE  Counted(counts, key) \in Objects(Names, Nat)
<1>1. CountOr(counts, key, 0) \in Nat
  <2>1. PICK X \in SUBSET Names : counts \in [X -> Nat]
    BY DEF Objects
  <2>2. DOMAIN counts = X
    BY <2>1
  <2>3. QED
    BY <2>1, <2>2 DEF CountOr
<1>2. CountOr(counts, key, 0) + 1 \in Nat
  BY <1>1
<1>3. QED
  BY <1>2, PutTyped DEF Counted

LEMMA CountBySteps ==
  ASSUME NEW Names, NEW keys \in Seq(Names)
  PROVE  \E counts \in [0..Len(keys) -> Objects(Names, Nat)] :
           /\ counts[0] = NoKeys
           /\ \A i \in 1..Len(keys) : counts[i] = Counted(counts[i - 1], keys[i])
           /\ countBy(keys) = counts[Len(keys)]
<1> DEFINE n == Len(keys)
           O == Objects(Names, Nat)
           Value(g, i) == IF i = 0 THEN NoKeys
                          ELSE Put(g[i - 1], keys[i], CountOr(g[i - 1], keys[i], 0) + 1)
           g == CHOOSE g : g = [i \in 0..n |-> Value(g, i)]
           step == [i \in 1..n |-> [c \in O |-> Counted(c, keys[i])]]
<1>1. n \in Nat /\ \A i \in 1..n : keys[i] \in Names
  OBVIOUS
<1>2. NoKeys \in O
  BY NoKeysTyped
<1> HIDE DEF n, O
<1>3. \A c \in O : \A i \in 1..n : Counted(c, keys[i]) \in O
  BY <1>1, CountedTyped DEF O
<1>4. step \in [1..n -> [O -> O]]
  BY <1>3
<1>5. PICK f : IsReduce(f, n, O, NoKeys, step)
  <2> HIDE DEF step
  <2>1. QED
    BY <1>1, <1>2, <1>4, Reduced
<1>6. \A i \in 0..n : f[i] = Value(f, i)
  <2>1. /\ f \in [0..n -> O] /\ f[0] = NoKeys
        /\ \A i \in 1..n : f[i] = step[i][f[i - 1]]
    <3> HIDE DEF step
    <3>1. QED
      BY <1>5 DEF IsReduce
  <2>2. ASSUME NEW i \in 1..n PROVE f[i] = Value(f, i)
    <3>1. i - 1 \in 0..n /\ i # 0
      BY <1>1
    <3>2. f[i - 1] \in O
      BY <2>1, <3>1
    <3>3. step[i][f[i - 1]] = Counted(f[i - 1], keys[i])
      BY <3>2
    <3>4. QED
      <4> HIDE DEF step
      <4>1. f[i] = Counted(f[i - 1], keys[i])
        BY <2>1, <3>3
      <4>2. QED
        BY <3>1, <4>1 DEF Counted
  <2>3. f[0] = Value(f, 0)
    BY <2>1
  <2>4. \A i \in 0..n : i = 0 \/ i \in 1..n
    BY <1>1
  <2>5. QED
    <3> HIDE DEF Value
    <3>1. QED
      BY <2>2, <2>3, <2>4
<1>7. f = [i \in 0..n |-> Value(f, i)]
  <2>1. f \in [0..n -> O]
    BY <1>5 DEF IsReduce
  <2> HIDE DEF Value
  <2>2. QED
    BY <1>6, <2>1
<1>8. g = [i \in 0..n |-> Value(g, i)]
  BY <1>7
<1>9. g[0] = NoKeys /\ \A i \in 1..n : g[i] = Counted(g[i - 1], keys[i])
  <2> HIDE DEF g
  <2>1. \A i \in 0..n : g[i] = Value(g, i)
    <3> HIDE DEF Value
    <3>1. QED
      BY <1>8
  <2>2. 0 \in 0..n /\ \A i \in 1..n : i \in 0..n /\ i # 0
    BY <1>1
  <2>3. g[0] = NoKeys
    BY <2>1, <2>2
  <2>4. \A i \in 1..n : g[i] = Counted(g[i - 1], keys[i])
    BY <2>1, <2>2 DEF Counted
  <2>5. QED
    BY <2>3, <2>4
<1>10. \A i \in 0..n : g[i] \in O
  <2> DEFINE Typed == {i \in 0..n : g[i] \in O}
  <2> HIDE DEF g
  <2>1. 0 \in Typed
    BY <1>1, <1>2, <1>9
  <2>2. ASSUME NEW i \in 1..n, i - 1 \in Typed PROVE i \in Typed
    <3>1. g[i - 1] \in O
      BY <2>2
    <3>2. g[i] \in O
      BY <1>3, <1>9, <3>1
    <3>3. i \in 0..n
      BY <1>1
    <3>4. QED
      BY <3>2, <3>3
  <2>3. 0..n \subseteq Typed
    <3> HIDE DEF Typed
    <3>1. QED
      BY <1>1, <2>1, <2>2, UpTo
  <2>4. QED
    BY <2>3
<1>11. g \in [0..n -> O]
  <2> HIDE DEF g, Value
  <2>1. QED
    BY <1>8, <1>10
<1>12. countBy(keys) = g[n]
  BY DEF countBy, n
<1>13. QED
  <2> HIDE DEF g
  <2>1. QED
    BY <1>9, <1>11, <1>12 DEF n, O

\* The reduce counts each key of the list, and each as often as it is there.
LEMMA CountByCounts ==
  ASSUME NEW Names, NEW keys \in Seq(Names)
  PROVE  /\ DOMAIN countBy(keys) = Range(keys)
         /\ \A key \in Range(keys) : countBy(keys)[key] = Occurrences(keys, key)
         /\ IsFiniteSet(Range(keys))
<1> DEFINE n == Len(keys)
<1>1. n \in Nat /\ DOMAIN keys = 1..n /\ \A i \in 1..n : keys[i] \in Names
  OBVIOUS
<1>2. PICK counts \in [0..n -> Objects(Names, Nat)] :
           /\ counts[0] = NoKeys
           /\ \A i \in 1..n : counts[i] = Counted(counts[i - 1], keys[i])
           /\ countBy(keys) = counts[n]
  BY CountBySteps
<1> HIDE DEF n
<1> DEFINE Done == {i \in 0..n : CountedAt(counts[i], keys, i)}
<1>3. 0 \in Done
  <2>1. DOMAIN NoKeys = {}
    BY NoKeysTyped
  <2>2. CountedAt(counts[0], keys, 0)
    BY <1>2, <2>1 DEF CountedAt
  <2>3. QED
    BY <1>1, <2>2
<1>4. ASSUME NEW i \in 1..n, i - 1 \in Done PROVE i \in Done
  <2>1. i \in Nat \ {0} /\ i - 1 \in 0..n /\ i \in 0..n /\ keys[i] \in Names
    BY <1>1
  <2> DEFINE before == counts[i - 1]
             key == keys[i]
             total == CountOr(before, key, 0) + 1
  <2>2. before \in Objects(Names, Nat) /\ counts[i] = Put(before, key, total)
    BY <1>2, <2>1 DEF Counted
  <2>3. DOMAIN before = {keys[j] : j \in 1..(i - 1)}
        /\ \A k \in DOMAIN before : before[k] = Cardinality(Until(keys, i - 1, k))
    BY <1>4 DEF CountedAt
  <2>4. CountOr(before, key, 0) = Cardinality(Until(keys, i - 1, key))
    <3>1. CASE key \in DOMAIN before
      BY <2>3, <3>1 DEF CountOr
    <3>2. CASE key \notin DOMAIN before
      <4>1. Until(keys, i - 1, key) = {}
        BY <2>3, <3>2 DEF Until
      <4>2. QED
        BY <3>2, <4>1, FS_EmptySet DEF CountOr
    <3>3. QED
      BY <3>1, <3>2
  <2>5. total \in Nat /\ total = Cardinality(Until(keys, i, key))
    BY <2>1, <2>4, UntilNext
  <2> HIDE DEF before, key, total
  <2>6. /\ DOMAIN counts[i] = DOMAIN before \cup {key} /\ counts[i][key] = total
        /\ \A other \in DOMAIN before \ {key} : counts[i][other] = before[other]
    BY <2>2 DEF Put
  <2>7. DOMAIN counts[i] = {keys[j] : j \in 1..i}
    <3>1. 1..i = 1..(i - 1) \cup {i}
      BY <2>1
    <3>2. QED
      BY <2>3, <2>6, <3>1 DEF key
  <2>8. ASSUME NEW k \in DOMAIN counts[i] PROVE counts[i][k] = Cardinality(Until(keys, i, k))
    <3>1. CASE k = key
      BY <2>5, <2>6, <3>1
    <3>2. CASE k # key
      <4>1. k \in DOMAIN before \ {key} /\ keys[i] # k
        BY <2>6, <3>2 DEF key
      <4>2. Cardinality(Until(keys, i, k)) = Cardinality(Until(keys, i - 1, k))
        BY <2>1, <4>1, UntilNext
      <4>3. QED
        BY <2>3, <2>6, <4>1, <4>2
    <3>3. QED
      BY <3>1, <3>2
  <2>9. CountedAt(counts[i], keys, i)
    BY <2>7, <2>8 DEF CountedAt
  <2>10. QED
    BY <2>1, <2>9
<1>5. 0..n \subseteq Done
  <2> HIDE DEF Done
  <2>1. QED
    BY <1>1, <1>3, <1>4, UpTo
<1>6. CountedAt(countBy(keys), keys, n)
  <2>1. n \in Done
    <3> HIDE DEF Done
    <3>1. QED
      BY <1>1, <1>5
  <2>2. QED
    BY <1>2, <2>1
<1>7. DOMAIN countBy(keys) = Range(keys)
  BY <1>1, <1>6 DEF CountedAt, Range
<1>8. \A key : Occurrences(keys, key) = Cardinality(Until(keys, n, key))
  BY <1>1 DEF Occurrences, Until
<1>9. IsFiniteSet(Range(keys))
  <2>1. IsFiniteSet(1..n) /\ keys \in Surjection(1..n, Range(keys))
    BY <1>1, FS_Interval DEF Surjection, Range
  <2>2. QED
    BY <2>1, FS_Surjection
<1>10. QED
  BY <1>6, <1>7, <1>8, <1>9 DEF CountedAt

OneNameEach(chart) == \A i, j \in DOMAIN chart : chart[i].name = chart[j].name => i = j

\* The value of a name is that of its slice.
LEMMA ValueOfSlice ==
  ASSUME NEW T, NEW chart \in Seq(T), OneNameEach(chart), NEW k \in DOMAIN chart
  PROVE  ValueOf(chart, chart[k].name) = chart[k].value
<1> DEFINE wanted == {s \in Range(chart) : s.name = chart[k].name}
           found == Filter(chart, wanted)
<1>1. found \in Seq(T) /\ Range(found) = Range(chart) \cap wanted
  <2> HIDE DEF wanted
  <2>1. QED
    BY FilterKeeps
<1>2. chart[k] \in Range(chart) /\ \A s \in wanted : s = chart[k]
  BY DEF Range, OneNameEach
<1>3. ValueOf(chart, chart[k].name) = IF found = <<>> THEN 0 ELSE Head(found).value
  BY DEF ValueOf
<1>4. Range(found) = {chart[k]}
  <2>1. chart[k] \in wanted /\ wanted \subseteq Range(chart)
    BY <1>2
  <2>2. QED
    <3> HIDE DEF wanted, found
    <3>1. QED
      BY <1>1, <1>2, <2>1
<1> HIDE DEF found
<1>5. found # <<>>
  <2>1. PICK i \in DOMAIN found : TRUE
    BY <1>4 DEF Range
  <2>2. QED
    BY <1>1, <2>1
<1>6. Head(found) = found[1] /\ 1 \in DOMAIN found
  BY <1>1, <1>5
<1>7. Head(found) = chart[k]
  BY <1>4, <1>6 DEF Range
<1>8. QED
  BY <1>3, <1>5, <1>7

\* A chart counts a list if it has a slice for each key, and in each slice the
\* number of its occurrences.
LEMMA ExactCounts ==
  ASSUME NEW T, NEW chart \in Seq(T), NEW keys, OneNameEach(chart),
         \A k \in DOMAIN chart : chart[k].value = Occurrences(keys, chart[k].name),
         Range(keys) \subseteq {chart[k].name : k \in DOMAIN chart}
  PROVE  Counts(chart, keys)
<1>1. ASSUME NEW k \in DOMAIN chart
      PROVE  ValueOf(chart, chart[k].name) = Occurrences(keys, chart[k].name)
  BY ValueOfSlice
<1>2. \A name \in Range(keys) \cup {chart[k].name : k \in DOMAIN chart} :
        ValueOf(chart, name) = Occurrences(keys, name)
  <2> SUFFICES ASSUME NEW name \in {chart[k].name : k \in DOMAIN chart}
               PROVE  ValueOf(chart, name) = Occurrences(keys, name)
    OBVIOUS
  <2>1. PICK k \in DOMAIN chart : name = chart[k].name
    OBVIOUS
  <2>2. QED
    BY <1>1, <2>1
<1>3. QED
  BY <1>2 DEF Counts, OneNameEach

\* What is left when the empty slices are taken out.
LEMMA WithoutEmptyKeeps ==
  ASSUME NEW T, NEW chart \in Seq(T), OneNameEach(chart)
  PROVE  LET left == WithoutEmpty(chart)
         IN  /\ left \in Seq(T) /\ OneNameEach(left)
             /\ \A k \in DOMAIN left : left[k] \in Range(chart)
             /\ \A k \in DOMAIN chart : chart[k].value > 0 => chart[k] \in Range(left)
<1> DEFINE left == WithoutEmpty(chart)
           wanted == {s \in Range(chart) : s.value > 0}
<1>1. left = Filter(chart, wanted)
  BY DEF WithoutEmpty
<1>2. Distinct(chart)
  BY DEF OneNameEach, Distinct
<1>3. left \in Seq(T) /\ Range(left) = Range(chart) \cap wanted /\ Distinct(left)
  <2> HIDE DEF wanted, left
  <2>1. QED
    BY <1>1, <1>2, FilterKeeps
<1> HIDE DEF left
<1>4. \A k \in DOMAIN left : left[k] \in Range(chart)
  BY <1>3 DEF Range
<1>5. OneNameEach(left)
  <2> SUFFICES ASSUME NEW i \in DOMAIN left, NEW j \in DOMAIN left, left[i].name = left[j].name
               PROVE  i = j
    BY DEF OneNameEach
  <2>1. PICK a \in DOMAIN chart : left[i] = chart[a]
    BY <1>4 DEF Range
  <2>2. PICK b \in DOMAIN chart : left[j] = chart[b]
    BY <1>4 DEF Range
  <2>3. left[i] = left[j]
    BY <2>1, <2>2 DEF OneNameEach
  <2>4. QED
    BY <1>3, <2>3 DEF Distinct
<1>6. ASSUME NEW k \in DOMAIN chart, chart[k].value > 0 PROVE chart[k] \in Range(left)
  <2>1. chart[k] \in Range(chart)
    BY DEF Range
  <2>2. chart[k] \in wanted
    BY <1>6, <2>1
  <2>3. QED
    BY <1>3, <2>1, <2>2
<1>7. QED
  BY <1>3, <1>4, <1>5, <1>6 DEF left

LEMMA OccurrencesPositive ==
  ASSUME NEW Names, NEW keys \in Seq(Names), NEW name
  PROVE  /\ Occurrences(keys, name) \in Nat
         /\ name \in Range(keys) <=> Occurrences(keys, name) > 0
<1> DEFINE places == {i \in DOMAIN keys : keys[i] = name}
<1>1. IsFiniteSet(DOMAIN keys) /\ places \in SUBSET DOMAIN keys
  BY FS_Interval
<1> HIDE DEF places
<1>2. IsFiniteSet(places) /\ Cardinality(places) \in Nat /\ (Cardinality(places) = 0 <=> places = {})
  BY <1>1, FS_Subset, FS_CardinalityType, FS_EmptySet
<1>3. name \in Range(keys) <=> places # {}
  BY DEF places, Range
<1>4. Occurrences(keys, name) = Cardinality(places)
  BY DEF Occurrences, places
<1>5. QED
  BY <1>2, <1>3, <1>4

LEMMA CountOrCounts ==
  ASSUME NEW Names, NEW keys \in Seq(Names), NEW name
  PROVE  /\ CountOr(countBy(keys), name, 0) = Occurrences(keys, name)
         /\ name \in Range(keys) =>
              \A otherwise : CountOr(countBy(keys), name, otherwise) = Occurrences(keys, name)
         /\ name \notin Range(keys) =>
              \A otherwise : CountOr(countBy(keys), name, otherwise) = otherwise
<1>1. DOMAIN countBy(keys) = Range(keys)
      /\ \A key \in Range(keys) : countBy(keys)[key] = Occurrences(keys, key)
  BY CountByCounts
<1>2. name \notin Range(keys) => Occurrences(keys, name) = 0
  BY OccurrencesPositive
<1>3. QED
  BY <1>1, <1>2 DEF CountOr

\* A chart whose slices have the right values counts the list without its empty ones.
LEMMA ExactWithoutEmpty ==
  ASSUME NEW T, NEW chart \in Seq(T), NEW Names, NEW keys \in Seq(Names), OneNameEach(chart),
         \A k \in DOMAIN chart : chart[k].value = Occurrences(keys, chart[k].name),
         Range(keys) \subseteq {chart[k].name : k \in DOMAIN chart}
  PROVE  Counts(WithoutEmpty(chart), keys)
<1> DEFINE left == WithoutEmpty(chart)
<1>1. /\ left \in Seq(T) /\ OneNameEach(left)
      /\ \A k \in DOMAIN left : left[k] \in Range(chart)
      /\ \A k \in DOMAIN chart : chart[k].value > 0 => chart[k] \in Range(left)
  BY WithoutEmptyKeeps
<1> HIDE DEF left
<1>2. \A k \in DOMAIN left : left[k].value = Occurrences(keys, left[k].name)
  BY <1>1 DEF Range
<1>3. ASSUME NEW name \in Range(keys) PROVE name \in {left[k].name : k \in DOMAIN left}
  <2>1. PICK k \in DOMAIN chart : name = chart[k].name
    OBVIOUS
  <2>2. chart[k].value > 0
    BY <2>1, OccurrencesPositive
  <2>3. PICK j \in DOMAIN left : left[j] = chart[k]
    BY <1>1, <2>2 DEF Range
  <2>4. QED
    BY <2>1, <2>3
<1>4. Counts(left, keys)
  BY <1>1, <1>2, <1>3, ExactCounts
<1>5. QED
  BY <1>4 DEF left

\* A slice for each name of a list.
LEMMA SlicesOfNames ==
  ASSUME NEW Names, NEW names \in Seq(Names), Distinct(names), NEW counts
  PROVE  LET chart == Slices(names, counts)
         IN  /\ chart \in Seq(Range(chart)) /\ OneNameEach(chart)
             /\ DOMAIN chart = DOMAIN names /\ Len(chart) = Len(names)
             /\ \A k \in DOMAIN chart : /\ chart[k].name = names[k]
                                        /\ chart[k].value = counts[names[k]]
             /\ {chart[k].name : k \in DOMAIN chart} = Range(names)
<1> DEFINE chart == Slices(names, counts)
<1>1. /\ DOMAIN chart = 1..Len(names) /\ DOMAIN names = 1..Len(names) /\ Len(names) \in Nat
      /\ \A k \in DOMAIN names : chart[k].name = names[k] /\ chart[k].value = counts[names[k]]
  BY DEF Slices, Slice
<1>2. chart = [k \in 1..Len(names) |-> Slice(names[k], counts[names[k]])]
  BY <1>1 DEF Slices
<1>3. \A k \in 1..Len(names) : chart[k] \in Range(chart)
  BY <1>1 DEF Range
<1>4. chart \in [1..Len(names) -> Range(chart)]
  BY <1>2, <1>3
<1> HIDE DEF chart
<1>5. chart \in Seq(Range(chart)) /\ Len(chart) = Len(names)
  BY <1>1, <1>4
<1>6. OneNameEach(chart)
  BY <1>1 DEF OneNameEach, Distinct
<1>7. {chart[k].name : k \in DOMAIN chart} = Range(names)
  BY <1>1 DEF Range
<1>8. QED
  BY <1>1, <1>5, <1>6, <1>7 DEF chart

LEMMA SlicesCount ==
  ASSUME NEW Names, NEW keys \in Seq(Names), NEW Others, NEW names \in Seq(Others), Distinct(names),
         Range(names) = Range(keys)
  PROVE  Counts(Slices(names, countBy(keys)), keys)
<1> DEFINE chart == Slices(names, countBy(keys))
<1>1. /\ chart \in Seq(Range(chart)) /\ OneNameEach(chart)
      /\ \A k \in DOMAIN chart : /\ chart[k].name = names[k]
                                 /\ chart[k].value = countBy(keys)[names[k]]
      /\ {chart[k].name : k \in DOMAIN chart} = Range(names)
      /\ DOMAIN chart = DOMAIN names
  BY SlicesOfNames
<1> HIDE DEF chart
<1>2. ASSUME NEW k \in DOMAIN chart PROVE chart[k].value = Occurrences(keys, chart[k].name)
  <2>1. names[k] \in Range(keys)
    BY <1>1 DEF Range
  <2>2. QED
    BY <1>1, <2>1, CountByCounts
<1>3. Counts(chart, keys)
  BY <1>1, <1>2, ExactCounts
<1>4. QED
  BY <1>3 DEF chart

LEMMA ByCountSorts ==
  ASSUME NEW counts, IsFiniteSet(DOMAIN counts), \A name \in DOMAIN counts : counts[name] \in Nat
  PROVE  LET chart == ByCount(counts)
         IN  /\ chart \in Seq(Range(chart)) /\ OneNameEach(chart)
             /\ \A k \in DOMAIN chart : /\ chart[k].name \in DOMAIN counts
                                        /\ chart[k].value = counts[chart[k].name]
             /\ {chart[k].name : k \in DOMAIN chart} = DOMAIN counts
             /\ Decreasing(chart)
<1> DEFINE rank == [name \in DOMAIN counts |-> -counts[name]]
           order == SortedBy(DOMAIN counts, rank)
           chart == Slices(order, counts)
<1>1. rank \in [DOMAIN counts -> Int]
  OBVIOUS
<1>2. /\ order \in Seq(DOMAIN counts) /\ Distinct(order) /\ Range(order) = DOMAIN counts
      /\ \A i, j \in DOMAIN order : i < j => rank[order[i]] <= rank[order[j]]
  <2> HIDE DEF rank
  <2>1. QED
    BY <1>1, SortedByRank
<1>3. chart = ByCount(counts)
  BY DEF ByCount
<1> HIDE DEF order
<1>4. /\ chart \in Seq(Range(chart)) /\ OneNameEach(chart) /\ DOMAIN chart = DOMAIN order
      /\ \A k \in DOMAIN chart : /\ chart[k].name = order[k]
                                 /\ chart[k].value = counts[order[k]]
      /\ {chart[k].name : k \in DOMAIN chart} = Range(order)
  <2>1. order \in Seq(DOMAIN counts) /\ Distinct(order)
    BY <1>2
  <2> HIDE DEF rank
  <2>2. QED
    BY <2>1, SlicesOfNames
<1> HIDE DEF chart
<1>5. \A k \in DOMAIN chart : order[k] \in DOMAIN counts
  BY <1>2, <1>4
<1>6. Decreasing(chart)
  <2> SUFFICES ASSUME NEW i \in DOMAIN chart, NEW j \in DOMAIN chart, i < j
               PROVE  chart[i].value >= chart[j].value
    BY DEF Decreasing
  <2>1. rank[order[i]] <= rank[order[j]]
    <3> HIDE DEF rank
    <3>1. QED
      BY <1>2, <1>4
  <2>2. rank[order[i]] = -counts[order[i]] /\ rank[order[j]] = -counts[order[j]]
    BY <1>5
  <2>3. counts[order[i]] \in Nat /\ counts[order[j]] \in Nat
    BY <1>5
  <2> HIDE DEF rank
  <2>4. counts[order[i]] >= counts[order[j]]
    BY <2>1, <2>2, <2>3
  <2>5. QED
    BY <1>4, <2>4
<1>7. QED
  BY <1>2, <1>3, <1>4, <1>5, <1>6

LEMMA ByCountCounts ==
  ASSUME NEW Names, NEW keys \in Seq(Names)
  PROVE  Counts(ByCount(countBy(keys)), keys) /\ Decreasing(ByCount(countBy(keys)))
<1> DEFINE counts == countBy(keys)
           chart == ByCount(counts)
<1>1. /\ DOMAIN counts = Range(keys) /\ IsFiniteSet(DOMAIN counts)
      /\ \A name \in Range(keys) : counts[name] = Occurrences(keys, name)
  BY CountByCounts
<1>2. \A name \in DOMAIN counts : counts[name] \in Nat
  BY <1>1, OccurrencesPositive
<1>3. /\ chart \in Seq(Range(chart)) /\ OneNameEach(chart) /\ Decreasing(chart)
      /\ \A k \in DOMAIN chart : /\ chart[k].name \in DOMAIN counts
                                 /\ chart[k].value = counts[chart[k].name]
      /\ {chart[k].name : k \in DOMAIN chart} = DOMAIN counts
  <2> HIDE DEF counts
  <2>1. QED
    BY <1>1, <1>2, ByCountSorts
<1> HIDE DEF chart
<1>4. Counts(chart, keys)
  BY <1>1, <1>3, ExactCounts
<1>5. QED
  BY <1>3, <1>4 DEF chart

StageNames == {"open", "assigned", "in-progress", "investigating", "resolved", "closed"}

\* The stages in their order and then the others count a list together.
LEMMA FunnelCounts ==
  ASSUME NEW Names, NEW keys \in Seq(Names)
  PROVE  LET counts == countBy(keys)
             others == DOMAIN counts \ Range(FunnelStageOrder)
         IN  Counts(Slices(Filter(FunnelStageOrder, DOMAIN counts), counts)
                      \o ByCount([stage \in others |-> counts[stage]]), keys)
<1> DEFINE counts == countBy(keys)
           others == DOMAIN counts \ Range(FunnelStageOrder)
           known == Filter(FunnelStageOrder, DOMAIN counts)
           rest == [stage \in others |-> counts[stage]]
           stages == Slices(known, counts)
           tail == ByCount(rest)
<1>1. /\ DOMAIN counts = Range(keys) /\ IsFiniteSet(DOMAIN counts)
      /\ \A name \in Range(keys) : counts[name] = Occurrences(keys, name)
      /\ \A name \in DOMAIN counts : counts[name] \in Nat
  BY CountByCounts, OccurrencesPositive
<1> HIDE DEF counts
<1>2. FunnelStageOrder \in Seq(StageNames) /\ Distinct(FunnelStageOrder)
  <2>1. FunnelStageOrder \in Seq(StageNames)
    BY DEF FunnelStageOrder, StageNames
  <2>2. DOMAIN FunnelStageOrder = 1..6
    BY DEF FunnelStageOrder
  <2>3. \A i, j \in 1..6 : FunnelStageOrder[i] = FunnelStageOrder[j] => i = j
    BY DEF FunnelStageOrder
  <2>4. QED
    BY <2>1, <2>2, <2>3 DEF Distinct
<1>3. /\ known \in Seq(StageNames) /\ Distinct(known)
      /\ Range(known) = Range(FunnelStageOrder) \cap DOMAIN counts
  BY <1>2, FilterKeeps
<1> HIDE DEF known
<1>4. /\ stages \in Seq(Range(stages)) /\ OneNameEach(stages)
      /\ \A k \in DOMAIN stages : /\ stages[k].name = known[k]
                                  /\ stages[k].value = counts[known[k]]
      /\ {stages[k].name : k \in DOMAIN stages} = Range(known)
  BY <1>3, SlicesOfNames
<1>5. /\ DOMAIN rest = others /\ IsFiniteSet(others)
      /\ \A name \in others : rest[name] = counts[name] /\ rest[name] \in Nat
  BY <1>1, FS_Subset
<1>6. /\ tail \in Seq(Range(tail)) /\ OneNameEach(tail)
      /\ \A k \in DOMAIN tail : /\ tail[k].name \in DOMAIN rest
                                /\ tail[k].value = rest[tail[k].name]
      /\ {tail[k].name : k \in DOMAIN tail} = DOMAIN rest
  <2> HIDE DEF rest
  <2>1. QED
    BY <1>5, ByCountSorts
<1> HIDE DEF stages, tail, rest
<1> DEFINE chart == stages \o tail
           T == Range(stages) \cup Range(tail)
<1>7. stages \in Seq(T) /\ tail \in Seq(T)
  BY <1>4, <1>6
<1>8. /\ chart \in Seq(T) /\ DOMAIN chart = 1..(Len(stages) + Len(tail))
      /\ DOMAIN stages = 1..Len(stages) /\ DOMAIN tail = 1..Len(tail)
      /\ Len(stages) \in Nat /\ Len(tail) \in Nat
  <2> HIDE DEF T
  <2>1. QED
    BY <1>7
<1>9. /\ \A k \in DOMAIN stages : chart[k] = stages[k] /\ k \in DOMAIN chart
      /\ \A k \in DOMAIN tail : chart[Len(stages) + k] = tail[k] /\ Len(stages) + k \in DOMAIN chart
  <2> HIDE DEF T
  <2>1. QED
    BY <1>7, <1>8
<1>10. \A k \in DOMAIN chart : k \in DOMAIN stages \/ \E l \in DOMAIN tail : k = Len(stages) + l
  <2> SUFFICES ASSUME NEW k \in DOMAIN chart, k \notin DOMAIN stages
               PROVE  k - Len(stages) \in DOMAIN tail /\ k = Len(stages) + (k - Len(stages))
    OBVIOUS
  <2> HIDE DEF T, chart
  <2>1. QED
    BY <1>8
<1> HIDE DEF chart, T
<1>11. \A k \in DOMAIN stages : stages[k].name \in Range(FunnelStageOrder) \cap DOMAIN counts
                               /\ stages[k].value = counts[stages[k].name]
  BY <1>3, <1>4
<1>12. \A k \in DOMAIN tail : tail[k].name \in others /\ tail[k].value = counts[tail[k].name]
  BY <1>5, <1>6
<1>13. OneNameEach(chart)
  <2> SUFFICES ASSUME NEW i \in DOMAIN chart, NEW j \in DOMAIN chart, chart[i].name = chart[j].name
               PROVE  i = j
    BY DEF OneNameEach
  <2>1. CASE i \in DOMAIN stages /\ j \in DOMAIN stages
    BY <1>4, <1>9, <2>1 DEF OneNameEach
  <2>2. CASE i \in DOMAIN stages /\ j \notin DOMAIN stages
    <3>1. PICK l \in DOMAIN tail : j = Len(stages) + l
      BY <1>10, <2>2
    <3>2. QED
      BY <1>9, <1>11, <1>12, <2>2, <3>1
  <2>3. CASE i \notin DOMAIN stages /\ j \in DOMAIN stages
    <3>1. PICK l \in DOMAIN tail : i = Len(stages) + l
      BY <1>10, <2>3
    <3>2. QED
      BY <1>9, <1>11, <1>12, <2>3, <3>1
  <2>4. CASE i \notin DOMAIN stages /\ j \notin DOMAIN stages
    <3>1. PICK l \in DOMAIN tail : i = Len(stages) + l
      BY <1>10, <2>4
    <3>2. PICK m \in DOMAIN tail : j = Len(stages) + m
      BY <1>10, <2>4
    <3>3. l = m
      BY <1>6, <1>9, <3>1, <3>2 DEF OneNameEach
    <3>4. QED
      BY <3>1, <3>2, <3>3
  <2>5. QED
    BY <2>1, <2>2, <2>3, <2>4
<1>14. ASSUME NEW k \in DOMAIN chart PROVE chart[k].value = Occurrences(keys, chart[k].name)
  <2>1. chart[k].name \in DOMAIN counts /\ chart[k].value = counts[chart[k].name]
    <3>1. CASE k \in DOMAIN stages
      BY <1>9, <1>11, <3>1
    <3>2. CASE k \notin DOMAIN stages
      <4>1. PICK l \in DOMAIN tail : k = Len(stages) + l
        BY <1>10, <3>2
      <4>2. QED
        BY <1>9, <1>12, <4>1
    <3>3. QED
      BY <3>1, <3>2
  <2>2. QED
    BY <1>1, <2>1
<1>15. ASSUME NEW name \in Range(keys) PROVE name \in {chart[k].name : k \in DOMAIN chart}
  <2>1. CASE name \in Range(FunnelStageOrder)
    <3>1. PICK k \in DOMAIN stages : stages[k].name = name
      BY <1>1, <1>3, <1>4, <2>1
    <3>2. QED
      BY <1>9, <3>1
  <2>2. CASE name \notin Range(FunnelStageOrder)
    <3>1. PICK k \in DOMAIN tail : tail[k].name = name
      BY <1>1, <1>5, <1>6, <2>2
    <3>2. QED
      BY <1>9, <3>1
  <2>3. QED
    BY <2>1, <2>2
<1>16. Counts(chart, keys)
  BY <1>8, <1>13, <1>14, <1>15, ExactCounts
<1>17. QED
  BY <1>16 DEF chart, stages, tail, known, rest, counts

\* The keys of a field, and those whose item is not closed.
LEMMA KeysTyped ==
  ASSUME NEW T, NEW items \in Seq(T), NEW field
  PROVE  Keys(items, field) \in Seq({item[field] : item \in T})
<1>1. DOMAIN items = 1..Len(items) /\ Len(items) \in Nat /\ \A i \in 1..Len(items) : items[i] \in T
  OBVIOUS
<1>2. Keys(items, field) \in [1..Len(items) -> {item[field] : item \in T}]
  BY <1>1 DEF Keys
<1>3. QED
  BY <1>1, <1>2

AgeNames == {"< 1h", "1-4h", "4-24h", "> 24h"}

LEMMA BucketOfNamed == \A age \in Int : BucketOf(age) \in AgeNames
  BY DEF BucketOf, AgeNames

LEMMA AgesTyped ==
  ASSUME NEW T, NEW items \in Seq(T), \A item \in T : item.age \in Int
  PROVE  Ages(items) \in Seq(AgeNames)
<1> DEFINE wanted == {item \in Range(items) : ~IsClosed(item)}
           open == Filter(items, wanted)
<1>1. open \in Seq(T)
  <2> HIDE DEF wanted
  <2>1. QED
    BY FilterKeeps
<1>2. Ages(items) = [i \in DOMAIN open |-> BucketOf(open[i].age)]
  BY DEF Ages
<1> HIDE DEF open
<1>3. /\ DOMAIN open = 1..Len(open) /\ Len(open) \in Nat
      /\ \A i \in 1..Len(open) : open[i] \in T
  BY <1>1
<1>4. \A i \in 1..Len(open) : BucketOf(open[i].age) \in AgeNames
  BY <1>3, BucketOfNamed
<1>5. Ages(items) \in [1..Len(open) -> AgeNames]
  BY <1>2, <1>3, <1>4
<1>6. QED
  BY <1>3, <1>5

PriorityNames == {"critical", "high", "medium", "low", "unknown"}

\* What a loop over places gives is a list.
LEMMA ListOfPlaces ==
  ASSUME NEW size \in Nat, NEW list, list = [i \in 1..size |-> list[i]]
  PROVE  list \in Seq(Range(list)) /\ Len(list) = size
<1>1. DOMAIN list = 1..size
  OBVIOUS
<1>2. \A i \in 1..size : list[i] \in Range(list)
  BY <1>1 DEF Range
<1>3. list \in [1..size -> Range(list)]
  BY <1>2
<1>4. QED
  BY <1>1, <1>3

\* By priority.
LEMMA PrioritiesCount ==
  ASSUME NEW T, NEW items \in Seq(T), \A item \in T : item.priority \in PriorityNames
  PROVE  Counts(buildAlarmPriority(items), Keys(items, "priority"))
<1> DEFINE keys == Keys(items, "priority")
           order == <<"critical", "high", "medium", "low", "unknown">>
           chart == [i \in DOMAIN order |-> Slice(order[i], CountOr(countBy(keys), order[i], 0))]
<1>1. keys \in Seq({item.priority : item \in T})
  BY KeysTyped
<1>2. keys \in Seq(PriorityNames)
  <2>1. {item.priority : item \in T} \subseteq PriorityNames
    OBVIOUS
  <2> HIDE DEF keys
  <2>2. QED
    BY <1>1, <2>1
<1>3. buildAlarmPriority(items) = WithoutEmpty(chart)
  BY DEF buildAlarmPriority
<1> HIDE DEF keys
<1>4. /\ DOMAIN order = 1..5 /\ Range(order) = PriorityNames
      /\ \A i, j \in 1..5 : order[i] = order[j] => i = j
  BY DEF Range, PriorityNames
<1> HIDE DEF order
<1>5. /\ DOMAIN chart = 1..5
      /\ \A i \in 1..5 : /\ chart[i].name = order[i]
                         /\ chart[i].value = CountOr(countBy(keys), order[i], 0)
  BY <1>4 DEF Slice
<1>6. chart \in Seq(Range(chart))
  <2>1. chart = [i \in 1..5 |-> chart[i]] /\ 5 \in Nat
    BY <1>4
  <2> HIDE DEF chart
  <2>2. QED
    BY <2>1, ListOfPlaces
<1> HIDE DEF chart
<1>7. OneNameEach(chart)
  BY <1>4, <1>5 DEF OneNameEach
<1>8. \A i \in DOMAIN chart : chart[i].value = Occurrences(keys, chart[i].name)
  BY <1>2, <1>5, CountOrCounts
<1>9. Range(keys) \subseteq {chart[k].name : k \in DOMAIN chart}
  <2>1. Range(keys) \subseteq PriorityNames
    BY <1>2 DEF Range
  <2>2. \A name \in PriorityNames : \E k \in DOMAIN chart : chart[k].name = name
    BY <1>4, <1>5 DEF Range
  <2>3. QED
    BY <2>1, <2>2
<1>10. QED
  BY <1>2, <1>3, <1>6, <1>7, <1>8, <1>9, ExactWithoutEmpty DEF keys

\* By day.
LEMMA DaysCount ==
  ASSUME NEW T, NEW items \in Seq(T), \A item \in T : item.day \in Int
  PROVE  Counts(buildAlarmTrend(items), Keys(items, "day"))
<1> DEFINE keys == Keys(items, "day")
           counts == countBy(keys)
           rank == [day \in DOMAIN counts |-> day]
           order == SortedBy(DOMAIN counts, rank)
           Days == {item.day : item \in T}
<1>1. keys \in Seq(Days)
  BY KeysTyped
<1>2. Days \subseteq Int
  OBVIOUS
<1> HIDE DEF keys, Days
<1>3. DOMAIN counts = Range(keys) /\ IsFiniteSet(DOMAIN counts)
  BY <1>1, CountByCounts
<1>4. Range(keys) \subseteq Int
  <2>1. DOMAIN keys = 1..Len(keys) /\ \A i \in 1..Len(keys) : keys[i] \in Days
    BY <1>1
  <2>2. \A i \in DOMAIN keys : keys[i] \in Int
    BY <1>2, <2>1
  <2>3. QED
    BY <2>2 DEF Range
<1>5. buildAlarmTrend(items) = Slices(order, counts)
  BY DEF buildAlarmTrend, keys
<1>6. rank \in [DOMAIN counts -> Int]
  BY <1>3, <1>4
<1>7. order \in Seq(DOMAIN counts) /\ Distinct(order) /\ Range(order) = DOMAIN counts
  <2> HIDE DEF rank, counts
  <2>1. QED
    BY <1>3, <1>6, SortedByRank
<1> HIDE DEF order
<1>8. Counts(Slices(order, counts), keys)
  BY <1>1, <1>3, <1>7, SlicesCount
<1>9. QED
  BY <1>5, <1>8 DEF keys

\* By age.
LEMMA AgesCount ==
  ASSUME NEW T, NEW items \in Seq(T), \A item \in T : item.age \in Int
  PROVE  Counts(buildIncidentAgeBuckets(items), Ages(items))
<1> DEFINE keys == Ages(items)
           chart == buildIncidentAgeBuckets(items)
<1>1. keys \in Seq(AgeNames)
  BY AgesTyped
<1>2. chart = [i \in DOMAIN AgeBuckets |-> Slice(AgeBuckets[i], CountOr(countBy(keys), AgeBuckets[i], 0))]
  BY DEF buildIncidentAgeBuckets
<1> HIDE DEF keys, chart
<1>3. /\ DOMAIN AgeBuckets = 1..4 /\ Range(AgeBuckets) = AgeNames
      /\ \A i, j \in 1..4 : AgeBuckets[i] = AgeBuckets[j] => i = j
  <2>1. DOMAIN AgeBuckets = 1..4
    BY DEF AgeBuckets
  <2> DEFINE named == /\ AgeBuckets[1] = "< 1h" /\ AgeBuckets[2] = "1-4h"
                      /\ AgeBuckets[3] = "4-24h" /\ AgeBuckets[4] = "> 24h"
  <2>2. named
    BY DEF AgeBuckets
  <2>3. 1..4 = {1, 2, 3, 4}
    OBVIOUS
  <2>4. \A i, j \in 1..4 : AgeBuckets[i] = AgeBuckets[j] => i = j
    BY <2>2, <2>3
  <2>5. \A i \in 1..4 : AgeBuckets[i] \in AgeNames
    BY <2>2, <2>3 DEF AgeNames
  <2>6. \A name \in AgeNames : \E i \in 1..4 : AgeBuckets[i] = name
    <3>1. named
      BY <2>2
    <3>2. 1 \in 1..4 /\ 2 \in 1..4 /\ 3 \in 1..4 /\ 4 \in 1..4
      OBVIOUS
    <3>3. QED
      BY <3>1, <3>2, Zenon DEF AgeNames
  <2>7. QED
    <3>1. Range(AgeBuckets) \subseteq AgeNames
      BY <2>1, <2>5 DEF Range
    <3>2. AgeNames \subseteq Range(AgeBuckets)
      BY <2>1, <2>6, Zenon DEF Range
    <3>3. QED
      BY <2>1, <2>4, <3>1, <3>2
<1>4. /\ DOMAIN chart = 1..4
      /\ \A i \in 1..4 : /\ chart[i].name = AgeBuckets[i]
                         /\ chart[i].value = CountOr(countBy(keys), AgeBuckets[i], 0)
  BY <1>2, <1>3 DEF Slice
<1>5. chart \in Seq(Range(chart))
  <2>1. chart = [i \in 1..4 |-> chart[i]] /\ 4 \in Nat
    BY <1>2, <1>4
  <2>2. QED
    BY <2>1, ListOfPlaces
<1>6. OneNameEach(chart)
  BY <1>3, <1>4 DEF OneNameEach
<1>7. \A i \in DOMAIN chart : chart[i].value = Occurrences(keys, chart[i].name)
  BY <1>1, <1>4, CountOrCounts
<1>8. Range(keys) \subseteq {chart[k].name : k \in DOMAIN chart}
  <2>1. Range(keys) \subseteq AgeNames
    BY <1>1 DEF Range
  <2>2. \A name \in AgeNames : \E k \in DOMAIN chart : chart[k].name = name
    BY <1>3, <1>4 DEF Range
  <2>3. QED
    BY <2>1, <2>2
<1>9. Counts(chart, keys)
  BY <1>1, <1>5, <1>6, <1>7, <1>8, ExactCounts
<1>10. QED
  BY <1>9 DEF chart, keys

\* Each chart of a queue page counts its list.
LEMMA ChartsCount ==
  ASSUME queue \in Seq(Records)
  PROVE  ChartsCountEveryRecord
<1>1. \A record \in Records :
        /\ record.priority \in PriorityNames /\ record.day \in Int /\ record.age \in Int
  BY DashboardChartsAssumption DEF PriorityNames
<1>2. Counts(buildAlarmPriority(queue), Keys(queue, "priority"))
  BY <1>1, PrioritiesCount
<1>3. Counts(buildAlarmTrend(queue), Keys(queue, "day"))
  BY <1>1, DaysCount
<1>4. Counts(buildIncidentAgeBuckets(queue), Ages(queue))
  BY <1>1, AgesCount
<1>5. Counts(buildGroupWorkload(queue), Keys(queue, "group")) /\ Decreasing(buildGroupWorkload(queue))
  <2>1. Keys(queue, "group") \in Seq({item["group"] : item \in Records})
    BY KeysTyped
  <2>2. QED
    BY <2>1, ByCountCounts DEF buildGroupWorkload
<1>6. /\ Counts(buildAlarmTypeBreakdown(queue), Keys(queue, "metric"))
      /\ Decreasing(buildAlarmTypeBreakdown(queue))
  <2>1. Keys(queue, "metric") \in Seq({item["metric"] : item \in Records})
    BY KeysTyped
  <2>2. QED
    BY <2>1, ByCountCounts DEF buildAlarmTypeBreakdown
<1>7. Counts(buildResolutionFunnel(queue), Keys(queue, "status"))
  <2>1. Keys(queue, "status") \in Seq({item["status"] : item \in Records})
    BY KeysTyped
  <2>2. QED
    BY <2>1, FunnelCounts DEF buildResolutionFunnel
<1>8. QED
  BY <1>2, <1>3, <1>4, <1>5, <1>6, <1>7 DEF ChartsCountEveryRecord

StatusNames == {"online", "offline", "warning", "unknown"}

\* The four slices of the fleet chart, before the empty ones are taken out.
FourSlices(list, stats) ==
  LET counts == countBy(list)
      others == stats.totalDevices - stats.onlineDevices
  IN  <<Slice("online", CountOr(counts, "online", stats.onlineDevices)),
        Slice("offline", CountOr(counts, "offline", IF others > 0 THEN others ELSE 0)),
        Slice("warning", CountOr(counts, "warning", 0)),
        Slice("unknown", CountOr(counts, "unknown", 0))>>

LEMMA FourSlicesNamed ==
  ASSUME NEW list, NEW stats
  PROVE  LET chart == FourSlices(list, stats)
             counts == countBy(list)
             others == stats.totalDevices - stats.onlineDevices
         IN  /\ chart \in Seq(Range(chart)) /\ OneNameEach(chart)
             /\ DOMAIN chart = {1, 2, 3, 4}
             /\ \A name \in StatusNames : \E k \in DOMAIN chart : chart[k].name = name
             /\ chart[1] = Slice("online", CountOr(counts, "online", stats.onlineDevices))
             /\ chart[2] = Slice("offline", CountOr(counts, "offline", IF others > 0 THEN others ELSE 0))
             /\ chart[3] = Slice("warning", CountOr(counts, "warning", 0))
             /\ chart[4] = Slice("unknown", CountOr(counts, "unknown", 0))
             /\ buildStatusBreakdown(list, stats) = WithoutEmpty(chart)
<1> DEFINE chart == FourSlices(list, stats)
           others == stats.totalDevices - stats.onlineDevices
           counts == countBy(list)
           online == CountOr(counts, "online", stats.onlineDevices)
           offline == CountOr(counts, "offline", IF others > 0 THEN others ELSE 0)
           warning == CountOr(counts, "warning", 0)
           unknown == CountOr(counts, "unknown", 0)
<1>1. chart = <<Slice("online", online), Slice("offline", offline),
                Slice("warning", warning), Slice("unknown", unknown)>>
  BY DEF FourSlices
<1>2. buildStatusBreakdown(list, stats) = WithoutEmpty(chart)
  BY <1>1 DEF buildStatusBreakdown
<1> HIDE DEF chart, online, offline, warning, unknown
<1>3. /\ DOMAIN chart = {1, 2, 3, 4} /\ DOMAIN chart = 1..4
      /\ chart[1] = Slice("online", online) /\ chart[2] = Slice("offline", offline)
      /\ chart[3] = Slice("warning", warning) /\ chart[4] = Slice("unknown", unknown)
  BY <1>1
<1>4. chart \in Seq(Range(chart))
  <2>1. chart = [i \in 1..4 |-> chart[i]] /\ 4 \in Nat
    BY <1>1
  <2>2. QED
    BY <2>1, ListOfPlaces
<1>5. /\ chart[1].name = "online" /\ chart[2].name = "offline"
      /\ chart[3].name = "warning" /\ chart[4].name = "unknown"
  BY <1>3 DEF Slice
<1>6. OneNameEach(chart)
  BY <1>3, <1>5 DEF OneNameEach
<1>7. \A name \in StatusNames : \E k \in DOMAIN chart : chart[k].name = name
  BY <1>3, <1>5 DEF StatusNames
<1>8. QED
  BY <1>2, <1>3, <1>4, <1>6, <1>7 DEF chart, online, offline, warning, unknown

LEMMA SliceHas == ASSUME NEW name, NEW value
                  PROVE  Slice(name, value).name = name /\ Slice(name, value).value = value
  BY DEF Slice

\* The fleet chart shows each status that a device of the list has as often as
\* the list has it.
LEMMA FleetShowsPresent ==
  ASSUME NEW list \in Seq(StatusNames), NEW stats, NEW status \in Range(list)
  PROVE  ValueOf(buildStatusBreakdown(list, stats), status) = Occurrences(list, status)
<1> DEFINE chart == FourSlices(list, stats)
           left == WithoutEmpty(chart)
           others == stats.totalDevices - stats.onlineDevices
<1>1. /\ chart \in Seq(Range(chart)) /\ OneNameEach(chart)
      /\ DOMAIN chart = {1, 2, 3, 4}
      /\ \A name \in StatusNames : \E k \in DOMAIN chart : chart[k].name = name
      /\ chart[1] = Slice("online", CountOr(countBy(list), "online", stats.onlineDevices))
      /\ chart[2] = Slice("offline", CountOr(countBy(list), "offline", IF others > 0 THEN others ELSE 0))
      /\ chart[3] = Slice("warning", CountOr(countBy(list), "warning", 0))
      /\ chart[4] = Slice("unknown", CountOr(countBy(list), "unknown", 0))
      /\ buildStatusBreakdown(list, stats) = left
  BY FourSlicesNamed
<1> HIDE DEF chart, others
<1>2. status \in StatusNames
  BY DEF Range
<1>3. PICK k \in DOMAIN chart : chart[k].name = status
  BY <1>1, <1>2
<1>4. \A otherwise : CountOr(countBy(list), status, otherwise) = Occurrences(list, status)
  BY CountOrCounts
<1>5. chart[k].value = Occurrences(list, status)
  BY <1>1, <1>3, <1>4, SliceHas
<1>6. chart[k].value > 0
  BY <1>5, OccurrencesPositive
<1>7. left \in Seq(Range(chart)) /\ OneNameEach(left) /\ chart[k] \in Range(left)
  BY <1>1, <1>3, <1>6, WithoutEmptyKeeps
<1> HIDE DEF left
<1>8. PICK j \in DOMAIN left : left[j] = chart[k]
  BY <1>7 DEF Range
<1>9. ValueOf(left, left[j].name) = left[j].value
  BY <1>7, ValueOfSlice
<1>10. QED
  BY <1>1, <1>3, <1>5, <1>8, <1>9

\* With the overview of the list itself it counts every device once, if one is
\* offline or all are online.
LEMMA FleetCounts ==
  ASSUME NEW list \in Seq(StatusNames), NEW stats,
         stats.totalDevices = Len(list), stats.onlineDevices = Occurrences(list, "online"),
         "offline" \in Range(list) \/ Range(list) \subseteq {"online"}
  PROVE  Counts(buildStatusBreakdown(list, stats), list)
<1> DEFINE chart == FourSlices(list, stats)
           others == stats.totalDevices - stats.onlineDevices
<1>1. /\ chart \in Seq(Range(chart)) /\ OneNameEach(chart)
      /\ DOMAIN chart = {1, 2, 3, 4}
      /\ \A name \in StatusNames : \E k \in DOMAIN chart : chart[k].name = name
      /\ chart[1] = Slice("online", CountOr(countBy(list), "online", stats.onlineDevices))
      /\ chart[2] = Slice("offline", CountOr(countBy(list), "offline", IF others > 0 THEN others ELSE 0))
      /\ chart[3] = Slice("warning", CountOr(countBy(list), "warning", 0))
      /\ chart[4] = Slice("unknown", CountOr(countBy(list), "unknown", 0))
      /\ buildStatusBreakdown(list, stats) = WithoutEmpty(chart)
  BY FourSlicesNamed
<1> HIDE DEF chart
<1>2. CountOr(countBy(list), "online", stats.onlineDevices) = Occurrences(list, "online")
  BY CountOrCounts
<1>3. CountOr(countBy(list), "offline", IF others > 0 THEN others ELSE 0) = Occurrences(list, "offline")
  <2>1. CASE "offline" \in Range(list)
    BY <2>1, CountOrCounts
  <2>2. CASE Range(list) \subseteq {"online"}
    <3>1. \A i \in DOMAIN list : list[i] = "online"
      BY <2>2 DEF Range
    <3>2. {i \in DOMAIN list : list[i] = "online"} = 1..Len(list)
      BY <3>1
    <3>3. Len(list) \in Nat /\ Cardinality(1..Len(list)) = Len(list)
      <4>1. Len(list) \in Nat
        OBVIOUS
      <4>2. \A n \in Nat : Cardinality(1..n) = n
        BY FS_Interval
      <4>3. QED
        BY <4>1, <4>2
    <3>4. Occurrences(list, "online") = Len(list)
      BY <3>2, <3>3 DEF Occurrences
    <3>5. others = 0
      BY <3>3, <3>4
    <3>6. (IF others > 0 THEN others ELSE 0) = 0
      BY <3>5
    <3>7. QED
      BY <3>6, CountOrCounts
  <2>3. QED
    BY <2>1, <2>2
<1>4. /\ CountOr(countBy(list), "warning", 0) = Occurrences(list, "warning")
      /\ CountOr(countBy(list), "unknown", 0) = Occurrences(list, "unknown")
  BY CountOrCounts
<1> HIDE DEF others
<1>5. \A k \in DOMAIN chart : chart[k].value = Occurrences(list, chart[k].name)
  BY <1>1, <1>2, <1>3, <1>4, SliceHas
<1>6. Range(list) \subseteq {chart[k].name : k \in DOMAIN chart}
  <2>1. Range(list) \subseteq StatusNames
    BY DEF Range
  <2>2. QED
    BY <1>1, <2>1
<1>7. Counts(WithoutEmpty(chart), list)
  BY <1>1, <1>5, <1>6, ExactWithoutEmpty
<1>8. QED
  BY <1>1, <1>7

LEMMA FleetExact ==
  ASSUME Listed \in Seq(StatusNames)
  PROVE  FleetChartExact
<1> DEFINE stats == buildDashboardStats(overview.data, Listed)
<1>1. \A status \in Range(Listed) : ValueOf(FleetChart, status) = Occurrences(Listed, status)
  BY FleetShowsPresent DEF FleetChart
<1>2. ASSUME overview.data \in {NoData, Overview(Listed)},
             "offline" \in Range(Listed) \/ Range(Listed) \subseteq {"online"}
      PROVE  Counts(FleetChart, Listed)
  <2>1. stats = [totalDevices |-> Overview(Listed).total, onlineDevices |-> Overview(Listed).online]
    BY <1>2 DEF buildDashboardStats
  <2>2. stats.totalDevices = Len(Listed) /\ stats.onlineDevices = Occurrences(Listed, "online")
    BY <2>1 DEF Overview, Occurrences
  <2> HIDE DEF stats
  <2>3. Counts(buildStatusBreakdown(Listed, stats), Listed)
    BY <1>2, <2>2, FleetCounts
  <2>4. QED
    BY <2>3 DEF FleetChart, stats
<1>3. QED
  BY <1>1, <1>2 DEF FleetChartExact

-----------------------------------------------------------------------------
(* The cache *)

LEMMA EntryKept ==
  ASSUME NEW Data, NEW q \in Entry(Data)
  PROVE  /\ Empty \in Entry(Data) /\ Ask(q) \in Entry(Data)
         /\ Arrive(q) \in Entry(Data) /\ GiveUp(q) \in Entry(Data)
         /\ \A d \in Data : Answer(q, d) \in Entry(Data)
         /\ \A aged \in BOOLEAN : Mount(q, aged) \in Entry(Data)
<1>1. Idle \in Fetch(Data) /\ Asked \in Fetch(Data)
  BY DEF Idle, Asked, Fetch
<1>2. /\ q.data \in Data \cup {NoData} /\ q.fetch \in Fetch(Data)
      /\ q.failed \in BOOLEAN /\ q.invalid \in BOOLEAN
  BY DEF Entry
<1>3. q.fetch.data \in Data \cup {NoData}
  BY <1>2 DEF Fetch
<1>4. Empty \in Entry(Data)
  BY <1>1 DEF Empty, Entry
<1>5. Ask(q) \in Entry(Data)
  BY <1>1 DEF Ask, Entry
<1>6. Arrive(q) \in Entry(Data)
  BY <1>1, <1>3 DEF Arrive, Entry
<1>7. GiveUp(q) \in Entry(Data)
  BY <1>1 DEF GiveUp, Entry
<1>8. ASSUME NEW d \in Data PROVE Answer(q, d) \in Entry(Data)
  <2>1. Answered(d) \in Fetch(Data)
    BY DEF Answered, Fetch
  <2>2. QED
    BY <2>1 DEF Answer, Entry
<1>9. ASSUME NEW aged \in BOOLEAN PROVE Mount(q, aged) \in Entry(Data)
  BY <1>5 DEF Mount
<1>10. QED
  BY <1>4, <1>5, <1>6, <1>7, <1>8, <1>9

LEMMA EntryGrows ==
  ASSUME NEW Data, NEW More, Data \subseteq More, NEW q \in Entry(Data)
  PROVE  q \in Entry(More)
  BY DEF Entry, Fetch

-----------------------------------------------------------------------------
(* The dashboard and the queue pages *)

FleetInv == fleet \in Seq(StatusNames) /\ inventory \in Entry(Seq(StatusNames))
QueueInv == queue \in Seq(Records)

LEMMA RemoveAtTyped ==
  ASSUME NEW T, NEW list \in Seq(T), NEW i \in DOMAIN list
  PROVE  RemoveAt(list, i) \in Seq(T)
  BY DEF RemoveAt

LEMMA FleetFirst == DashboardInit => FleetInv /\ QueueInv
<1> SUFFICES ASSUME DashboardInit PROVE FleetInv /\ QueueInv
  OBVIOUS
<1>1. queue \in Seq(Records)
  BY DEF DashboardInit
<1>2. PICK n \in 0..MaxItems : fleet \in [1..n -> Statuses]
  BY DEF DashboardInit
<1>3. n \in Nat /\ Statuses \subseteq StatusNames
  BY DashboardChartsAssumption DEF StatusNames
<1>4. fleet \in [1..n -> StatusNames]
  BY <1>2, <1>3
<1>5. fleet \in Seq(StatusNames)
  BY <1>3, <1>4
<1>6. inventory \in Entry(Seq(StatusNames))
  <2>1. inventory = Ask(Empty)
    BY DEF DashboardInit
  <2>2. Empty \in Entry(Seq(StatusNames))
    BY DEF Empty, Entry, Idle, Fetch
  <2>3. QED
    BY <2>1, <2>2, EntryKept
<1>7. QED
  BY <1>1, <1>5, <1>6 DEF FleetInv, QueueInv

LEMMA FleetKept == FleetInv /\ DashboardNext => FleetInv'
<1> SUFFICES ASSUME FleetInv, DashboardNext PROVE FleetInv'
  OBVIOUS
<1>1. fleet \in Seq(StatusNames) /\ inventory \in Entry(Seq(StatusNames))
  BY DEF FleetInv
<1>2. /\ Ask(inventory) \in Entry(Seq(StatusNames)) /\ Arrive(inventory) \in Entry(Seq(StatusNames))
      /\ GiveUp(inventory) \in Entry(Seq(StatusNames))
      /\ Answer(inventory, fleet) \in Entry(Seq(StatusNames))
  BY <1>1, EntryKept
<1>3. CASE FleetChanges
  <2>1. inventory' = inventory
    BY <1>3 DEF FleetChanges
  <2>2. CASE \E i \in DOMAIN fleet, status \in Statuses : fleet' = [fleet EXCEPT ![i] = status]
    <3>1. PICK i \in DOMAIN fleet, status \in Statuses : fleet' = [fleet EXCEPT ![i] = status]
      BY <2>2
    <3>2. status \in StatusNames
      BY DashboardChartsAssumption DEF StatusNames
    <3>3. QED
      BY <1>1, <2>1, <3>1, <3>2 DEF FleetInv
  <2>3. CASE fleet' = Append(fleet, "unknown")
    <3>1. "unknown" \in StatusNames
      BY DEF StatusNames
    <3>2. QED
      BY <1>1, <2>1, <2>3, <3>1 DEF FleetInv
  <2>4. CASE \E i \in DOMAIN fleet : fleet' = RemoveAt(fleet, i)
    BY <1>1, <2>1, <2>4, RemoveAtTyped DEF FleetInv
  <2>5. QED
    BY <1>3, <2>2, <2>3, <2>4 DEF FleetChanges
<1>4. CASE FetchOverview
  BY <1>1, <1>4 DEF FetchOverview, FleetInv
<1>5. CASE FetchDevices
  <2>1. /\ fleet' = fleet
        /\ \/ inventory' = Ask(inventory) \/ inventory' = Answer(inventory, fleet)
           \/ inventory' = GiveUp(inventory) \/ inventory' = Arrive(inventory)
    BY <1>5 DEF FetchDevices
  <2>2. QED
    BY <1>1, <1>2, <2>1 DEF FleetInv
<1>6. CASE FetchFails
  BY <1>1, <1>2, <1>6 DEF FetchFails, FleetInv
<1>7. QED
  BY <1>3, <1>4, <1>5, <1>6 DEF DashboardNext

LEMMA QueueKept == QueueInv /\ QueueNext => QueueInv'
  BY DEF QueueInv, QueueNext

LEMMA FleetListed == FleetInv => Listed \in Seq(StatusNames)
  BY DEF FleetInv, Listed, Entry

\* What the pages that are not on screen read is left alone.
LEMMA OtherPages ==
  ASSUME [ViewsNext]_<<metricsVars, fleetVars, queue, route>>
  PROVE  /\ DashboardNext \/ UNCHANGED fleetVars
         /\ QueueNext \/ UNCHANGED queue
         /\ MetricsNext \/ UNCHANGED metricsVars
<1>1. CASE UNCHANGED <<metricsVars, fleetVars, queue, route>>
  BY <1>1
<1>2. CASE ViewsNext
  <2>1. CASE MetricsNext /\ UNCHANGED <<fleetVars, queue>>
    BY <2>1
  <2>2. CASE DashboardNext /\ UNCHANGED metricsVars
    <3>1. UNCHANGED queue
      BY <2>2 DEF DashboardNext, FleetChanges, FetchOverview, FetchDevices, FetchFails
    <3>2. QED
      BY <2>2, <3>1
  <2>3. CASE QueueNext /\ UNCHANGED metricsVars
    <3>1. UNCHANGED fleetVars
      BY <2>3 DEF QueueNext
    <3>2. QED
      BY <2>3, <3>1
  <2>4. QED
    BY <1>2, <2>1, <2>2, <2>3 DEF ViewsNext
<1>3. QED
  BY <1>1, <1>2

\* The charts of the queue pages (lib/charts.ts): a record of the list is counted
\* once in each of them, under its priority, day, group, metric, stage and age,
\* and the charts by group and by metric have the largest counts first.
THEOREM ChartsCountRecords == ViewsSpec => []ChartsCountEveryRecord
<1>1. ViewsInit => QueueInv
  BY FleetFirst DEF ViewsInit
<1>2. QueueInv /\ [ViewsNext]_<<metricsVars, fleetVars, queue, route>> => QueueInv'
  <2> SUFFICES ASSUME QueueInv, [ViewsNext]_<<metricsVars, fleetVars, queue, route>> PROVE QueueInv'
    OBVIOUS
  <2>1. QueueNext \/ UNCHANGED queue
    BY OtherPages
  <2>2. QED
    BY <2>1, QueueKept DEF QueueInv
<1>3. QueueInv => ChartsCountEveryRecord
  BY ChartsCount DEF QueueInv
<1>4. QED
  BY <1>1, <1>2, <1>3, PTL DEF ViewsSpec

\* The fleet chart of the dashboard (lib/dashboard.ts) shows as many devices of a
\* status as the list has, however old the overview beside it is; with no overview
\* or one of the same devices it shows every device once, if one is offline or
\* all are online.
THEOREM FleetIsExact == ViewsSpec => []FleetChartExact
<1>1. ViewsInit => FleetInv
  BY FleetFirst DEF ViewsInit
<1>2. FleetInv /\ [ViewsNext]_<<metricsVars, fleetVars, queue, route>> => FleetInv'
  <2> SUFFICES ASSUME FleetInv, [ViewsNext]_<<metricsVars, fleetVars, queue, route>> PROVE FleetInv'
    OBVIOUS
  <2>1. DashboardNext \/ UNCHANGED fleetVars
    BY OtherPages
  <2>2. QED
    BY <2>1, FleetKept DEF FleetInv, fleetVars
<1>3. FleetInv => FleetChartExact
  BY FleetListed, FleetExact
<1>4. QED
  BY <1>1, <1>2, <1>3, PTL DEF ViewsSpec

-----------------------------------------------------------------------------
(* The cards *)

LEMMA DictionarySteps ==
  ASSUME NEW T, NEW data \in Seq(T)
  PROVE  \E dictionary \in [0..Len(data) -> Objects({row.type : row \in T}, T)] :
           /\ dictionary[0] = NoKeys
           /\ \A i \in 1..Len(data) : dictionary[i] = Put(dictionary[i - 1], data[i].type, data[i])
           /\ normalizeMetricDictionary(data) = dictionary[Len(data)]
<1> DEFINE n == Len(data)
           O == Objects({row.type : row \in T}, T)
           Value(g, i) == IF i = 0 THEN NoKeys ELSE Put(g[i - 1], data[i].type, data[i])
           g == CHOOSE g : g = [i \in 0..n |-> Value(g, i)]
           step == [i \in 1..n |-> [c \in O |-> Put(c, data[i].type, data[i])]]
<1>1. n \in Nat /\ \A i \in 1..n : data[i] \in T /\ data[i].type \in {row.type : row \in T}
  OBVIOUS
<1>2. NoKeys \in O
  BY NoKeysTyped
<1>3. \A c \in O : \A i \in 1..n : Put(c, data[i].type, data[i]) \in O
  <2> HIDE DEF n
  <2>1. QED
    BY <1>1, PutTyped
<1> HIDE DEF n, O
<1>4. step \in [1..n -> [O -> O]]
  BY <1>3
<1>5. PICK f : IsReduce(f, n, O, NoKeys, step)
  <2> HIDE DEF step
  <2>1. QED
    BY <1>1, <1>2, <1>4, Reduced
<1>6. \A i \in 0..n : f[i] = Value(f, i)
  <2>1. /\ f \in [0..n -> O] /\ f[0] = NoKeys
        /\ \A i \in 1..n : f[i] = step[i][f[i - 1]]
    <3> HIDE DEF step
    <3>1. QED
      BY <1>5 DEF IsReduce
  <2>2. ASSUME NEW i \in 1..n PROVE f[i] = Value(f, i)
    <3>1. i - 1 \in 0..n /\ i # 0
      BY <1>1
    <3>2. f[i - 1] \in O
      BY <2>1, <3>1
    <3>3. step[i][f[i - 1]] = Put(f[i - 1], data[i].type, data[i])
      BY <3>2
    <3>4. QED
      <4> HIDE DEF step
      <4>1. QED
        BY <2>1, <3>1, <3>3
  <2>3. f[0] = Value(f, 0)
    BY <2>1
  <2>4. \A i \in 0..n : i = 0 \/ i \in 1..n
    BY <1>1
  <2>5. QED
    <3> HIDE DEF Value
    <3>1. QED
      BY <2>2, <2>3, <2>4
<1>7. f = [i \in 0..n |-> Value(f, i)]
  <2>1. f \in [0..n -> O]
    BY <1>5 DEF IsReduce
  <2> HIDE DEF Value
  <2>2. QED
    BY <1>6, <2>1
<1>8. g = [i \in 0..n |-> Value(g, i)]
  BY <1>7
<1>9. g[0] = NoKeys /\ \A i \in 1..n : g[i] = Put(g[i - 1], data[i].type, data[i])
  <2> HIDE DEF g
  <2>1. \A i \in 0..n : g[i] = Value(g, i)
    <3> HIDE DEF Value
    <3>1. QED
      BY <1>8
  <2>2. 0 \in 0..n /\ \A i \in 1..n : i \in 0..n /\ i # 0
    BY <1>1
  <2>3. QED
    BY <2>1, <2>2
<1>10. \A i \in 0..n : g[i] \in O
  <2> DEFINE Typed == {i \in 0..n : g[i] \in O}
  <2> HIDE DEF g
  <2>1. 0 \in Typed
    BY <1>1, <1>2, <1>9
  <2>2. ASSUME NEW i \in 1..n, i - 1 \in Typed PROVE i \in Typed
    <3>1. g[i - 1] \in O
      BY <2>2
    <3>2. g[i] \in O
      BY <1>3, <1>9, <3>1
    <3>3. i \in 0..n
      BY <1>1
    <3>4. QED
      BY <3>2, <3>3
  <2>3. 0..n \subseteq Typed
    <3> HIDE DEF Typed
    <3>1. QED
      BY <1>1, <2>1, <2>2, UpTo
  <2>4. QED
    BY <2>3
<1>11. g \in [0..n -> O]
  <2> HIDE DEF g, Value
  <2>1. QED
    BY <1>8, <1>10
<1>12. normalizeMetricDictionary(data) = g[n]
  BY DEF normalizeMetricDictionary, n
<1>13. QED
  <2> HIDE DEF g
  <2>1. QED
    BY <1>9, <1>11, <1>12 DEF n, O

\* What the dictionary holds of the rows up to a place.
HoldsRows(dictionary, data, i) ==
  /\ DOMAIN dictionary = {data[j].type : j \in 1..i}
  /\ \A type \in DOMAIN dictionary : \E j \in 1..i : data[j] = dictionary[type] /\ data[j].type = type

\* The dictionary has each type that a row has, with a row of that type.
LEMMA DictionaryOfRows ==
  ASSUME NEW T, NEW data \in Seq(T)
  PROVE  LET dictionary == normalizeMetricDictionary(data)
         IN  /\ DOMAIN dictionary = {row.type : row \in Range(data)}
             /\ \A type \in DOMAIN dictionary :
                  dictionary[type] \in Range(data) /\ dictionary[type].type = type
<1> DEFINE n == Len(data)
<1>1. n \in Nat /\ DOMAIN data = 1..n
  OBVIOUS
<1>2. PICK step : /\ step[0] = NoKeys
                  /\ \A i \in 1..n : step[i] = Put(step[i - 1], data[i].type, data[i])
                  /\ normalizeMetricDictionary(data) = step[n]
  BY DictionarySteps
<1> HIDE DEF n
<1> DEFINE Done == {i \in 0..n : HoldsRows(step[i], data, i)}
<1>3. 0 \in Done
  <2>1. DOMAIN step[0] = {}
    BY <1>2, NoKeysTyped
  <2>2. HoldsRows(step[0], data, 0)
    BY <2>1 DEF HoldsRows
  <2>3. QED
    BY <1>1, <2>2
<1>4. ASSUME NEW i \in 1..n, i - 1 \in Done PROVE i \in Done
  <2>1. i \in 0..n /\ 1..i = 1..(i - 1) \cup {i}
    BY <1>1
  <2> DEFINE before == step[i - 1]
             row == data[i]
  <2>2. step[i] = Put(before, row.type, row)
    BY <1>2
  <2>3. HoldsRows(before, data, i - 1)
    BY <1>4
  <2> HIDE DEF before
  <2>4. /\ DOMAIN step[i] = DOMAIN before \cup {row.type} /\ step[i][row.type] = row
        /\ \A other \in DOMAIN before \ {row.type} : step[i][other] = before[other]
    BY <2>2 DEF Put
  <2>5. DOMAIN step[i] = {data[j].type : j \in 1..i}
    <3>1. DOMAIN before = {data[j].type : j \in 1..(i - 1)}
      BY <2>3 DEF HoldsRows
    <3>2. QED
      BY <2>1, <2>4, <3>1
  <2>6. ASSUME NEW type \in DOMAIN step[i]
        PROVE  \E j \in 1..i : data[j] = step[i][type] /\ data[j].type = type
    <3>1. CASE type = row.type
      <4>1. i \in 1..i
        BY <2>1
      <4>2. QED
        BY <2>4, <3>1, <4>1
    <3>2. CASE type # row.type
      <4>1. type \in DOMAIN before /\ step[i][type] = before[type]
        BY <2>4, <3>2
      <4>2. PICK j \in 1..(i - 1) : data[j] = before[type] /\ data[j].type = type
        BY <2>3, <4>1 DEF HoldsRows
      <4>3. j \in 1..i
        BY <2>1
      <4>4. QED
        BY <4>1, <4>2, <4>3
    <3>3. QED
      BY <3>1, <3>2
  <2>7. HoldsRows(step[i], data, i)
    BY <2>5, <2>6 DEF HoldsRows
  <2>8. QED
    BY <2>1, <2>7
<1>5. 0..n \subseteq Done
  <2> HIDE DEF Done
  <2>1. QED
    BY <1>1, <1>3, <1>4, UpTo
<1>6. HoldsRows(normalizeMetricDictionary(data), data, n)
  <2>1. n \in Done
    <3> HIDE DEF Done
    <3>1. QED
      BY <1>1, <1>5
  <2>2. QED
    BY <1>2, <2>1
<1>7. QED
  BY <1>1, <1>6 DEF HoldsRows, Range

-----------------------------------------------------------------------------
(* The tables of metrics *)

AliasTypes == {"cpu_usage", "snmp_cpu", "ram_usage", "disk_usage", "temperature", "latency",
               "snmp_if_in_octets", "packet_loss", "toner_level", "drum_health", "paper_level"}

\* A list of definitions, of which no two report the same type.
Table(table) ==
  /\ table \in Seq(Range(table))
  /\ \A i \in DOMAIN table : table[i].aliases \in Seq(AliasTypes)
  /\ \A i, j \in DOMAIN table : \A type :
       Reports(table[i], type) /\ Reports(table[j], type) => i = j

LEMMA ReportsOfAliases ==
  ASSUME NEW definition
  PROVE  /\ definition.aliases = <<>> => \A type : ~Reports(definition, type)
         /\ \A a : definition.aliases = <<a>> => \A type : Reports(definition, type) <=> type = a
         /\ \A a, b : definition.aliases = <<a, b>> =>
              \A type : Reports(definition, type) <=> type \in {a, b}
<1>1. definition.aliases = <<>> => \A type : ~Reports(definition, type)
  BY DEF Reports, Contains
<1>2. ASSUME NEW a, definition.aliases = <<a>>, NEW type PROVE Reports(definition, type) <=> type = a
  <2>1. Len(definition.aliases) = 1 /\ definition.aliases[1] = a /\ 1..1 = {1}
    BY <1>2
  <2>2. QED
    BY <2>1 DEF Reports, Contains
<1>3. ASSUME NEW a, NEW b, definition.aliases = <<a, b>>, NEW type
      PROVE  Reports(definition, type) <=> type \in {a, b}
  <2>1. /\ Len(definition.aliases) = 2 /\ 1..2 = {1, 2}
        /\ definition.aliases[1] = a /\ definition.aliases[2] = b
    BY <1>3
  <2>2. QED
    BY <2>1 DEF Reports, Contains
<1>4. QED
  BY <1>1, <1>2, <1>3

LEMMA ShortAliases ==
  /\ <<>> \in Seq(AliasTypes) /\ <<"cpu_usage", "snmp_cpu">> \in Seq(AliasTypes)
  /\ \A a \in AliasTypes : <<a>> \in Seq(AliasTypes)
  /\ "ram_usage" \in AliasTypes /\ "disk_usage" \in AliasTypes /\ "temperature" \in AliasTypes
  /\ "latency" \in AliasTypes /\ "snmp_if_in_octets" \in AliasTypes
  /\ "packet_loss" \in AliasTypes /\ "cpu_usage" \in AliasTypes
  /\ "toner_level" \in AliasTypes /\ "drum_health" \in AliasTypes /\ "paper_level" \in AliasTypes
<1>1. <<>> \in Seq(AliasTypes) /\ \A a \in AliasTypes : <<a>> \in Seq(AliasTypes)
  OBVIOUS
<1>2. \A a, b \in AliasTypes : <<a, b>> \in Seq(AliasTypes)
  OBVIOUS
<1>3. "cpu_usage" \in AliasTypes /\ "snmp_cpu" \in AliasTypes
  BY DEF AliasTypes
<1>4. QED
  BY <1>1, <1>2, <1>3 DEF AliasTypes

LEMMA ComputeTable ==
  LET table == thresholdProfiles["compute"]
  IN  /\ table = [i \in 1..6 |-> table[i]]
      /\ table[1].aliases = <<"cpu_usage", "snmp_cpu">>
      /\ table[2].aliases = <<"ram_usage">>
      /\ table[3].aliases = <<"disk_usage">>
      /\ table[4].aliases = <<"temperature">>
      /\ table[5].aliases = <<"latency">>
      /\ table[6].aliases = <<"snmp_if_in_octets">>
  BY DEF thresholdProfiles, Definition

LEMMA ComputeIsTable == Table(thresholdProfiles["compute"])
<1> DEFINE table == thresholdProfiles["compute"]
<1>1. /\ table = [i \in 1..6 |-> table[i]]
      /\ table[1].aliases = <<"cpu_usage", "snmp_cpu">>
      /\ table[2].aliases = <<"ram_usage">>
      /\ table[3].aliases = <<"disk_usage">>
      /\ table[4].aliases = <<"temperature">>
      /\ table[5].aliases = <<"latency">>
      /\ table[6].aliases = <<"snmp_if_in_octets">>
  BY ComputeTable
<1> HIDE DEF table
<1>2. table \in Seq(Range(table)) /\ DOMAIN table = {1, 2, 3, 4, 5, 6}
  <2>1. 6 \in Nat /\ 1..6 = {1, 2, 3, 4, 5, 6}
    OBVIOUS
  <2>2. QED
    BY <1>1, <2>1, ListOfPlaces
<1>3. \A i \in DOMAIN table : table[i].aliases \in Seq(AliasTypes)
  BY <1>1, <1>2, ShortAliases
<1>4. \A type : /\ Reports(table[1], type) <=> type \in {"cpu_usage", "snmp_cpu"}
                /\ Reports(table[2], type) <=> type = "ram_usage"
                /\ Reports(table[3], type) <=> type = "disk_usage"
                /\ Reports(table[4], type) <=> type = "temperature"
                /\ Reports(table[5], type) <=> type = "latency"
                /\ Reports(table[6], type) <=> type = "snmp_if_in_octets"
  BY <1>1, ReportsOfAliases
<1>5. \A i, j \in DOMAIN table : \A type :
        Reports(table[i], type) /\ Reports(table[j], type) => i = j
  BY <1>2, <1>4
<1>6. QED
  BY <1>2, <1>3, <1>5 DEF Table, table

LEMMA RouterTable ==
  LET table == thresholdProfiles["router"]
  IN  /\ table = [i \in 1..3 |-> table[i]]
      /\ table[1].aliases = <<"snmp_if_in_octets">>
      /\ table[2].aliases = <<"packet_loss">>
      /\ table[3].aliases = <<"latency">>
  BY DEF thresholdProfiles, Definition

LEMMA RouterIsTable == Table(thresholdProfiles["router"])
<1> DEFINE table == thresholdProfiles["router"]
<1>1. /\ table = [i \in 1..3 |-> table[i]]
      /\ table[1].aliases = <<"snmp_if_in_octets">>
      /\ table[2].aliases = <<"packet_loss">>
      /\ table[3].aliases = <<"latency">>
  BY RouterTable
<1> HIDE DEF table
<1>2. table \in Seq(Range(table)) /\ DOMAIN table = {1, 2, 3}
  <2>1. 3 \in Nat /\ 1..3 = {1, 2, 3}
    OBVIOUS
  <2>2. QED
    BY <1>1, <2>1, ListOfPlaces
<1>3. \A i \in DOMAIN table : table[i].aliases \in Seq(AliasTypes)
  BY <1>1, <1>2, ShortAliases
<1>4. \A type : /\ Reports(table[1], type) <=> type = "snmp_if_in_octets"
                /\ Reports(table[2], type) <=> type = "packet_loss"
                /\ Reports(table[3], type) <=> type = "latency"
  BY <1>1, ReportsOfAliases
<1>5. \A i, j \in DOMAIN table : \A type :
        Reports(table[i], type) /\ Reports(table[j], type) => i = j
  BY <1>2, <1>4
<1>6. QED
  BY <1>2, <1>3, <1>5 DEF Table, table

LEMMA NetworkTable ==
  LET table == thresholdProfiles["network"]
  IN  /\ table = [i \in 1..6 |-> table[i]]
      /\ table[1].aliases = <<"cpu_usage">>
      /\ table[2].aliases = <<"ram_usage">>
      /\ table[3].aliases = <<>>
      /\ table[4].aliases = <<"temperature">>
      /\ table[5].aliases = <<"packet_loss">>
      /\ table[6].aliases = <<"latency">>
  BY DEF thresholdProfiles, Definition

LEMMA NetworkIsTable == Table(thresholdProfiles["network"])
<1> DEFINE table == thresholdProfiles["network"]
<1>1. /\ table = [i \in 1..6 |-> table[i]]
      /\ table[1].aliases = <<"cpu_usage">>
      /\ table[2].aliases = <<"ram_usage">>
      /\ table[3].aliases = <<>>
      /\ table[4].aliases = <<"temperature">>
      /\ table[5].aliases = <<"packet_loss">>
      /\ table[6].aliases = <<"latency">>
  BY NetworkTable
<1> HIDE DEF table
<1>2. table \in Seq(Range(table)) /\ DOMAIN table = {1, 2, 3, 4, 5, 6}
  <2>1. 6 \in Nat /\ 1..6 = {1, 2, 3, 4, 5, 6}
    OBVIOUS
  <2>2. QED
    BY <1>1, <2>1, ListOfPlaces
<1>3. \A i \in DOMAIN table : table[i].aliases \in Seq(AliasTypes)
  BY <1>1, <1>2, ShortAliases
<1>4. \A type : /\ Reports(table[1], type) <=> type = "cpu_usage"
                /\ Reports(table[2], type) <=> type = "ram_usage"
                /\ ~Reports(table[3], type)
                /\ Reports(table[4], type) <=> type = "temperature"
                /\ Reports(table[5], type) <=> type = "packet_loss"
                /\ Reports(table[6], type) <=> type = "latency"
  BY <1>1, ReportsOfAliases
<1>5. \A i, j \in DOMAIN table : \A type :
        Reports(table[i], type) /\ Reports(table[j], type) => i = j
  BY <1>2, <1>4
<1>6. QED
  BY <1>2, <1>3, <1>5 DEF Table, table

LEMMA PrinterTable ==
  LET table == thresholdProfiles["printer"]
  IN  /\ table = [i \in 1..5 |-> table[i]]
      /\ table[1].aliases = <<"toner_level">>
      /\ table[2].aliases = <<"drum_health">>
      /\ table[3].aliases = <<"paper_level">>
      /\ table[4].aliases = <<>>
      /\ table[5].aliases = <<"latency">>
  BY DEF thresholdProfiles, Definition

LEMMA PrinterIsTable == Table(thresholdProfiles["printer"])
<1> DEFINE table == thresholdProfiles["printer"]
<1>1. /\ table = [i \in 1..5 |-> table[i]]
      /\ table[1].aliases = <<"toner_level">>
      /\ table[2].aliases = <<"drum_health">>
      /\ table[3].aliases = <<"paper_level">>
      /\ table[4].aliases = <<>>
      /\ table[5].aliases = <<"latency">>
  BY PrinterTable
<1> HIDE DEF table
<1>2. table \in Seq(Range(table)) /\ DOMAIN table = {1, 2, 3, 4, 5}
  <2>1. 5 \in Nat /\ 1..5 = {1, 2, 3, 4, 5}
    OBVIOUS
  <2>2. QED
    BY <1>1, <2>1, ListOfPlaces
<1>3. \A i \in DOMAIN table : table[i].aliases \in Seq(AliasTypes)
  BY <1>1, <1>2, ShortAliases
<1>4. \A type : /\ Reports(table[1], type) <=> type = "toner_level"
                /\ Reports(table[2], type) <=> type = "drum_health"
                /\ Reports(table[3], type) <=> type = "paper_level"
                /\ ~Reports(table[4], type)
                /\ Reports(table[5], type) <=> type = "latency"
  BY <1>1, ReportsOfAliases
<1>5. \A i, j \in DOMAIN table : \A type :
        Reports(table[i], type) /\ Reports(table[j], type) => i = j
  BY <1>2, <1>4
<1>6. QED
  BY <1>2, <1>3, <1>5 DEF Table, table

LEMMA ProfileIsTable == \A type : Table(ProfileOf(type))
<1>1. \A type : getProfileKey(type) \in {"compute", "router", "network", "printer"}
  BY DEF getProfileKey
<1>2. QED
  BY <1>1, ComputeIsTable, RouterIsTable, NetworkIsTable, PrinterIsTable DEF ProfileOf

\* Of the metrics of a computer each has the tiers of the rule for its type.
LEMMA ComputeTiers ==
  LET table == thresholdProfiles["compute"]
  IN  /\ table[1].thresholds = metricRules["cpu_usage"]
      /\ table[2].thresholds = metricRules["ram_usage"]
      /\ table[3].thresholds = metricRules["disk_usage"]
      /\ table[4].thresholds = metricRules["temperature"]
      /\ table[5].thresholds = metricRules["latency"]
  BY DEF thresholdProfiles, Definition, metricRules

LEMMA TypesListed ==
  Types = {"cpu_usage", "ram_usage", "disk_usage", "temperature", "latency", "packet_loss",
           "network_errors", "toner_level", "port_status"}
  BY DEF Types, metricRules

LEMMA ComputeAgrees ==
  ASSUME NEW i \in DOMAIN thresholdProfiles["compute"], NEW type \in Types,
         Reports(thresholdProfiles["compute"][i], type)
  PROVE  thresholdProfiles["compute"][i].thresholds = RuleOf(type)
<1> DEFINE table == thresholdProfiles["compute"]
<1>1. /\ table = [j \in 1..6 |-> table[j]]
      /\ table[1].aliases = <<"cpu_usage", "snmp_cpu">>
      /\ table[2].aliases = <<"ram_usage">>
      /\ table[3].aliases = <<"disk_usage">>
      /\ table[4].aliases = <<"temperature">>
      /\ table[5].aliases = <<"latency">>
      /\ table[6].aliases = <<"snmp_if_in_octets">>
  BY ComputeTable
<1>2. /\ table[1].thresholds = metricRules["cpu_usage"]
      /\ table[2].thresholds = metricRules["ram_usage"]
      /\ table[3].thresholds = metricRules["disk_usage"]
      /\ table[4].thresholds = metricRules["temperature"]
      /\ table[5].thresholds = metricRules["latency"]
  BY ComputeTiers
<1>3. i \in DOMAIN table /\ Reports(table[i], type)
  OBVIOUS
<1> HIDE DEF table
<1>4. i \in {1, 2, 3, 4, 5, 6}
  <2>1. DOMAIN table = 1..6
    BY <1>1
  <2>2. QED
    BY <1>3, <2>1
<1>5. /\ Reports(table[1], type) <=> type \in {"cpu_usage", "snmp_cpu"}
      /\ Reports(table[2], type) <=> type = "ram_usage"
      /\ Reports(table[3], type) <=> type = "disk_usage"
      /\ Reports(table[4], type) <=> type = "temperature"
      /\ Reports(table[5], type) <=> type = "latency"
      /\ Reports(table[6], type) <=> type = "snmp_if_in_octets"
  BY <1>1, ReportsOfAliases
<1>6. type \notin {"toner_level", "port_status"} => RuleOf(type) = metricRules[type]
  BY DEF RuleOf
<1>7. type \notin {"snmp_cpu", "snmp_if_in_octets"}
  BY TypesListed
<1>8. table[i].thresholds = RuleOf(type)
  BY <1>2, <1>3, <1>4, <1>5, <1>6, <1>7
<1>9. QED
  BY <1>8 DEF table

LEMMA ReportsInAliases ==
  ASSUME NEW definition, definition.aliases \in Seq(AliasTypes), NEW type
  PROVE  Reports(definition, type) <=> type \in Range(definition.aliases)
<1>1. DOMAIN definition.aliases = 1..Len(definition.aliases)
  OBVIOUS
<1>2. QED
  BY <1>1 DEF Reports, Contains, Range

\* The tiers that the metrics page shows beside a reading of a computer
\* (thresholdProfiles of lib/metrics.ts) are those by which the server fires
\* (metricRules of service/alarm.go), for every type that has a rule.
THEOREM TiersAgree == ViewsSpec => []ThresholdsAgree
<1>1. ThresholdsAgree
  <2> SUFFICES ASSUME NEW d \in DeviceSet, getProfileKey(DeviceType[d]) = "compute",
                      NEW i \in DOMAIN ProfileOf(DeviceType[d]),
                      NEW type \in Types \cap Range(ProfileOf(DeviceType[d])[i].aliases)
               PROVE  ProfileOf(DeviceType[d])[i].thresholds = RuleOf(type)
    BY DEF ThresholdsAgree
  <2>1. ProfileOf(DeviceType[d]) = thresholdProfiles["compute"]
    BY DEF ProfileOf
  <2>2. ProfileOf(DeviceType[d])[i].aliases \in Seq(AliasTypes)
    BY ProfileIsTable DEF Table
  <2>3. Reports(ProfileOf(DeviceType[d])[i], type)
    BY <2>2, ReportsInAliases
  <2>4. QED
    BY <2>1, <2>3, ComputeAgrees
<1>2. QED
  BY <1>1, PTL

-----------------------------------------------------------------------------
(* The metrics page *)

\* A card shows a row with a type of its metric, if there is one.
LEMMA ResolvedRow ==
  ASSUME NEW T, NEW data \in Seq(T), NEW definition, definition.aliases \in Seq(AliasTypes)
  PROVE  LET shown == resolveMetric(definition, data)
         IN  \/ shown = NotReporting /\ \A row \in Range(data) : ~Reports(definition, row.type)
             \/ shown \in Range(data) /\ Reports(definition, shown.type)
<1> DEFINE dictionary == normalizeMetricDictionary(data)
           kinds == DOMAIN dictionary
           aliases == definition.aliases
           matches == Filter(aliases, kinds)
           shown == resolveMetric(definition, data)
<1>1. /\ kinds = {row.type : row \in Range(data)}
      /\ \A type \in kinds : dictionary[type] \in Range(data) /\ dictionary[type].type = type
  BY DictionaryOfRows
<1>2. shown = IF matches = <<>> THEN NotReporting ELSE dictionary[Head(matches)]
  BY DEF resolveMetric
<1>3. \A type : Reports(definition, type) <=> type \in Range(aliases)
  BY ReportsInAliases
<1> HIDE DEF dictionary, kinds, aliases, shown
<1>4. matches \in Seq(AliasTypes) /\ Range(matches) = Range(aliases) \cap kinds
  <2>1. aliases \in Seq(AliasTypes)
    BY DEF aliases
  <2>2. QED
    BY <2>1, FilterKeeps
<1> HIDE DEF matches
<1>5. CASE matches = <<>>
  <2>1. Range(matches) = {}
    BY <1>5 DEF Range
  <2>2. QED
    BY <1>1, <1>2, <1>3, <1>4, <1>5, <2>1 DEF shown
<1>6. CASE matches # <<>>
  <2>1. Head(matches) = matches[1] /\ 1 \in DOMAIN matches
    BY <1>4, <1>6
  <2>2. Head(matches) \in Range(matches)
    BY <2>1 DEF Range
  <2>3. Head(matches) \in kinds /\ Reports(definition, Head(matches))
    BY <1>3, <1>4, <2>2
  <2>4. QED
    BY <1>1, <1>2, <1>6, <2>3 DEF shown
<1>7. QED
  BY <1>5, <1>6

\* An answer is newer than what it replaces: of each row of it that is still
\* stored it has the type, and of that type no older row.
Newer(old, new) ==
  \A o \in Range(old) : o.value \notin gone =>
    /\ \E n \in Range(new) : n.type = o.type
    /\ \A n \in Range(new) : n.type = o.type => o.time <= n.time

ReadingsIn(Set) == {list \in Seq(Reading) : Range(list) \subseteq Set}

\* An entry of the newest readings, of a device that has had the rows of a set.
LatestOk(q, Set) ==
  /\ q \in Entry(ReadingsIn(Set))
  /\ q.fetch.at = "answered" =>
       q.fetch.data \in ReadingsIn(Set) /\ Newer(Loaded(q), q.fetch.data)

HistoryOk(entries, Set) ==
  /\ entries = [r \in DOMAIN Ranges |-> entries[r]]
  /\ \A r \in DOMAIN Ranges : entries[r] \in Entry(ReadingsIn(Set))

MetricsInv ==
  /\ readings \in Seq(Reading) /\ range \in DOMAIN Ranges /\ now \in Nat
  /\ latest = [d \in DeviceSet |-> latest[d]]
  /\ \A d \in DeviceSet : LatestOk(latest[d], Taken(d))
  /\ history = [d \in DeviceSet |-> history[d]]
  /\ \A d \in DeviceSet : HistoryOk(history[d], Taken(d))

LEMMA ReadingFields ==
  ASSUME NEW row \in Reading
  PROVE  row.time \in Nat /\ row.value \in Nat /\ row # NotReporting
<1>1. row.time \in Nat /\ row.value \in Nat /\ "time" \in DOMAIN row
  BY DEF Reading
<1>2. DOMAIN NotReporting = {"type"}
  BY DEF NotReporting
<1>3. "time" # "type"
  OBVIOUS
<1>4. QED
  BY <1>1, <1>2, <1>3

LEMMA RowsOfDevice ==
  ASSUME readings \in Seq(Reading), NEW d
  PROVE  IsFiniteSet(Taken(d)) /\ Taken(d) \subseteq Reading
<1>1. DOMAIN readings = 1..Len(readings) /\ Len(readings) \in Nat
      /\ \A i \in 1..Len(readings) : readings[i] \in Reading
  OBVIOUS
<1>2. IsFiniteSet(Range(readings))
  <2>1. IsFiniteSet(1..Len(readings))
    BY <1>1, FS_Interval
  <2>2. readings \in Surjection(1..Len(readings), Range(readings))
    BY <1>1 DEF Surjection, Range
  <2>3. QED
    BY <2>1, <2>2, FS_Surjection
<1>3. Range(readings) \subseteq Reading
  BY <1>1 DEF Range
<1>4. QED
  BY <1>2, <1>3, FS_Subset DEF Taken

\* The readings of a range, by time.
LEMMA FoundByDevice ==
  ASSUME readings \in Seq(Reading), NEW d, NEW from
  PROVE  FindByDevice(d, from) \in ReadingsIn(Taken(d))
<1> DEFINE data == {row \in Rows(d) : row.time >= from}
           rank == [row \in data |-> row.time]
           list == SortedBy(data, rank)
<1>1. IsFiniteSet(Taken(d)) /\ Taken(d) \subseteq Reading /\ Rows(d) \subseteq Taken(d)
  BY RowsOfDevice DEF Rows
<1>2. data \subseteq Taken(d) /\ IsFiniteSet(data) /\ data \subseteq Reading
  BY <1>1, FS_Subset
<1> HIDE DEF data
<1>3. rank \in [data -> Int]
  BY <1>2, ReadingFields
<1>4. list \in Seq(data) /\ Range(list) = data
  <2> HIDE DEF rank
  <2>1. QED
    BY <1>2, <1>3, SortedByRank
<1>5. list = FindByDevice(d, from)
  BY DEF FindByDevice, data
<1> HIDE DEF list
<1>6. list \in Seq(Reading)
  BY <1>2, <1>4
<1>7. QED
  BY <1>2, <1>4, <1>5, <1>6 DEF ReadingsIn

\* The newest readings: no row that the device has is newer.
LEMMA FoundLatest ==
  ASSUME readings \in Seq(Reading), NEW d
  PROVE  /\ FindLatestByDevice(d) \in ReadingsIn(Taken(d))
         /\ \A list \in ReadingsIn(Taken(d)) : Newer(list, FindLatestByDevice(d))
<1> DEFINE wanted == {row \in Rows(d) : \A other \in Rows(d) :
                        other.type = row.type => other.time <= row.time}
           found == FindLatestByDevice(d)
<1>1. /\ IsFiniteSet(Taken(d)) /\ Taken(d) \subseteq Reading
      /\ Rows(d) \subseteq Taken(d) /\ Rows(d) \subseteq Range(readings)
  BY RowsOfDevice DEF Rows, Taken
<1>2. found = Filter(readings, wanted) /\ wanted \subseteq Rows(d)
  BY DEF FindLatestByDevice
<1> HIDE DEF found
<1>3. found \in Seq(Reading) /\ Range(found) = wanted
  <2>1. found \in Seq(Reading) /\ Range(found) = Range(readings) \cap wanted
    <3> HIDE DEF wanted
    <3>1. QED
      BY <1>2, FilterKeeps
  <2>2. QED
    BY <1>1, <1>2, <2>1
<1>4. found \in ReadingsIn(Taken(d))
  BY <1>1, <1>2, <1>3 DEF ReadingsIn
<1>5. ASSUME NEW list \in ReadingsIn(Taken(d)) PROVE Newer(list, found)
  <2> SUFFICES ASSUME NEW o \in Range(list), o.value \notin gone
               PROVE  /\ \E n \in Range(found) : n.type = o.type
                      /\ \A n \in Range(found) : n.type = o.type => o.time <= n.time
    BY DEF Newer
  <2>1. o \in Rows(d)
    BY DEF ReadingsIn, Rows
  <2>2. \A n \in wanted : n.type = o.type => o.time <= n.time
    BY <2>1
  <2> DEFINE same == {row \in Rows(d) : row.type = o.type}
             rank == [row \in same |-> row.time]
  <2>3. IsFiniteSet(same) /\ same # {} /\ same \subseteq Reading
    BY <1>1, <2>1, FS_Subset
  <2>4. rank \in [same -> Int]
    BY <2>3, ReadingFields
  <2>5. \E top \in same : \A other \in same : rank[other] <= rank[top]
    <3> HIDE DEF same, rank
    <3>1. QED
      BY <2>3, <2>4, HighestRank
  <2>6. PICK top \in same : \A other \in same : other.time <= top.time
    BY <2>5
  <2>7. top \in wanted /\ top.type = o.type
    BY <2>6
  <2> HIDE DEF wanted
  <2>8. QED
    BY <1>3, <2>2, <2>7
<1>6. QED
  BY <1>4, <1>5 DEF found

LEMMA LoadedIn ==
  ASSUME NEW Set, NEW q \in Entry(ReadingsIn(Set))
  PROVE  Loaded(q) \in ReadingsIn(Set)
<1>1. <<>> \in ReadingsIn(Set)
  BY DEF ReadingsIn, Range
<1>2. q.data \in ReadingsIn(Set) \cup {NoData}
  BY DEF Entry
<1>3. QED
  BY <1>1, <1>2 DEF Loaded

LEMMA OkGrows ==
  ASSUME NEW Set, NEW More, Set \subseteq More
  PROVE  /\ \A q \in Entry(ReadingsIn(Set)) : q \in Entry(ReadingsIn(More))
         /\ \A q : LatestOk(q, Set) => LatestOk(q, More)
         /\ \A entries : HistoryOk(entries, Set) => HistoryOk(entries, More)
<1>1. ReadingsIn(Set) \subseteq ReadingsIn(More)
  BY DEF ReadingsIn
<1>2. \A q \in Entry(ReadingsIn(Set)) : q \in Entry(ReadingsIn(More))
  BY <1>1, EntryGrows
<1>3. QED
  BY <1>1, <1>2 DEF LatestOk, HistoryOk

\* A request of a page leaves the fetch alone, answers it or gives it up.
LEMMA RequestedCases ==
  ASSUME NEW q, NEW d, NEW data
  PROVE  Requested(q, d, data) \in {q, Answer(q, data), GiveUp(q)}
<1>1. CASE q.fetch # Asked
  BY <1>1 DEF Requested
<1>2. CASE q.fetch = Asked /\ Contains(listed, d)
  BY <1>2 DEF Requested
<1>3. CASE q.fetch = Asked /\ ~Contains(listed, d)
  BY <1>3 DEF Requested
<1>4. QED
  BY <1>1, <1>2, <1>3

LEMMA HistoryKept ==
  ASSUME readings \in Seq(Reading), NEW d, NEW r, NEW q \in Entry(ReadingsIn(Taken(d)))
  PROVE  /\ getDeviceMetricsHistory(d, r, q) \in Entry(ReadingsIn(Taken(d)))
         /\ getDeviceMetricsHistory(d, r, Ask(q)) \in Entry(ReadingsIn(Taken(d)))
         /\ \A aged \in BOOLEAN :
              getDeviceMetricsHistory(d, r, Mount(q, aged)) \in Entry(ReadingsIn(Taken(d)))
<1>1. ASSUME NEW e \in Entry(ReadingsIn(Taken(d)))
      PROVE  getDeviceMetricsHistory(d, r, e) \in Entry(ReadingsIn(Taken(d)))
  <2> DEFINE data == FindByDevice(d, RangeStart(r))
  <2>1. data \in ReadingsIn(Taken(d))
    BY FoundByDevice
  <2>2. Answer(e, data) \in Entry(ReadingsIn(Taken(d))) /\ GiveUp(e) \in Entry(ReadingsIn(Taken(d)))
    <3> HIDE DEF data
    <3>1. QED
      BY <2>1, EntryKept
  <2>3. Requested(e, d, data) \in {e, Answer(e, data), GiveUp(e)}
    BY RequestedCases
  <2>4. QED
    BY <2>2, <2>3 DEF getDeviceMetricsHistory
<1>2. Ask(q) \in Entry(ReadingsIn(Taken(d)))
      /\ \A aged \in BOOLEAN : Mount(q, aged) \in Entry(ReadingsIn(Taken(d)))
  BY EntryKept
<1>3. QED
  BY <1>1, <1>2

LEMMA FetchStates ==
  ASSUME NEW Data, NEW q \in Entry(Data)
  PROVE  /\ Ask(q).fetch.at # "answered" /\ Arrive(q).fetch.at # "answered"
         /\ GiveUp(q).fetch.at # "answered" /\ Arrive(q).data = q.fetch.data
         /\ GiveUp(q).data = q.data /\ Ask(q).data = q.data
         /\ \A d : /\ Answer(q, d).fetch.at = "answered" /\ Answer(q, d).fetch.data = d
                   /\ Answer(q, d).data = q.data
  BY DEF Entry, Fetch, Ask, Arrive, GiveUp, Answer, Asked, Idle, Answered

LEMMA LatestKept ==
  ASSUME readings \in Seq(Reading), NEW d, NEW q, LatestOk(q, Taken(d))
  PROVE  /\ LatestOk(Arrive(q), Taken(d)) /\ LatestOk(GiveUp(q), Taken(d))
         /\ LatestOk(getDeviceMetrics(d, Ask(q)), Taken(d))
         /\ \A aged \in BOOLEAN : LatestOk(getDeviceMetrics(d, Mount(q, aged)), Taken(d))
<1> DEFINE Data == ReadingsIn(Taken(d))
           data == FindLatestByDevice(d)
<1>1. q \in Entry(Data)
  BY DEF LatestOk
<1>2. data \in Data /\ \A list \in Data : Newer(list, data)
  BY FoundLatest
<1>3. ASSUME NEW e, LatestOk(e, Taken(d))
      PROVE  LatestOk(Ask(e), Taken(d)) /\ LatestOk(Arrive(e), Taken(d)) /\ LatestOk(GiveUp(e), Taken(d))
  <2>1. e \in Entry(Data)
    BY <1>3 DEF LatestOk
  <2>2. Ask(e) \in Entry(Data) /\ Arrive(e) \in Entry(Data) /\ GiveUp(e) \in Entry(Data)
    BY <2>1, EntryKept
  <2>3. /\ Ask(e).fetch.at # "answered" /\ Arrive(e).fetch.at # "answered"
        /\ GiveUp(e).fetch.at # "answered"
    BY <2>1, FetchStates
  <2>4. QED
    BY <2>2, <2>3 DEF LatestOk
<1>4. ASSUME NEW e, LatestOk(e, Taken(d)) PROVE LatestOk(getDeviceMetrics(d, e), Taken(d))
  <2>1. e \in Entry(Data)
    BY <1>4 DEF LatestOk
  <2> HIDE DEF data
  <2>2. Answer(e, data) \in Entry(Data)
    BY <1>2, <2>1, EntryKept
  <2>3. Answer(e, data).fetch.data = data /\ Answer(e, data).data = e.data
    BY <2>1, FetchStates
  <2>4. Loaded(Answer(e, data)) = Loaded(e) /\ Loaded(e) \in Data
    BY <2>1, <2>3, LoadedIn DEF Loaded
  <2>5. LatestOk(Answer(e, data), Taken(d))
    BY <1>2, <2>2, <2>3, <2>4 DEF LatestOk
  <2>6. Requested(e, d, data) \in {e, Answer(e, data), GiveUp(e)}
    BY RequestedCases
  <2>7. QED
    BY <1>3, <1>4, <2>5, <2>6 DEF getDeviceMetrics, data
<1>5. \A aged \in BOOLEAN : Mount(q, aged) \in {q, Ask(q)}
  BY DEF Mount
<1>6. QED
  BY <1>3, <1>4, <1>5

\* The entries after a step, with the rows before it.
LatestStepOk == /\ latest' = [d \in DeviceSet |-> latest'[d]]
                /\ \A d \in DeviceSet : LatestOk(latest'[d], Taken(d))
HistoryStepOk == /\ history' = [d \in DeviceSet |-> history'[d]]
                 /\ \A d \in DeviceSet : HistoryOk(history'[d], Taken(d))

LEMMA OneLatest ==
  ASSUME MetricsInv, NEW e, NEW q, latest' = [latest EXCEPT ![e] = q],
         e \in DeviceSet => LatestOk(q, Taken(e))
  PROVE  LatestStepOk
<1>1. latest = [d \in DeviceSet |-> latest[d]] /\ \A d \in DeviceSet : LatestOk(latest[d], Taken(d))
  BY DEF MetricsInv
<1>2. /\ DOMAIN latest' = DeviceSet /\ latest' = [d \in DeviceSet |-> latest'[d]]
      /\ \A d \in DeviceSet : latest'[d] = IF d = e THEN q ELSE latest[d]
  BY <1>1
<1>3. QED
  BY <1>1, <1>2 DEF LatestStepOk

LEMMA OneHistory ==
  ASSUME MetricsInv, NEW e, NEW r, NEW q, history' = [history EXCEPT ![e][r] = q],
         e \in DeviceSet /\ r \in DOMAIN Ranges => q \in Entry(ReadingsIn(Taken(e)))
  PROVE  HistoryStepOk
<1>1. /\ history = [d \in DeviceSet |-> history[d]]
      /\ \A d \in DeviceSet : HistoryOk(history[d], Taken(d))
  BY DEF MetricsInv
<1>2. /\ DOMAIN history' = DeviceSet /\ history' = [d \in DeviceSet |-> history'[d]]
      /\ \A d \in DeviceSet : history'[d] = IF d = e THEN [history[d] EXCEPT ![r] = q] ELSE history[d]
  BY <1>1
<1>3. ASSUME e \in DeviceSet PROVE HistoryOk([history[e] EXCEPT ![r] = q], Taken(e))
  <2> DEFINE entries == history[e]
             after == [entries EXCEPT ![r] = q]
  <2>1. /\ entries = [i \in DOMAIN Ranges |-> entries[i]]
        /\ \A i \in DOMAIN Ranges : entries[i] \in Entry(ReadingsIn(Taken(e)))
    BY <1>1, <1>3 DEF HistoryOk
  <2> HIDE DEF entries
  <2>2. /\ after = [i \in DOMAIN Ranges |-> after[i]]
        /\ \A i \in DOMAIN Ranges : after[i] = IF i = r THEN q ELSE entries[i]
    BY <2>1
  <2>3. \A i \in DOMAIN Ranges : after[i] \in Entry(ReadingsIn(Taken(e)))
    BY <1>3, <2>1, <2>2
  <2> HIDE DEF after
  <2>4. HistoryOk(after, Taken(e))
    BY <2>2, <2>3 DEF HistoryOk
  <2>5. QED
    BY <2>4 DEF after, entries
<1>4. QED
  BY <1>1, <1>2, <1>3 DEF HistoryStepOk

LEMMA SameCaches ==
  ASSUME MetricsInv
  PROVE  /\ UNCHANGED latest => LatestStepOk
         /\ UNCHANGED history => HistoryStepOk
  BY DEF MetricsInv, LatestStepOk, HistoryStepOk

LEMMA Mounted ==
  ASSUME MetricsInv, NEW d, NEW r, NEW aged \in BOOLEAN, MountDevice(d, r, aged)
  PROVE  LatestStepOk /\ HistoryStepOk
<1>0. readings \in Seq(Reading)
  BY DEF MetricsInv
<1>1. LatestStepOk
  <2>1. latest' = [latest EXCEPT ![d] = getDeviceMetrics(d, Mount(latest[d], aged))]
    BY DEF MountDevice
  <2>2. d \in DeviceSet => LatestOk(getDeviceMetrics(d, Mount(latest[d], aged)), Taken(d))
    <3> SUFFICES ASSUME d \in DeviceSet
                 PROVE  LatestOk(getDeviceMetrics(d, Mount(latest[d], aged)), Taken(d))
      OBVIOUS
    <3>1. LatestOk(latest[d], Taken(d))
      BY DEF MetricsInv
    <3>2. QED
      BY <1>0, <3>1, LatestKept
  <2>3. QED
    BY <2>1, <2>2, OneLatest
<1>2. HistoryStepOk
  <2>1. history' = [history EXCEPT ![d][r] = getDeviceMetricsHistory(d, r, Mount(history[d][r], aged))]
    BY DEF MountDevice
  <2>2. d \in DeviceSet /\ r \in DOMAIN Ranges =>
          getDeviceMetricsHistory(d, r, Mount(history[d][r], aged)) \in Entry(ReadingsIn(Taken(d)))
    <3> SUFFICES ASSUME d \in DeviceSet, r \in DOMAIN Ranges
                 PROVE  getDeviceMetricsHistory(d, r, Mount(history[d][r], aged)) \in Entry(ReadingsIn(Taken(d)))
      OBVIOUS
    <3>1. history[d][r] \in Entry(ReadingsIn(Taken(d)))
      BY DEF MetricsInv, HistoryOk
    <3>2. QED
      BY <1>0, <3>1, HistoryKept
  <2>3. QED
    BY <2>1, <2>2, OneHistory
<1>3. QED
  BY <1>1, <1>2

\* A step that keeps the table of readings, and what the pages hold of them.
LEMMA ReadingsStay ==
  ASSUME MetricsInv, LatestStepOk, HistoryStepOk, UNCHANGED <<readings, gone>>,
         range' \in DOMAIN Ranges, now' \in Nat
  PROVE  MetricsInv'
<1>1. \A d \in DeviceSet : Taken(d)' = Taken(d)
  BY DEF Taken
<1>2. \A d \in DeviceSet : LatestOk(latest'[d], Taken(d)')
  BY <1>1 DEF LatestStepOk
<1>3. \A d \in DeviceSet : HistoryOk(history'[d], Taken(d)')
  BY <1>1 DEF HistoryStepOk
<1>4. \A d \in DeviceSet : LatestOk(latest[d], Taken(d))'
  BY <1>2 DEF LatestOk, Loaded, Newer
<1>5. \A d \in DeviceSet : HistoryOk(history[d], Taken(d))'
  BY <1>3 DEF HistoryOk
<1>6. QED
  BY <1>4, <1>5 DEF MetricsInv, LatestStepOk, HistoryStepOk

LEMMA MetricsFirst == MetricsInit => MetricsInv
<1> SUFFICES ASSUME MetricsInit PROVE MetricsInv
  OBVIOUS
<1>1. readings \in Seq(Reading) /\ range \in DOMAIN Ranges /\ now \in Nat
  BY MetricsPageAssumption DEF MetricsInit
<1>2. latest = [d \in DeviceSet |-> Empty]
      /\ history = [d \in DeviceSet |-> [r \in DOMAIN Ranges |-> Empty]]
  BY DEF MetricsInit
<1>3. \A Data : Empty \in Entry(Data)
  BY DEF Empty, Entry, Idle, Fetch
<1>4. Empty.fetch.at # "answered"
  BY DEF Empty, Idle
<1> DEFINE none == Empty
<1> HIDE DEF none
<1>5. \A d \in DeviceSet : LatestOk(latest[d], Taken(d))
  BY <1>2, <1>3, <1>4 DEF LatestOk
<1>6. \A d \in DeviceSet : HistoryOk(history[d], Taken(d))
  BY <1>2, <1>3 DEF HistoryOk
<1>7. QED
  BY <1>1, <1>2, <1>5, <1>6 DEF MetricsInv

LEMMA MetricsKept == MetricsInv /\ MetricsNext => MetricsInv'
<1> SUFFICES ASSUME MetricsInv, MetricsNext PROVE MetricsInv'
  OBVIOUS
<1>0. /\ readings \in Seq(Reading) /\ range \in DOMAIN Ranges /\ now \in Nat
      /\ UNCHANGED latest => LatestStepOk
      /\ UNCHANGED history => HistoryStepOk
  BY SameCaches DEF MetricsInv
<1>1. CASE Tick
  <2>1. /\ UNCHANGED <<readings, gone, latest, history, range>> /\ now' = now + 1
    BY <1>1 DEF Tick, pageVars
  <2>2. QED
    BY <1>0, <2>1, ReadingsStay
<1>2. CASE \E d \in DeviceSet, time \in Stamps : \E type \in ReportedTypes[d] : Ingest(d, type, time)
  <2>0. PICK d \in DeviceSet, time \in Stamps :
          \E type \in ReportedTypes[d] : Ingest(d, type, time)
    BY <1>2
  <2>1. PICK type \in ReportedTypes[d] : Ingest(d, type, time)
    BY <2>0
  <2> DEFINE row == [device |-> d, type |-> type, time |-> time, value |-> Len(readings) + 1]
  <2>2. /\ UNCHANGED <<now, gone, latest, history, range>> /\ readings' = Append(readings, row)
    BY <2>1 DEF Ingest, pageVars
  <2>3. row \in Reading
    <3>1. time \in Nat
      BY <1>0, MetricsPageAssumption DEF Stamps
    <3>2. Len(readings) + 1 \in Nat
      BY <1>0
    <3>3. type \in UNION {ReportedTypes[x] : x \in DeviceSet}
      OBVIOUS
    <3>4. QED
      BY <3>1, <3>2, <3>3 DEF Reading
  <2> HIDE DEF row
  <2>4. readings' \in Seq(Reading) /\ Range(readings') = Range(readings) \cup {row}
    BY <1>0, <2>2, <2>3, AppendRange
  <2>5. \A x \in DeviceSet : Taken(x) \subseteq Taken(x)'
    BY <2>4 DEF Taken
  <2>6. \A x \in DeviceSet : LatestOk(latest[x], Taken(x)') /\ HistoryOk(history[x], Taken(x)')
    BY <2>5, OkGrows DEF MetricsInv
  <2>7. \A x \in DeviceSet : LatestOk(latest[x], Taken(x))' /\ HistoryOk(history[x], Taken(x))'
    BY <2>2, <2>6 DEF LatestOk, Loaded, Newer, HistoryOk
  <2>8. latest' = [x \in DeviceSet |-> latest'[x]] /\ history' = [x \in DeviceSet |-> history'[x]]
    BY <2>2 DEF MetricsInv
  <2>9. QED
    BY <1>0, <2>2, <2>4, <2>7, <2>8 DEF MetricsInv
<1>3. CASE \E d \in DeviceSet : DeleteDevice(d)
  <2>1. UNCHANGED <<now, readings, gone, latest, history, range>>
    BY <1>3 DEF DeleteDevice, pageVars
  <2>2. QED
    BY <1>0, <2>1, ReadingsStay
<1>4. CASE \E d \in DeviceSet, aged \in BOOLEAN : SelectDevice(d, aged)
  <2>1. PICK d \in DeviceSet, aged \in BOOLEAN : SelectDevice(d, aged)
    BY <1>4
  <2>2. UNCHANGED <<now, readings, gone, range>> /\ MountDevice(d, range, aged)
    BY <2>1 DEF SelectDevice, serverVars
  <2>3. QED
    BY <1>0, <2>2, Mounted, ReadingsStay
<1>5. CASE \E r \in DOMAIN Ranges, aged \in BOOLEAN : SelectRange(r, aged)
  <2>1. PICK r \in DOMAIN Ranges, aged \in BOOLEAN : SelectRange(r, aged)
    BY <1>5
  <2>2. UNCHANGED <<now, readings, gone, latest>> /\ range' = r
    BY <2>1 DEF SelectRange, serverVars
  <2>3. HistoryStepOk
    <3> DEFINE q == getDeviceMetricsHistory(selected, r, Mount(history[selected][r], aged))
    <3>1. history' = history \/ history' = [history EXCEPT ![selected][r] = q]
      BY <2>1 DEF SelectRange
    <3>2. selected \in DeviceSet /\ r \in DOMAIN Ranges => q \in Entry(ReadingsIn(Taken(selected)))
      <4> SUFFICES ASSUME selected \in DeviceSet PROVE q \in Entry(ReadingsIn(Taken(selected)))
        OBVIOUS
      <4>1. history[selected][r] \in Entry(ReadingsIn(Taken(selected)))
        BY DEF MetricsInv, HistoryOk
      <4>2. QED
        BY <1>0, <4>1, HistoryKept
    <3> HIDE DEF q
    <3>3. CASE history' = history
      BY <1>0, <3>3
    <3>4. CASE history' = [history EXCEPT ![selected][r] = q]
      BY <3>2, <3>4, OneHistory
    <3>5. QED
      BY <3>1, <3>3, <3>4
  <2>4. QED
    BY <1>0, <2>2, <2>3, ReadingsStay
<1>6. CASE \E d \in DeviceSet : SelectMetric(d)
  <2>1. UNCHANGED <<now, readings, gone, latest, history, range>>
    BY <1>6 DEF SelectMetric, serverVars
  <2>2. QED
    BY <1>0, <2>1, ReadingsStay
<1>7. CASE PollDevices
  <2>1. UNCHANGED <<now, readings, gone, latest, history, range>>
    BY <1>7 DEF PollDevices, serverVars, pageVars
  <2>2. QED
    BY <1>0, <2>1, ReadingsStay
<1>8. CASE \E aged \in BOOLEAN : DevicesArrive(aged)
  <2>1. PICK aged \in BOOLEAN : DevicesArrive(aged)
    BY <1>8
  <2>2. /\ UNCHANGED <<now, readings, gone, range>>
        /\ UNCHANGED <<latest, history>> \/ \E d : MountDevice(d, range, aged)
    BY <2>1 DEF DevicesArrive, serverVars
  <2>3. LatestStepOk /\ HistoryStepOk
    BY <1>0, <2>2, Mounted
  <2>4. QED
    BY <1>0, <2>2, <2>3, ReadingsStay
<1>9. CASE \E d \in DeviceSet : PollLatest(d) \/ LatestArrives(d)
  <2>1. PICK d \in DeviceSet : PollLatest(d) \/ LatestArrives(d)
    BY <1>9
  <2>2. /\ UNCHANGED <<now, readings, gone, history, range>>
        /\ \/ latest' = [latest EXCEPT ![d] = getDeviceMetrics(d, Ask(latest[d]))]
           \/ latest' = [latest EXCEPT ![d] = Arrive(latest[d])]
    BY <2>1 DEF PollLatest, LatestArrives, serverVars, pageVars
  <2>3. LatestOk(latest[d], Taken(d))
    BY DEF MetricsInv
  <2>4. LatestOk(getDeviceMetrics(d, Ask(latest[d])), Taken(d)) /\ LatestOk(Arrive(latest[d]), Taken(d))
    BY <1>0, <2>3, LatestKept
  <2>5. LatestStepOk
    BY <2>2, <2>4, OneLatest
  <2>6. QED
    BY <1>0, <2>2, <2>5, ReadingsStay
<1>10. CASE \E d \in DeviceSet : PollHistory(d)
  <2>1. PICK d \in DeviceSet : PollHistory(d)
    BY <1>10
  <2>2. /\ UNCHANGED <<now, readings, gone, latest, range>>
        /\ history' = [history EXCEPT ![d][range] = getDeviceMetricsHistory(d, range, Ask(history[d][range]))]
    BY <2>1 DEF PollHistory, serverVars, pageVars
  <2>3. history[d][range] \in Entry(ReadingsIn(Taken(d)))
    BY <1>0 DEF MetricsInv, HistoryOk
  <2>4. getDeviceMetricsHistory(d, range, Ask(history[d][range])) \in Entry(ReadingsIn(Taken(d)))
    BY <1>0, <2>3, HistoryKept
  <2>5. HistoryStepOk
    BY <2>2, <2>4, OneHistory
  <2>6. QED
    BY <1>0, <2>2, <2>5, ReadingsStay
<1>11. CASE \E d \in DeviceSet, r \in DOMAIN Ranges : HistoryArrives(d, r)
  <2>1. PICK d \in DeviceSet, r \in DOMAIN Ranges : HistoryArrives(d, r)
    BY <1>11
  <2>2. /\ UNCHANGED <<now, readings, gone, latest, range>>
        /\ history' = [history EXCEPT ![d][r] = Arrive(history[d][r])]
    BY <2>1 DEF HistoryArrives, serverVars, pageVars
  <2>3. history[d][r] \in Entry(ReadingsIn(Taken(d)))
    BY DEF MetricsInv, HistoryOk
  <2>4. Arrive(history[d][r]) \in Entry(ReadingsIn(Taken(d)))
    BY <2>3, EntryKept
  <2>5. HistoryStepOk
    BY <2>2, <2>4, OneHistory
  <2>6. QED
    BY <1>0, <2>2, <2>5, ReadingsStay
<1>12. CASE FetchLost
  <2>1. UNCHANGED <<now, readings, gone, range>>
    BY <1>12 DEF FetchLost, serverVars, pageVars
  <2>2. CASE UNCHANGED <<latest, history>>
    BY <1>0, <2>1, <2>2, ReadingsStay
  <2>3. CASE \E d \in DeviceSet : latest' = [latest EXCEPT ![d] = GiveUp(latest[d])] /\ UNCHANGED history
    <3>1. PICK d \in DeviceSet : latest' = [latest EXCEPT ![d] = GiveUp(latest[d])] /\ UNCHANGED history
      BY <2>3
    <3>2. LatestOk(latest[d], Taken(d))
      BY DEF MetricsInv
    <3>3. LatestOk(GiveUp(latest[d]), Taken(d))
      BY <1>0, <3>2, LatestKept
    <3>4. LatestStepOk
      BY <3>1, <3>3, OneLatest
    <3>5. QED
      BY <1>0, <2>1, <3>1, <3>4, ReadingsStay
  <2>4. CASE \E d \in DeviceSet, r \in DOMAIN Ranges :
               history' = [history EXCEPT ![d][r] = GiveUp(history[d][r])] /\ UNCHANGED latest
    <3>1. PICK d \in DeviceSet, r \in DOMAIN Ranges :
               history' = [history EXCEPT ![d][r] = GiveUp(history[d][r])] /\ UNCHANGED latest
      BY <2>4
    <3>2. history[d][r] \in Entry(ReadingsIn(Taken(d)))
      BY DEF MetricsInv, HistoryOk
    <3>3. GiveUp(history[d][r]) \in Entry(ReadingsIn(Taken(d)))
      BY <3>2, EntryKept
    <3>4. HistoryStepOk
      BY <3>1, <3>3, OneHistory
    <3>5. QED
      BY <1>0, <2>1, <3>1, <3>4, ReadingsStay
  <2>5. QED
    BY <1>12, <2>2, <2>3, <2>4, Zenon DEF FetchLost
<1>13. CASE now > Retention /\ DeleteBefore(now - Retention)
  <2>1. UNCHANGED <<now, readings, latest, history, range>> /\ gone \subseteq gone'
    BY <1>13 DEF DeleteBefore, pageVars
  <2>2. \A d \in DeviceSet : Taken(d)' = Taken(d)
    BY <2>1 DEF Taken
  <2>3. \A d \in DeviceSet : LatestOk(latest[d], Taken(d))
    BY DEF MetricsInv
  <2>4. \A d \in DeviceSet : LatestOk(latest[d], Taken(d))'
    BY <2>1, <2>2, <2>3 DEF LatestOk, Loaded, Newer
  <2>5. \A d \in DeviceSet : HistoryOk(history[d], Taken(d))'
    BY <2>1, <2>2 DEF MetricsInv, HistoryOk
  <2>6. QED
    BY <1>0, <2>1, <2>4, <2>5 DEF MetricsInv
<1>14. QED
  BY <1>1, <1>2, <1>3, <1>4, <1>5, <1>6, <1>7, <1>8, <1>9, <1>10, <1>11, <1>12, <1>13, Zenon
     DEF MetricsNext, ServerStep, OperatorStep

LEMMA MetricsInvStep ==
  MetricsInv /\ [ViewsNext]_<<metricsVars, fleetVars, queue, route>> => MetricsInv'
<1> SUFFICES ASSUME MetricsInv, [ViewsNext]_<<metricsVars, fleetVars, queue, route>>
             PROVE  MetricsInv'
  OBVIOUS
<1>1. CASE MetricsNext
  BY <1>1, MetricsKept
<1>2. CASE UNCHANGED metricsVars
  <2>1. /\ UNCHANGED <<now, readings, gone, latest, history, range>>
        /\ now \in Nat /\ range \in DOMAIN Ranges
    BY <1>2 DEF metricsVars, serverVars, pageVars, MetricsInv
  <2>2. QED
    BY <2>1, SameCaches, ReadingsStay
<1>3. QED
  BY <1>1, <1>2, OtherPages

\* What an entry shows afterwards: the same, or the answer it had.
ShowsAnswer(before, after) ==
  \/ after.data = before.data
  \/ before.fetch.at = "answered" /\ after.data = before.fetch.data

LEMMA RequestShows ==
  ASSUME NEW Data, NEW q \in Entry(Data), NEW d
  PROVE  /\ getDeviceMetrics(d, Ask(q)).data = q.data /\ GiveUp(q).data = q.data
         /\ \A aged \in BOOLEAN : getDeviceMetrics(d, Mount(q, aged)).data = q.data
<1>1. ASSUME NEW e \in Entry(Data) PROVE getDeviceMetrics(d, e).data = e.data
  <2> DEFINE data == FindLatestByDevice(d)
  <2>1. Requested(e, d, data) \in {e, Answer(e, data), GiveUp(e)}
    BY RequestedCases
  <2>2. Answer(e, data).data = e.data /\ GiveUp(e).data = e.data
    BY FetchStates
  <2>3. QED
    BY <2>1, <2>2 DEF getDeviceMetrics
<1>2. Ask(q) \in Entry(Data) /\ \A aged \in BOOLEAN : Mount(q, aged) \in Entry(Data)
  BY EntryKept
<1>3. Ask(q).data = q.data /\ GiveUp(q).data = q.data
  BY FetchStates
<1>4. \A aged \in BOOLEAN : Mount(q, aged).data = q.data
  BY <1>3 DEF Mount
<1>5. QED
  BY <1>1, <1>2, <1>3, <1>4

LEMMA OneShows ==
  ASSUME MetricsInv, NEW e, NEW q, latest' = [latest EXCEPT ![e] = q],
         e \in DeviceSet => ShowsAnswer(latest[e], q)
  PROVE  \A d \in DeviceSet : ShowsAnswer(latest[d], latest'[d])
<1>1. latest = [d \in DeviceSet |-> latest[d]]
  BY DEF MetricsInv
<1>2. \A d \in DeviceSet : latest'[d] = IF d = e THEN q ELSE latest[d]
  BY <1>1
<1>3. \A d \in DeviceSet : ShowsAnswer(latest[d], latest[d])
  BY DEF ShowsAnswer
<1>4. QED
  BY <1>2, <1>3

LEMMA MountedShows ==
  ASSUME MetricsInv, NEW e, NEW r, NEW aged \in BOOLEAN, MountDevice(e, r, aged)
  PROVE  \A d \in DeviceSet : ShowsAnswer(latest[d], latest'[d])
<1>1. latest' = [latest EXCEPT ![e] = getDeviceMetrics(e, Mount(latest[e], aged))]
  BY DEF MountDevice
<1>2. ASSUME e \in DeviceSet PROVE ShowsAnswer(latest[e], getDeviceMetrics(e, Mount(latest[e], aged)))
  <2>1. latest[e] \in Entry(ReadingsIn(Taken(e)))
    BY <1>2 DEF MetricsInv, LatestOk
  <2>2. QED
    BY <2>1, RequestShows DEF ShowsAnswer
<1>3. QED
  BY <1>1, <1>2, OneShows

LEMMA StepShows ==
  ASSUME MetricsInv, MetricsNext
  PROVE  \A d \in DeviceSet : ShowsAnswer(latest[d], latest'[d])
<1>0. UNCHANGED latest => \A d \in DeviceSet : ShowsAnswer(latest[d], latest'[d])
  BY DEF ShowsAnswer
<1>1. ASSUME NEW d \in DeviceSet PROVE latest[d] \in Entry(ReadingsIn(Taken(d)))
  BY DEF MetricsInv, LatestOk
<1>2. CASE ServerStep
  <2>1. UNCHANGED latest
    BY <1>2 DEF ServerStep, Tick, Ingest, DeleteDevice, DeleteBefore
  <2>2. QED
    BY <1>0, <2>1
<1>3. CASE \E d \in DeviceSet, aged \in BOOLEAN : SelectDevice(d, aged)
  <2>1. PICK d \in DeviceSet, aged \in BOOLEAN : SelectDevice(d, aged)
    BY <1>3
  <2>2. MountDevice(d, range, aged)
    BY <2>1 DEF SelectDevice
  <2>3. QED
    BY <2>2, MountedShows
<1>4. CASE \E r \in DOMAIN Ranges, aged \in BOOLEAN : SelectRange(r, aged)
  <2>1. UNCHANGED latest
    BY <1>4 DEF SelectRange
  <2>2. QED
    BY <1>0, <2>1
<1>5. CASE \E d \in DeviceSet : SelectMetric(d)
  <2>1. UNCHANGED latest
    BY <1>5 DEF SelectMetric
  <2>2. QED
    BY <1>0, <2>1
<1>6. CASE PollDevices
  <2>1. UNCHANGED latest
    BY <1>6 DEF PollDevices
  <2>2. QED
    BY <1>0, <2>1
<1>7. CASE \E aged \in BOOLEAN : DevicesArrive(aged)
  <2>1. PICK aged \in BOOLEAN : DevicesArrive(aged)
    BY <1>7
  <2>2. UNCHANGED <<latest, history>> \/ \E d : MountDevice(d, range, aged)
    BY <2>1 DEF DevicesArrive
  <2>3. CASE UNCHANGED <<latest, history>>
    BY <1>0, <2>3
  <2>4. CASE \E d : MountDevice(d, range, aged)
    BY <2>4, MountedShows
  <2>5. QED
    BY <2>2, <2>3, <2>4
<1>8. CASE \E d \in DeviceSet : PollLatest(d) \/ LatestArrives(d)
  <2>1. PICK d \in DeviceSet : PollLatest(d) \/ LatestArrives(d)
    BY <1>8
  <2>2. CASE PollLatest(d)
    <3>1. latest' = [latest EXCEPT ![d] = getDeviceMetrics(d, Ask(latest[d]))]
      BY <2>2 DEF PollLatest
    <3>2. ShowsAnswer(latest[d], getDeviceMetrics(d, Ask(latest[d])))
      BY <1>1, RequestShows DEF ShowsAnswer
    <3>3. QED
      BY <3>1, <3>2, OneShows
  <2>3. CASE LatestArrives(d)
    <3>1. latest' = [latest EXCEPT ![d] = Arrive(latest[d])] /\ latest[d].fetch.at = "answered"
      BY <2>3 DEF LatestArrives
    <3>2. ShowsAnswer(latest[d], Arrive(latest[d]))
      BY <1>1, <3>1, FetchStates DEF ShowsAnswer
    <3>3. QED
      BY <3>1, <3>2, OneShows
  <2>4. QED
    BY <2>1, <2>2, <2>3
<1>9. CASE \E d \in DeviceSet : PollHistory(d)
  <2>1. UNCHANGED latest
    BY <1>9 DEF PollHistory
  <2>2. QED
    BY <1>0, <2>1
<1>10. CASE \E d \in DeviceSet, r \in DOMAIN Ranges : HistoryArrives(d, r)
  <2>1. UNCHANGED latest
    BY <1>10 DEF HistoryArrives
  <2>2. QED
    BY <1>0, <2>1
<1>11. CASE FetchLost
  <2>1. CASE UNCHANGED latest
    BY <1>0, <2>1
  <2>2. CASE \E d \in DeviceSet : latest' = [latest EXCEPT ![d] = GiveUp(latest[d])]
    <3>1. PICK d \in DeviceSet : latest' = [latest EXCEPT ![d] = GiveUp(latest[d])]
      BY <2>2
    <3>2. ShowsAnswer(latest[d], GiveUp(latest[d]))
      BY <1>1, RequestShows DEF ShowsAnswer
    <3>3. QED
      BY <3>1, <3>2, OneShows
  <2>3. QED
    BY <1>11, <2>1, <2>2 DEF FetchLost
<1>12. QED
  BY <1>2, <1>3, <1>4, <1>5, <1>6, <1>7, <1>8, <1>9, <1>10, <1>11, Zenon
     DEF MetricsNext, OperatorStep

\* A step changes the table or what a page shows of it, not both.
LEMMA TableOrPage == MetricsNext => UNCHANGED gone \/ UNCHANGED latest
<1> SUFFICES ASSUME MetricsNext PROVE UNCHANGED gone \/ UNCHANGED latest
  OBVIOUS
<1>1. CASE ServerStep
  BY <1>1 DEF ServerStep, Tick, Ingest, DeleteDevice, DeleteBefore
<1>2. CASE OperatorStep
  BY <1>2 DEF OperatorStep, SelectDevice, SelectRange, SelectMetric, serverVars
<1>3. CASE PollDevices \/ \E aged \in BOOLEAN : DevicesArrive(aged)
  BY <1>3 DEF PollDevices, DevicesArrive, serverVars
<1>4. CASE \E d \in DeviceSet : PollLatest(d) \/ LatestArrives(d) \/ PollHistory(d)
  BY <1>4 DEF PollLatest, LatestArrives, PollHistory, serverVars
<1>5. CASE \E d \in DeviceSet, r \in DOMAIN Ranges : HistoryArrives(d, r)
  BY <1>5 DEF HistoryArrives, serverVars
<1>6. CASE FetchLost
  BY <1>6 DEF FetchLost, serverVars
<1>7. QED
  BY <1>1, <1>2, <1>3, <1>4, <1>5, <1>6, Zenon DEF MetricsNext

LEMMA ProfileOfTable ==
  ASSUME NEW type
  PROVE  LET table == ProfileOf(type)
         IN  /\ table \in Seq(Range(table))
             /\ \A i \in DOMAIN table : table[i].aliases \in Seq(AliasTypes)
             /\ \A i, j \in DOMAIN table : \A t :
                  Reports(table[i], t) /\ Reports(table[j], t) => i = j
  BY ProfileIsTable DEF Table

\* Cards of rows that are newer.
LEMMA CardsNewer ==
  ASSUME NEW old \in Seq(Reading), NEW new \in Seq(Reading), Newer(old, new),
         NEW definition, definition.aliases \in Seq(AliasTypes),
         resolveMetric(definition, old) # NotReporting,
         resolveMetric(definition, old).value \notin gone
  PROVE  LET before == resolveMetric(definition, old)
             after == resolveMetric(definition, new)
         IN  after # NotReporting /\ (after.type = before.type => after.time >= before.time)
<1> DEFINE before == resolveMetric(definition, old)
           after == resolveMetric(definition, new)
<1>1. /\ before \in Range(old) /\ Reports(definition, before.type)
      /\ before.value \notin gone
  BY ResolvedRow
<1>2. \/ after = NotReporting /\ \A row \in Range(new) : ~Reports(definition, row.type)
      \/ after \in Range(new) /\ Reports(definition, after.type)
  BY ResolvedRow
<1> HIDE DEF before, after
<1>3. /\ \E n \in Range(new) : n.type = before.type
      /\ \A n \in Range(new) : n.type = before.type => before.time <= n.time
  BY <1>1 DEF Newer
<1>4. after \in Range(new)
  BY <1>1, <1>2, <1>3
<1>5. Range(old) \subseteq Reading /\ Range(new) \subseteq Reading
  BY DEF Range
<1>6. after # NotReporting /\ after.time \in Nat /\ before.time \in Nat
  BY <1>1, <1>4, <1>5, ReadingFields
<1>7. QED
  BY <1>3, <1>4, <1>6 DEF before, after

LEMMA CardFields ==
  ASSUME NEW table, NEW data, NEW i \in DOMAIN table
  PROVE  /\ DOMAIN buildMetricCards(table, data) = DOMAIN table
         /\ buildMetricCards(table, data)[i].shown = resolveMetric(table[i], data)
  BY DEF buildMetricCards

\* The cards of the metrics page (resolveMetric of lib/metrics.ts) follow the
\* readings: when an answer of GetLatest arrives, a metric whose reading the
\* archiver has not deleted still has one, and of the same type none that was read
\* earlier, whatever the order in which batches were stored and deleted and
\* however long answers took.
THEOREM CardsOnlyNewer == ViewsSpec => CardNeverOlder
<1>1. ViewsInit => MetricsInv
  BY MetricsFirst DEF ViewsInit
<1>2. MetricsInv /\ [ViewsNext]_<<metricsVars, fleetVars, queue, route>> => MetricsInv'
  BY MetricsInvStep
<1>3. ASSUME MetricsInv, [ViewsNext]_<<metricsVars, fleetVars, queue, route>>
      PROVE  [\A d \in DeviceSet : latest'[d].data # latest[d].data =>
                LET old == CardsOf(d)
                    new == CardsOf(d)'
                IN  \A i \in DOMAIN old :
                      old[i].shown # NotReporting /\ old[i].shown.value \notin gone' =>
                        /\ new[i].shown # NotReporting
                        /\ new[i].shown.type = old[i].shown.type =>
                             new[i].shown.time >= old[i].shown.time]_metricsVars
  <2> SUFFICES ASSUME MetricsNext, NEW d \in DeviceSet, latest'[d].data # latest[d].data,
                      NEW i \in DOMAIN CardsOf(d), CardsOf(d)[i].shown # NotReporting,
                      CardsOf(d)[i].shown.value \notin gone'
               PROVE  /\ CardsOf(d)'[i].shown # NotReporting
                      /\ CardsOf(d)'[i].shown.type = CardsOf(d)[i].shown.type =>
                           CardsOf(d)'[i].shown.time >= CardsOf(d)[i].shown.time
    BY <1>3, OtherPages
  <2> DEFINE table == ProfileOf(DeviceType[d])
             old == Loaded(latest[d])
             new == latest[d].fetch.data
  <2>1. latest[d].fetch.at = "answered" /\ latest'[d].data = new
    BY <1>3, StepShows DEF ShowsAnswer
  <2>2. LatestOk(latest[d], Taken(d))
    BY <1>3 DEF MetricsInv
  <2>3. new \in ReadingsIn(Taken(d)) /\ Newer(old, new) /\ old \in ReadingsIn(Taken(d))
    BY <2>1, <2>2, LoadedIn DEF LatestOk
  <2>4. new \in Seq(Reading) /\ old \in Seq(Reading)
    BY <2>3 DEF ReadingsIn
  <2>5. Loaded(latest'[d]) = new
    <3>1. new # NoData
      BY <2>4, NoReadingsAssumption
    <3> HIDE DEF new
    <3>2. QED
      BY <2>1, <3>1 DEF Loaded
  <2>6. /\ CardsOf(d) = buildMetricCards(table, old)
        /\ CardsOf(d)' = buildMetricCards(table, new)
    BY <2>5 DEF CardsOf, Loaded
  <2> HIDE DEF old, new
  <2>7. i \in DOMAIN table
    BY <2>6 DEF buildMetricCards
  <2>8. table[i].aliases \in Seq(AliasTypes)
    BY <2>7, ProfileOfTable
  <2> HIDE DEF table
  <2>9. /\ CardsOf(d)[i].shown = resolveMetric(table[i], old)
        /\ CardsOf(d)'[i].shown = resolveMetric(table[i], new)
    BY <2>6, <2>7, CardFields
  <2>10. gone' = gone
    BY TableOrPage
  <2>11. QED
    BY <2>3, <2>4, <2>8, <2>9, <2>10, CardsNewer
<1>4. QED
  BY <1>1, <1>2, <1>3, PTL DEF ViewsSpec, CardNeverOlder

-----------------------------------------------------------------------------
(* The curve *)

\* Of a table one metric has a type, or none.
LEMMA MetricOfType ==
  ASSUME NEW table, Table(table), NEW type
  PROVE  LET metrics == Filter(table, {definition \in Range(table) : Reports(definition, type)})
         IN  \/ metrics = <<>> /\ \A i \in DOMAIN table : ~Reports(table[i], type)
             \/ /\ metrics # <<>>
                /\ \E i \in DOMAIN table : Head(metrics) = table[i] /\ Reports(table[i], type)
<1> DEFINE wanted == {definition \in Range(table) : Reports(definition, type)}
           metrics == Filter(table, wanted)
<1>1. metrics \in Seq(Range(table)) /\ Range(metrics) = Range(table) \cap wanted
  <2>1. table \in Seq(Range(table))
    BY DEF Table
  <2> HIDE DEF wanted
  <2>2. QED
    BY <2>1, FilterKeeps
<1>2. \A i \in DOMAIN table : Reports(table[i], type) => table[i] \in wanted
  BY DEF Range
<1> HIDE DEF metrics
<1>3. CASE metrics = <<>>
  <2>1. Range(metrics) = {}
    BY <1>3 DEF Range
  <2>2. \A i \in DOMAIN table : table[i] \in Range(table)
    BY DEF Range
  <2>3. \A i \in DOMAIN table : ~Reports(table[i], type)
    <3> HIDE DEF wanted
    <3>1. QED
      BY <1>1, <1>2, <2>1, <2>2
  <2>4. QED
    BY <1>3, <2>3 DEF metrics
<1>4. CASE metrics # <<>>
  <2>1. Head(metrics) = metrics[1] /\ 1 \in DOMAIN metrics
    BY <1>1, <1>4
  <2>2. Head(metrics) \in Range(metrics)
    BY <2>1 DEF Range
  <2>3. Head(metrics) \in wanted
    BY <1>1, <2>2
  <2>4. \E i \in DOMAIN table : Head(metrics) = table[i] /\ Reports(table[i], type)
    BY <2>3 DEF Range
  <2>5. QED
    BY <1>4, <2>4 DEF metrics
<1>5. QED
  BY <1>3, <1>4

KeysOf(table) == {table[i].key : i \in DOMAIN table}
Points(table) == Objects(Nat, Objects(KeysOf(table), Nat))

\* A row adds nothing, or its value at its time under the key of its metric.
LEMMA RowAdded ==
  ASSUME NEW table, Table(table), NEW points, NEW row
  PROVE  \/ /\ addArrayHistory(points, table, row) = points
            /\ \A i \in DOMAIN table : ~Reports(table[i], row.type)
         \/ \E i \in DOMAIN table :
              /\ Reports(table[i], row.type)
              /\ addArrayHistory(points, table, row) = appendHistoryPoint(points, table[i].key, row)
<1> DEFINE metrics == Filter(table, {definition \in Range(table) : Reports(definition, row.type)})
<1>1. \/ metrics = <<>> /\ \A i \in DOMAIN table : ~Reports(table[i], row.type)
      \/ /\ metrics # <<>>
         /\ \E i \in DOMAIN table : Head(metrics) = table[i] /\ Reports(table[i], row.type)
  BY MetricOfType
<1>2. addArrayHistory(points, table, row) =
        IF metrics = <<>> THEN points ELSE appendHistoryPoint(points, Head(metrics).key, row)
  BY DEF addArrayHistory
<1> HIDE DEF metrics
<1>3. QED
  BY <1>1, <1>2

LEMMA PointOf ==
  ASSUME NEW Names, NEW points \in Objects(Nat, Objects(Names, Nat)), NEW time
  PROVE  (IF time \in DOMAIN points THEN points[time] ELSE NoKeys) \in Objects(Names, Nat)
<1> DEFINE Values == Objects(Names, Nat)
<1>1. NoKeys \in Values
  BY NoKeysTyped
<1> HIDE DEF Values
<1>2. PICK X \in SUBSET Nat : points \in [X -> Values]
  BY DEF Objects, Values
<1>3. QED
  BY <1>1, <1>2 DEF Values

LEMMA RowAddedTyped ==
  ASSUME NEW table, Table(table), NEW points \in Points(table), NEW row \in Reading
  PROVE  addArrayHistory(points, table, row) \in Points(table)
<1> DEFINE Names == KeysOf(table)
           Values == Objects(Names, Nat)
           point == IF row.time \in DOMAIN points THEN points[row.time] ELSE NoKeys
<1>1. row.time \in Nat /\ row.value \in Nat
  BY ReadingFields
<1>2. points \in Objects(Nat, Values)
  BY DEF Points
<1>3. point \in Values
  BY <1>2, PointOf
<1> HIDE DEF point
<1>4. ASSUME NEW i \in DOMAIN table PROVE appendHistoryPoint(points, table[i].key, row) \in Points(table)
  <2>1. table[i].key \in Names
    BY DEF KeysOf
  <2> HIDE DEF Names
  <2>2. Put(point, table[i].key, row.value) \in Values
    BY <1>1, <1>3, <2>1, PutTyped
  <2>3. appendHistoryPoint(points, table[i].key, row) = Put(points, row.time, Put(point, table[i].key, row.value))
    BY DEF appendHistoryPoint, point
  <2> DEFINE next == Put(point, table[i].key, row.value)
             Times == Nat
  <2>4. next \in Values /\ row.time \in Times /\ points \in Objects(Times, Values)
    BY <1>1, <1>2, <2>2
  <2> HIDE DEF Values, next, Times
  <2>5. Put(points, row.time, next) \in Objects(Times, Values)
    BY <2>4, PutTyped
  <2>6. QED
    BY <2>3, <2>5 DEF Points, Values, next, Names, Times
<1>5. QED
  BY <1>4, RowAdded

LEMMA HistorySteps ==
  ASSUME NEW table, Table(table), NEW data \in Seq(Reading)
  PROVE  \E points \in [0..Len(data) -> Points(table)] :
           /\ points[0] = NoKeys
           /\ \A i \in 1..Len(data) : points[i] = addArrayHistory(points[i - 1], table, data[i])
           /\ buildHistoryPoints(table, data) = points[Len(data)]
<1> DEFINE n == Len(data)
           O == Points(table)
           Value(g, i) == IF i = 0 THEN NoKeys ELSE addArrayHistory(g[i - 1], table, data[i])
           g == CHOOSE g : g = [i \in 0..n |-> Value(g, i)]
           step == [i \in 1..n |-> [c \in O |-> addArrayHistory(c, table, data[i])]]
<1>1. n \in Nat /\ \A i \in 1..n : data[i] \in Reading
  OBVIOUS
<1>2. NoKeys \in O
  BY NoKeysTyped DEF Points
<1>3. \A c \in O : \A i \in 1..n : addArrayHistory(c, table, data[i]) \in O
  <2> HIDE DEF n
  <2>1. QED
    BY <1>1, RowAddedTyped
<1> HIDE DEF n, O
<1>4. step \in [1..n -> [O -> O]]
  BY <1>3
<1>5. PICK f : IsReduce(f, n, O, NoKeys, step)
  <2> HIDE DEF step
  <2>1. QED
    BY <1>1, <1>2, <1>4, Reduced
<1>6. \A i \in 0..n : f[i] = Value(f, i)
  <2>1. /\ f \in [0..n -> O] /\ f[0] = NoKeys
        /\ \A i \in 1..n : f[i] = step[i][f[i - 1]]
    <3> HIDE DEF step
    <3>1. QED
      BY <1>5 DEF IsReduce
  <2>2. ASSUME NEW i \in 1..n PROVE f[i] = Value(f, i)
    <3>1. i - 1 \in 0..n /\ i # 0
      BY <1>1
    <3>2. f[i - 1] \in O
      BY <2>1, <3>1
    <3>3. step[i][f[i - 1]] = addArrayHistory(f[i - 1], table, data[i])
      BY <3>2
    <3>4. QED
      <4> HIDE DEF step
      <4>1. QED
        BY <2>1, <3>1, <3>3
  <2>3. f[0] = Value(f, 0)
    BY <2>1
  <2>4. \A i \in 0..n : i = 0 \/ i \in 1..n
    BY <1>1
  <2>5. QED
    <3> HIDE DEF Value
    <3>1. QED
      BY <2>2, <2>3, <2>4
<1>7. f = [i \in 0..n |-> Value(f, i)]
  <2>1. f \in [0..n -> O]
    BY <1>5 DEF IsReduce
  <2> HIDE DEF Value
  <2>2. QED
    BY <1>6, <2>1
<1>8. g = [i \in 0..n |-> Value(g, i)]
  BY <1>7
<1>9. g[0] = NoKeys /\ \A i \in 1..n : g[i] = addArrayHistory(g[i - 1], table, data[i])
  <2> HIDE DEF g
  <2>1. \A i \in 0..n : g[i] = Value(g, i)
    <3> HIDE DEF Value
    <3>1. QED
      BY <1>8
  <2>2. 0 \in 0..n /\ \A i \in 1..n : i \in 0..n /\ i # 0
    BY <1>1
  <2>3. QED
    BY <2>1, <2>2
<1>10. \A i \in 0..n : g[i] \in O
  <2> DEFINE Typed == {i \in 0..n : g[i] \in O}
  <2> HIDE DEF g
  <2>1. 0 \in Typed
    BY <1>1, <1>2, <1>9
  <2>2. ASSUME NEW i \in 1..n, i - 1 \in Typed PROVE i \in Typed
    <3>1. g[i - 1] \in O
      BY <2>2
    <3>2. g[i] \in O
      BY <1>3, <1>9, <3>1
    <3>3. i \in 0..n
      BY <1>1
    <3>4. QED
      BY <3>2, <3>3
  <2>3. 0..n \subseteq Typed
    <3> HIDE DEF Typed
    <3>1. QED
      BY <1>1, <2>1, <2>2, UpTo
  <2>4. QED
    BY <2>3
<1>11. g \in [0..n -> O]
  <2> HIDE DEF g, Value
  <2>1. QED
    BY <1>8, <1>10
<1>12. buildHistoryPoints(table, data) = g[n]
  BY DEF buildHistoryPoints, n
<1>13. QED
  <2> HIDE DEF g
  <2>1. QED
    BY <1>9, <1>11, <1>12 DEF n, O

\* The points that the rows up to a place make: each value is of a row of its
\* time and metric, and each row of a metric has a value.
MeasuredAt(points, table, data, n) ==
  /\ \A time \in DOMAIN points : \E j \in 1..n : data[j].time = time
  /\ \A time \in DOMAIN points : \A key \in DOMAIN points[time] :
       \E j \in 1..n, i \in DOMAIN table :
         /\ data[j].time = time /\ data[j].value = points[time][key]
         /\ table[i].key = key /\ Reports(table[i], data[j].type)
  /\ \A j \in 1..n, i \in DOMAIN table :
       Reports(table[i], data[j].type) =>
         data[j].time \in DOMAIN points /\ table[i].key \in DOMAIN points[data[j].time]

LEMMA MeasuredNext ==
  ASSUME NEW table, Table(table), NEW data, NEW n \in Nat \ {0}, NEW points,
         MeasuredAt(points, table, data, n - 1)
  PROVE  MeasuredAt(addArrayHistory(points, table, data[n]), table, data, n)
<1> DEFINE row == data[n]
           after == addArrayHistory(points, table, row)
<1>1. 1..n = 1..(n - 1) \cup {n} /\ n \in 1..n
  OBVIOUS
<1>2. /\ \A time \in DOMAIN points : \E j \in 1..(n - 1) : data[j].time = time
      /\ \A time \in DOMAIN points : \A key \in DOMAIN points[time] :
           \E j \in 1..(n - 1), i \in DOMAIN table :
             /\ data[j].time = time /\ data[j].value = points[time][key]
             /\ table[i].key = key /\ Reports(table[i], data[j].type)
      /\ \A j \in 1..(n - 1), i \in DOMAIN table :
           Reports(table[i], data[j].type) =>
             data[j].time \in DOMAIN points /\ table[i].key \in DOMAIN points[data[j].time]
  BY DEF MeasuredAt
<1>3. \/ after = points /\ \A i \in DOMAIN table : ~Reports(table[i], row.type)
      \/ \E i \in DOMAIN table :
           /\ Reports(table[i], row.type)
           /\ after = appendHistoryPoint(points, table[i].key, row)
  BY RowAdded
<1> HIDE DEF after
<1>4. CASE after = points /\ \A i \in DOMAIN table : ~Reports(table[i], row.type)
  <2>1. MeasuredAt(points, table, data, n)
    BY <1>1, <1>2, <1>4 DEF MeasuredAt
  <2>2. QED
    BY <1>4, <2>1 DEF after
<1>5. CASE \E i \in DOMAIN table : /\ Reports(table[i], row.type)
                                     /\ after = appendHistoryPoint(points, table[i].key, row)
  <2>1. PICK m \in DOMAIN table : /\ Reports(table[m], row.type)
                                    /\ after = appendHistoryPoint(points, table[m].key, row)
    BY <1>5
  <2> DEFINE moment == row.time
             name == table[m].key
             point == IF moment \in DOMAIN points THEN points[moment] ELSE NoKeys
             next == Put(point, name, row.value)
  <2>2. after = Put(points, moment, next)
    BY <2>1 DEF appendHistoryPoint
  <2>3. /\ DOMAIN next = DOMAIN point \cup {name} /\ next[name] = row.value
        /\ \A k \in DOMAIN point \ {name} : next[k] = point[k]
    <3> HIDE DEF point, name
    <3>1. QED
      BY DEF Put
  <2>4. point = IF moment \in DOMAIN points THEN points[moment] ELSE NoKeys
    OBVIOUS
  <2>5. DOMAIN NoKeys = {}
    BY NoKeysTyped
  <2> HIDE DEF next, point
  <2>6. /\ DOMAIN after = DOMAIN points \cup {moment} /\ after[moment] = next
        /\ \A t \in DOMAIN points \ {moment} : after[t] = points[t]
    <3> HIDE DEF moment
    <3>1. QED
      BY <2>2 DEF Put
  <2>7. \A t \in DOMAIN after : \E j \in 1..n : data[j].time = t
    BY <1>1, <1>2, <2>6
  <2>8. ASSUME NEW t \in DOMAIN after, NEW k \in DOMAIN after[t]
        PROVE  \E j \in 1..n, i \in DOMAIN table :
                 /\ data[j].time = t /\ data[j].value = after[t][k]
                 /\ table[i].key = k /\ Reports(table[i], data[j].type)
    <3>1. CASE t = moment /\ k = name
      <4>1. data[n].time = t /\ data[n].value = after[t][k]
        BY <2>3, <2>6, <3>1
      <4>2. QED
        BY <1>1, <2>1, <3>1, <4>1
    <3>2. CASE ~(t = moment /\ k = name)
      <4>1. t \in DOMAIN points /\ k \in DOMAIN points[t] /\ after[t][k] = points[t][k]
        <5>1. CASE t = moment
          <6>1. k \in DOMAIN point \ {name} /\ after[t][k] = point[k]
            BY <2>3, <2>6, <3>2, <5>1
          <6>2. QED
            BY <2>4, <2>5, <5>1, <6>1
        <5>2. CASE t # moment
          <6>1. t \in DOMAIN points /\ after[t] = points[t]
            BY <2>6, <5>2
          <6>2. QED
            BY <6>1, <2>8
        <5>3. QED
          BY <5>1, <5>2
      <4>2. PICK j \in 1..(n - 1), i \in DOMAIN table :
              /\ data[j].time = t /\ data[j].value = points[t][k]
              /\ table[i].key = k /\ Reports(table[i], data[j].type)
        BY <1>2, <4>1
      <4>3. j \in 1..n
        BY <1>1
      <4>4. QED
        BY <4>1, <4>2, <4>3
    <3>3. QED
      BY <3>1, <3>2
  <2>9. ASSUME NEW j \in 1..n, NEW i \in DOMAIN table, Reports(table[i], data[j].type)
        PROVE  data[j].time \in DOMAIN after /\ table[i].key \in DOMAIN after[data[j].time]
    <3>1. CASE j = n
      <4>1. i = m
        BY <2>1, <2>9, <3>1 DEF Table
      <4>2. QED
        BY <2>3, <2>6, <3>1, <4>1
    <3>2. CASE j # n
      <4>1. /\ data[j].time \in DOMAIN points
            /\ table[i].key \in DOMAIN points[data[j].time]
        <5>1. j \in 1..(n - 1)
          BY <1>1, <3>2
        <5>2. QED
          BY <1>2, <2>9, <5>1
      <4>2. QED
        <5>1. CASE data[j].time = moment
          BY <2>3, <2>4, <2>6, <4>1, <5>1
        <5>2. CASE data[j].time # moment
          BY <2>6, <4>1, <5>2
        <5>3. QED
          BY <5>1, <5>2
    <3>3. QED
      BY <3>1, <3>2
  <2>10. MeasuredAt(after, table, data, n)
    BY <2>7, <2>8, <2>9 DEF MeasuredAt
  <2>11. QED
    BY <2>10 DEF after
<1>6. QED
  BY <1>3, <1>4, <1>5

LEMMA HistoryMeasured ==
  ASSUME NEW table, Table(table), NEW data \in Seq(Reading)
  PROVE  MeasuredAt(buildHistoryPoints(table, data), table, data, Len(data))
<1> DEFINE n == Len(data)
<1>1. n \in Nat
  OBVIOUS
<1>2. PICK points : /\ points[0] = NoKeys
                    /\ \A i \in 1..n : points[i] = addArrayHistory(points[i - 1], table, data[i])
                    /\ buildHistoryPoints(table, data) = points[n]
  BY HistorySteps
<1> HIDE DEF n
<1> DEFINE Done == {i \in 0..n : MeasuredAt(points[i], table, data, i)}
<1>3. 0 \in Done
  <2>1. DOMAIN points[0] = {}
    BY <1>2, NoKeysTyped
  <2>2. MeasuredAt(points[0], table, data, 0)
    BY <2>1 DEF MeasuredAt
  <2>3. QED
    BY <1>1, <2>2
<1>4. ASSUME NEW i \in 1..n, i - 1 \in Done PROVE i \in Done
  <2>1. i \in Nat \ {0} /\ i \in 0..n
    BY <1>1
  <2>2. MeasuredAt(points[i - 1], table, data, i - 1)
    BY <1>4
  <2>3. MeasuredAt(addArrayHistory(points[i - 1], table, data[i]), table, data, i)
    BY <2>1, <2>2, MeasuredNext
  <2>4. QED
    BY <1>2, <2>1, <2>3
<1>5. 0..n \subseteq Done
  <2> HIDE DEF Done
  <2>1. QED
    BY <1>1, <1>3, <1>4, UpTo
<1>6. n \in Done
  <2> HIDE DEF Done
  <2>1. QED
    BY <1>1, <1>5
<1>7. QED
  BY <1>2, <1>6 DEF n

\* The points of the history of a device, by its rows.
LEMMA PointsOfRows ==
  ASSUME NEW table, Table(table), NEW data \in Seq(Reading)
  PROVE  LET points == buildHistoryPoints(table, data)
         IN  /\ DOMAIN points \in SUBSET Int /\ IsFiniteSet(DOMAIN points)
             /\ \A time \in DOMAIN points : \E row \in Range(data) : row.time = time
             /\ \A time \in DOMAIN points : \A key \in DOMAIN points[time] :
                  \E row \in Range(data), i \in DOMAIN table :
                    /\ row.time = time /\ row.value = points[time][key]
                    /\ table[i].key = key /\ Reports(table[i], row.type)
             /\ \A row \in Range(data), i \in DOMAIN table :
                  Reports(table[i], row.type) =>
                    row.time \in DOMAIN points /\ table[i].key \in DOMAIN points[row.time]
<1> DEFINE points == buildHistoryPoints(table, data)
           n == Len(data)
           moment == [j \in 1..n |-> data[j].time]
<1>1. n \in Nat /\ DOMAIN data = 1..n /\ \A j \in 1..n : data[j] \in Reading
  OBVIOUS
<1>2. MeasuredAt(points, table, data, n)
  BY HistoryMeasured
<1> HIDE DEF points, n
<1>3. \A j \in 1..n : data[j].time \in Nat
  BY <1>1, ReadingFields
<1>4. DOMAIN points \subseteq Range(moment) /\ Range(moment) \subseteq Int
  BY <1>2, <1>3 DEF MeasuredAt, Range
<1>5. IsFiniteSet(Range(moment))
  <2>1. IsFiniteSet(1..n)
    BY <1>1, FS_Interval
  <2>2. moment \in Surjection(1..n, Range(moment))
    BY DEF Surjection, Range
  <2> HIDE DEF moment
  <2>3. QED
    BY <2>1, <2>2, FS_Surjection
<1>6. DOMAIN points \in SUBSET Int /\ IsFiniteSet(DOMAIN points)
  <2> HIDE DEF moment
  <2>1. QED
    BY <1>4, <1>5, FS_Subset
<1>7. \A j \in 1..n : data[j] \in Range(data)
  BY <1>1 DEF Range
<1>8. \A row \in Range(data) : \E j \in 1..n : row = data[j]
  BY <1>1 DEF Range
<1>9. \A time \in DOMAIN points : \E row \in Range(data) : row.time = time
  BY <1>2, <1>7 DEF MeasuredAt
<1>10. \A time \in DOMAIN points : \A key \in DOMAIN points[time] :
                  \E row \in Range(data), i \in DOMAIN table :
                    /\ row.time = time /\ row.value = points[time][key]
                    /\ table[i].key = key /\ Reports(table[i], row.type)
  BY <1>2, <1>7 DEF MeasuredAt
<1>11. \A row \in Range(data), i \in DOMAIN table :
                  Reports(table[i], row.type) =>
                    row.time \in DOMAIN points /\ table[i].key \in DOMAIN points[row.time]
  BY <1>2, <1>8 DEF MeasuredAt
<1>12. QED
  BY <1>6, <1>9, <1>10, <1>11 DEF points

\* Where there is no point there is no series either.
LEMMA NoPointNoSeries ==
  ASSUME NEW table, Table(table), NEW data \in Seq(Reading),
         DOMAIN buildHistoryPoints(table, data) = {}
  PROVE  buildMetricTrend(table, data).series = <<>>
<1> DEFINE points == buildHistoryPoints(table, data)
           wanted == {definition \in Range(table) :
                        \/ \E time \in DOMAIN points : definition.key \in DOMAIN points[time]
                        \/ resolveMetric(definition, data) # NotReporting}
           series == Filter(table, wanted)
<1>1. buildMetricTrend(table, data).series = series
  BY DEF buildMetricTrend
<1>2. ASSUME NEW row \in Range(data), NEW i \in DOMAIN table PROVE ~Reports(table[i], row.type)
  BY PointsOfRows
<1>3. ASSUME NEW i \in DOMAIN table PROVE resolveMetric(table[i], data) = NotReporting
  <2>1. table[i].aliases \in Seq(AliasTypes)
    BY DEF Table
  <2> DEFINE shown == resolveMetric(table[i], data)
  <2>2. \/ shown = NotReporting /\ \A row \in Range(data) : ~Reports(table[i], row.type)
        \/ shown \in Range(data) /\ Reports(table[i], shown.type)
    BY <2>1, ResolvedRow
  <2> HIDE DEF shown
  <2>3. shown = NotReporting
    BY <1>2, <2>2
  <2>4. QED
    BY <2>3 DEF shown
<1>4. wanted = {}
  BY <1>3 DEF Range
<1>5. series \in Seq(Range(table)) /\ Range(series) = Range(table) \cap wanted
  <2>1. table \in Seq(Range(table))
    BY DEF Table
  <2> HIDE DEF wanted
  <2>2. QED
    BY <2>1, FilterKeeps
<1> HIDE DEF series
<1>6. series = <<>>
  <2>1. Range(series) = {}
    BY <1>4, <1>5
  <2>2. DOMAIN series = {}
    BY <2>1 DEF Range
  <2>3. QED
    BY <1>5, <2>2
<1>7. QED
  BY <1>1, <1>6

Trimmed(part, curve, span) ==
  /\ DOMAIN part = {t \in DOMAIN curve : t >= Max(DOMAIN curve) - span}
  /\ \A t \in DOMAIN part : part[t] = curve[t]

LEMMA TrendFields ==
  ASSUME NEW shown, NEW answer, NEW span,
         NEW curve, curve = buildHistoryPoints(shown, answer), DOMAIN curve # {},
         NEW part, part = visiblePoints(buildMetricTrend(shown, answer), span)
  PROVE  Trimmed(part, curve, span)
<1>1. /\ buildMetricTrend(shown, answer).points = curve
      /\ buildMetricTrend(shown, answer).hasHistory = TRUE
  BY DEF buildMetricTrend
<1>2. part = [time \in {t \in DOMAIN curve : t >= Max(DOMAIN curve) - span} |-> curve[time]]
  BY <1>1 DEF visiblePoints
<1>3. QED
  BY <1>2 DEF Trimmed

LEMMA ChartMeasured == MetricsInv => ChartIsMeasured
<1> SUFFICES ASSUME MetricsInv, NEW d \in DeviceSet, TrendOf(d, range).series # <<>>
             PROVE
    LET trend == TrendOf(d, range)
        table == ProfileOf(DeviceType[d])
        points == visiblePoints(trend, Ranges[range])
        key == activeSelectedKey(trend, selectedKey)
        Measures(row) == \E i \in DOMAIN table :
                           table[i].key = key /\ Reports(table[i], row.type)
        data == Range(Loaded(history[d][range]))
        Newest(time) == \A row \in data : row.time <= time
    IN    /\ \A time \in DOMAIN points : key \in DOMAIN points[time] =>
               \E row \in Taken(d) :
                 /\ Measures(row)
                 /\ row.time = time /\ row.value = points[time][key]
          /\ \A row \in data :
               Measures(row) /\ Newest(row.time + Ranges[range]) =>
                 row.time \in DOMAIN points /\ key \in DOMAIN points[row.time]
  BY DEF ChartIsMeasured
<1> DEFINE table == ProfileOf(DeviceType[d])
           list == Loaded(history[d][range])
           made == buildHistoryPoints(table, list)
           trend == TrendOf(d, range)
           length == Ranges[range]
           points == visiblePoints(trend, length)
           key == activeSelectedKey(trend, selectedKey)
           Measures(row) == \E i \in DOMAIN table :
                              table[i].key = key /\ Reports(table[i], row.type)
<1>1. Table(table)
  BY ProfileIsTable
<1>2. list \in ReadingsIn(Taken(d))
  <2>1. history[d][range] \in Entry(ReadingsIn(Taken(d)))
    BY DEF MetricsInv, HistoryOk
  <2>2. QED
    BY <2>1, LoadedIn
<1>3. list \in Seq(Reading) /\ Range(list) \subseteq Taken(d) /\ Range(list) \subseteq Reading
  BY <1>2 DEF ReadingsIn, Range
<1>4. trend = buildMetricTrend(table, list)
  BY DEF TrendOf
<1>5. length \in Nat
  BY MetricsPageAssumption DEF MetricsInv
<1> HIDE DEF table, list, trend, length
<1>6. DOMAIN made # {}
  BY <1>1, <1>3, <1>4, NoPointNoSeries DEF trend
<1>7. /\ DOMAIN points = {t \in DOMAIN made : t >= Max(DOMAIN made) - length}
      /\ \A t \in DOMAIN points : points[t] = made[t]
  <2>1. made = buildHistoryPoints(table, list)
    OBVIOUS
  <2>2. points = visiblePoints(buildMetricTrend(table, list), length)
    BY <1>4
  <2> HIDE DEF made, points
  <2>3. DOMAIN made # {}
    BY <1>6 DEF made
  <2>4. Trimmed(points, made, length)
    BY <2>1, <2>2, <2>3, TrendFields
  <2>5. QED
    BY <2>4 DEF Trimmed
<1>8. /\ DOMAIN made \in SUBSET Int /\ IsFiniteSet(DOMAIN made)
      /\ \A time \in DOMAIN made : \E row \in Range(list) : row.time = time
      /\ \A time \in DOMAIN made : \A k \in DOMAIN made[time] :
           \E row \in Range(list), i \in DOMAIN table :
             /\ row.time = time /\ row.value = made[time][k]
             /\ table[i].key = k /\ Reports(table[i], row.type)
      /\ \A row \in Range(list), i \in DOMAIN table :
           Reports(table[i], row.type) =>
             row.time \in DOMAIN made /\ table[i].key \in DOMAIN made[row.time]
  BY <1>1, <1>3, PointsOfRows
<1> HIDE DEF made, points, key
<1>9. Max(DOMAIN made) \in DOMAIN made
  BY <1>6, <1>8, MaxIsHighest
<1>10. ASSUME NEW time \in DOMAIN points, key \in DOMAIN points[time]
       PROVE  \E row \in Taken(d) : /\ Measures(row)
                                   /\ row.time = time /\ row.value = points[time][key]
  <2>1. time \in DOMAIN made /\ points[time] = made[time]
    BY <1>7
  <2>2. PICK row \in Range(list), i \in DOMAIN table :
             /\ row.time = time /\ row.value = made[time][key]
             /\ table[i].key = key /\ Reports(table[i], row.type)
    BY <1>8, <1>10, <2>1
  <2>3. row \in Taken(d) /\ Measures(row)
    BY <1>3, <2>2
  <2> HIDE DEF Measures
  <2>4. QED
    BY <2>1, <2>2, <2>3
<1>11. ASSUME NEW row \in Range(list), Measures(row),
              \A other \in Range(list) : other.time <= row.time + length
       PROVE  row.time \in DOMAIN points /\ key \in DOMAIN points[row.time]
  <2>1. row.time \in DOMAIN made /\ key \in DOMAIN made[row.time]
    BY <1>8, <1>11
  <2> DEFINE top == Max(DOMAIN made)
  <2>2. PICK last \in Range(list) : last.time = top
    BY <1>8, <1>9
  <2>3. top \in Int /\ row.time \in Int /\ top <= row.time + length
    BY <1>8, <1>9, <1>11, <2>1, <2>2
  <2>4. row.time >= top - length
    <3> HIDE DEF top
    <3>1. QED
      BY <1>5, <2>3
  <2>5. row.time \in DOMAIN points
    BY <1>7, <2>1, <2>4
  <2>6. QED
    BY <1>7, <2>1, <2>5
<1>12. QED
  BY <1>10, <1>11 DEF list, trend, length, points, key, table

\* The curve of the metrics page (buildMetricTrend of lib/metrics.ts and the cut of
\* MetricTrendChart.tsx) is drawn of readings alone, of the device and the metric
\* on screen and each at its time, and leaves out only what is older than the range
\* reckoned from the newest: the made-up curve of fallbackPoints is never shown.
THEOREM CurveIsMeasured == ViewsSpec => []ChartIsMeasured
<1>1. ViewsInit => MetricsInv
  BY MetricsFirst DEF ViewsInit
<1>2. MetricsInv /\ [ViewsNext]_<<metricsVars, fleetVars, queue, route>> => MetricsInv'
  BY MetricsInvStep
<1>3. QED
  BY <1>1, <1>2, ChartMeasured, PTL DEF ViewsSpec

-----------------------------------------------------------------------------
(* The accounts *)

Attempt == [via : {"login", "register"}, user : Users,
            at : {"sent", "admitted", "refused", "settled"}, token : Claims \cup {None}]
Call == [op : {"role", "password"}, target : Users, role : Offered \cup {None}, token : Claims,
         at : {"sent", "read", "refused", "written", "settled"}, copy : Row \cup {None}, visit : Nat]

QueuesOK == attempts \in Seq(Attempt) /\ calls \in Seq(Call)

\* A user has a row from the first role on that he was ever given.
RowsOK == \A u \in Users : /\ held[u] # {} => Exists(u)
                           /\ Exists(u) => rows[u].role \in held[u]

\* Whom the server admits, whom the browser speaks for, and whose row a request
\* changes: each of them has a row.
IdentityOK == storage.token # None => Exists(storage.token.user)
AttemptOK(a) == a.at = "admitted" => a.token \in Claims /\ a.token.user = a.user /\ Exists(a.user)

\* The role that a request asks for has been stored once the row was written.
CallOK(c) ==
  /\ Exists(c.target)
  /\ c.op = "role" => c.role \in Offered
  /\ c.at = "read" => c.copy \in Row
  /\ c.at = "written" /\ c.op = "role" => c.role \in held[c.target]

RequestsOK == (\A n \in DOMAIN attempts : AttemptOK(attempts[n]))
              /\ (\A n \in DOMAIN calls : CallOK(calls[n]))

\* The parts of the type invariant.
ScreenType ==
  /\ page \in {"login", "register", "dashboard", "profile"}
  /\ visit \in 0..MaxVisits /\ busy \in 0..MaxAttempts
  /\ users \in [at : {"idle", "asked", "answered", "shown"}, rows : [Users -> Roles \cup {None}]]
  /\ choices \in [Users -> Offered \cup {None}]
ServerType == rows \in [Users -> Row \cup {None}] /\ held \in [Users -> SUBSET Roles]
StorageType == storage \in [token : Claims \cup {None}, username : Users \cup {None},
                            email : Users \cup {None}, role : Roles \cup {None}]
BoundsType == fails \in 0..MaxFails /\ Len(attempts) <= MaxAttempts /\ Len(calls) <= MaxCalls

\* The inductive invariant.
IInv ==
  /\ ScreenType /\ ServerType /\ StorageType /\ BoundsType
  /\ QueuesOK /\ RowsOK /\ IdentityOK /\ RequestsOK
  /\ ShownRolesWereStored

-----------------------------------------------------------------------------
(* What steps have in common *)

LEMMA TypeParts == ScreenType /\ ServerType /\ StorageType /\ BoundsType => TypeOK
BY DEF TypeOK, ScreenType, ServerType, StorageType, BoundsType

LEMMA ShowKeeps ==
  ASSUME ScreenType, NEW p \in {"login", "register", "dashboard", "profile"},
         p = "profile" => visit < MaxVisits, Show(p)
  PROVE  ScreenType' /\ \A u \in Users : users'.rows[u] = None
<1>1. page' = p /\ busy' \in 0..MaxAttempts
  BY AccountsAssumption DEF Show
<1>2. visit' \in 0..MaxVisits
  BY AccountsAssumption DEF Show, ScreenType
<1>3. users' \in {NoUsers, [NoUsers EXCEPT !.at = "asked"]}
  BY DEF Show
<1>4. users' \in [at : {"idle", "asked", "answered", "shown"}, rows : [Users -> Roles \cup {None}]]
      /\ \A u \in Users : users'.rows[u] = None
  BY <1>3 DEF NoUsers
<1>5. choices' \in [Users -> Offered \cup {None}]
  BY DEF Show, Nothing
<1> QED BY <1>1, <1>2, <1>4, <1>5 DEF ScreenType

\* The server forgets neither a row nor a role that one had.
Grows == \A u \in Users : held[u] \subseteq held'[u] /\ (Exists(u) => Exists(u)')

LEMMA SameServerGrows == UNCHANGED server => Grows
BY DEF server, Grows, Exists

\* Attempts and requests stay good when the server grows.
LEMMA GoodStays ==
  ASSUME QueuesOK, RequestsOK, Grows
  PROVE  /\ \A n \in DOMAIN attempts : attempts[n] \in Attempt /\ AttemptOK(attempts[n])
         /\ \A n \in DOMAIN calls : calls[n] \in Call /\ CallOK(calls[n])
         /\ \A a \in Attempt : AttemptOK(a) =>
              (a.at = "admitted" => a.token \in Claims /\ a.token.user = a.user /\ Exists(a.user)')
         /\ \A c \in Call : CallOK(c) =>
              /\ Exists(c.target)'
              /\ c.at = "written" /\ c.op = "role" => c.role \in held'[c.target]
<1>1. \A n \in DOMAIN attempts : attempts[n] \in Attempt
  BY DEF QueuesOK
<1>2. \A n \in DOMAIN calls : calls[n] \in Call
  BY DEF QueuesOK
<1>3. \A a \in Attempt : a.user \in Users
  BY DEF Attempt
<1>4. \A c \in Call : c.target \in Users
  BY DEF Call
<1>5. \A a \in Attempt : AttemptOK(a) =>
        (a.at = "admitted" => a.token \in Claims /\ a.token.user = a.user /\ Exists(a.user)')
  BY <1>3 DEF AttemptOK, Grows
<1>6. \A c \in Call : CallOK(c) =>
        /\ Exists(c.target)'
        /\ c.at = "written" /\ c.op = "role" => c.role \in held'[c.target]
  BY <1>4 DEF CallOK, Grows
<1> QED BY <1>1, <1>2, <1>5, <1>6 DEF RequestsOK

\* One attempt moves on, or one request, and the server grows or stays as it is.
LEMMA AttemptMoves ==
  ASSUME QueuesOK, RequestsOK, Grows, UNCHANGED calls, NEW n \in DOMAIN attempts, NEW a \in Attempt,
         attempts' = [attempts EXCEPT ![n] = a],
         a.at = "admitted" => a.token \in Claims /\ a.token.user = a.user /\ Exists(a.user)'
  PROVE  QueuesOK' /\ RequestsOK' /\ Len(attempts') = Len(attempts)
<1>1. QueuesOK' /\ Len(attempts') = Len(attempts)
  BY DEF QueuesOK
<1>2. attempts'[n] = a /\ \A m \in DOMAIN attempts' : m \in DOMAIN attempts /\ (m # n => attempts'[m] = attempts[m])
  BY DEF QueuesOK
<1>3. \A m \in DOMAIN attempts' : AttemptOK(attempts[m])'
  BY <1>2, GoodStays DEF AttemptOK
<1>4. \A m \in DOMAIN calls' : CallOK(calls[m])'
  BY GoodStays DEF CallOK
<1> QED BY <1>1, <1>3, <1>4 DEF RequestsOK

LEMMA CallMoves ==
  ASSUME QueuesOK, RequestsOK, Grows, UNCHANGED attempts, NEW n \in DOMAIN calls, NEW c \in Call,
         calls' = [calls EXCEPT ![n] = c], CallOK(c)'
  PROVE  QueuesOK' /\ RequestsOK' /\ Len(calls') = Len(calls)
<1>1. QueuesOK' /\ Len(calls') = Len(calls)
  BY DEF QueuesOK
<1>2. calls'[n] = c /\ \A m \in DOMAIN calls' : m \in DOMAIN calls /\ (m # n => calls'[m] = calls[m])
  BY DEF QueuesOK
<1>3. \A m \in DOMAIN calls' : CallOK(calls[m])'
  BY <1>2, GoodStays DEF CallOK
<1>4. \A m \in DOMAIN attempts' : AttemptOK(attempts[m])'
  BY GoodStays DEF AttemptOK
<1> QED BY <1>1, <1>3, <1>4 DEF RequestsOK

LEMMA Appended ==
  ASSUME NEW S, NEW s \in Seq(S), NEW x \in S, NEW new, new = Append(s, x)
  PROVE  /\ new \in Seq(S) /\ Len(new) = Len(s) + 1
         /\ \A n \in DOMAIN new : new[n] = x \/ (n \in DOMAIN s /\ new[n] = s[n])
<1>1. new \in Seq(S) /\ Len(new) = Len(s) + 1 /\ Len(s) \in Nat
  OBVIOUS
<1>2. new[Len(s) + 1] = x /\ \A n \in 1..Len(s) : new[n] = s[n]
  OBVIOUS
<1>3. \A n \in DOMAIN new : n = Len(s) + 1 \/ n \in 1..Len(s)
  BY <1>1
<1> QED BY <1>1, <1>2, <1>3

LEMMA NothingMoves ==
  ASSUME QueuesOK, RequestsOK, RowsOK, ServerType, UNCHANGED <<attempts, calls>>, UNCHANGED server
  PROVE  QueuesOK' /\ RequestsOK' /\ RowsOK' /\ ServerType'
<1>1. QueuesOK' /\ RowsOK' /\ ServerType'
  BY DEF QueuesOK, RowsOK, ServerType, Exists, server
<1>2. RequestsOK'
  BY DEF RequestsOK, AttemptOK, CallOK, Exists, server
<1> QED BY <1>1, <1>2

-----------------------------------------------------------------------------
(* The actions *)

LEMMA InitIInv == Init => IInv
<1> SUFFICES ASSUME Init PROVE IInv
  OBVIOUS
<1>1. rows \in [Users -> [role : {"admin", "viewer"}, password : {0}] \cup {None}]
      /\ held = [u \in Users |-> IF Exists(u) THEN {rows[u].role} ELSE {}]
  BY DEF Init
<1>2. ServerType /\ RowsOK
  <2>1. \A u \in Users : rows[u] # None => rows[u] \in Row /\ rows[u].role \in Roles
    BY <1>1 DEF Row, Roles
  <2>2. rows \in [Users -> Row \cup {None}]
    BY <1>1, <2>1
  <2>3. held \in [Users -> SUBSET Roles]
    BY <1>1, <2>1 DEF Exists
  <2> QED BY <1>1, <2>2, <2>3 DEF ServerType, RowsOK, Exists
<1>3. /\ storage = NoIdentity /\ page = "login" /\ visit = 0 /\ busy = 0 /\ users = NoUsers
      /\ choices = Nothing /\ attempts = <<>> /\ calls = <<>> /\ fails = 0
  BY DEF Init
<1>4. ScreenType /\ StorageType /\ BoundsType
  BY <1>3, AccountsAssumption
  DEF ScreenType, StorageType, BoundsType, NoUsers, Nothing, NoIdentity
<1>5. QueuesOK /\ RequestsOK
  BY <1>3 DEF QueuesOK, RequestsOK
<1>6. IdentityOK /\ ShownRolesWereStored
  BY <1>3 DEF NoIdentity, NoUsers, IdentityOK, ShownRolesWereStored
<1> QED BY <1>2, <1>4, <1>5, <1>6 DEF IInv

\* A step on the screen alone, or one that clears what the browser holds.
LEMMA ScreenStep ==
  ASSUME IInv, UNCHANGED <<attempts, calls>>, UNCHANGED server,
         storage' = storage \/ storage' = NoIdentity, ScreenType', fails' \in 0..MaxFails,
         \A u \in Users : users'.rows[u] \in {None, users.rows[u]}
                          \/ users'.rows[u] \in held[u]
  PROVE  IInv'
<1>1. QueuesOK' /\ RequestsOK' /\ RowsOK' /\ ServerType'
  BY NothingMoves DEF IInv
<1>2. StorageType' /\ IdentityOK'
  BY DEF IInv, StorageType, NoIdentity, IdentityOK, Exists, server
<1>3. BoundsType'
  BY DEF IInv, BoundsType
<1>4. ShownRolesWereStored'
  BY DEF IInv, ShownRolesWereStored, server
<1> QED BY <1>1, <1>2, <1>3, <1>4 DEF IInv

LEMMA NavigateKeeps ==
  ASSUME IInv, NEW p \in {"login", "register", "dashboard", "profile"}, Navigate(p)
  PROVE  IInv'
<1>1. PrivateRoute(p) \in {"login", "register", "dashboard", "profile"}
      /\ (PrivateRoute(p) = "profile" => visit < MaxVisits)
  BY DEF Navigate, PrivateRoute
<1>2. ScreenType' /\ \A u \in Users : users'.rows[u] = None
  BY <1>1, ShowKeeps DEF IInv, Navigate
<1> QED BY <1>2, ScreenStep DEF IInv, Navigate, BoundsType

LEMMA LogOutKeeps == IInv /\ LogOut => IInv'
<1> SUFFICES ASSUME IInv, LogOut PROVE IInv'
  OBVIOUS
<1>1. ScreenType' /\ \A u \in Users : users'.rows[u] = None
  BY ShowKeeps DEF IInv, LogOut
<1> QED BY <1>1, ScreenStep DEF IInv, LogOut, BoundsType

\* What the profile page does with the list of users and with choices.
LEMMA ProfileKeeps ==
  ASSUME IInv, ServerListsUsers \/ UsersArrive \/ UsersLost
               \/ \E u \in Users, r \in Offered : ChooseRole(u, r)
  PROVE  IInv'
<1>1. ScreenType /\ ServerType /\ fails \in 0..MaxFails
  BY DEF IInv, BoundsType
<1>2. CASE ServerListsUsers
  <2>1. users' = [at |-> "answered",
                  rows |-> [u \in Users |-> IF Exists(u) THEN rows[u].role ELSE None]]
    BY <1>2 DEF ServerListsUsers
  <2>2. \A u \in Users : Exists(u) => rows[u].role \in held[u] /\ rows[u].role \in Roles
    BY <1>1 DEF IInv, RowsOK, ServerType
  <2>3. ScreenType'
    BY <1>1, <1>2, <2>1, <2>2 DEF ScreenType, ServerListsUsers, screen
  <2>4. \A u \in Users : users'.rows[u] = None \/ users'.rows[u] \in held[u]
    BY <2>1, <2>2
  <2> QED BY <1>1, <1>2, <2>3, <2>4, ScreenStep DEF ServerListsUsers
<1>3. CASE UsersArrive
  <2>1. ScreenType' /\ users'.rows = users.rows
    BY <1>1, <1>3 DEF ScreenType, UsersArrive, screen
  <2> QED BY <1>1, <1>3, <2>1, ScreenStep DEF UsersArrive
<1>4. CASE UsersLost
  <2>1. ScreenType' /\ \A u \in Users : users'.rows[u] = None
    BY <1>1, <1>4 DEF ScreenType, UsersLost, screen, NoUsers
  <2>2. fails' \in 0..MaxFails
    BY <1>1, <1>4, AccountsAssumption DEF UsersLost
  <2> QED BY <1>4, <2>1, <2>2, ScreenStep DEF UsersLost
<1>5. ASSUME NEW u \in Users, NEW r \in Offered, ChooseRole(u, r) PROVE IInv'
  <2>1. ScreenType' /\ users' = users
    BY <1>1, <1>5 DEF ScreenType, ChooseRole, screen
  <2> QED BY <1>1, <1>5, <2>1, ScreenStep DEF ChooseRole
<1> QED BY <1>2, <1>3, <1>4, <1>5

\* Rows of the page stay right while the server grows.
LEMMA ShownStays ==
  ASSUME IInv, Grows, users'.rows = users.rows
  PROVE  ShownRolesWereStored'
BY DEF IInv, ShownRolesWereStored, Grows

LEMMA IdentityStays ==
  ASSUME IInv, Grows, UNCHANGED storage
  PROVE  StorageType' /\ IdentityOK'
<1>1. StorageType'
  BY DEF IInv, StorageType
<1>2. IdentityOK'
  BY DEF IInv, StorageType, IdentityOK, Grows, Claims
<1> QED BY <1>1, <1>2

LEMMA SubmitKeeps ==
  ASSUME IInv, NEW via \in {"login", "register"}, NEW u \in Users, Submit(via, u)
  PROVE  IInv'
<1> DEFINE a == [via |-> via, user |-> u, at |-> "sent", token |-> None]
<1>1. a \in Attempt /\ a.at = "sent" /\ attempts' = Append(attempts, a) /\ Len(attempts) < MaxAttempts
  BY DEF Attempt, Submit
<1> HIDE DEF a
<1>2. /\ attempts' \in Seq(Attempt) /\ Len(attempts') = Len(attempts) + 1
      /\ \A n \in DOMAIN attempts' :
           attempts'[n] = a \/ (n \in DOMAIN attempts /\ attempts'[n] = attempts[n])
  <2>1. attempts \in Seq(Attempt)
    BY DEF IInv, QueuesOK
  <2> QED BY <1>1, <2>1, Appended
<1>3. UNCHANGED <<calls, storage, users, choices, page, visit, fails>> /\ UNCHANGED server
      /\ busy' = Len(attempts')
  BY DEF Submit, profile
<1>4. Grows
  BY <1>3, SameServerGrows
<1>5. RowsOK' /\ ServerType' /\ StorageType' /\ IdentityOK'
      /\ ShownRolesWereStored'
  BY <1>3, <1>4, IdentityStays, ShownStays DEF IInv, RowsOK, ServerType, Exists, server
<1>6. QueuesOK'
  BY <1>2, <1>3 DEF IInv, QueuesOK
<1>7. RequestsOK'
  BY <1>1, <1>2, <1>3, <1>4, GoodStays DEF IInv, RequestsOK, AttemptOK, CallOK
<1>8. busy' \in 0..MaxAttempts /\ Len(attempts') <= MaxAttempts
  BY <1>1, <1>2, <1>3, AccountsAssumption DEF IInv, QueuesOK
<1>9. ScreenType' /\ BoundsType'
  BY <1>3, <1>8 DEF IInv, ScreenType, BoundsType
<1> QED BY <1>5, <1>6, <1>7, <1>9 DEF IInv

\* The server admits or refuses, or the answer is lost.
LEMMA AttemptKeeps ==
  ASSUME IInv, NEW n \in DOMAIN attempts, ServerAdmits(n) \/ ServerRefuses(n) \/ AttemptLost(n)
  PROVE  IInv'
<1>1. attempts[n] \in Attempt /\ attempts \in Seq(Attempt)
  BY DEF IInv, QueuesOK
<1>2. PICK u \in Users : u = attempts[n].user
  BY <1>1 DEF Attempt
<1>3. UNCHANGED <<storage, calls, users, choices, page, visit, busy>>
  BY DEF ServerAdmits, ServerRefuses, AttemptLost, screen, profile
<1>4. ScreenType' /\ fails' \in 0..MaxFails
  BY <1>3, AccountsAssumption
  DEF IInv, ScreenType, BoundsType, ServerAdmits, ServerRefuses, AttemptLost
<1>5. CASE ServerAdmits(n)
  <2> DEFINE token == [user |-> u, role |-> rows'[u].role]
             a == [attempts[n] EXCEPT !.at = "admitted", !.token = token]
  <2>1. \/ attempts[n].via = "login" /\ Exists(u) /\ UNCHANGED server
        \/ /\ ~Exists(u)
           /\ rows' = [rows EXCEPT ![u] = [role |-> "viewer", password |-> 0]]
           /\ held' = [held EXCEPT ![u] = @ \cup {"viewer"}]
    BY <1>2, <1>5 DEF ServerAdmits
  <2>2. ServerType' /\ RowsOK' /\ Grows /\ Exists(u)'
    <3>1. CASE UNCHANGED server /\ Exists(u)
      BY <3>1 DEF IInv, ServerType, RowsOK, Grows, Exists, server
    <3>2. CASE rows' = [rows EXCEPT ![u] = [role |-> "viewer", password |-> 0]]
               /\ held' = [held EXCEPT ![u] = @ \cup {"viewer"}]
      <4>1. [role |-> "viewer", password |-> 0] \in Row /\ "viewer" \in Roles
        BY DEF Row, Roles
      <4>2. ServerType' /\ Grows /\ Exists(u)'
        BY <1>2, <3>2, <4>1, NoneAssumption DEF IInv, ServerType, Grows, Exists
      <4>3. RowsOK'
        BY <1>2, <3>2, <4>1, NoneAssumption DEF IInv, RowsOK, ServerType, Exists
      <4> QED BY <4>2, <4>3
    <3> QED BY <2>1, <3>1, <3>2
  <2>3. token \in Claims
    <3>1. rows'[u] \in Row
      BY <1>2, <2>2 DEF ServerType, Exists
    <3> QED BY <1>2, <3>1 DEF Claims, Row
  <2>4. attempts' = [attempts EXCEPT ![n] = a]
    BY <1>1, <1>2, <1>5 DEF ServerAdmits, Attempt
  <2>5. a \in Attempt /\ a.token = token /\ a.user = u
    BY <1>1, <1>2, <2>3 DEF Attempt
  <2>6. token.user = u
    OBVIOUS
  <2> HIDE DEF a, token
  <2>7. QueuesOK' /\ RequestsOK' /\ Len(attempts') = Len(attempts)
    BY <1>3, <2>2, <2>3, <2>4, <2>5, <2>6, AttemptMoves DEF IInv
  <2> QED BY <1>3, <1>4, <2>2, <2>7, IdentityStays, ShownStays DEF IInv, BoundsType
<1>6. CASE ServerRefuses(n) \/ AttemptLost(n)
  <2> DEFINE a == [attempts[n] EXCEPT !.at = "refused"]
  <2>1. a \in Attempt /\ a.at = "refused" /\ attempts' = [attempts EXCEPT ![n] = a]
        /\ UNCHANGED server
    BY <1>1, <1>6 DEF ServerRefuses, AttemptLost, Attempt
  <2> HIDE DEF a
  <2>2. Grows /\ RowsOK' /\ ServerType'
    BY <2>1, SameServerGrows DEF IInv, RowsOK, ServerType, Exists, server
  <2>3. QueuesOK' /\ RequestsOK' /\ Len(attempts') = Len(attempts)
    BY <1>3, <2>1, <2>2, AttemptMoves DEF IInv
  <2> QED BY <1>3, <1>4, <2>2, <2>3, IdentityStays, ShownStays DEF IInv, BoundsType
<1> QED BY <1>5, <1>6

\* The browser stores the identity of an answer, all of it, or forgets its own.
LEMMA SettledKeeps ==
  ASSUME IInv, NEW n \in DOMAIN attempts, Admitted(n) \/ Refused(n)
  PROVE  IInv'
<1> DEFINE a == [attempts[n] EXCEPT !.at = "settled"]
<1>1. attempts[n] \in Attempt /\ attempts \in Seq(Attempt)
  BY DEF IInv, QueuesOK
<1>2. a \in Attempt /\ a.at = "settled" /\ attempts' = [attempts EXCEPT ![n] = a]
      /\ UNCHANGED calls /\ UNCHANGED server /\ UNCHANGED fails
  BY <1>1 DEF Admitted, Refused, Attempt
<1> HIDE DEF a
<1>3. Grows /\ RowsOK' /\ ServerType'
  BY <1>2, SameServerGrows DEF IInv, RowsOK, ServerType, Exists, server
<1>4. QueuesOK' /\ RequestsOK' /\ Len(attempts') = Len(attempts)
  BY <1>2, <1>3, AttemptMoves DEF IInv
<1>5. BoundsType'
  BY <1>2, <1>4 DEF IInv, BoundsType
<1>6. ScreenType' /\ ShownRolesWereStored'
  <2>1. CASE UNCHANGED screen /\ UNCHANGED profile
    BY <1>2, <2>1 DEF IInv, ScreenType, ShownRolesWereStored, screen, profile, server
  <2>2. CASE Show("dashboard")
    BY <2>2, ShowKeeps DEF IInv, ShownRolesWereStored
  <2> QED BY <2>1, <2>2 DEF Admitted, Refused
<1>7. StorageType' /\ IdentityOK'
  <2>1. CASE Admitted(n)
    <3> DEFINE t == attempts[n].token
    <3>1. t \in Claims /\ t.user = attempts[n].user /\ Exists(t.user)
      BY <2>1 DEF IInv, RequestsOK, AttemptOK, Admitted
    <3>2. storage' = [token |-> t, username |-> t.user, email |-> t.user, role |-> t.role]
      BY <2>1, <3>1 DEF Admitted, Store
    <3>3. t # None /\ t.user \in Users /\ t.role \in Roles
      BY <3>1, NoneAssumption DEF Claims
    <3> HIDE DEF t
    <3> QED BY <1>2, <3>1, <3>2, <3>3
        DEF StorageType, IdentityOK, Exists, server
  <2>2. CASE Refused(n)
    BY <2>2 DEF Refused, StorageType, NoIdentity, IdentityOK
  <2> QED BY <2>1, <2>2
<1> QED BY <1>3, <1>4, <1>5, <1>6, <1>7 DEF IInv

HandleRoleSaves == \E u \in Users : HandleRoleSave(u)

\* The page sends a request, for a user who has a row.
LEMMA SendKeeps ==
  ASSUME IInv, HandleRoleSaves \/ ChangePassword
  PROVE  IInv'
<1>1. PICK op \in {"role", "password"}, target \in Users, role \in Offered \cup {None} :
        /\ Send(op, target, role) /\ Exists(target) /\ (op = "role" => role \in Offered)
  <2>1. CASE ChangePassword
    <3>1. storage.token \in Claims /\ storage.token.user \in Users
      BY <2>1 DEF ChangePassword, IInv, StorageType, Claims
    <3>2. Exists(storage.token.user)
      BY <2>1 DEF ChangePassword, IInv, IdentityOK
    <3> QED BY <2>1, <3>1, <3>2 DEF ChangePassword
  <2>2. ASSUME NEW u \in Users, HandleRoleSave(u)
        PROVE  Send("role", u, choices[u]) /\ Exists(u) /\ choices[u] \in Offered
    <3>1. users.rows[u] # None /\ choices[u] # None /\ Send("role", u, choices[u])
      BY <2>2 DEF HandleRoleSave
    <3>2. held[u] # {}
      BY <3>1 DEF IInv, ShownRolesWereStored
    <3> QED BY <3>1, <3>2 DEF IInv, RowsOK, ScreenType
  <2> QED BY <2>1, <2>2 DEF HandleRoleSaves
<1>2. calls' = Append(calls, [op |-> op, target |-> target, role |-> role, token |-> storage.token,
                              at |-> "sent", copy |-> None, visit |-> visit])
      /\ Len(calls) < MaxCalls /\ storage.token \in Claims
  BY <1>1 DEF Send, IInv, StorageType
<1>3. visit \in Nat
  BY AccountsAssumption DEF IInv, ScreenType
<1>4. PICK c \in Call : /\ calls' = Append(calls, c)
                       /\ c.target = target /\ c.op = op /\ c.role = role /\ c.at = "sent"
  BY <1>1, <1>2, <1>3 DEF Call
<1>5. UNCHANGED <<attempts, storage, users, choices, page, visit, busy, fails>> /\ UNCHANGED server
  BY DEF HandleRoleSaves, HandleRoleSave, ChangePassword, screen, profile
<1>6. Grows /\ RowsOK' /\ ServerType'
  BY <1>5, SameServerGrows DEF IInv, RowsOK, ServerType, Exists, server
<1>7. /\ calls' \in Seq(Call) /\ Len(calls') = Len(calls) + 1
      /\ \A n \in DOMAIN calls' : calls'[n] = c \/ (n \in DOMAIN calls /\ calls'[n] = calls[n])
  <2>1. calls \in Seq(Call)
    BY DEF IInv, QueuesOK
  <2> QED BY <1>4, <2>1, Appended
<1>8. QueuesOK'
  BY <1>5, <1>7 DEF IInv, QueuesOK
<1>9. CallOK(c)'
  BY <1>1, <1>4, <1>5 DEF CallOK, Exists, server
<1>10. RequestsOK'
  <2>1. \A n \in DOMAIN calls' : CallOK(calls[n])'
    BY <1>6, <1>7, <1>9, GoodStays DEF IInv, CallOK
  <2>2. \A n \in DOMAIN attempts' : AttemptOK(attempts[n])'
    BY <1>5, <1>6, GoodStays DEF IInv, AttemptOK
  <2> QED BY <2>1, <2>2 DEF RequestsOK
<1>11. ScreenType' /\ BoundsType'
  BY <1>2, <1>5, <1>7, AccountsAssumption DEF IInv, QueuesOK, ScreenType, BoundsType
<1> QED BY <1>5, <1>6, <1>8, <1>10, <1>11, IdentityStays, ShownStays DEF IInv

\* A request moves on: the server reads the row, writes it, or the answer comes.
LEMMA CallKeeps ==
  ASSUME IInv, NEW n \in DOMAIN calls, ServerReads(n) \/ CallLost(n)
  PROVE  IInv'
<1>1. calls[n] \in Call /\ CallOK(calls[n])
  BY DEF IInv, QueuesOK, RequestsOK
<1>2. UNCHANGED <<attempts, storage, users, choices, page, visit, busy>> /\ UNCHANGED server
  BY DEF ServerReads, CallLost, screen, profile
<1>3. Grows /\ RowsOK' /\ ServerType'
  BY <1>2, SameServerGrows DEF IInv, RowsOK, ServerType, Exists, server
<1>4. PICK c \in Call : calls' = [calls EXCEPT ![n] = c] /\ CallOK(c)'
  <2>1. CASE ServerReads(n) /\ Permitted(calls[n])
    <3> DEFINE c == [calls[n] EXCEPT !.at = "read", !.copy = rows[calls[n].target]]
    <3>1. calls' = [calls EXCEPT ![n] = c]
      BY <1>1, <2>1 DEF ServerReads, Call
    <3>2. rows[calls[n].target] \in Row
      BY <1>1 DEF IInv, ServerType, CallOK, Exists, Call
    <3>3. c \in Call /\ c.target = calls[n].target /\ c.op = calls[n].op /\ c.role = calls[n].role
          /\ c.at = "read" /\ c.copy \in Row
      BY <1>1, <3>2 DEF Call
    <3> HIDE DEF c
    <3>4. \A d \in Call : d = c => CallOK(d)'
      BY <1>1, <1>2, <3>3 DEF CallOK, Exists, server
    <3> QED BY <3>1, <3>3, <3>4
  <2>2. CASE (ServerReads(n) /\ ~Permitted(calls[n])) \/ CallLost(n)
    <3>1. PICK copy \in {None, calls[n].copy} :
            calls' = [calls EXCEPT ![n] = [calls[n] EXCEPT !.at = "refused", !.copy = copy]]
      <4>1. CASE ServerReads(n) /\ ~Permitted(calls[n])
        BY <1>1, <4>1 DEF ServerReads, Call
      <4>2. CASE CallLost(n)
        <5>1. [calls[n] EXCEPT !.at = "refused"]
                = [calls[n] EXCEPT !.at = "refused", !.copy = calls[n].copy]
          BY <1>1 DEF Call
        <5> QED BY <4>2, <5>1 DEF CallLost
      <4> QED BY <2>2, <4>1, <4>2
    <3> DEFINE c == [calls[n] EXCEPT !.at = "refused", !.copy = copy]
    <3>2. c \in Call /\ c.target = calls[n].target /\ c.op = calls[n].op /\ c.role = calls[n].role
          /\ c.at = "refused"
      BY <1>1, <3>1 DEF Call
    <3>3. calls' = [calls EXCEPT ![n] = c]
      BY <3>1
    <3> HIDE DEF c
    <3>4. \A d \in Call : d = c => CallOK(d)'
      BY <1>1, <1>2, <3>2 DEF CallOK, Exists, server
    <3> QED BY <3>2, <3>3, <3>4
  <2> QED BY <2>1, <2>2
<1>5. QueuesOK' /\ RequestsOK' /\ Len(calls') = Len(calls)
  BY <1>2, <1>3, <1>4, CallMoves DEF IInv
<1>6. fails' \in 0..MaxFails
  BY AccountsAssumption DEF IInv, BoundsType, ServerReads, CallLost
<1>7. ScreenType' /\ BoundsType'
  BY <1>2, <1>5, <1>6 DEF IInv, ScreenType, BoundsType
<1> QED BY <1>2, <1>3, <1>5, <1>7, IdentityStays, ShownStays DEF IInv

\* The row is written from the copy: its role is one that it had, or the new one.
LEMMA ServerWritesKeeps ==
  ASSUME IInv, NEW n \in DOMAIN calls, ServerWrites(n)
  PROVE  IInv'
<1>1. PICK old \in Call : old = calls[n] /\ CallOK(old) /\ old.at = "read"
  BY DEF IInv, QueuesOK, RequestsOK, ServerWrites
<1>2. UNCHANGED <<attempts, storage, users, choices, page, visit, busy, fails>>
      /\ rows' = [rows EXCEPT ![old.target] = Changed(old)]
      /\ held' = [held EXCEPT ![old.target] = @ \cup {Changed(old).role}]
      /\ calls' = [calls EXCEPT ![n].at = "written"]
  BY <1>1 DEF ServerWrites, screen, profile
<1>3. /\ old.copy \in Row /\ old.target \in Users /\ Changed(old) \in Row /\ Changed(old) # None
      /\ Changed(old).role \in Roles /\ (old.op = "role" => Changed(old).role = old.role)
  <2>1. old.copy \in Row /\ old.target \in Users /\ (old.op = "role" => old.role \in Roles)
    BY <1>1 DEF CallOK, Call, Roles
  <2>2. Changed(old) \in Row /\ (old.op = "role" => Changed(old).role = old.role)
    BY <2>1 DEF Changed, Row
  <2> QED BY <2>1, <2>2, NoneAssumption DEF Row
<1> DEFINE new == Changed(old)
<1> HIDE DEF new
<1>4. ServerType' /\ RowsOK' /\ Grows
  <2>1. ServerType' /\ Grows
    BY <1>2, <1>3 DEF IInv, ServerType, Grows, Exists
  <2>2. RowsOK'
    BY <1>2, <1>3 DEF IInv, RowsOK, ServerType, Exists
  <2> QED BY <2>1, <2>2
<1>5. PICK c \in Call : /\ calls' = [calls EXCEPT ![n] = c] /\ c.at = "written"
                       /\ c.target = old.target /\ c.op = old.op /\ c.role = old.role
  <2>1. [old EXCEPT !.at = "written"] \in Call
    BY <1>1 DEF Call
  <2> QED BY <1>1, <1>2, <2>1 DEF Call
<1>6. CallOK(c)'
  BY <1>1, <1>2, <1>3, <1>4, <1>5 DEF CallOK, Grows, IInv, ServerType
<1>7. QueuesOK' /\ RequestsOK' /\ Len(calls') = Len(calls)
  BY <1>2, <1>4, <1>5, <1>6, CallMoves DEF IInv
<1>8. ScreenType' /\ BoundsType'
  BY <1>2, <1>7 DEF IInv, ScreenType, BoundsType
<1> QED BY <1>2, <1>4, <1>7, <1>8, IdentityStays, ShownStays DEF IInv

\* The answer: the row of the page gets a role that the server has stored.
LEMMA CallAnsweredKeeps ==
  ASSUME IInv, NEW n \in DOMAIN calls, CallAnswered(n)
  PROVE  IInv'
<1>1. PICK old \in Call : old = calls[n] /\ CallOK(old)
  BY DEF IInv, QueuesOK, RequestsOK
<1>2. UNCHANGED <<attempts, storage, page, visit, busy, fails>> /\ UNCHANGED server
      /\ calls' = [calls EXCEPT ![n].at = "settled"]
  BY DEF CallAnswered, screen
<1>3. Grows /\ RowsOK' /\ ServerType'
  BY <1>2, SameServerGrows DEF IInv, RowsOK, ServerType, Exists, server
<1>4. PICK c \in Call : /\ calls' = [calls EXCEPT ![n] = c] /\ c.at = "settled"
                       /\ c.target = old.target /\ c.op = old.op /\ c.role = old.role
  <2>1. [old EXCEPT !.at = "settled"] \in Call
    BY <1>1 DEF Call
  <2> QED BY <1>1, <1>2, <2>1 DEF Call
<1>5. CallOK(c)'
  BY <1>1, <1>2, <1>4 DEF CallOK, Exists, server
<1>6. QueuesOK' /\ RequestsOK' /\ Len(calls') = Len(calls)
  BY <1>2, <1>3, <1>4, <1>5, CallMoves DEF IInv
<1>7. ScreenType' /\ ShownRolesWereStored'
  <2>1. CASE UNCHANGED profile
    BY <1>2, <2>1 DEF IInv, ScreenType, ShownRolesWereStored, profile, server
  <2>2. CASE /\ old.op = "role" /\ old.at = "written"
             /\ users' = [users EXCEPT !.rows[old.target] = old.role]
             /\ choices' = [choices EXCEPT ![old.target] = None]
    <3>1. old.target \in Users /\ old.role \in Roles /\ old.role \in held[old.target]
      BY <1>1, <2>2 DEF CallOK, Call, Roles
    <3>2. users \in [at : {"idle", "asked", "answered", "shown"}, rows : [Users -> Roles \cup {None}]]
          /\ choices \in [Users -> Offered \cup {None}]
      BY DEF IInv, ScreenType
    <3>3. users' \in [at : {"idle", "asked", "answered", "shown"}, rows : [Users -> Roles \cup {None}]]
      BY <2>2, <3>1, <3>2
    <3>4. choices' \in [Users -> Offered \cup {None}]
      BY <2>2, <3>1, <3>2
    <3>5. users'.rows = [users.rows EXCEPT ![old.target] = old.role]
      BY <2>2, <3>2
    <3> QED BY <1>2, <3>1, <3>2, <3>3, <3>4, <3>5
        DEF IInv, ScreenType, ShownRolesWereStored, server
  <2> QED BY <1>1, <2>1, <2>2 DEF CallAnswered, RoleToShow
<1>8. BoundsType'
  BY <1>2, <1>6 DEF IInv, BoundsType
<1> QED BY <1>2, <1>3, <1>6, <1>7, <1>8, IdentityStays DEF IInv

LEMMA NextIInv == IInv /\ [Next]_vars => IInv'
<1> SUFFICES ASSUME IInv, [Next]_vars PROVE IInv'
  OBVIOUS
<1>1. CASE LogOut \/ ServerListsUsers \/ UsersArrive \/ UsersLost \/ ChangePassword
  BY <1>1, LogOutKeeps, ProfileKeeps, SendKeeps
<1>2. CASE \E p \in {"login", "register", "dashboard", "profile"} : Navigate(p)
  BY <1>2, NavigateKeeps
<1>3. CASE \E via \in {"login", "register"}, u \in Users : Submit(via, u)
  BY <1>3, SubmitKeeps
<1>4. CASE \E u \in Users : HandleRoleSave(u) \/ \E r \in Offered : ChooseRole(u, r)
  BY <1>4, SendKeeps, ProfileKeeps DEF HandleRoleSaves
<1>5. CASE \E n \in DOMAIN attempts :
             ServerAdmits(n) \/ ServerRefuses(n) \/ AttemptLost(n) \/ Admitted(n) \/ Refused(n)
  BY <1>5, AttemptKeeps, SettledKeeps
<1>6. CASE \E n \in DOMAIN calls :
             ServerReads(n) \/ ServerWrites(n) \/ CallLost(n) \/ CallAnswered(n)
  BY <1>6, CallKeeps, ServerWritesKeeps, CallAnsweredKeeps
<1>7. CASE UNCHANGED vars
  <2>1. UNCHANGED <<attempts, calls, storage, users, choices, page, visit, busy, fails>>
        /\ UNCHANGED server
    BY <1>7 DEF vars, screen, profile
  <2>2. ScreenType' /\ fails' \in 0..MaxFails
    BY <2>1 DEF IInv, ScreenType, BoundsType
  <2> QED BY <2>1, <2>2, ScreenStep
<1> QED BY <1>1, <1>2, <1>3, <1>4, <1>5, <1>6, <1>7 DEF Next

LEMMA Invariance == Spec => []IInv
BY InitIInv, NextIInv, PTL DEF Spec

\* Types are right for every set of users.
THEOREM TypeCorrect == Spec => []TypeOK
<1>1. IInv => TypeOK
  BY TypeParts DEF IInv
<1> QED BY <1>1, Invariance, PTL

\* The page of profiles shows only roles that the server once stored for the user.
THEOREM ShownRolesAreReal == Spec => []ShownRolesWereStored
<1>1. IInv => ShownRolesWereStored
  BY DEF IInv
<1> QED BY <1>1, Invariance, PTL
===============================================================================
