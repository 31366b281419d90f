----------------------------- MODULE ProofLemmas -----------------------------
(***************************************************************************)
(* Facts about natural numbers, sequences, finite sets and sums over them  *)
(* that the proofs about several components cite.                          *)
(***************************************************************************)
EXTENDS Naturals, Sequences, FiniteSets, Functions, FiniteSetTheorems,
        SequenceTheorems, TLAPS

\* The least-number principle for a set, from the well-foundedness of strict
\* inclusion on finite sets: n stands for 1 .. n.
LEMMA LeastNumber ==
    ASSUME NEW S \in SUBSET Nat, S # {}
    PROVE  \E n \in S : \A m \in S : n <= m
<1> DEFINE T == {1 .. n : n \in S}
<1>1. T \subseteq FiniteSubsetsOf(Nat) /\ T # {}
  <2>1. ASSUME NEW n \in S PROVE 1 .. n \in FiniteSubsetsOf(Nat)
    <3>1. IsFiniteSet(1 .. n)
      BY FS_Interval
    <3>2. 1 .. n \in SUBSET Nat
      OBVIOUS
    <3> QED BY <3>1, <3>2 DEF FiniteSubsetsOf
  <2> QED BY <2>1
<1>2. IsWellFoundedOn(StrictSubsetOrdering(Nat), FiniteSubsetsOf(Nat))
  BY FS_StrictSubsetOrderingWellFounded
<1>3. PICK x \in T : \A y \in T : ~(<<y, x>> \in StrictSubsetOrdering(Nat))
  <2> HIDE DEF T
  <2> QED BY <1>1, <1>2, WFMin
<1>4. PICK n \in S : x = 1 .. n
  OBVIOUS
<1>5. ASSUME NEW m \in S, m < n PROVE FALSE
  <2>1. 1 .. m \subseteq 1 .. n /\ n \in 1 .. n /\ n \notin 1 .. m
    BY <1>5
  <2>2. <<1 .. m, 1 .. n>> \in StrictSubsetOrdering(Nat)
    BY <2>1 DEF StrictSubsetOrdering
  <2> QED BY <1>3, <1>4, <2>2
<1> QED BY <1>5

-----------------------------------------------------------------------------
\* A sequence of one or no element and another one.
LEMMA OneAndOne ==
    ASSUME NEW a, NEW b
    PROVE  Append(<<a>>, b) = <<a, b>> /\ <<a>> \o <<b>> = <<a, b>> /\ Append(<<>>, b) = <<b>>
<1>1. <<a>> \in Seq({a, b}) /\ <<b>> \in Seq({a, b}) /\ <<a, b>> \in Seq({a, b})
  OBVIOUS
<1>2. /\ Len(<<a>>) = 1 /\ <<a>>[1] = a /\ Len(<<b>>) = 1 /\ <<b>>[1] = b
      /\ Len(<<a, b>>) = 2 /\ <<a, b>>[1] = a /\ <<a, b>>[2] = b
  OBVIOUS
<1>3. /\ Append(<<a>>, b) \in Seq({a, b}) /\ Len(Append(<<a>>, b)) = 2
      /\ Append(<<a>>, b)[1] = a /\ Append(<<a>>, b)[2] = b
  BY <1>1, <1>2
<1>4. Append(<<a>>, b) = <<a, b>>
  <2>1. \A i \in 1 .. 2 : Append(<<a>>, b)[i] = <<a, b>>[i]
    BY <1>2, <1>3
  <2> QED BY <1>1, <1>2, <1>3, <2>1, SeqEqual
<1>5. /\ <<a>> \o <<b>> \in Seq({a, b}) /\ Len(<<a>> \o <<b>>) = 2
      /\ (<<a>> \o <<b>>)[1] = a /\ (<<a>> \o <<b>>)[2] = b
  BY <1>1, <1>2, ConcatProperties
<1>6. <<a>> \o <<b>> = <<a, b>>
  <2>1. \A i \in 1 .. 2 : (<<a>> \o <<b>>)[i] = <<a, b>>[i]
    BY <1>2, <1>5
  <2> QED BY <1>1, <1>2, <1>5, <2>1, SeqEqual
<1>7. Append(<<>>, b) = <<b>>
  <2>1. Append(<<>>, b) \in Seq({b}) /\ <<b>> \in Seq({b}) /\ Len(Append(<<>>, b)) = 1
        /\ Append(<<>>, b)[1] = b /\ Len(<<b>>) = 1 /\ <<b>>[1] = b
    OBVIOUS
  <2>2. \A i \in 1 .. 1 : Append(<<>>, b)[i] = <<b>>[i]
    BY <2>1
  <2> QED BY <2>1, <2>2, SeqEqual
<1> QED BY <1>4, <1>6, <1>7

-----------------------------------------------------------------------------
(* Sums.  SumFunctionOnSet(g, S) adds g over S one chosen element at a     *)
(* time, by a recursive function on the subsets of S.                      *)

AnyOf(s) == CHOOSE x \in s : TRUE
Others(s) == s \ {AnyOf(s)}

\* it sums g over the sets of T.
Sums(g, T, it) == it = [s \in T |-> IF s = {} THEN 0 ELSE g[AnyOf(s)] + it[Others(s)]]

\* Of a set of finite sets one has none of the others inside.
LEMMA LeastSet ==
    ASSUME NEW S, IsFiniteSet(S), NEW T \in SUBSET (SUBSET S), T # {}
    PROVE  \E s \in T : \A t \in T : t \subseteq s => t = s
<1>1. T \subseteq FiniteSubsetsOf(S)
  BY FS_Subset DEF FiniteSubsetsOf
<1>2. IsWellFoundedOn(StrictSubsetOrdering(S), FiniteSubsetsOf(S))
  BY FS_StrictSubsetOrderingWellFounded
<1>3. PICK s \in T : \A t \in T : ~(<<t, s>> \in StrictSubsetOrdering(S))
  BY <1>1, <1>2, WFMin
<1>4. ASSUME NEW t \in T, t \subseteq s PROVE t = s
  <2>1. t # s => <<t, s>> \in StrictSubsetOrdering(S)
    BY <1>4 DEF StrictSubsetOrdering
  <2> QED BY <1>3, <2>1
<1> QED BY <1>4

\* Without one of its elements a set is one smaller.
LEMMA OneLess ==
    ASSUME NEW s, IsFiniteSet(s), s # {}
    PROVE  /\ AnyOf(s) \in s /\ IsFiniteSet(Others(s))
           /\ Cardinality(s) \in Nat /\ Cardinality(Others(s)) \in Nat
           /\ Cardinality(s) = Cardinality(Others(s)) + 1
<1>1. AnyOf(s) \in s
  BY DEF AnyOf
<1>2. /\ IsFiniteSet(Others(s)) /\ Cardinality(Others(s)) = Cardinality(s) - 1
  BY <1>1, FS_RemoveElement DEF Others
<1>3. Cardinality(s) \in Nat /\ Cardinality(Others(s)) \in Nat
  BY <1>2, FS_CardinalityType
<1> QED BY <1>1, <1>2, <1>3

\* The recursive function exists.
LEMMA SumExists ==
    ASSUME NEW S, IsFiniteSet(S), NEW g
    PROVE  \E it : Sums(g, SUBSET S, it)
<1> DEFINE Small(n) == {s \in SUBSET S : Cardinality(s) <= n}
           Bad == {n \in Nat : ~\E it : Sums(g, Small(n), it)}
<1>0. \A s \in SUBSET S : IsFiniteSet(s) /\ Cardinality(s) \in Nat
  BY FS_Subset, FS_CardinalityType
<1>1. Bad = {}
  <2> SUFFICES ASSUME Bad # {} PROVE FALSE
    OBVIOUS
  <2>1. PICK n \in Bad : \A m \in Bad : n <= m
    <3>1. Bad \in SUBSET Nat
      OBVIOUS
    <3> HIDE DEF Bad
    <3> QED BY <3>1, LeastNumber
  <2>2. CASE n = 0
    <3>1. \A s \in Small(0) : s = {}
      BY <1>0, FS_EmptySet
    <3> DEFINE it == [s \in Small(0) |-> 0]
    <3>2. Sums(g, Small(0), it)
      BY <3>1 DEF Sums
    <3> QED BY <2>1, <2>2, <3>2
  <2>3. CASE n # 0
    <3>1. n - 1 \in Nat /\ n - 1 \notin Bad
      <4>1. n \in Nat
        OBVIOUS
      <4> HIDE DEF Bad
      <4> QED BY <2>1, <2>3, <4>1
    <3>2. PICK it : Sums(g, Small(n - 1), it)
      BY <3>1
    <3> DEFINE more == [s \in Small(n) |-> IF s = {} THEN 0 ELSE g[AnyOf(s)] + it[Others(s)]]
    <3>3. ASSUME NEW s \in Small(n), s # {} PROVE more[Others(s)] = it[Others(s)]
      <4>1. IsFiniteSet(s) /\ s \in SUBSET S /\ Cardinality(s) <= n
        BY <1>0
      <4>2. Cardinality(s) = Cardinality(Others(s)) + 1 /\ Cardinality(Others(s)) \in Nat
        BY <3>3, <4>1, OneLess
      <4>3. Others(s) \in SUBSET S
        BY <4>1 DEF Others
      <4>4. Others(s) \in Small(n - 1) /\ Others(s) \in Small(n)
        BY <2>1, <4>1, <4>2, <4>3
      <4> HIDE DEF Small
      <4> QED BY <3>2, <4>4 DEF Sums
    <3>4. Sums(g, Small(n), more)
      <4> HIDE DEF Small
      <4>1. \A s \in Small(n) : (IF s = {} THEN 0 ELSE g[AnyOf(s)] + it[Others(s)])
                                = (IF s = {} THEN 0 ELSE g[AnyOf(s)] + more[Others(s)])
        BY <3>3
      <4> QED BY <4>1 DEF Sums
    <3> QED BY <2>1, <3>4
  <2> QED BY <2>2, <2>3
<1>2. Cardinality(S) \in Nat /\ Small(Cardinality(S)) = SUBSET S
  <2>1. \A s \in SUBSET S : Cardinality(s) <= Cardinality(S)
    BY FS_Subset
  <2> QED BY <1>0, <2>1
<1> QED BY <1>1, <1>2

\* A sum is the value of a function that sums the subsets.
SumsUp(g, S, it) ==
    /\ \A s \in SUBSET S : it[s] = IF s = {} THEN 0 ELSE g[AnyOf(s)] + it[Others(s)]
    /\ SumFunctionOnSet(g, S) = it[S]

LEMMA SumIsSums ==
    ASSUME NEW S, IsFiniteSet(S), NEW g
    PROVE  \E it : SumsUp(g, S, it)
<1> DEFINE it == CHOOSE f : Sums(g, SUBSET S, f)
<1>1. Sums(g, SUBSET S, it)
  BY SumExists
<1>2. SumFunctionOnSet(g, S) = it[S]
  BY DEF SumFunctionOnSet, FoldFunctionOnSet, MapThenFoldSet, Sums, AnyOf, Others
<1>3. \A s \in SUBSET S : it[s] = IF s = {} THEN 0 ELSE g[AnyOf(s)] + it[Others(s)]
  <2> HIDE DEF it
  <2> QED BY <1>1 DEF Sums
<1> QED BY <1>2, <1>3 DEF SumsUp

\* Sums of natural numbers are natural numbers, and follow a bound on theirs.
LEMMA SumMonotone ==
    ASSUME NEW S, IsFiniteSet(S), NEW g \in [S -> Nat], NEW h \in [S -> Nat],
           \A c \in S : g[c] <= h[c]
    PROVE  /\ SumFunctionOnSet(g, S) \in Nat /\ SumFunctionOnSet(h, S) \in Nat
           /\ SumFunctionOnSet(g, S) <= SumFunctionOnSet(h, S)
<1>1. PICK f : SumsUp(g, S, f)
  BY SumIsSums
<1>2. PICK k : SumsUp(h, S, k)
  BY SumIsSums
<1> DEFINE Bad == {s \in SUBSET S : ~(f[s] \in Nat /\ k[s] \in Nat /\ f[s] <= k[s])}
<1> SUFFICES ASSUME Bad # {} PROVE FALSE
  BY <1>1, <1>2 DEF SumsUp
<1>3. PICK s \in Bad : \A t \in Bad : t \subseteq s => t = s
  <2> HIDE DEF Bad
  <2>1. Bad \in SUBSET (SUBSET S)
    BY DEF Bad
  <2> QED BY <2>1, LeastSet
<1>4. /\ f[s] = IF s = {} THEN 0 ELSE g[AnyOf(s)] + f[Others(s)]
      /\ k[s] = IF s = {} THEN 0 ELSE h[AnyOf(s)] + k[Others(s)]
  <2>1. f[s] = IF s = {} THEN 0 ELSE g[AnyOf(s)] + f[Others(s)]
    BY <1>1 DEF SumsUp
  <2>2. k[s] = IF s = {} THEN 0 ELSE h[AnyOf(s)] + k[Others(s)]
    BY <1>2 DEF SumsUp
  <2> QED BY <2>1, <2>2
<1>5. s # {}
  BY <1>4
<1>6. AnyOf(s) \in S /\ Others(s) \subseteq s /\ Others(s) # s
  BY <1>5 DEF AnyOf, Others
<1>7. f[Others(s)] \in Nat /\ k[Others(s)] \in Nat /\ f[Others(s)] <= k[Others(s)]
  BY <1>3, <1>6
<1>8. g[AnyOf(s)] \in Nat /\ h[AnyOf(s)] \in Nat /\ g[AnyOf(s)] <= h[AnyOf(s)]
  BY <1>6
<1>9. f[s] \in Nat /\ k[s] \in Nat /\ f[s] <= k[s]
  BY <1>4, <1>5, <1>7, <1>8
<1> QED BY <1>9

\* When one number changes the sum changes by as much.
LEMMA SumMoves ==
    ASSUME NEW S, IsFiniteSet(S), NEW g \in [S -> Nat], NEW h \in [S -> Nat], NEW c \in S,
           \A d \in S \ {c} : h[d] = g[d]
    PROVE  /\ SumFunctionOnSet(g, S) \in Nat /\ SumFunctionOnSet(h, S) \in Nat
           /\ SumFunctionOnSet(h, S) + g[c] = SumFunctionOnSet(g, S) + h[c]
<1>1. PICK f : SumsUp(g, S, f)
  BY SumIsSums
<1>2. PICK k : SumsUp(h, S, k)
  BY SumIsSums
<1> DEFINE Moved(s) == /\ f[s] \in Nat /\ k[s] \in Nat
                       /\ c \in s => k[s] + g[c] = f[s] + h[c]
                       /\ c \notin s => k[s] = f[s]
           Bad == {s \in SUBSET S : ~Moved(s)}
<1> SUFFICES ASSUME Bad # {} PROVE FALSE
  BY <1>1, <1>2 DEF SumsUp
<1>3. PICK s \in Bad : \A t \in Bad : t \subseteq s => t = s
  <2> HIDE DEF Bad
  <2>1. Bad \in SUBSET (SUBSET S)
    BY DEF Bad
  <2> QED BY <2>1, LeastSet
<1>4. /\ f[s] = IF s = {} THEN 0 ELSE g[AnyOf(s)] + f[Others(s)]
      /\ k[s] = IF s = {} THEN 0 ELSE h[AnyOf(s)] + k[Others(s)]
  <2>1. f[s] = IF s = {} THEN 0 ELSE g[AnyOf(s)] + f[Others(s)]
    BY <1>1 DEF SumsUp
  <2>2. k[s] = IF s = {} THEN 0 ELSE h[AnyOf(s)] + k[Others(s)]
    BY <1>2 DEF SumsUp
  <2> QED BY <2>1, <2>2
<1>5. s # {}
  BY <1>4
<1>6. AnyOf(s) \in S /\ AnyOf(s) \in s /\ Others(s) \subseteq s /\ Others(s) # s
  BY <1>5 DEF AnyOf, Others
<1>7. Moved(Others(s))
  BY <1>3, <1>6
<1>8. g[AnyOf(s)] \in Nat /\ h[AnyOf(s)] \in Nat /\ g[c] \in Nat /\ h[c] \in Nat
  BY <1>6
<1>9. CASE AnyOf(s) = c
  <2>1. c \in s /\ c \notin Others(s)
    BY <1>6, <1>9 DEF Others
  <2>2. k[Others(s)] = f[Others(s)] /\ f[Others(s)] \in Nat
    BY <1>7, <2>1
  <2>3. f[s] = g[c] + f[Others(s)] /\ k[s] = h[c] + f[Others(s)]
    BY <1>4, <1>5, <1>9, <2>2
  <2>4. Moved(s)
    BY <1>8, <2>1, <2>2, <2>3
  <2> QED BY <2>4
<1>10. CASE AnyOf(s) # c
  <2>1. h[AnyOf(s)] = g[AnyOf(s)] /\ (c \in s <=> c \in Others(s))
    BY <1>6, <1>10 DEF Others
  <2>2. f[s] = g[AnyOf(s)] + f[Others(s)] /\ k[s] = g[AnyOf(s)] + k[Others(s)]
    BY <1>4, <1>5, <2>1
  <2>3. Moved(s)
    BY <1>7, <1>8, <2>1, <2>2
  <2> QED BY <2>3
<1> QED BY <1>9, <1>10

\* n numbers that are no greater than b add up to no more than n times b.
LEMMA SumBound ==
    ASSUME NEW S, IsFiniteSet(S), NEW b \in Nat, NEW g \in [S -> 0 .. b]
    PROVE  SumFunctionOnSet(g, S) \in Nat /\ SumFunctionOnSet(g, S) <= Cardinality(S) * b
<1>1. PICK f : SumsUp(g, S, f)
  BY SumIsSums
<1> DEFINE Bad == {s \in SUBSET S : ~(f[s] \in Nat /\ f[s] <= Cardinality(s) * b)}
<1> SUFFICES ASSUME Bad # {} PROVE FALSE
  BY <1>1 DEF SumsUp
<1>3. PICK s \in Bad : \A t \in Bad : t \subseteq s => t = s
  <2> HIDE DEF Bad
  <2>1. Bad \in SUBSET (SUBSET S)
    BY DEF Bad
  <2> QED BY <2>1, LeastSet
<1>4. f[s] = IF s = {} THEN 0 ELSE g[AnyOf(s)] + f[Others(s)]
  BY <1>1 DEF SumsUp
<1>5. s # {}
  <2>1. Cardinality({}) * b = 0
    BY FS_EmptySet
  <2> QED BY <1>4, <2>1
<1>6. AnyOf(s) \in S /\ Others(s) \subseteq s /\ Others(s) # s /\ IsFiniteSet(s)
  BY <1>5, FS_Subset DEF AnyOf, Others
<1>7. f[Others(s)] \in Nat /\ f[Others(s)] <= Cardinality(Others(s)) * b
  BY <1>3, <1>6
<1>8. g[AnyOf(s)] \in 0 .. b
  BY <1>6
<1>9. /\ Cardinality(s) = Cardinality(Others(s)) + 1 /\ Cardinality(Others(s)) \in Nat
  BY <1>5, <1>6, OneLess
<1>10. Cardinality(s) * b = Cardinality(Others(s)) * b + b /\ Cardinality(Others(s)) * b \in Nat
  <2> DEFINE n == Cardinality(Others(s))
  <2>1. n \in Nat /\ Cardinality(s) = n + 1
    BY <1>9
  <2> HIDE DEF n
  <2>2. (n + 1) * b = n * b + b /\ n * b \in Nat
    BY <2>1
  <2> QED BY <2>1, <2>2 DEF n
<1> DEFINE m == Cardinality(Others(s)) * b
<1>11. f[s] \in Nat /\ f[s] <= m + b
  <2>1. m \in Nat /\ f[Others(s)] <= m
    BY <1>7, <1>10
  <2> HIDE DEF m
  <2> QED BY <1>4, <1>5, <1>7, <1>8, <2>1
<1> QED BY <1>10, <1>11
-----------------------------------------------------------------------------
(* Lists: sequences whose elements need no type. *)

IsList(ms) == Len(ms) \in Nat /\ ms = [i \in 1 .. Len(ms) |-> ms[i]]
Indices(ms) == 1 .. Len(ms)

LEMMA ListIsSeq ==
    ASSUME NEW ms
    PROVE  /\ IsList(ms) => ms \in Seq(Range(ms)) /\ DOMAIN ms = Indices(ms)
           /\ \A S : ms \in Seq(S) => IsList(ms) /\ \A i \in Indices(ms) : ms[i] \in S
<1>1. ASSUME IsList(ms) PROVE ms \in Seq(Range(ms)) /\ DOMAIN ms = Indices(ms)
  <2>1. DOMAIN ms = 1 .. Len(ms)
    BY <1>1 DEF IsList
  <2>2. \A i \in 1 .. Len(ms) : ms[i] \in Range(ms)
    BY <2>1 DEF Range
  <2>3. Len(ms) \in Nat /\ ms = [i \in 1 .. Len(ms) |-> ms[i]]
    BY <1>1 DEF IsList
  <2>4. ms \in [1 .. Len(ms) -> Range(ms)]
    BY <2>2, <2>3
  <2>5. ms \in Seq(Range(ms))
    BY <2>3, <2>4, SeqDef
  <2> QED BY <2>1, <2>5 DEF Indices
<1>2. ASSUME NEW S, ms \in Seq(S) PROVE IsList(ms) /\ \A i \in Indices(ms) : ms[i] \in S
  BY <1>2, LenProperties DEF IsList, Indices
<1> QED BY <1>1, <1>2

LEMMA AppendList ==
    ASSUME NEW ms, IsList(ms), NEW x
    PROVE  /\ IsList(Append(ms, x)) /\ Len(Append(ms, x)) = Len(ms) + 1
           /\ \A i \in Indices(ms) : Append(ms, x)[i] = ms[i]
           /\ Append(ms, x)[Len(ms) + 1] = x
<1> DEFINE S == Range(ms) \cup {x}
<1>1. ms \in Seq(S)
  <2>1. ms \in Seq(Range(ms))
    BY ListIsSeq
  <2>2. ms \in [1 .. Len(ms) -> S] /\ Len(ms) \in Nat
    BY <2>1, LenProperties
  <2> HIDE DEF S
  <2> QED BY <2>2, SeqDef
<1>2. x \in S
  OBVIOUS
<1> HIDE DEF S
<1>3. /\ Append(ms, x) \in Seq(S) /\ Len(Append(ms, x)) = Len(ms) + 1
      /\ \A i \in 1 .. Len(ms) : Append(ms, x)[i] = ms[i]
      /\ Append(ms, x)[Len(ms) + 1] = x
  BY <1>1, <1>2, AppendProperties
<1>4. IsList(Append(ms, x))
  BY <1>3, ListIsSeq
<1> QED BY <1>3, <1>4 DEF Indices

LEMMA SubList ==
    ASSUME NEW ms, IsList(ms), NEW a \in Nat \ {0}, NEW b \in Nat, a <= b + 1, b <= Len(ms)
    PROVE  /\ IsList(SubSeq(ms, a, b)) /\ Len(SubSeq(ms, a, b)) = b - a + 1
           /\ \A i \in 1 .. b - a + 1 : SubSeq(ms, a, b)[i] = ms[a + i - 1]
<1>1. ms \in Seq(Range(ms)) /\ Len(ms) \in Nat /\ \A i \in 1 .. Len(ms) : ms[i] \in Range(ms)
  BY ListIsSeq DEF Indices, IsList
<1>2. \A i \in a .. b : ms[i] \in Range(ms)
  <2>1. \A i \in a .. b : i \in 1 .. Len(ms)
    BY <1>1
  <2> QED BY <1>1, <2>1
<1>3. /\ SubSeq(ms, a, b) \in Seq(Range(ms))
      /\ Len(SubSeq(ms, a, b)) = IF a <= b THEN b - a + 1 ELSE 0
      /\ \A i \in 1 .. b - a + 1 : SubSeq(ms, a, b)[i] = ms[a + i - 1]
  BY <1>1, <1>2, SubSeqProperties
<1>4. (IF a <= b THEN b - a + 1 ELSE 0) = b - a + 1
  OBVIOUS
<1>5. IsList(SubSeq(ms, a, b))
  BY <1>3, ListIsSeq
<1> QED BY <1>3, <1>4, <1>5

LEMMA AfterOne ==
    ASSUME NEW x, NEW ms, IsList(ms)
    PROVE  /\ IsList(<<x>> \o ms) /\ Len(<<x>> \o ms) = Len(ms) + 1
           /\ (<<x>> \o ms)[1] = x
           /\ \A i \in Indices(ms) : (<<x>> \o ms)[i + 1] = ms[i]
<1> DEFINE S == Range(ms) \cup {x}
<1>1. ms \in Seq(S)
  <2>1. ms \in Seq(Range(ms))
    BY ListIsSeq
  <2>2. ms \in [1 .. Len(ms) -> S] /\ Len(ms) \in Nat
    BY <2>1, LenProperties
  <2> HIDE DEF S
  <2> QED BY <2>2, SeqDef
<1>2. <<x>> \in Seq(S) /\ Len(<<x>>) = 1 /\ <<x>>[1] = x
  OBVIOUS
<1> HIDE DEF S
<1>3. Len(ms) \in Nat
  BY DEF IsList
<1> DEFINE q == <<x>> \o ms
<1>4. /\ q \in Seq(S) /\ Len(q) = 1 + Len(ms)
      /\ \A i \in 1 .. 1 + Len(ms) : q[i] = IF i <= 1 THEN <<x>>[i] ELSE ms[i - 1]
  BY <1>1, <1>2, ConcatProperties
<1> HIDE DEF q
<1>5. q[1] = x /\ \A i \in 1 .. Len(ms) : q[i + 1] = ms[i]
  <2>1. q[1] = x
    BY <1>2, <1>3, <1>4
  <2>2. ASSUME NEW i \in 1 .. Len(ms) PROVE q[i + 1] = ms[i]
    <3>1. i + 1 \in 1 .. 1 + Len(ms) /\ ~(i + 1 <= 1) /\ i + 1 - 1 = i
      BY <1>3
    <3> QED BY <1>4, <3>1
  <2> QED BY <2>1, <2>2
<1>6. IsList(q)
  BY <1>4, ListIsSeq
<1> QED BY <1>3, <1>4, <1>5, <1>6 DEF q, Indices

-----------------------------------------------------------------------------
(* Intervals, and recursive functions over them. *)

\* Induction over an interval: P is the set of the numbers for which it is shown.
LEMMA Climb ==
    ASSUME NEW a \in Int, NEW n \in Int, NEW P, a \in P,
           \A i \in a + 1 .. n : i - 1 \in P => i \in P
    PROVE  a .. n \subseteq P
<1> DEFINE Bad == {k \in Nat : a + k <= n /\ a + k \notin P}
<1> SUFFICES ASSUME Bad # {} PROVE FALSE
  <2>1. ASSUME NEW i \in a .. n, i \notin P PROVE Bad # {}
    <3>1. i - a \in Nat /\ a + (i - a) = i /\ a + (i - a) <= n
      OBVIOUS
    <3>2. i - a \in Bad
      BY <2>1, <3>1
    <3> QED BY <3>2
  <2> QED BY <2>1
<1>1. PICK k \in Bad : \A m \in Bad : k <= m
  <2>1. Bad \in SUBSET Nat
    OBVIOUS
  <2> HIDE DEF Bad
  <2> QED BY <2>1, LeastNumber
<1>2. k \in Nat /\ a + k <= n /\ a + k \notin P /\ k # 0
  <2>1. k \in Nat /\ a + k <= n /\ a + k \notin P
    BY <1>1
  <2>2. k = 0 => a + k = a
    OBVIOUS
  <2> QED BY <2>1, <2>2
<1>3. k - 1 \in Nat /\ a + (k - 1) = (a + k) - 1 /\ a + k \in a + 1 .. n
  BY <1>2
<1>4. (a + k) - 1 \in P
  <2>1. k - 1 \notin Bad
    <3> HIDE DEF Bad
    <3> QED BY <1>1, <1>2, <1>3
  <2> QED BY <1>2, <1>3, <2>1
<1> QED BY <1>2, <1>3, <1>4

\* A recursive function over an interval exists.
Iterates(a, n, x, g, f) == f = [i \in a .. n |-> IF i = a THEN x ELSE g[<<i, f[i - 1]>>]]

LEMMA Iterating ==
    ASSUME NEW S, NEW a \in Int, NEW n \in Int, a <= n, NEW x \in S, NEW g \in [(a + 1 .. n) \X S -> S]
    PROVE  \E f \in [a .. n -> S] : Iterates(a, n, x, g, f)
<1> DEFINE P == {m \in Int : m \in a .. n => \E f \in [a .. m -> S] : Iterates(a, m, x, g, f)}
<1>1. a \in P
  <2> DEFINE f == [i \in a .. a |-> x]
  <2>1. f \in [a .. a -> S] /\ Iterates(a, a, x, g, f)
    BY DEF Iterates
  <2> QED BY <2>1
<1>2. ASSUME NEW m \in a + 1 .. n, m - 1 \in P PROVE m \in P
  <2>1. PICK f \in [a .. m - 1 -> S] : Iterates(a, m - 1, x, g, f)
    BY <1>2
  <2> DEFINE h == [i \in a .. m |-> IF i = m THEN g[<<m, f[m - 1]>>] ELSE f[i]]
  <2>2. g[<<m, f[m - 1]>>] \in S
    BY <2>1
  <2>3. h \in [a .. m -> S]
    BY <2>2
  <2>4. \A i \in a .. m - 1 : f[i] = IF i = a THEN x ELSE g[<<i, f[i - 1]>>]
    BY <2>1 DEF Iterates
  <2>5. \A i \in a .. m : h[i] = IF i = a THEN x ELSE g[<<i, h[i - 1]>>]
    <3> SUFFICES ASSUME NEW i \in a .. m PROVE h[i] = IF i = a THEN x ELSE g[<<i, h[i - 1]>>]
      OBVIOUS
    <3>1. i # a => i - 1 \in a .. m - 1 /\ h[i - 1] = f[i - 1]
      OBVIOUS
    <3>2. CASE i = m
      <4>1. m # a /\ h[m] = g[<<m, f[m - 1]>>] /\ h[m - 1] = f[m - 1]
        BY <3>1, <3>2
      <4> HIDE DEF h
      <4> QED BY <3>2, <4>1
    <3>3. CASE i # m
      <4>1. i \in a .. m - 1 /\ h[i] = f[i]
        BY <3>3
      <4> HIDE DEF h
      <4> QED BY <2>4, <3>1, <4>1
    <3> QED BY <3>2, <3>3
  <2>6. Iterates(a, m, x, g, h)
    <3>1. h = [i \in a .. m |-> h[i]]
      BY <2>3
    <3> HIDE DEF h
    <3> QED BY <2>5, <3>1 DEF Iterates
  <2> HIDE DEF h
  <2>7. \E k \in [a .. m -> S] : Iterates(a, m, x, g, k)
    BY <2>3, <2>6
  <2> QED BY <2>7
<1>3. a .. n \subseteq P
  <2> HIDE DEF P
  <2> QED BY <1>1, <1>2, Climb
<1> QED BY <1>3
=============================================================================
