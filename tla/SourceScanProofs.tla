--------------------------- MODULE SourceScanProofs ---------------------------
(***************************************************************************)
(* Theorems of SourceScan for any tree, plan, contents and limits, while   *)
(* anybody may edit the tree.                                              *)
(*                                                                         *)
(* The folds and the graph search are recursive functions.  What they come *)
(* to is shown by a least counterexample: were there a finite set on which *)
(* the claim fails, there would be one with no smaller such set inside it. *)
(***************************************************************************)
EXTENDS SourceScan, FiniteSetTheorems, SequenceTheorems, WellFoundedInduction, TLAPS

-----------------------------------------------------------------------------
(* Induction over finite sets, as least counterexamples                    *)

\* Among subsets of a finite set some contains no other.
LEMMA SmallestSet ==
  ASSUME NEW S, IsFiniteSet(S), NEW B, B \subseteq SUBSET S, B # {}
  PROVE  \E s \in B : \A t \in B : t \subseteq s => t = s
<1>1. IsWellFoundedOn(StrictSubsetOrdering(S), SUBSET S)
  BY FS_StrictSubsetOrderingWellFounded, FS_FiniteSubsetsOfFinite
<1>2. PICK s \in B : \A t \in B : <<t, s>> \notin StrictSubsetOrdering(S)
  BY <1>1, WFMin
<1>3. \A t \in B : t \subseteq s => t = s
  BY <1>2 DEF StrictSubsetOrdering
<1> QED  BY <1>3

\* Every non-empty set of naturals has a least element.
LEMMA LeastNumber ==
  ASSUME NEW T, T \subseteq Nat, T # {}
  PROVE  \E n \in T : \A m \in T : n <= m
<1>1. PICK n \in T : \A m \in T : ~(<<m, n>> \in OpToRel(<, Nat))
  BY NatLessThanWellFounded, WFMin
<1>2. \A m \in T : ~(m < n)
  BY <1>1 DEF OpToRel
<1> QED  BY <1>2

\* A set of naturals with a bound has a greatest element.
LEMMA GreatestNumber ==
  ASSUME NEW bound \in Nat, NEW T, T \subseteq 0 .. bound, T # {}
  PROVE  \E n \in T : \A m \in T : m <= n
<1> DEFINE U == {bound - m : m \in T}
<1>1. U \subseteq Nat /\ U # {}
  <2>1. \A m \in T : bound - m \in Nat
    OBVIOUS
  <2> QED  BY <2>1
<1> HIDE DEF U
<1>2. PICK u \in U : \A v \in U : u <= v
  BY <1>1, LeastNumber
<1>3. PICK n \in T : u = bound - n
  BY <1>2 DEF U
<1>4. ASSUME NEW m \in T PROVE m <= n
  <2>1. bound - n <= bound - m
    BY <1>2, <1>3 DEF U
  <2>2. m \in Nat /\ n \in Nat
    OBVIOUS
  <2> QED  BY <2>1, <2>2
<1> QED  BY <1>4

\* A function has as many values as arguments, or fewer.
LEMMA FiniteImage ==
  ASSUME NEW S, IsFiniteSet(S), NEW f, DOMAIN f = S
  PROVE  IsFiniteSet({f[x] : x \in S})
<1> DEFINE T == {f[x] : x \in S}
           g == [x \in S |-> f[x]]
<1>1. g \in Surjection(S, T)
  BY DEF Surjection
<1> QED  BY <1>1, FS_Surjection

\* Finite sets all of which are finite have a finite union.
LEMMA FiniteUnion ==
  ASSUME NEW S, IsFiniteSet(S), NEW f, DOMAIN f = S, \A x \in S : IsFiniteSet(f[x])
  PROVE  IsFiniteSet(UNION {f[x] : x \in S})
<1>1. IsFiniteSet({f[x] : x \in S})
  BY FiniteImage
<1>2. \A T \in {f[x] : x \in S} : IsFiniteSet(T)
  OBVIOUS
<1> QED  BY <1>1, <1>2, FS_UNION

\* A finite set has subsets of every smaller size.
LEMMA SubsetOfSize ==
  ASSUME NEW S, IsFiniteSet(S), NEW n \in Nat, n <= Cardinality(S)
  PROVE  \E T \in SUBSET S : Cardinality(T) = n
<1> DEFINE B == {T \in SUBSET S : n <= Cardinality(T)}
<1>1. B \subseteq SUBSET S /\ B # {}
  OBVIOUS
<1>2. PICK T \in B : \A U \in B : U \subseteq T => U = T
  <2> HIDE DEF B
  <2> QED  BY <1>1, SmallestSet
<1>3. IsFiniteSet(T) /\ Cardinality(T) \in Nat
  BY <1>2, FS_Subset, FS_CardinalityType
<1>4. CASE Cardinality(T) = n
  BY <1>2, <1>4
<1>5. CASE Cardinality(T) # n
  <2>1. n < Cardinality(T) /\ Cardinality(T) # 0
    BY <1>2, <1>3, <1>5
  <2>2. PICK x \in T : TRUE
    BY <1>3, <2>1, FS_EmptySet
  <2>3. Cardinality(T \ {x}) = Cardinality(T) - 1
    BY <1>3, FS_RemoveElement
  <2>4. T \ {x} \in B
    BY <1>2, <1>3, <2>1, <2>3
  <2> QED  BY <1>2, <2>2, <2>4
<1> QED  BY <1>4, <1>5

\* The element that a fold takes next.
Some(s) == CHOOSE x \in s : TRUE

\* There is one as long as something is left.
LEMMA SomeIn ==
  ASSUME NEW s, s # {}
  PROVE  Some(s) \in s
<1>1. \E x \in s : TRUE
  OBVIOUS
<1> QED  BY <1>1, Zenon DEF Some

\* g folds the sets of F: h says what a set comes to, given what is left of it.
FoldsTo(g, F, V, base, h) ==
  /\ g \in [F -> V] /\ g[{}] = base
  /\ \A s \in F \ {{}} : g[s] = h[s][g[s \ {Some(s)}]]

\* A fold over a finite set is well-defined.
LEMMA FoldExists ==
  ASSUME NEW S, IsFiniteSet(S), NEW V, NEW base \in V, NEW h \in [SUBSET S -> [V -> V]]
  PROVE  \E g : FoldsTo(g, SUBSET S, V, base, h)
<1> DEFINE Upto(n) == {s \in SUBSET S : Cardinality(s) <= n}
           Bad == {n \in Nat : ~\E g : FoldsTo(g, Upto(n), V, base, h)}
<1>1. \A s \in SUBSET S : IsFiniteSet(s) /\ Cardinality(s) \in Nat /\ Cardinality(s) <= Cardinality(S)
  BY FS_Subset, FS_CardinalityType
<1>2. \A s \in (SUBSET S) \ {{}} :
        /\ Some(s) \in s /\ s \ {Some(s)} \in SUBSET S
        /\ Cardinality(s \ {Some(s)}) = Cardinality(s) - 1
  <2> SUFFICES ASSUME NEW s \in (SUBSET S) \ {{}}
               PROVE  /\ Some(s) \in s /\ s \ {Some(s)} \in SUBSET S
                      /\ Cardinality(s \ {Some(s)}) = Cardinality(s) - 1
    OBVIOUS
  <2>1. Some(s) \in s
    <3>1. s # {}
      OBVIOUS
    <3> QED  BY <3>1, SomeIn
  <2> QED  BY <2>1, <1>1, FS_RemoveElement
<1>3. Cardinality({}) = 0
  BY FS_EmptySet
<1>4. Bad = {}
  <2> SUFFICES ASSUME Bad # {} PROVE FALSE
    OBVIOUS
  <2>1. PICK n \in Bad : \A m \in Bad : n <= m
    BY LeastNumber
  <2>2. n # 0
    <3>1. Upto(0) = {{}}
      <4>1. \A s \in SUBSET S : Cardinality(s) = 0 => s = {}
        BY <1>1, FS_EmptySet
      <4>2. \A s \in SUBSET S : Cardinality(s) <= 0 <=> s = {}
        <5> SUFFICES ASSUME NEW s \in SUBSET S PROVE Cardinality(s) <= 0 <=> s = {}
          OBVIOUS
        <5>1. Cardinality(s) \in Nat
          BY <1>1
        <5>2. Cardinality(s) = 0 <=> s = {}
          BY <4>1, <1>3
        <5> QED  BY <5>1, <5>2
      <4> QED  BY <4>2
    <3>2. FoldsTo([s \in {{}} |-> base], {{}}, V, base, h)
      BY DEF FoldsTo
    <3> QED  BY <2>1, <3>1, <3>2
  <2>3. n - 1 \in Nat /\ n - 1 \notin Bad
    <3> HIDE DEF Bad
    <3>1. n \in Nat
      BY DEF Bad
    <3> QED  BY <2>1, <2>2, <3>1
  <2>4. PICK g : FoldsTo(g, Upto(n - 1), V, base, h)
    BY <2>3
  <2> DEFINE more == [s \in Upto(n) |-> IF s \in Upto(n - 1) THEN g[s] ELSE h[s][g[s \ {Some(s)}]]]
  <2>5. \A s \in Upto(n) \ {{}} : s \ {Some(s)} \in Upto(n - 1)
    BY <1>1, <1>2, <2>3
  <2>6. {} \in Upto(n - 1) /\ Upto(n - 1) \subseteq Upto(n)
    BY <1>1, <1>3, <2>3
  <2>7. \A s \in Upto(n) : more[s] = IF s \in Upto(n - 1) THEN g[s] ELSE h[s][g[s \ {Some(s)}]]
    OBVIOUS
  <2>8. DOMAIN more = Upto(n) /\ Upto(n) \subseteq SUBSET S
    OBVIOUS
  <2>9. more \in [Upto(n) -> V]
    <3>1. ASSUME NEW s \in Upto(n - 1)
          PROVE  g[s] \in V
      BY <2>4 DEF FoldsTo
    <3>2. ASSUME NEW s \in Upto(n) \ Upto(n - 1)
          PROVE  h[s][g[s \ {Some(s)}]] \in V
      <4>1. g[s \ {Some(s)}] \in V
        BY <2>4, <2>5, <2>6 DEF FoldsTo
      <4> QED  BY <4>1, <2>8
    <3>3. \A s \in Upto(n) : more[s] \in V
      <4> HIDE DEF more
      <4> QED  BY <2>7, <3>1, <3>2
    <3> QED  BY <3>3
  <2>10. \A s \in Upto(n) \ {{}} : more[s] = h[s][more[s \ {Some(s)}]]
    <3> SUFFICES ASSUME NEW s \in Upto(n) \ {{}} PROVE more[s] = h[s][more[s \ {Some(s)}]]
      OBVIOUS
    <3>1. more[s \ {Some(s)}] = g[s \ {Some(s)}]
      BY <2>5, <2>6, <2>7
    <3>2. s \in Upto(n - 1) => g[s] = h[s][g[s \ {Some(s)}]]
      BY <2>4 DEF FoldsTo
    <3> HIDE DEF more
    <3> QED  BY <3>1, <3>2, <2>7
  <2>11. FoldsTo(more, Upto(n), V, base, h)
    <3>1. more[{}] = base
      BY <2>4, <2>6, <2>7 DEF FoldsTo
    <3> HIDE DEF more
    <3> QED  BY <2>9, <2>10, <3>1 DEF FoldsTo
  <2> QED  BY <2>1, <2>11
<1>5. Upto(Cardinality(S)) = SUBSET S /\ Cardinality(S) \in Nat
  BY <1>1, FS_CardinalityType
<1> QED  BY <1>4, <1>5

-----------------------------------------------------------------------------
(* Sequences and what they hold                                            *)

\* The elements of the queues of a scan, as they are taken and put.
LEMMA RangeTaken ==
  ASSUME NEW T, NEW s \in Seq(T), s # <<>>
  PROVE  /\ Head(s) \in T /\ Tail(s) \in Seq(T) /\ Len(Tail(s)) = Len(s) - 1 /\ Len(s) \in Nat \ {0}
         /\ Range(s) = {Head(s)} \cup Range(Tail(s))
<1>1. /\ Head(s) \in T /\ Tail(s) \in Seq(T) /\ Len(Tail(s)) = Len(s) - 1 /\ Len(s) \in Nat \ {0}
      /\ Head(s) = s[1] /\ DOMAIN s = 1 .. Len(s) /\ DOMAIN Tail(s) = 1 .. Len(s) - 1
      /\ \A i \in 1 .. Len(s) - 1 : Tail(s)[i] = s[i + 1]
  OBVIOUS
<1>2. ASSUME NEW x \in Range(s) PROVE x \in {Head(s)} \cup Range(Tail(s))
  <2>1. PICK i \in 1 .. Len(s) : x = s[i]
    BY <1>1 DEF Range
  <2>2. CASE i = 1
    BY <1>1, <2>1, <2>2
  <2>3. CASE i # 1
    <3>1. i - 1 \in 1 .. Len(s) - 1 /\ x = Tail(s)[i - 1]
      BY <1>1, <2>1, <2>3
    <3> QED  BY <1>1, <3>1 DEF Range
  <2> QED  BY <2>2, <2>3
<1>3. ASSUME NEW x \in Range(Tail(s)) PROVE x \in Range(s)
  <2>1. PICK i \in 1 .. Len(s) - 1 : x = s[i + 1]
    BY <1>1 DEF Range
  <2>2. i + 1 \in DOMAIN s
    BY <1>1
  <2> QED  BY <2>1, <2>2 DEF Range
<1>4. Head(s) \in Range(s)
  BY <1>1 DEF Range
<1> QED  BY <1>1, <1>2, <1>3, <1>4

\* Joined sequences hold what each of them holds.
LEMMA RangeJoined ==
  ASSUME NEW T, NEW s \in Seq(T), NEW t \in Seq(T)
  PROVE  s \o t \in Seq(T) /\ Range(s \o t) = Range(s) \cup Range(t)
<1>1. /\ s \o t \in Seq(T) /\ DOMAIN (s \o t) = 1 .. Len(s) + Len(t)
      /\ DOMAIN s = 1 .. Len(s) /\ DOMAIN t = 1 .. Len(t) /\ Len(s) \in Nat /\ Len(t) \in Nat
      /\ \A i \in 1 .. Len(s) + Len(t) : (s \o t)[i] = IF i <= Len(s) THEN s[i] ELSE t[i - Len(s)]
  OBVIOUS
<1> DEFINE st == s \o t
<1> HIDE DEF st
<1>2. ASSUME NEW x \in Range(st) PROVE x \in Range(s) \cup Range(t)
  <2>1. PICK i \in 1 .. Len(s) + Len(t) : x = st[i]
    BY <1>1 DEF Range, st
  <2>2. CASE i <= Len(s)
    <3>1. i \in DOMAIN s /\ x = s[i]
      BY <1>1, <2>1, <2>2 DEF st
    <3> QED  BY <3>1 DEF Range
  <2>3. CASE ~(i <= Len(s))
    <3>1. i - Len(s) \in DOMAIN t /\ x = t[i - Len(s)]
      BY <1>1, <2>1, <2>3 DEF st
    <3> QED  BY <3>1 DEF Range
  <2> QED  BY <2>2, <2>3
<1>3. ASSUME NEW i \in DOMAIN s PROVE s[i] \in Range(st)
  <2>1. i \in DOMAIN st /\ st[i] = s[i]
    BY <1>1 DEF st
  <2> QED  BY <2>1 DEF Range
<1>4. ASSUME NEW i \in DOMAIN t PROVE t[i] \in Range(st)
  <2>1. i + Len(s) \in DOMAIN st /\ st[i + Len(s)] = t[i]
    <3>1. i + Len(s) \in 1 .. Len(s) + Len(t) /\ ~(i + Len(s) <= Len(s)) /\ (i + Len(s)) - Len(s) = i
      BY <1>1
    <3> QED  BY <1>1, <3>1 DEF st
  <2> QED  BY <2>1 DEF Range
<1>5. Range(s) \subseteq Range(st) /\ Range(t) \subseteq Range(st)
  BY <1>3, <1>4 DEF Range
<1> QED  BY <1>1, <1>2, <1>5 DEF st

\* A sequence of one element holds that one.
LEMMA RangeOne ==
  ASSUME NEW T, NEW x \in T
  PROVE  <<x>> \in Seq(T) /\ Range(<<x>>) = {x} /\ Len(<<x>>) = 1
  BY DEF Range

\* An appended element is held too.
LEMMA RangeAppended ==
  ASSUME NEW T, NEW s \in Seq(T), NEW x \in T
  PROVE  Append(s, x) \in Seq(T) /\ Range(Append(s, x)) = Range(s) \cup {x}
         /\ Len(Append(s, x)) = Len(s) + 1
<1>1. Append(s, x) = s \o <<x>>
  OBVIOUS
<1>2. <<x>> \in Seq(T) /\ Range(<<x>>) = {x}
  BY RangeOne
<1>3. s \o <<x>> \in Seq(T) /\ Range(s \o <<x>>) = Range(s) \cup {x}
  <2> DEFINE one == <<x>>
  <2>1. one \in Seq(T) /\ Range(one) = {x}
    BY <1>2
  <2> HIDE DEF one
  <2>2. s \o one \in Seq(T) /\ Range(s \o one) = Range(s) \cup {x}
    BY <2>1, RangeJoined
  <2> QED  BY <2>2 DEF one
<1>4. Len(Append(s, x)) = Len(s) + 1
  OBVIOUS
<1> QED  BY <1>1, <1>3, <1>4

\* An empty sequence holds nothing.
LEMMA RangeOfNone == Range(<<>>) = {}
  BY DEF Range

\* What a sequence holds has the type of its elements.
LEMMA RangeTyped ==
  ASSUME NEW T, NEW s \in Seq(T)
  PROVE  Range(s) \subseteq T
  BY DEF Range

-----------------------------------------------------------------------------
(* The entries of a listing, and the bytes of what was read                *)

\* A set in some order.
LEMMA SomeOrder ==
  ASSUME NEW S, IsFiniteSet(S)
  PROVE  InSomeOrder(S) \in Seq(S) /\ Range(InSomeOrder(S)) = S
<1> DEFINE h == [s \in SUBSET S |-> [v \in Seq(S) |-> IF s = {} THEN v ELSE Append(v, Some(s))]]
           Is(iter) == iter = [s \in SUBSET S |-> IF s = {} THEN <<>>
                                                ELSE Append(iter[s \ {Some(s)}], Some(s))]
           list == CHOOSE iter : Is(iter)
<1>1. InSomeOrder(S) = list[S]
  BY DEF InSomeOrder, FoldSet, MapThenFoldSet, Some
<1>2. \A s \in (SUBSET S) \ {{}} : Some(s) \in s
  BY SomeIn
<1>3. h \in [SUBSET S -> [Seq(S) -> Seq(S)]]
  BY <1>2
<1>4. PICK g : FoldsTo(g, SUBSET S, Seq(S), <<>>, h)
  <2>1. <<>> \in Seq(S)
    OBVIOUS
  <2> HIDE DEF h
  <2> QED  BY <1>3, <2>1, FoldExists
<1>5. \A s \in (SUBSET S) \ {{}} : g[s] = Append(g[s \ {Some(s)}], Some(s))
  <2> SUFFICES ASSUME NEW s \in (SUBSET S) \ {{}} PROVE g[s] = Append(g[s \ {Some(s)}], Some(s))
    OBVIOUS
  <2>1. g[s] = h[s][g[s \ {Some(s)}]] /\ g[s \ {Some(s)}] \in Seq(S)
    BY <1>4 DEF FoldsTo
  <2> QED  BY <2>1
<1>6. Is(g)
  <2>1. g \in [SUBSET S -> Seq(S)] /\ g[{}] = <<>>
    BY <1>4 DEF FoldsTo
  <2> QED  BY <2>1, <1>5
<1>7. Is(list)
  <2> HIDE DEF Is
  <2> QED  BY <1>6, Zenon
<1> HIDE DEF list
<1>8. \A s \in SUBSET S : list[s] = IF s = {} THEN <<>> ELSE Append(list[s \ {Some(s)}], Some(s))
  BY <1>7
<1> HIDE DEF Is
<1> DEFINE B == {s \in SUBSET S : ~(list[s] \in Seq(S) /\ Range(list[s]) = s)}
<1>9. B = {}
  <2> SUFFICES ASSUME B # {} PROVE FALSE
    OBVIOUS
  <2>0. B \subseteq SUBSET S
    OBVIOUS
  <2>1. PICK s \in B : \A t \in B : t \subseteq s => t = s
    <3> HIDE DEF B
    <3> QED  BY <2>0, SmallestSet
  <2>2. s # {}
    <3> SUFFICES ASSUME s = {} PROVE FALSE
      OBVIOUS
    <3>1. list[s] = <<>>
      BY <1>8, <2>1
    <3>2. <<>> \in Seq(S) /\ Range(<<>>) = {}
      BY DEF Range
    <3> QED  BY <2>1, <3>1, <3>2
  <2>3. Some(s) \in s
    BY <2>2, SomeIn
  <2> DEFINE less == s \ {Some(s)}
  <2>4. less \in SUBSET S /\ less # s
    BY <2>3
  <2>5. list[less] \in Seq(S) /\ Range(list[less]) = less
    BY <2>1, <2>4
  <2>6. list[s] = Append(list[less], Some(s))
    BY <1>8, <2>1, <2>2
  <2>7. list[s] \in Seq(S) /\ Some(s) \in S
    BY <2>1, <2>3, <2>5, <2>6
  <2>8. Range(list[s]) = Range(list[less]) \cup {Some(s)}
    <3> DEFINE a == list[less]
               x == Some(s)
    <3> HIDE DEF a, x, list
    <3>1. a \in Seq(S) /\ x \in S /\ list[s] = Append(a, x)
      BY <2>5, <2>6, <2>7 DEF a, x
    <3>2. Range(list[s]) = Range(a) \cup {x}
      BY <3>1, RangeAppended
    <3> QED  BY <3>2 DEF a, x
  <2> QED  BY <2>1, <2>3, <2>5, <2>7, <2>8
<1> QED  BY <1>1, <1>9

\* Sums(g, f, S): g has the sum of f over every set of elements of S.
Sums(g, f, S) ==
  /\ g \in [SUBSET S -> Nat] /\ g[{}] = 0
  /\ \A s \in SUBSET S : \A x \in s : g[s] = f[x] + g[s \ {x}]

\* The bytes of what was read are the sum of the sizes.
LEMMA TotalIsSum ==
  ASSUME NEW r, IsFiniteSet(DOMAIN r), \A p \in DOMAIN r : SizeOf[r[p]] \in Nat
  PROVE  \E g : Sums(g, [p \in DOMAIN r |-> SizeOf[r[p]]], DOMAIN r) /\ TotalSize(r) = g[DOMAIN r]
<1> DEFINE S == DOMAIN r
           f == [p \in S |-> SizeOf[r[p]]]
           h == [s \in SUBSET S |-> [v \in Nat |-> IF s = {} THEN v ELSE f[Some(s)] + v]]
           Is(iter) == iter = [s \in SUBSET S |-> IF s = {} THEN 0
                                                ELSE f[Some(s)] + iter[s \ {Some(s)}]]
           sum == CHOOSE iter : Is(iter)
<1>1. TotalSize(r) = sum[S]
  BY DEF TotalSize, FoldFunction, FoldFunctionOnSet, MapThenFoldSet, Some
<1>2. \A s \in (SUBSET S) \ {{}} : Some(s) \in s
  BY SomeIn
<1>3. h \in [SUBSET S -> [Nat -> Nat]] /\ f \in [S -> Nat]
  BY <1>2
<1>4. PICK g : FoldsTo(g, SUBSET S, Nat, 0, h)
  BY <1>3, FoldExists
<1>5. \A s \in (SUBSET S) \ {{}} : g[s] = f[Some(s)] + g[s \ {Some(s)}]
  <2> SUFFICES ASSUME NEW s \in (SUBSET S) \ {{}} PROVE g[s] = f[Some(s)] + g[s \ {Some(s)}]
    OBVIOUS
  <2>1. g[s] = h[s][g[s \ {Some(s)}]] /\ g[s \ {Some(s)}] \in Nat
    BY <1>4 DEF FoldsTo
  <2> HIDE DEF f
  <2> QED  BY <2>1
<1> HIDE DEF f
<1>6. Is(g)
  <2>1. g \in [SUBSET S -> Nat] /\ g[{}] = 0
    BY <1>4 DEF FoldsTo
  <2> QED  BY <2>1, <1>5
<1>7. Is(sum)
  <2> HIDE DEF Is
  <2> QED  BY <1>6, Zenon
<1> HIDE DEF sum
<1>8. \A s \in SUBSET S : sum[s] = IF s = {} THEN 0 ELSE f[Some(s)] + sum[s \ {Some(s)}]
  BY <1>7
<1>9. DOMAIN sum = SUBSET S /\ sum = [s \in SUBSET S |-> sum[s]]
  BY <1>7
<1> HIDE DEF Is, S
<1> DEFINE Good(s) == /\ sum[s] \in Nat
                      /\ \A x \in s : sum[s] = f[x] + sum[s \ {x}]
           B == {s \in SUBSET S : ~Good(s)}
<1>10. IsFiniteSet(S) /\ \A x \in S : f[x] \in Nat
  BY <1>3 DEF S
<1>11. B = {}
  <2> SUFFICES ASSUME B # {} PROVE FALSE
    OBVIOUS
  <2>0. B \subseteq SUBSET S
    OBVIOUS
  <2>1. PICK s \in B : \A t \in B : t \subseteq s => t = s
    <3> HIDE DEF B
    <3> QED  BY <1>10, <2>0, SmallestSet
  <2>2. s # {}
    <3> SUFFICES ASSUME s = {} PROVE FALSE
      OBVIOUS
    <3>1. sum[s] = 0
      BY <1>8, <2>1
    <3> QED  BY <2>1, <3>1
  <2>3. Some(s) \in s /\ s \subseteq S
    BY <2>1, <2>2, SomeIn
  <2> DEFINE y == Some(s)
             less == s \ {y}
  <2>4. Good(less) /\ sum[s] = f[y] + sum[less] /\ f[y] \in Nat
    <3>1. less \in SUBSET S /\ less # s /\ less \subseteq s
      BY <2>3
    <3> HIDE DEF Good
    <3> QED  BY <1>8, <1>10, <2>1, <2>2, <2>3, <3>1
  <2>5. sum[s] \in Nat
    BY <2>4
  <2>6. ASSUME NEW x \in s PROVE sum[s] = f[x] + sum[s \ {x}]
    <3>1. CASE x = y
      BY <2>4, <3>1
    <3>2. CASE x # y
      <4> DEFINE other == s \ {x}
      <4>1. Good(other) /\ y \in other /\ x \in less
        <5>1. other \in SUBSET S /\ other # s /\ other \subseteq s
          BY <2>3
        <5> HIDE DEF Good
        <5> QED  BY <2>1, <2>3, <3>2, <5>1
      <4>2. sum[less] = f[x] + sum[less \ {x}] /\ sum[other] = f[y] + sum[other \ {y}]
        BY <2>4, <4>1
      <4>3. less \ {x} = other \ {y}
        OBVIOUS
      <4>4. sum[less] \in Nat /\ sum[other] \in Nat /\ sum[less \ {x}] \in Nat /\ f[x] \in Nat
        <5>1. less \ {x} \in SUBSET S /\ less \ {x} # s /\ less \ {x} \subseteq s
          BY <2>3
        <5>2. Good(less \ {x})
          <6> HIDE DEF Good
          <6> QED  BY <2>1, <5>1
        <5> QED  BY <1>10, <2>3, <2>4, <4>1, <5>2
      <4> HIDE DEF Good, less, other, y
      <4> QED  BY <2>4, <4>2, <4>3, <4>4 DEF other
    <3> QED  BY <3>1, <3>2
  <2> QED  BY <2>1, <2>5, <2>6
<1>12. Sums(sum, f, S)
  BY <1>8, <1>9, <1>11 DEF Sums
<1> QED  BY <1>1, <1>12 DEF S, f

\* Sums of functions that agree on a set agree there.
LEMMA SumsAgree ==
  ASSUME NEW S, IsFiniteSet(S), NEW T, S \subseteq T, NEW f, NEW k,
         \A x \in S : f[x] = k[x],
         NEW g, Sums(g, f, S), NEW l, Sums(l, k, T)
  PROVE  g[S] = l[S]
<1> DEFINE B == {s \in SUBSET S : g[s] # l[s]}
<1> SUFFICES ASSUME B # {} PROVE FALSE
  OBVIOUS
<1>0. B \subseteq SUBSET S
  OBVIOUS
<1>1. PICK s \in B : \A t \in B : t \subseteq s => t = s
  <2> HIDE DEF B
  <2> QED  BY <1>0, SmallestSet
<1>2. s # {}
  BY <1>1 DEF Sums
<1>3. PICK x \in s : TRUE
  BY <1>2
<1>4. g[s \ {x}] = l[s \ {x}] /\ s \ {x} \in SUBSET S
  BY <1>1, <1>3
<1>5. g[s] = f[x] + g[s \ {x}] /\ l[s] = k[x] + l[s \ {x}]
  BY <1>1, <1>3 DEF Sums
<1> QED  BY <1>1, <1>3, <1>4, <1>5

\* What is read adds its size; nothing has none.
LEMMA TotalAdds ==
  ASSUME NEW r, IsFiniteSet(DOMAIN r), \A p \in DOMAIN r : SizeOf[r[p]] \in Nat,
         NEW q, q \notin DOMAIN r, NEW c, SizeOf[c] \in Nat
  PROVE  TotalSize(r) \in Nat /\ TotalSize(Adding(r, q, c)) = TotalSize(r) + SizeOf[c]
<1> DEFINE more == Adding(r, q, c)
           S == DOMAIN r
           T == DOMAIN more
           f == [p \in S |-> SizeOf[r[p]]]
           k == [p \in T |-> SizeOf[more[p]]]
<1>1. T = S \cup {q} /\ more[q] = c /\ \A p \in S : more[p] = r[p]
  BY DEF Adding, Over
<1>2. IsFiniteSet(T)
  BY <1>1, FS_AddElement
<1> HIDE DEF more
<1>3. PICK g : Sums(g, f, S) /\ TotalSize(r) = g[S]
  BY TotalIsSum
<1>4. \A p \in T : SizeOf[more[p]] \in Nat
  BY <1>1
<1>5. PICK l : Sums(l, k, T) /\ TotalSize(more) = l[T]
  BY <1>2, <1>4, TotalIsSum
<1>6. g[S] = l[S]
  <2>1. S \subseteq T /\ \A p \in S : f[p] = k[p]
    BY <1>1
  <2> HIDE DEF S, T, f, k
  <2>2. IsFiniteSet(S)
    BY DEF S
  <2> QED  BY <2>1, <2>2, <1>3, <1>5, SumsAgree
<1>7. l[T] = SizeOf[c] + l[S] /\ l[S] \in Nat
  <2>1. k[q] = SizeOf[c] /\ T \ {q} = S /\ q \in T
    BY <1>1
  <2> HIDE DEF S, T, f, k
  <2>2. l[T] = k[q] + l[T \ {q}] /\ l[T \ {q}] \in Nat
    BY <1>5, <2>1 DEF Sums
  <2> QED  BY <2>1, <2>2
<1> QED  BY <1>3, <1>5, <1>6, <1>7 DEF more

\* Nothing has no bytes.
LEMMA TotalOfNone == TotalSize(<<>>) = 0
<1>1. DOMAIN <<>> = {}
  OBVIOUS
<1>2. PICK g : Sums(g, [p \in DOMAIN <<>> |-> SizeOf[<<>>[p]]], DOMAIN <<>>)
               /\ TotalSize(<<>>) = g[DOMAIN <<>>]
  BY <1>1, FS_EmptySet, TotalIsSum
<1> QED  BY <1>1, <1>2 DEF Sums

-----------------------------------------------------------------------------
(* Searches in a graph                                                     *)

\* The versions of edges.
Ends(edges) == UNION {{e[1], e[2]} : e \in edges}

\* No update leads out of C.
Closed(C, edges) == \A e \in edges : e[1] \in C => e[2] \in C

\* What every closed set has which contains the starts.
Closure(starts, edges, nodes) ==
  {n \in nodes : \A C \in SUBSET nodes : starts \subseteq C /\ Closed(C, edges) => n \in C}

\* _reachable_many returns the least closed set that contains the starts.
LEMMA ReachableIsClosure ==
  ASSUME NEW starts, NEW edges, IsFiniteSet(starts \cup Ends(edges))
  PROVE  ReachableMany(starts, edges) = Closure(starts, edges, starts \cup Ends(edges))
<1> DEFINE nodes == starts \cup Ends(edges)
           Targets(s) == {e[2] : e \in {f \in edges : f[1] \in s}}
           Is(reach) == reach = [s \in SUBSET nodes |->
                                   IF Targets(s) \subseteq s THEN s ELSE reach[s \cup Targets(s)]]
           reach == CHOOSE r : Is(r)
           closure == [s \in SUBSET nodes |-> Closure(s, edges, nodes)]
<1>1. ReachableMany(starts, edges) = reach[starts]
  BY DEF ReachableMany, Ends
<1>2. \A s : Targets(s) \subseteq nodes
  BY DEF Ends
<1>3. \A s : Targets(s) \subseteq s <=> Closed(s, edges)
  BY DEF Closed
<1>4. \A s \in SUBSET nodes : Closed(s, edges) => Closure(s, edges, nodes) = s
  BY DEF Closure
<1>5. \A s \in SUBSET nodes : Closure(s, edges, nodes) = Closure(s \cup Targets(s), edges, nodes)
  <2> SUFFICES ASSUME NEW s \in SUBSET nodes, NEW C \in SUBSET nodes, Closed(C, edges)
               PROVE  s \subseteq C <=> s \cup Targets(s) \subseteq C
    BY Zenon DEF Closure
  <2> QED  BY DEF Closed
<1> HIDE DEF Targets, nodes
<1>6. Is(closure)
  <2>1. \A s \in SUBSET nodes :
          closure[s] = IF Targets(s) \subseteq s THEN s ELSE closure[s \cup Targets(s)]
    BY <1>2, <1>3, <1>4, <1>5
  <2> QED  BY <2>1
<1>7. Is(reach)
  <2> HIDE DEF Is
  <2> QED  BY <1>6, Zenon
<1> HIDE DEF reach
<1>8. \A s \in SUBSET nodes :
        reach[s] = IF Targets(s) \subseteq s THEN s ELSE reach[s \cup Targets(s)]
  BY <1>7
<1> HIDE DEF Is, closure
<1> DEFINE B == {nodes \ s : s \in {t \in SUBSET nodes : reach[t] # Closure(t, edges, nodes)}}
<1>9. B = {}
  <2> SUFFICES ASSUME B # {} PROVE FALSE
    OBVIOUS
  <2>1. B \subseteq SUBSET nodes /\ IsFiniteSet(nodes)
    BY DEF nodes
  <2>2. PICK b \in B : \A t \in B : t \subseteq b => t = b
    <3> HIDE DEF B
    <3> QED  BY <2>1, SmallestSet
  <2>3. PICK s \in SUBSET nodes : b = nodes \ s /\ reach[s] # Closure(s, edges, nodes)
    BY <2>2
  <2>4. ~(Targets(s) \subseteq s)
    BY <1>3, <1>4, <1>8, <2>3
  <2> DEFINE more == s \cup Targets(s)
  <2>5. more \in SUBSET nodes /\ nodes \ more \subseteq b /\ nodes \ more # b
    BY <1>2, <2>3, <2>4
  <2>6. reach[more] = Closure(more, edges, nodes)
    BY <2>2, <2>5
  <2> QED  BY <1>5, <1>8, <2>3, <2>4, <2>6
<1>10. starts \in SUBSET nodes
  BY DEF nodes
<1>11. reach[starts] = Closure(starts, edges, nodes)
  BY <1>9, <1>10
<1> QED  BY <1>1, <1>11 DEF nodes

\* A version is found if every closed set has it that contains the starts.
LEMMA ReachableMeans ==
  ASSUME NEW starts, NEW edges, IsFiniteSet(starts \cup Ends(edges)), NEW n
  PROVE  n \in ReachableMany(starts, edges)
           <=> \A C : starts \subseteq C /\ Closed(C, edges) => n \in C
<1> DEFINE nodes == starts \cup Ends(edges)
<1>1. ReachableMany(starts, edges) = Closure(starts, edges, nodes)
  BY ReachableIsClosure
<1>2. ASSUME n \in Closure(starts, edges, nodes), NEW C, starts \subseteq C, Closed(C, edges)
      PROVE  n \in C
  <2>1. C \cap nodes \in SUBSET nodes /\ starts \subseteq C \cap nodes /\ Closed(C \cap nodes, edges)
    BY <1>2 DEF Closed, Ends
  <2>2. n \in C \cap nodes
    BY <1>2, <2>1 DEF Closure
  <2> QED  BY <2>2
<1>3. ASSUME \A C : starts \subseteq C /\ Closed(C, edges) => n \in C
      PROVE  n \in Closure(starts, edges, nodes)
  <2>1. starts \subseteq nodes /\ Closed(nodes, edges)
    BY DEF Closed, Ends
  <2>2. n \in nodes
    BY <1>3, <2>1
  <2> QED  BY <1>3, <2>2 DEF Closure
<1> QED  BY <1>1, <1>2, <1>3

\* So has what a version leads to.
LEMMA LeadsMeans ==
  ASSUME NEW edges, NEW from, NEW to
  PROVE  Leads(edges, from, to) <=> \A C : from \in C /\ Closed(C, edges) => to \in C
<1> DEFINE nodes == {from, to} \cup Ends(edges)
<1>1. Leads(edges, from, to) <=> \A C \in SUBSET nodes : from \in C /\ Closed(C, edges) => to \in C
  BY DEF Leads, Closed, Ends
<1>2. ASSUME Leads(edges, from, to), NEW C, from \in C, Closed(C, edges)
      PROVE  to \in C
  <2>1. C \cap nodes \in SUBSET nodes /\ from \in C \cap nodes /\ Closed(C \cap nodes, edges)
    BY <1>2 DEF Closed, Ends
  <2>2. to \in C \cap nodes
    BY <1>1, <1>2, <2>1
  <2> QED  BY <2>2
<1> QED  BY <1>1, <1>2

\* What is found from some versions is what one of them leads to.
LEMMA ReachedFromOne ==
  ASSUME NEW starts, NEW edges, IsFiniteSet(starts \cup Ends(edges)), NEW n
  PROVE  n \in ReachableMany(starts, edges) <=> \E s \in starts : Leads(edges, s, n)
<1> DEFINE led == {m \in starts \cup Ends(edges) : \E s \in starts : Leads(edges, s, m)}
<1>1. starts \subseteq led
  BY LeadsMeans
<1>2. Closed(led, edges)
  <2> SUFFICES ASSUME NEW e \in edges, e[1] \in led PROVE e[2] \in led
    BY DEF Closed
  <2>1. PICK s \in starts : Leads(edges, s, e[1])
    OBVIOUS
  <2>2. Leads(edges, s, e[2])
    BY <2>1, LeadsMeans DEF Closed
  <2>3. e[2] \in Ends(edges)
    BY DEF Ends
  <2> QED  BY <2>2, <2>3
<1>3. ASSUME n \in ReachableMany(starts, edges) PROVE \E s \in starts : Leads(edges, s, n)
  <2>1. n \in led
    BY <1>1, <1>2, <1>3, ReachableMeans
  <2> QED  BY <2>1
<1>4. ASSUME NEW s \in starts, Leads(edges, s, n) PROVE n \in ReachableMany(starts, edges)
  <2>1. \A C : starts \subseteq C /\ Closed(C, edges) => n \in C
    BY <1>4, LeadsMeans
  <2> QED  BY <2>1, ReachableMeans
<1> QED  BY <1>3, <1>4

\* A version is found against the updates if it leads to where the search starts.
LEMMA LeadsReversed ==
  ASSUME NEW edges, NEW from, NEW to
  PROVE  Leads(Reversed(edges), to, from) <=> Leads(edges, from, to)
<1> DEFINE nodes == {from, to} \cup Ends(edges)
<1>1. \A C : Closed(C, Reversed(edges)) <=> \A e \in edges : e[2] \in C => e[1] \in C
  <2> SUFFICES ASSUME NEW C
               PROVE  Closed(C, Reversed(edges)) <=> \A e \in edges : e[2] \in C => e[1] \in C
    OBVIOUS
  <2>1. ASSUME Closed(C, Reversed(edges)), NEW e \in edges, e[2] \in C PROVE e[1] \in C
    <3> DEFINE back == <<e[2], e[1]>>
    <3>1. back \in Reversed(edges) /\ back[1] = e[2] /\ back[2] = e[1]
      BY DEF Reversed
    <3> HIDE DEF back
    <3>2. back[1] \in C => back[2] \in C
      BY <2>1, <3>1 DEF Closed
    <3> QED  BY <2>1, <3>1, <3>2
  <2>2. ASSUME \A e \in edges : e[2] \in C => e[1] \in C, NEW b \in Reversed(edges), b[1] \in C
        PROVE  b[2] \in C
    <3>1. PICK e \in edges : b = <<e[2], e[1]>>
      BY DEF Reversed
    <3> QED  BY <2>2, <3>1
  <2> QED  BY <2>1, <2>2 DEF Closed
<1>2. \A e \in edges : e[1] \in nodes /\ e[2] \in nodes
  BY DEF Ends
<1>3. ASSUME Leads(edges, from, to), NEW C, to \in C, Closed(C, Reversed(edges)), from \notin C
      PROVE  FALSE
  <2>1. from \in nodes \ C /\ Closed(nodes \ C, edges)
    BY <1>1, <1>2, <1>3 DEF Closed
  <2>2. to \in nodes \ C
    BY <1>3, <2>1, LeadsMeans
  <2> QED  BY <1>3, <2>2
<1>4. ASSUME Leads(Reversed(edges), to, from), NEW C, from \in C, Closed(C, edges), to \notin C
      PROVE  FALSE
  <2>1. to \in nodes \ C /\ Closed(nodes \ C, Reversed(edges))
    BY <1>1, <1>2, <1>4 DEF Closed
  <2>2. from \in nodes \ C
    BY <1>4, <2>1, LeadsMeans
  <2> QED  BY <1>4, <2>2
<1> QED  BY <1>3, <1>4, LeadsMeans

-----------------------------------------------------------------------------
(* Cycles                                                                  *)

\* Every version of S is updated from one of S.
Fed(S, edges) == \A n \in S : \E e \in edges : e[2] = n /\ e[1] \in S

\* Every version of S is updated to one of S.
Led(S, edges) == \A n \in S : \E e \in edges : e[1] = n /\ e[2] \in S

\* What _has_cycle leaves is the greatest set whose versions are updated from it.
LEMMA PeelLeaves ==
  ASSUME NEW nodes, NEW edges, IsFiniteSet(nodes)
  PROVE  HasCycle(nodes, edges) <=> \E S \in SUBSET nodes : S # {} /\ Fed(S, edges)
<1> DEFINE Free(rest) == {n \in rest : \A e \in edges : e[2] = n => e[1] \notin rest}
           Is(peel) == peel = [rest \in SUBSET nodes |->
                                 IF Free(rest) = {} THEN rest ELSE peel[rest \ Free(rest)]]
           peel == CHOOSE r : Is(r)
           Core(rest) == UNION {S \in SUBSET rest : Fed(S, edges)}
           core == [rest \in SUBSET nodes |-> Core(rest)]
<1>1. HasCycle(nodes, edges) <=> peel[nodes] # {}
  BY DEF HasCycle
<1>2. \A rest : Free(rest) = {} => Core(rest) = rest
  <2> SUFFICES ASSUME NEW rest, Free(rest) = {} PROVE Fed(rest, edges)
    OBVIOUS
  <2> QED  BY DEF Fed
<1>3. \A rest : Core(rest) = Core(rest \ Free(rest))
  <2> SUFFICES ASSUME NEW rest, NEW S \in SUBSET rest, Fed(S, edges)
               PROVE  S \subseteq rest \ Free(rest)
    OBVIOUS
  <2> QED  BY DEF Fed
<1>4. \A rest : Free(rest) \subseteq rest
  OBVIOUS
<1> HIDE DEF Free, Core
<1>5. Is(core)
  <2>1. \A rest \in SUBSET nodes :
          core[rest] = IF Free(rest) = {} THEN rest ELSE core[rest \ Free(rest)]
    BY <1>2, <1>3
  <2> QED  BY <2>1
<1>6. Is(peel)
  <2> HIDE DEF Is
  <2> QED  BY <1>5, Zenon
<1> HIDE DEF peel
<1>7. \A rest \in SUBSET nodes :
        peel[rest] = IF Free(rest) = {} THEN rest ELSE peel[rest \ Free(rest)]
  BY <1>6
<1> HIDE DEF Is, core
<1> DEFINE B == {rest \in SUBSET nodes : peel[rest] # Core(rest)}
<1>8. B = {}
  <2> SUFFICES ASSUME B # {} PROVE FALSE
    OBVIOUS
  <2>1. B \subseteq SUBSET nodes
    OBVIOUS
  <2>2. PICK rest \in B : \A t \in B : t \subseteq rest => t = rest
    <3> HIDE DEF B
    <3> QED  BY <2>1, SmallestSet
  <2>3. Free(rest) # {}
    BY <1>2, <1>7, <2>2
  <2> DEFINE less == rest \ Free(rest)
  <2>4. less \in SUBSET nodes /\ less \subseteq rest /\ less # rest
    BY <1>4, <2>2, <2>3
  <2>5. peel[less] = Core(less)
    BY <2>2, <2>4
  <2> QED  BY <1>3, <1>7, <2>2, <2>3, <2>5
<1>9. peel[nodes] = Core(nodes)
  BY <1>8
<1>10. Core(nodes) # {} <=> \E S \in SUBSET nodes : S # {} /\ Fed(S, edges)
  BY DEF Core
<1> QED  BY <1>1, <1>9, <1>10

\* A smallest set of the one kind is one of the other kind.
LEMMA SmallestCycle ==
  ASSUME NEW nodes, IsFiniteSet(nodes), NEW edges
  PROVE  (\E S \in SUBSET nodes : S # {} /\ Fed(S, edges))
           <=> (\E S \in SUBSET nodes : S # {} /\ Led(S, edges))
<1>1. ASSUME NEW T \in SUBSET nodes, T # {}, Fed(T, edges)
      PROVE  \E S \in SUBSET nodes : S # {} /\ Led(S, edges)
  <2> DEFINE B == {S \in SUBSET nodes : S # {} /\ Fed(S, edges)}
  <2>1. B \subseteq SUBSET nodes /\ B # {}
    BY <1>1
  <2>2. PICK S \in B : \A t \in B : t \subseteq S => t = S
    <3> HIDE DEF B
    <3> QED  BY <2>1, SmallestSet
  <2>3. ASSUME NEW n \in S, \A e \in edges : ~(e[1] = n /\ e[2] \in S)
        PROVE  FALSE
    <3>1. Fed(S \ {n}, edges)
      BY <2>2, <2>3 DEF Fed
    <3>2. S \ {n} = {}
      BY <2>2, <3>1
    <3>3. PICK e \in edges : e[2] = n /\ e[1] \in S
      BY <2>2 DEF Fed
    <3> QED  BY <2>3, <3>2, <3>3
  <2>4. Led(S, edges)
    BY <2>3 DEF Led
  <2> QED  BY <2>2, <2>4
<1>2. ASSUME NEW T \in SUBSET nodes, T # {}, Led(T, edges)
      PROVE  \E S \in SUBSET nodes : S # {} /\ Fed(S, edges)
  <2> DEFINE B == {S \in SUBSET nodes : S # {} /\ Led(S, edges)}
  <2>1. B \subseteq SUBSET nodes /\ B # {}
    BY <1>2
  <2>2. PICK S \in B : \A t \in B : t \subseteq S => t = S
    <3> HIDE DEF B
    <3> QED  BY <2>1, SmallestSet
  <2>3. ASSUME NEW n \in S, \A e \in edges : ~(e[2] = n /\ e[1] \in S)
        PROVE  FALSE
    <3>1. Led(S \ {n}, edges)
      BY <2>2, <2>3 DEF Led
    <3>2. S \ {n} = {}
      BY <2>2, <3>1
    <3>3. PICK e \in edges : e[1] = n /\ e[2] \in S
      BY <2>2 DEF Led
    <3> QED  BY <2>3, <3>2, <3>3
  <2>4. Fed(S, edges)
    BY <2>3 DEF Fed
  <2> QED  BY <2>2, <2>4
<1> QED  BY <1>1, <1>2

\* _has_cycle finds a cycle if there is one.
LEMMA CycleIsFound ==
  ASSUME NEW own, IsFiniteSet(Nodes(own))
  PROVE  HasCycle(Nodes(own), Edges(own)) <=> Cyclic(Edges(own))
<1> DEFINE edges == Edges(own)
<1>1. \A e \in edges : e = <<e[1], e[2]>> /\ e[1] \in Nodes(own)
  BY DEF Edges, Nodes
<1>2. ASSUME NEW S \in SUBSET Nodes(own), S # {}, Led(S, edges) PROVE Cyclic(edges)
  <2>1. S \in (SUBSET {e[1] : e \in edges}) \ {{}}
    BY <1>2 DEF Led
  <2>2. \A n \in S : \E m \in S : <<n, m>> \in edges
    BY <1>1, <1>2 DEF Led
  <2> HIDE DEF edges
  <2> QED  BY <2>1, <2>2 DEF Cyclic
<1>3. ASSUME Cyclic(edges) PROVE \E S \in SUBSET Nodes(own) : S # {} /\ Led(S, edges)
  <2>1. PICK S \in (SUBSET {e[1] : e \in edges}) \ {{}} : \A n \in S : \E m \in S : <<n, m>> \in edges
    BY <1>3 DEF Cyclic
  <2>2. Led(S, edges)
    <3> SUFFICES ASSUME NEW n \in S PROVE \E e \in edges : e[1] = n /\ e[2] \in S
      BY DEF Led
    <3>1. PICK m \in S : <<n, m>> \in edges
      BY <2>1
    <3> HIDE DEF edges
    <3> QED  BY <3>1
  <2>3. S \in SUBSET Nodes(own) /\ S # {}
    BY <1>1, <2>1
  <2> QED  BY <2>2, <2>3
<1> HIDE DEF edges
<1>4. HasCycle(Nodes(own), edges) <=> \E S \in SUBSET Nodes(own) : S # {} /\ Led(S, edges)
  BY PeelLeaves, SmallestCycle
<1> QED  BY <1>2, <1>3, <1>4 DEF edges

-----------------------------------------------------------------------------
(* Which control file a script belongs to                                  *)

\* A path leads to another if it is as the other begins.
LEMMA PrefixMeans ==
  ASSUME NEW X, NEW s \in Seq(X), NEW t \in Seq(X)
  PROVE  IsPrefix(s, t) <=> Len(s) <= Len(t) /\ \A i \in 1 .. Len(s) : s[i] = t[i]
<1>1. CASE Len(s) <= Len(t)
  <2>1. SubSeq(s, 1, Len(s)) = [i \in 1 .. Len(s) |-> s[i]]
        /\ SubSeq(t, 1, Len(s)) = [i \in 1 .. Len(s) |-> t[i]]
    BY <1>1
  <2>2. SubSeq(s, 1, Len(s)) = SubSeq(t, 1, Len(s)) <=> \A i \in 1 .. Len(s) : s[i] = t[i]
    BY <2>1
  <2> QED  BY <1>1, <2>2 DEF IsPrefix
<1>2. CASE ~(Len(s) <= Len(t))
  BY <1>2 DEF IsPrefix
<1> QED  BY <1>1, <1>2

\* The first n names of a path.
LEMMA PartMeans ==
  ASSUME NEW X, NEW s \in Seq(X), NEW n \in 0 .. Len(s)
  PROVE  /\ SubSeq(s, 1, n) \in Seq(X) /\ Len(SubSeq(s, 1, n)) = n
         /\ \A i \in 1 .. n : SubSeq(s, 1, n)[i] = s[i]
  OBVIOUS

\* The number of names that the directory of a script shares with that of a
\* control file.
LEMMA SharedMeans ==
  ASSUME NEW X, NEW path \in Seq(X), path # <<>>, NEW control, control.path \in Seq(X),
         control.path # <<>>
  PROVE  /\ Shared(path, control) \in 0 .. Len(Parent(path))
         /\ Shared(path, control) <= Len(Parent(control.path))
         /\ \A m \in 0 .. Len(Parent(path)) :
              IsPrefix(SubSeq(Parent(path), 1, m), Parent(control.path))
                <=> m <= Shared(path, control)
         /\ IsPrefix(Parent(control.path), Parent(path))
              <=> Len(Parent(control.path)) = Shared(path, control)
<1> DEFINE dir == Parent(path)
           other == Parent(control.path)
           P(m) == IsPrefix(SubSeq(dir, 1, m), other)
           Is(n) == P(n) /\ \A m \in n + 1 .. Len(dir) : ~P(m)
<1>1. dir \in Seq(X) /\ other \in Seq(X)
  BY DEF Parent, Front
<1>2. Shared(path, control) = CHOOSE n \in 0 .. Len(dir) : Is(n)
  BY DEF Shared
<1> HIDE DEF dir, other
<1>3. \A m \in 0 .. Len(dir) :
        P(m) <=> m <= Len(other) /\ \A i \in 1 .. m : dir[i] = other[i]
  <2> SUFFICES ASSUME NEW m \in 0 .. Len(dir)
               PROVE  P(m) <=> m <= Len(other) /\ \A i \in 1 .. m : dir[i] = other[i]
    OBVIOUS
  <2>1. /\ SubSeq(dir, 1, m) \in Seq(X) /\ Len(SubSeq(dir, 1, m)) = m
        /\ \A i \in 1 .. m : SubSeq(dir, 1, m)[i] = dir[i]
    BY <1>1, PartMeans
  <2> DEFINE part == SubSeq(dir, 1, m)
  <2> HIDE DEF part
  <2>2. IsPrefix(part, other) <=> Len(part) <= Len(other) /\ \A i \in 1 .. Len(part) : part[i] = other[i]
    <3>1. part \in Seq(X)
      BY <2>1 DEF part
    <3> QED  BY <1>1, <3>1, PrefixMeans
  <2>3. Len(part) = m /\ \A i \in 1 .. m : part[i] = dir[i]
    BY <2>1 DEF part
  <2>4. P(m) <=> IsPrefix(part, other)
    BY DEF part
  <2> QED  BY <2>2, <2>3, <2>4
<1> HIDE DEF P
<1>4. Len(dir) \in Nat /\ Len(other) \in Nat
  BY <1>1
<1>5. P(0)
  BY <1>3, <1>4
<1>6. \E n \in 0 .. Len(dir) : Is(n)
  <2> DEFINE T == {m \in 0 .. Len(dir) : P(m)}
  <2>1. T \subseteq 0 .. Len(dir) /\ T # {}
    BY <1>4, <1>5
  <2> HIDE DEF T
  <2>2. PICK n \in T : \A m \in T : m <= n
    BY <1>4, <2>1, GreatestNumber
  <2>3. Is(n)
    <3>1. ASSUME NEW m \in n + 1 .. Len(dir), P(m) PROVE FALSE
      <4>1. m \in T /\ n \in Nat
        BY <1>4, <3>1, <2>2 DEF T
      <4> QED  BY <2>2, <4>1
    <3> QED  BY <2>2, <3>1 DEF T
  <2> QED  BY <2>1, <2>2, <2>3
<1> DEFINE n == Shared(path, control)
<1>7. n \in 0 .. Len(dir) /\ Is(n)
  <2> HIDE DEF Is
  <2> QED  BY <1>2, <1>6
<1> HIDE DEF n
<1>8. \A m \in 0 .. Len(dir) : P(m) <=> m <= n
  <2>1. ASSUME NEW m \in 0 .. Len(dir), m <= n PROVE P(m)
    BY <1>3, <1>4, <1>7, <2>1
  <2>2. ASSUME NEW m \in 0 .. Len(dir), P(m), ~(m <= n) PROVE FALSE
    <3>1. m \in n + 1 .. Len(dir)
      BY <1>4, <1>7, <2>2
    <3> QED  BY <1>7, <2>2, <3>1
  <2> QED  BY <2>1, <2>2
<1>9. n <= Len(other)
  BY <1>3, <1>7
<1>10. IsPrefix(other, dir) <=> Len(other) = n
  <2>1. IsPrefix(other, dir) <=> Len(other) <= Len(dir) /\ \A i \in 1 .. Len(other) : other[i] = dir[i]
    BY <1>1, PrefixMeans
  <2>2. ASSUME Len(other) = n PROVE IsPrefix(other, dir)
    BY <1>3, <1>4, <1>7, <2>1, <2>2
  <2>3. ASSUME IsPrefix(other, dir) PROVE Len(other) = n
    <3>1. Len(other) \in 0 .. Len(dir)
      BY <1>4, <2>1, <2>3
    <3>2. P(Len(other))
      BY <1>3, <1>4, <2>1, <2>3, <3>1
    <3> QED  BY <1>4, <1>7, <1>8, <1>9, <3>1, <3>2
  <2> QED  BY <2>2, <2>3
<1> QED  BY <1>7, <1>8, <1>9, <1>10 DEF n, dir, other, P

\* A set from which one element would be taken.
LEMMA OnlyOneMeans ==
  ASSUME NEW S, IsFiniteSet(S)
  PROVE  /\ \A c : OnlyOne(S) = {c} <=> S = {c}
         /\ OnlyOne(S) \subseteq S
         /\ OnlyOne(S) = {} \/ \E c \in S : OnlyOne(S) = {c}
<1>1. Cardinality(S) = 1 <=> \E c : S = {c}
  BY FS_Singleton
<1> QED  BY <1>1 DEF OnlyOne

\* Controls and scripts have paths.
Located(S, X) == \A x \in S : x.path \in Seq(X) \ {<<>>}

\* _scoped_control returns the nearest control file, if there is one.
LEMMA ScopeIsNearest ==
  ASSUME NEW X, NEW script, script.path \in Seq(X), script.path # <<>>,
         NEW controls, IsFiniteSet(controls), Located(controls, X)
  PROVE  /\ \A c : ScopeOf(script, controls) = {c} <=> IsNearest(c, script, controls)
         /\ Cardinality(Candidates(script, controls)) > 1 =>
              (ScopeOf(script, controls) = {} <=> \A c \in controls : ~IsNearest(c, script, controls))
<1> DEFINE K == Candidates(script, controls)
           dir == Parent(script.path)
           L == Len(dir)
           S(c) == Shared(script.path, c)
           N(c) == Len(Parent(c.path))
<1>1. K \subseteq controls /\ IsFiniteSet(K) /\ Cardinality(K) \in Nat
  <2>1. K \subseteq controls
    BY DEF Candidates
  <2> HIDE DEF K
  <2> QED  BY <2>1, FS_Subset, FS_CardinalityType
<1>2. L \in Nat /\ dir \in Seq(X)
  <2>1. dir \in Seq(X)
    BY DEF Parent, Front
  <2> HIDE DEF dir
  <2> QED  BY <2>1
<1>3. \A c \in K : /\ S(c) \in 0 .. L /\ N(c) \in Nat /\ S(c) <= N(c)
                   /\ \A m \in 0 .. L : IsPrefix(SubSeq(dir, 1, m), Parent(c.path)) <=> m <= S(c)
                   /\ IsPrefix(Parent(c.path), dir) <=> N(c) = S(c)
  <2> SUFFICES ASSUME NEW c \in K
               PROVE  /\ S(c) \in 0 .. L /\ N(c) \in Nat /\ S(c) <= N(c)
                      /\ \A m \in 0 .. L : IsPrefix(SubSeq(dir, 1, m), Parent(c.path)) <=> m <= S(c)
                      /\ IsPrefix(Parent(c.path), dir) <=> N(c) = S(c)
    OBVIOUS
  <2>1. c.path \in Seq(X) /\ c.path # <<>>
    BY <1>1 DEF Located
  <2>2. Parent(c.path) \in Seq(X)
    BY <2>1 DEF Parent, Front
  <2>3. N(c) \in Nat
    BY <2>2
  <2> QED  BY <2>1, <2>3, SharedMeans
<1>4. \A c : IsNearest(c, script, controls) <=>
        c \in K /\ \A o \in K \ {c} : \/ S(o) < S(c)
                                      \/ S(o) = S(c) /\ N(c) = S(c) /\ N(o) > S(c)
  BY DEF IsNearest
<1> DEFINE scope == ScopeOf(script, controls)
<1>5. (scope = {} \/ \E c \in K : scope = {c}) \/ Cardinality(K) < 2
  <2> SUFFICES ASSUME ~(Cardinality(K) < 2) PROVE scope = {} \/ \E c \in K : scope = {c}
    OBVIOUS
  <2> DEFINE Below_(d) == {c \in K : IsPrefix(SubSeq(dir, 1, d), Parent(c.path))}
             depth == CHOOSE d \in 0 .. Len(dir) :
                        /\ Below_(d) # {}
                        /\ \A e \in d + 1 .. Len(dir) : Below_(e) = {}
             matches == Below_(depth)
             beside == {c \in matches : Parent(c.path) = dir}
             above == {c \in matches : IsPrefix(Parent(c.path), dir)}
             nearest == {c \in above : \A d \in above : Len(d.path) <= Len(c.path)}
  <2>1. scope = IF beside # {} THEN OnlyOne(beside)
                ELSE IF above # {} THEN OnlyOne(nearest) ELSE OnlyOne(matches)
    BY DEF ScopeOf, ScopedControl
  <2>2. beside \subseteq K /\ nearest \subseteq K /\ matches \subseteq K
    OBVIOUS
  <2> HIDE DEF beside, nearest, matches, scope
  <2>3. IsFiniteSet(beside) /\ IsFiniteSet(nearest) /\ IsFiniteSet(matches)
    BY <1>1, <2>2, FS_Subset
  <2> QED  BY <2>1, <2>2, <2>3, OnlyOneMeans
<1>6. \A c : scope = {c} <=> IsNearest(c, script, controls)
  <2>1. CASE Cardinality(K) < 2
    <3>1. scope = K
      BY <2>1 DEF ScopeOf, ScopedControl
    <3>2. K = {} \/ \E c : K = {c}
      <4>1. Cardinality(K) = 0 \/ Cardinality(K) = 1
        BY <1>1, <2>1
      <4> HIDE DEF K
      <4>2. Cardinality(K) = 1 => \E c : K = {c}
        BY <1>1, FS_Singleton
      <4>3. Cardinality(K) = 0 => K = {}
        BY <1>1, FS_EmptySet
      <4> QED  BY <4>1, <4>2, <4>3
    <3> HIDE DEF K, S, N, scope
    <3> QED  BY <1>4, <3>1, <3>2
  <2>2. CASE ~(Cardinality(K) < 2)
    <3> DEFINE Below_(d) == {c \in K : IsPrefix(SubSeq(dir, 1, d), Parent(c.path))}
               Is(d) == Below_(d) # {} /\ \A e \in d + 1 .. Len(dir) : Below_(e) = {}
               depth == CHOOSE d \in 0 .. Len(dir) : Is(d)
               matches == Below_(depth)
               beside == {c \in matches : Parent(c.path) = dir}
               above == {c \in matches : IsPrefix(Parent(c.path), dir)}
               nearest == {c \in above : \A d \in above : Len(d.path) <= Len(c.path)}
    <3>1. scope = IF beside # {} THEN OnlyOne(beside)
                  ELSE IF above # {} THEN OnlyOne(nearest) ELSE OnlyOne(matches)
      BY <2>2 DEF ScopeOf, ScopedControl
    <3>2. \A d \in 0 .. L : Below_(d) = {c \in K : d <= S(c)}
      BY <1>3
    <3>3. K # {}
      BY <1>1, <2>2, FS_EmptySet
    <3> HIDE DEF K, S, Below_
    <3>4. depth \in 0 .. L /\ Is(depth)
      <4> DEFINE T == {S(c) : c \in K}
      <4>1. T \subseteq 0 .. L /\ T # {}
        BY <1>3, <3>3
      <4>2. PICK d \in T : \A m \in T : m <= d
        <5> HIDE DEF T
        <5> QED  BY <1>2, <4>1, GreatestNumber
      <4>3. d \in 0 .. L
        BY <4>1
      <4>4. Below_(d) # {}
        BY <3>2, <4>1, <4>2
      <4>5. ASSUME NEW e \in d + 1 .. L PROVE Below_(e) = {}
        <5>1. \A c \in K : S(c) <= d /\ S(c) \in Nat
          BY <1>3, <4>2
        <5>2. e \in 0 .. L /\ e > d
          BY <1>2, <4>3
        <5> QED  BY <3>2, <4>3, <5>1, <5>2
      <4>6. \E d_ \in 0 .. L : Is(d_)
        BY <4>3, <4>4, <4>5
      <4> HIDE DEF Is
      <4> QED  BY <4>6
    <3>5. (\A c \in K : S(c) <= depth) /\ \E c \in K : S(c) = depth
      <4> HIDE DEF depth
      <4>1. ASSUME NEW c \in K, ~(S(c) <= depth) PROVE FALSE
        <5>1. S(c) \in depth + 1 .. L /\ S(c) \in 0 .. L
          BY <1>2, <1>3, <3>4, <4>1
        <5>2. c \in Below_(S(c))
          BY <1>3, <3>2, <5>1
        <5> QED  BY <3>4, <5>1, <5>2
      <4>2. PICK c \in K : depth <= S(c)
        BY <3>2, <3>4
      <4> QED  BY <1>3, <3>4, <4>1, <4>2
    <3>6. matches = {c \in K : S(c) = depth}
      <4> HIDE DEF depth
      <4> QED  BY <1>3, <3>2, <3>4, <3>5
    <3> HIDE DEF depth, Is
    <3>7. above = {c \in K : S(c) = depth /\ N(c) = depth}
      <4> HIDE DEF matches
      <4> QED  BY <1>3, <3>6
    <3>8. nearest = above
      <4>1. \A c \in above : Len(c.path) = depth + 1
        <5> SUFFICES ASSUME NEW c \in above PROVE Len(c.path) = depth + 1
          OBVIOUS
        <5>1. c \in K /\ N(c) = depth
          BY <3>7
        <5>2. c.path \in Seq(X) /\ c.path # <<>>
          BY <1>1, <5>1 DEF Located
        <5>3. N(c) = Len(c.path) - 1 /\ Len(c.path) \in Nat
          BY <5>2 DEF Parent, Front
        <5> QED  BY <5>1, <5>3
      <4> HIDE DEF above
      <4> QED  BY <3>4, <4>1
    <3>9. beside # {} => beside = above
      <4> SUFFICES ASSUME NEW b \in beside PROVE beside = above
        OBVIOUS
      <4>1. b \in K /\ S(b) = depth /\ Parent(b.path) = dir
        BY <3>6
      <4>2. IsPrefix(dir, dir)
        BY <1>2 DEF IsPrefix
      <4>3. depth = L
        BY <1>3, <4>1, <4>2
      <4>4. ASSUME NEW c \in above PROVE Parent(c.path) = dir
        <5>1. c \in K /\ S(c) = L /\ N(c) = L
          BY <3>7, <4>3
        <5>2. IsPrefix(Parent(c.path), dir)
          BY <1>3, <5>1
        <5>3. Parent(c.path) \in Seq(X)
          <6>1. c.path \in Seq(X)
            BY <1>1, <5>1 DEF Located
          <6> QED  BY <6>1 DEF Parent, Front
        <5> HIDE DEF dir
        <5>4. \A i \in 1 .. L : Parent(c.path)[i] = dir[i]
          BY <1>2, <5>1, <5>2, <5>3, PrefixMeans
        <5>5. Len(Parent(c.path)) = Len(dir)
          BY <5>1
        <5> QED  BY <1>2, <5>3, <5>4, <5>5
      <4>5. ASSUME NEW c \in beside PROVE c \in above
        <5>1. c \in matches /\ Parent(c.path) = dir
          OBVIOUS
        <5> QED  BY <4>2, <5>1
      <4> QED  BY <4>4, <4>5
    <3>10. scope = IF above # {} THEN OnlyOne(above) ELSE OnlyOne(matches)
      <4>1. above \subseteq matches /\ (beside # {} => matches # {})
        OBVIOUS
      <4> HIDE DEF beside, above, nearest, matches, scope
      <4> QED  BY <3>1, <3>8, <3>9, <4>1
    <3>11. IsFiniteSet(above) /\ IsFiniteSet(matches)
      <4>1. above \subseteq K /\ matches \subseteq K
        BY <3>6, <3>7
      <4> HIDE DEF above, matches
      <4> QED  BY <1>1, <4>1, FS_Subset
    <3> DEFINE A == {c \in K : S(c) = depth /\ N(c) = depth}
               M == {c \in K : S(c) = depth}
    <3>12. \A c : scope = {c} <=> IF A # {} THEN A = {c} ELSE M = {c}
      <4>1. scope = IF A # {} THEN OnlyOne(A) ELSE OnlyOne(M)
        <5> HIDE DEF above, matches, scope
        <5> QED  BY <3>6, <3>7, <3>10
      <4>2. IsFiniteSet(A) /\ IsFiniteSet(M)
        <5> HIDE DEF above, matches
        <5> QED  BY <3>6, <3>7, <3>11
      <4> HIDE DEF A, M, scope
      <4> QED  BY <4>1, <4>2, OnlyOneMeans
    <3> HIDE DEF above, matches, beside, nearest, scope, dir, N, L
    <3>13. \A c \in K : S(c) \in Nat /\ N(c) \in Nat /\ S(c) <= N(c) /\ S(c) <= depth
      BY <1>3, <3>5
    <3>14. ASSUME NEW c, scope = {c} PROVE IsNearest(c, script, controls)
      <4>1. CASE A # {}
        <5>1. A = {c}
          BY <3>12, <3>14, <4>1
        <5>2. c \in K /\ S(c) = depth /\ N(c) = depth
          BY <5>1
        <5>3. ASSUME NEW o \in K \ {c}
              PROVE  S(o) < S(c) \/ (S(o) = S(c) /\ N(c) = S(c) /\ N(o) > S(c))
          <6>1. o \notin A
            BY <5>1
          <6>2. S(o) # depth \/ N(o) # depth
            BY <6>1
          <6>3. S(o) \in Nat /\ N(o) \in Nat /\ S(o) <= N(o) /\ S(o) <= depth
            BY <3>13
          <6>4. depth \in Nat
            BY <3>4
          <6>5. S(o) # depth => S(o) < S(c)
            BY <5>2, <6>3, <6>4
          <6>6. S(o) = depth => S(o) = S(c) /\ N(c) = S(c) /\ N(o) > S(c)
            BY <5>2, <6>2, <6>3, <6>4
          <6> QED  BY <6>5, <6>6
        <5> QED  BY <1>4, <5>2, <5>3
      <4>2. CASE A = {}
        <5>1. M = {c}
          BY <3>12, <3>14, <4>2
        <5>2. c \in K /\ S(c) = depth
          BY <5>1
        <5>3. ASSUME NEW o \in K \ {c} PROVE S(o) < S(c)
          <6>1. S(o) # depth
            BY <5>1
          <6> QED  BY <3>4, <3>13, <5>2, <6>1
        <5> QED  BY <1>4, <5>2, <5>3
      <4> QED  BY <4>1, <4>2
    <3>15. ASSUME NEW c, IsNearest(c, script, controls) PROVE scope = {c}
      <4>1. c \in K /\ \A o \in K \ {c} : \/ S(o) < S(c)
                                          \/ S(o) = S(c) /\ N(c) = S(c) /\ N(o) > S(c)
        BY <1>4, <3>15
      <4>2. S(c) = depth
        <5>1. PICK d \in K : S(d) = depth
          BY <3>5
        <5> QED  BY <3>4, <3>13, <4>1, <5>1
      <4>3. c \in M
        BY <4>1, <4>2
      <4>4. CASE M = {c}
        <5>1. A = {} \/ A = {c}
          BY <4>4
        <5> HIDE DEF A, M
        <5> QED  BY <3>12, <4>4, <5>1
      <4>5. CASE M # {c}
        <5>1. PICK o \in M : o # c
          BY <4>3, <4>5
        <5>2. N(c) = depth /\ S(o) = depth
          BY <3>13, <4>1, <4>2, <5>1
        <5>3. \A x \in K \ {c} : x \notin A
          BY <3>13, <4>1, <4>2
        <5>4. A = {c}
          BY <4>1, <4>2, <5>2, <5>3
        <5> HIDE DEF A, M
        <5> QED  BY <3>12, <5>4
      <4> QED  BY <4>4, <4>5
    <3> QED  BY <3>14, <3>15
  <2> QED  BY <2>1, <2>2
<1> HIDE DEF scope
<1>7. Cardinality(K) > 1 => (scope = {} <=> \A c \in controls : ~IsNearest(c, script, controls))
  <2> SUFFICES ASSUME Cardinality(K) > 1
               PROVE  scope = {} <=> \A c \in controls : ~IsNearest(c, script, controls)
    OBVIOUS
  <2>1. scope = {} \/ \E c \in K : scope = {c}
    BY <1>1, <1>5
  <2> HIDE DEF K
  <2> QED  BY <1>1, <1>6, <2>1
<1> QED  BY <1>6, <1>7 DEF scope

-----------------------------------------------------------------------------
(* What the graph findings are                                             *)

\* The versions of finitely many scripts are finite in number.
LEMMA FiniteVersions ==
  ASSUME NEW own, IsFiniteSet(own)
  PROVE  IsFiniteSet(Bases(own)) /\ IsFiniteSet(Edges(own)) /\ IsFiniteSet(Ends(Edges(own)))
         /\ Nodes(own) = Bases(own) \cup Ends(Edges(own)) /\ IsFiniteSet(Nodes(own))
<1> DEFINE bases == {t \in own : t.kind = "base"}
           updates == {t \in own : t.kind = "update"}
           edges == Edges(own)
<1>1. IsFiniteSet(bases) /\ IsFiniteSet(updates)
  BY FS_Subset
<1>2. IsFiniteSet(Bases(own))
  <2> DEFINE f == [s \in bases |-> s.from]
  <2>1. Bases(own) = {f[s] : s \in bases}
    BY DEF Bases
  <2> HIDE DEF bases
  <2>2. DOMAIN f = bases
    OBVIOUS
  <2> HIDE DEF f
  <2> QED  BY <1>1, <2>1, <2>2, FiniteImage
<1>3. IsFiniteSet(edges)
  <2> DEFINE f == [s \in updates |-> <<s.from, s.to>>]
  <2>1. Edges(own) = {f[s] : s \in updates}
    BY DEF Edges
  <2> HIDE DEF updates
  <2>2. DOMAIN f = updates
    OBVIOUS
  <2> HIDE DEF f
  <2> QED  BY <1>1, <2>1, <2>2, FiniteImage
<1> HIDE DEF edges
<1>4. IsFiniteSet(Ends(edges))
  <2> DEFINE f == [e \in edges |-> e[1]]
             g == [e \in edges |-> e[2]]
             F == {f[e] : e \in edges}
             G == {g[e] : e \in edges}
  <2>1. Ends(edges) = F \cup G
    BY DEF Ends
  <2>2. IsFiniteSet(F)
    <3>1. DOMAIN f = edges
      OBVIOUS
    <3> HIDE DEF f
    <3> QED  BY <1>3, <3>1, FiniteImage
  <2>3. IsFiniteSet(G)
    <3>1. DOMAIN g = edges
      OBVIOUS
    <3> HIDE DEF g
    <3> QED  BY <1>3, <3>1, FiniteImage
  <2> HIDE DEF F, G
  <2> QED  BY <2>1, <2>2, <2>3, FS_Union
<1>5. Nodes(own) = Bases(own) \cup Ends(edges)
  BY DEF Nodes, Ends, edges
<1> QED  BY <1>2, <1>3, <1>4, <1>5, FS_Union DEF edges

\* The findings of a control file are what is wrong with its scripts.
LEMMA FindingsAreFaults ==
  ASSUME NEW X, NEW controls, IsFiniteSet(controls), Located(controls, X),
         NEW scripts, IsFiniteSet(scripts), Located(scripts, X), NEW control \in controls
  PROVE  ControlFindings(control, scripts, controls) = Faults(control, scripts, controls)
<1> DEFINE own == ScriptsOf(control, scripts, controls)
           edges == Edges(own)
           bases == Bases(own)
           asked == control.default # NoVersion /\ ~control.template
           starts == bases \cup {e[1] : e \in {f \in edges : \A g \in edges : g[2] # f[1]}}
<1>1. own = {s \in scripts : IsNearest(control, s, controls)}
  <2> SUFFICES ASSUME NEW s \in scripts
               PROVE  ScopeOf(s, controls) = {control} <=> IsNearest(control, s, controls)
    BY DEF ScriptsOf
  <2>1. s.path \in Seq(X) /\ s.path # <<>>
    BY DEF Located
  <2> QED  BY <2>1, ScopeIsNearest
<1>2. IsFiniteSet(own)
  <2>1. own \subseteq scripts
    BY DEF ScriptsOf
  <2> QED  BY <2>1, FS_Subset
<1>3. Unresolved(control) <=> ~asked
  BY DEF Unresolved
<1> HIDE DEF own
<1>4. /\ IsFiniteSet(bases) /\ IsFiniteSet(edges) /\ IsFiniteSet(Ends(edges))
      /\ Nodes(own) = bases \cup Ends(edges) /\ IsFiniteSet(Nodes(own))
  BY <1>2, FiniteVersions
<1>5. HasCycle(Nodes(own), edges) <=> Cyclic(edges)
  BY <1>4, CycleIsFound
<1>6. \A n : n \in ReachableMany(bases, edges) <=> \E v \in bases : Leads(edges, v, n)
  <2>1. IsFiniteSet(bases \cup Ends(edges))
    BY <1>4
  <2> QED  BY <2>1, ReachedFromOne
<1>7. \A n : n \in ReachableMany({control.default}, Reversed(edges)) <=> Leads(edges, n, control.default)
  <2>1. Ends(Reversed(edges)) = Ends(edges)
    <3>1. ASSUME NEW x PROVE x \in Ends(Reversed(edges)) <=> x \in Ends(edges)
      <4>1. x \in Ends(Reversed(edges)) <=> \E e \in edges : x = e[1] \/ x = e[2]
        <5>1. ASSUME NEW b \in Reversed(edges), x = b[1] \/ x = b[2]
              PROVE  \E e \in edges : x = e[1] \/ x = e[2]
          <6>1. PICK e \in edges : b = <<e[2], e[1]>>
            BY DEF Reversed
          <6> QED  BY <5>1, <6>1
        <5>2. ASSUME NEW e \in edges, x = e[1] \/ x = e[2]
              PROVE  \E b \in Reversed(edges) : x = b[1] \/ x = b[2]
          <6>1. <<e[2], e[1]>> \in Reversed(edges)
            BY DEF Reversed
          <6> QED  BY <5>2, <6>1
        <5> QED  BY <5>1, <5>2 DEF Ends
      <4> QED  BY <4>1 DEF Ends
    <3> QED  BY <3>1
  <2>2. IsFiniteSet({control.default} \cup Ends(Reversed(edges)))
    BY <1>4, <2>1, FS_Union, FS_Singleton
  <2>3. \A n : n \in ReachableMany({control.default}, Reversed(edges))
                 <=> Leads(Reversed(edges), control.default, n)
    BY <2>2, ReachedFromOne
  <2> QED  BY <2>3, LeadsReversed
<1>8. (Nodes(own) \ {e[2] : e \in edges}) \cup bases = starts
  <2>1. ASSUME NEW n \in Nodes(own), n \notin {e[2] : e \in edges}, n \notin bases
        PROVE  n \in starts
    <3>1. PICK e \in edges : n = e[1] \/ n = e[2]
      BY <1>4, <2>1 DEF Ends
    <3>2. n = e[1] /\ \A g \in edges : g[2] # e[1]
      BY <2>1, <3>1
    <3> QED  BY <3>2
  <2>2. ASSUME NEW e \in edges, \A g \in edges : g[2] # e[1]
        PROVE  e[1] \in Nodes(own) \ {g[2] : g \in edges}
    BY <1>4, <2>2 DEF Ends
  <2> QED  BY <2>1, <2>2
<1>9. \A n : n \in EntryVersions(own) <=> \E v \in starts : Leads(edges, v, n)
  <2>1. starts \cup Ends(edges) = Nodes(own)
    BY <1>4, <1>8
  <2>2. EntryVersions(own) = ReachableMany(starts, edges)
    BY <1>8 DEF EntryVersions
  <2> HIDE DEF starts
  <2> QED  BY <1>4, <2>1, <2>2, ReachedFromOne
<1>10. EntryVersions(own) \subseteq Nodes(own)
  <2>1. starts \subseteq Nodes(own) /\ Closed(Nodes(own), edges)
    <3>1. starts \subseteq Nodes(own)
      BY <1>4, <1>8
    <3>2. Closed(Nodes(own), edges)
      BY <1>4 DEF Closed, Ends
    <3> QED  BY <3>1, <3>2
  <2> HIDE DEF starts
  <2> QED  BY <1>9, <2>1, LeadsMeans
<1>11. CycleFindings(control, own)
         = IF Cyclic(edges) THEN {Found("update.cycle", control.path, NoVersion)} ELSE {}
  BY <1>5 DEF CycleFindings
<1>12. InstallFindings(control, own)
         = IF /\ asked /\ ~\E s \in own : s.kind = "plain"
              /\ ~\E v \in bases : Leads(edges, v, control.default)
           THEN {Found("update.install-script-missing", control.path, control.default)} ELSE {}
  <2> HIDE DEF asked
  <2> QED  BY <1>3, <1>6 DEF InstallFindings, HasPlainInstall
<1> DEFINE stuck == {n \in Nodes(own) : /\ asked /\ \E start \in starts : Leads(edges, start, n)
                                       /\ ~Leads(edges, n, control.default)}
<1>13. PathFindings(control, own) = {Found("update.missing-path", control.path, v) : v \in stuck}
  <2>1. CASE ~asked
    BY <1>3, <2>1 DEF PathFindings
  <2>2. CASE asked
    <3> DEFINE missed == EntryVersions(own) \ ReachableMany({control.default}, Reversed(edges))
    <3>1. missed = stuck
      <4> HIDE DEF starts
      <4> QED  BY <1>7, <1>9, <1>10, <2>2
    <3>2. PathFindings(control, own) = {Found("update.missing-path", control.path, v) : v \in missed}
      <4> HIDE DEF asked
      <4> QED  BY <1>3, <2>2 DEF PathFindings
    <3> HIDE DEF missed, stuck
    <3> QED  BY <3>1, <3>2
  <2> QED  BY <2>1, <2>2
<1>14. Faults(control, scripts, controls)
         = (IF Cyclic(edges) THEN {Found("update.cycle", control.path, NoVersion)} ELSE {})
           \cup (IF /\ asked /\ ~\E s \in own : s.kind = "plain"
                    /\ ~\E v \in bases : Leads(edges, v, control.default)
                 THEN {Found("update.install-script-missing", control.path, control.default)} ELSE {})
           \cup {Found("update.missing-path", control.path, v) : v \in stuck}
  <2>1. Faults(control, scripts, controls)
          = LET own_ == own
                edges_ == Edges(own_)
                install == Bases(own_)
                starts_ == install \cup {e[1] : e \in {f \in edges_ : \A g \in edges_ : g[2] # f[1]}}
                asked_ == control.default # NoVersion /\ ~control.template
            IN  (IF Cyclic(edges_) THEN {Found("update.cycle", control.path, NoVersion)} ELSE {})
                \cup (IF /\ asked_ /\ ~\E s \in own_ : s.kind = "plain"
                         /\ ~\E v \in install : Leads(edges_, v, control.default)
                      THEN {Found("update.install-script-missing", control.path, control.default)} ELSE {})
                \cup {Found("update.missing-path", control.path, v) :
                        v \in {n \in Nodes(own_) : /\ asked_ /\ \E start \in starts_ : Leads(edges_, start, n)
                                                   /\ ~Leads(edges_, n, control.default)}}
    BY <1>1, Zenon DEF Faults
  <2> QED  BY <2>1, Zenon
<1>15. ControlFindings(control, scripts, controls)
         = CycleFindings(control, own) \cup InstallFindings(control, own)
           \cup PathFindings(control, own)
  BY DEF ControlFindings, own
<1> HIDE DEF edges, asked, starts, bases, stuck
<1> QED  BY <1>11, <1>12, <1>13, <1>14, <1>15

\* The findings about all scripts are all that is wrong with them.
LEMMA GraphFindingsAreFaults ==
  ASSUME NEW X, IsFiniteSet(Documents(FALSE)), Located(Documents(FALSE), X),
         IsFiniteSet(Scripts(Documents(FALSE))), Located(Scripts(Documents(FALSE)), X)
  PROVE  AllGraphFindings(Scripts(Documents(FALSE)), Documents(FALSE)) = AllFaults
<1> DEFINE controls == Documents(FALSE)
           scripts == Scripts(controls)
<1>0. AllFaults =
        {Found("update.ambiguous-scope", s.path, NoVersion) :
           s \in {t \in scripts : /\ Cardinality(Candidates(t, controls)) > 1
                                  /\ \A c \in controls : ~IsNearest(c, t, controls)}}
        \cup UNION {Faults(c, scripts, controls) : c \in controls}
  BY DEF AllFaults
<1> HIDE DEF controls, scripts
<1>1. \A c \in controls : ControlFindings(c, scripts, controls) = Faults(c, scripts, controls)
  BY FindingsAreFaults DEF controls, scripts
<1>2. Ambiguous(scripts, controls)
        = {t \in scripts : /\ Cardinality(Candidates(t, controls)) > 1
                           /\ \A c \in controls : ~IsNearest(c, t, controls)}
  <2> SUFFICES ASSUME NEW t \in scripts, Cardinality(Candidates(t, controls)) > 1
               PROVE  ScopeOf(t, controls) = {} <=> \A c \in controls : ~IsNearest(c, t, controls)
    BY DEF Ambiguous
  <2>1. t.path \in Seq(X) /\ t.path # <<>>
    BY DEF Located, controls, scripts
  <2> QED  BY <2>1, ScopeIsNearest DEF controls
<1>3. UNION {ControlFindings(c, scripts, controls) : c \in controls}
        = UNION {Faults(c, scripts, controls) : c \in controls}
  BY <1>1
<1> QED  BY <1>0, <1>2, <1>3 DEF AllGraphFindings, controls, scripts

-----------------------------------------------------------------------------
(* The settings of control files                                           *)

\* A privilege is on in the primary, whose finding is reported, or is set in the
\* version's own control file, where it is asked about.
LEMMA PrivilegeHasFinding ==
  ASSUME NEW primaries, NEW secondaries, NEW own \in secondaries, NEW primary \in primaries,
         NEW privilege \in Privileges, Holds(privilege, Over(own.values, primary.values))
  PROVE  \E path \in {own.path, primary.path} :
           Found(privilege, path, NoVersion) \in ControlSettings(primaries, secondaries)
<1> DEFINE F(path) == Found(privilege, path, NoVersion)
<1>1. \A path, values, asked : privilege \in asked /\ Holds(privilege, values)
                                 => F(path) \in ControlRules(path, values, asked)
  BY DEF ControlRules, Found, NoVersion
<1>2. privilege \in Settings
  BY DEF Privileges, Settings
<1>3. CASE Holds(privilege, primary.values)
  <2>1. F(primary.path) \in ControlRules(primary.path, primary.values, Settings)
    BY <1>1, <1>2, <1>3
  <2>2. F(primary.path) \in ControlSettings(primaries, secondaries)
    BY <2>1 DEF ControlSettings
  <2> QED  BY <2>2
<1>4. CASE ~Holds(privilege, primary.values)
  <2>1. privilege \in DOMAIN own.values
    <3> SUFFICES ASSUME privilege \notin DOMAIN own.values PROVE FALSE
      OBVIOUS
    <3> DEFINE both == Over(own.values, primary.values)
    <3>1. /\ privilege \in DOMAIN both <=> privilege \in DOMAIN primary.values
          /\ privilege \in DOMAIN both => both[privilege] = primary.values[privilege]
      BY DEF Over
    <3>2. Holds(privilege, both) <=> Holds(privilege, primary.values)
      BY <3>1 DEF Holds
    <3> QED  BY <1>4, <3>2
  <2>2. \A values : LET both == Over(own.values, values)
                    IN  privilege \in DOMAIN both /\ both[privilege] = own.values[privilege]
    BY <2>1 DEF Over
  <2>3. \A values : Holds(privilege, Over(own.values, values)) <=> Holds(privilege, own.values)
    BY <2>1, <2>2 DEF Holds
  <2>4. Holds(privilege, own.values)
    BY <2>3
  <2> DEFINE one == Primaries(own, primaries)
             Own(s) == LET found_ == Primaries(s, primaries)
                       IN  IF Cardinality(found_) = 1
                           THEN ControlRules(s.path, Effective(CHOOSE x \in found_ : TRUE, s),
                                             DOMAIN s.values)
                           ELSE ControlRules(s.path, s.values, Settings)
  <2>0. Own(own) \subseteq ControlSettings(primaries, secondaries)
    <3>1. ControlSettings(primaries, secondaries) =
            UNION ({ControlRules(x.path, x.values, Settings) : x \in primaries}
                   \cup {Own(s) : s \in secondaries})
      BY DEF ControlSettings
    <3> HIDE DEF Own
    <3> QED  BY <3>1
  <2>5. CASE Cardinality(one) = 1
    <3> DEFINE c == CHOOSE x \in one : TRUE
    <3>1. F(own.path) \in ControlRules(own.path, Effective(c, own), DOMAIN own.values)
      BY <1>1, <2>1, <2>3, <2>4 DEF Effective
    <3>2. F(own.path) \in Own(own)
      BY <2>5, <3>1
    <3>3. F(own.path) \in ControlSettings(primaries, secondaries)
      BY <2>0, <3>2
    <3> QED  BY <3>3
  <2>6. CASE Cardinality(one) # 1
    <3>1. F(own.path) \in ControlRules(own.path, own.values, Settings)
      BY <1>1, <1>2, <2>4
    <3>2. F(own.path) \in Own(own)
      BY <2>6, <3>1
    <3>3. F(own.path) \in ControlSettings(primaries, secondaries)
      BY <2>0, <3>2
    <3> QED  BY <3>3
  <2> QED  BY <2>5, <2>6
<1> QED  BY <1>3, <1>4

-----------------------------------------------------------------------------
(* The limit on the search                                                 *)

\* A search that has not come to its limit has found everything.
LEMMA SearchIsComplete ==
  ASSUME NEW scripts, NEW controls, IsFiniteSet(AllGraphFindings(scripts, controls)),
         NEW most \in Nat,
         Cardinality(GraphFindings(scripts, controls, most)) < most
  PROVE  GraphFindings(scripts, controls, most) = AllGraphFindings(scripts, controls)
<1> DEFINE all == AllGraphFindings(scripts, controls)
<1> HIDE DEF all
<1>0. GraphFindings(scripts, controls, most) =
        IF Cardinality(all) < most THEN all
        ELSE CHOOSE some \in SUBSET all : Cardinality(some) = most
  BY DEF GraphFindings, all
<1>1. CASE Cardinality(all) < most
  BY <1>0, <1>1 DEF all
<1>2. CASE ~(Cardinality(all) < most)
  <2>1. IsFiniteSet(all) /\ Cardinality(all) \in Nat
    BY FS_CardinalityType DEF all
  <2>2. \E T \in SUBSET all : Cardinality(T) = most
    BY <1>2, <2>1, SubsetOfSize
  <2>3. Cardinality(CHOOSE some \in SUBSET all : Cardinality(some) = most) = most
    BY <2>2
  <2> QED  BY <1>0, <1>2, <2>3
<1> QED  BY <1>1, <1>2

-----------------------------------------------------------------------------
(* What the analysis works on                                              *)

\* The files of the manifest and what was rendered have places of their own.
WorkingSet ==
  /\ IsPlan(plan)
  /\ DOMAIN read \subseteq Paths \ {<<>>} /\ Range(read) \subseteq Contents
  /\ DOMAIN rendered \subseteq Paths \ {<<>>} /\ Range(rendered) \subseteq Contents

\* What is analysed was rendered, or is a file of the manifest.
LEMMA AnalysedIs ==
  /\ DOMAIN Analysed \subseteq DOMAIN rendered \cup DOMAIN read
  /\ \A p \in DOMAIN Analysed :
       \/ p \in DOMAIN rendered /\ Analysed[p] = rendered[p]
       \/ p \in DOMAIN read /\ Analysed[p] = read[p]
  BY DEF Analysed, Restrict, Over

\* What a plan says of its artifacts.
LEMMA ArtifactsAre ==
  ASSUME NEW asked, IsPlan(asked), NEW a \in Range(asked.artifacts)
  PROVE  /\ a.path \in Paths \ {<<>>} /\ a.inputs \in Seq(GenerationInput) \ {<<>>}
         /\ a.template \in Paths
         /\ a.template # <<>> => \E i \in Range(a.inputs) : i.path = a.template
<1> DEFINE T == [path: Paths \ {<<>>}, inputs: Seq(GenerationInput) \ {<<>>}, template: Paths]
<1>1. asked.artifacts \in Seq(T)
  BY DEF IsPlan
<1>2. a \in T
  <2> HIDE DEF T
  <2>1. PICK i \in DOMAIN asked.artifacts : a = asked.artifacts[i]
    BY DEF Range
  <2> QED  BY <1>1, <2>1
<1>3. a.path \in Paths \ {<<>>} /\ a.inputs \in Seq(GenerationInput) \ {<<>>} /\ a.template \in Paths
  BY <1>2
<1> QED  BY <1>3 DEF IsPlan

\* What is analysed are finitely many files.
LEMMA FilesAreFinite ==
  ASSUME WorkingSet
  PROVE  /\ IsFiniteSet(DOMAIN Analysed) /\ DOMAIN Analysed \subseteq Paths \ {<<>>}
         /\ \A p \in DOMAIN Analysed : Analysed[p] \in Contents
         /\ IsFiniteSet(DeclaredSql) /\ DeclaredSql \subseteq Paths \ {<<>>}
         /\ Paths \ {<<>>} \subseteq Seq(DOMAIN Named)
<1>1. DOMAIN Analysed \subseteq Paths \ {<<>>}
  BY AnalysedIs DEF WorkingSet
<1>2. \A p \in DOMAIN Analysed : Analysed[p] \in Contents
  BY AnalysedIs DEF WorkingSet, Range
<1>3. DeclaredSql \subseteq Paths \ {<<>>}
  BY ArtifactsAre DEF DeclaredSql, WorkingSet
<1>4. IsFiniteSet(Paths) /\ Paths \subseteq Seq(DOMAIN Named)
  BY ScanAssumption
<1> QED  BY <1>1, <1>2, <1>3, <1>4, FS_Subset

\* So are the documents and scripts.
LEMMA ControlsAndScripts ==
  ASSUME WorkingSet
  PROVE  /\ \A secondary \in BOOLEAN : IsFiniteSet(Documents(secondary))
         /\ Located(Documents(FALSE), DOMAIN Named)
         /\ \A controls : /\ IsFiniteSet(Scripts(controls))
                          /\ Located(Scripts(controls), DOMAIN Named)
                          /\ ExtensionSql(controls) \subseteq DOMAIN Analysed
<1>1. ASSUME NEW secondary \in BOOLEAN
      PROVE  IsFiniteSet(Documents(secondary)) /\ Located(Documents(secondary), DOMAIN Named)
  <2> DEFINE files == {q \in DOMAIN Analysed : NameOf(q).type = "control"
                                                /\ NameOf(q).secondary = secondary}
             f == [p \in files |-> Document(p)]
  <2>1. IsFiniteSet(files) /\ files \subseteq Seq(DOMAIN Named) \ {<<>>}
    BY FilesAreFinite, FS_Subset
  <2>2. Documents(secondary) = {f[p] : p \in files} /\ DOMAIN f = files
    BY DEF Documents
  <2>3. \A p \in files : f[p].path = p
    BY DEF Document
  <2>4. Located(Documents(secondary), DOMAIN Named)
    <3> HIDE DEF files, f
    <3> QED  BY <2>1, <2>2, <2>3 DEF Located
  <2> HIDE DEF files, f
  <2>5. IsFiniteSet(Documents(secondary))
    BY <2>1, <2>2, FiniteImage
  <2> QED  BY <2>4, <2>5
<1>2. ASSUME NEW controls
      PROVE  /\ IsFiniteSet(Scripts(controls)) /\ Located(Scripts(controls), DOMAIN Named)
             /\ ExtensionSql(controls) \subseteq DOMAIN Analysed
  <2> DEFINE files == ExtensionSql(controls) \cup (DeclaredSql \ DOMAIN Over(rendered, read))
             f == [p \in files |-> Script(p)]
  <2>1. ExtensionSql(controls) \subseteq DOMAIN Analysed
    BY DEF ExtensionSql
  <2>2. IsFiniteSet(files) /\ files \subseteq Seq(DOMAIN Named) \ {<<>>}
    BY <2>1, FilesAreFinite, FS_Subset, FS_Union
  <2>3. Scripts(controls) = {f[p] : p \in files} /\ DOMAIN f = files
    BY DEF Scripts
  <2>4. \A p \in files : f[p].path = p
    BY DEF Script
  <2>5. Located(Scripts(controls), DOMAIN Named)
    <3> HIDE DEF files, f
    <3> QED  BY <2>2, <2>3, <2>4 DEF Located
  <2> HIDE DEF files, f
  <2>6. IsFiniteSet(Scripts(controls))
    BY <2>2, <2>3, FiniteImage
  <2> QED  BY <2>1, <2>5, <2>6
<1> QED  BY <1>1, <1>2

\* What the rules find is finite, and is not about versions.
LEMMA FileFindingsAre ==
  ASSUME WorkingSet, NEW controls
  PROVE  IsFiniteSet(FileFindings(controls)) /\ \A f \in FileFindings(controls) : f.rule \notin GraphRules
<1> DEFINE scanned == ExtensionSql(controls) \cup {p \in DOMAIN Analysed : NameOf(p).type \in {"source", "control"}}
           Of(p) == {Found(rule, p, NoVersion) : rule \in RulesIn[Analysed[p]]}
           f == [p \in scanned |-> Of(p)]
<1>1. FileFindings(controls) = UNION {f[p] : p \in scanned} /\ DOMAIN f = scanned
  <2>1. FileFindings(controls) = UNION {Of(p) : p \in scanned}
    BY DEF FileFindings
  <2> HIDE DEF scanned, Of
  <2>2. {f[p] : p \in scanned} = {Of(p) : p \in scanned}
    OBVIOUS
  <2> QED  BY <2>1, <2>2
<1>2. scanned \subseteq DOMAIN Analysed
  BY ControlsAndScripts
<1>3. \A p \in scanned : IsFiniteSet(RulesIn[Analysed[p]]) /\ RulesIn[Analysed[p]] \cap GraphRules = {}
  BY <1>2, FilesAreFinite, ScanAssumption
<1>4. IsFiniteSet(scanned)
  BY <1>2, FilesAreFinite, FS_Subset
<1>5. ASSUME NEW p \in scanned PROVE IsFiniteSet(f[p]) /\ \A x \in f[p] : x.rule \notin GraphRules
  <2> DEFINE R == RulesIn[Analysed[p]]
             g == [rule \in R |-> Found(rule, p, NoVersion)]
  <2>1. f[p] = {g[rule] : rule \in R} /\ DOMAIN g = R
    BY <1>5
  <2>2. IsFiniteSet(R) /\ R \cap GraphRules = {}
    BY <1>3
  <2>3. \A rule \in R : g[rule].rule = rule
    BY DEF Found
  <2> HIDE DEF R, g, f, scanned
  <2> QED  BY <2>1, <2>2, <2>3, FiniteImage
<1> HIDE DEF f, scanned
<1> QED  BY <1>1, <1>4, <1>5, FiniteUnion

\* So are the settings of control files.
LEMMA SettingsAre ==
  ASSUME NEW primaries, IsFiniteSet(primaries), NEW secondaries, IsFiniteSet(secondaries)
  PROVE  /\ IsFiniteSet(ControlSettings(primaries, secondaries))
         /\ \A f \in ControlSettings(primaries, secondaries) : f.rule \notin GraphRules
<1>1. ASSUME NEW path, NEW values, NEW asked
      PROVE  /\ IsFiniteSet(ControlRules(path, values, asked))
             /\ \A f \in ControlRules(path, values, asked) : f.rule \notin GraphRules
  <2> DEFINE R == {q \in Privileges \cap asked : Holds(q, values)}
             g == [p \in R |-> [rule |-> p, path |-> path, version |-> ""]]
  <2>1. ControlRules(path, values, asked) = {g[p] : p \in R} /\ DOMAIN g = R
    BY DEF ControlRules
  <2>2. R \subseteq Privileges /\ \A p \in R : g[p].rule = p
    OBVIOUS
  <2>3. IsFiniteSet(Privileges)
    <3>1. IsFiniteSet({"superuser"} \cup {"trusted"})
      BY FS_Singleton, FS_AddElement
    <3>2. IsFiniteSet(({"superuser"} \cup {"trusted"}) \cup {"relocatable"})
      BY <3>1, FS_AddElement
    <3>3. Privileges = (({"superuser"} \cup {"trusted"}) \cup {"relocatable"}) \cup {"requires"}
      BY DEF Privileges
    <3> QED  BY <3>2, <3>3, FS_AddElement
  <2>4. \A p \in Privileges : p \notin GraphRules
    BY DEF Privileges, GraphRules
  <2> HIDE DEF R, g
  <2>5. IsFiniteSet(R)
    BY <2>2, <2>3, FS_Subset
  <2>6. IsFiniteSet({g[p] : p \in R})
    BY <2>1, <2>5, FiniteImage
  <2>7. \A x \in {g[p] : p \in R} : x.rule \notin GraphRules
    BY <2>2, <2>4
  <2> QED  BY <2>1, <2>6, <2>7
<1> DEFINE Own(s) == LET one == Primaries(s, primaries)
                     IN  IF Cardinality(one) = 1
                         THEN ControlRules(s.path, Effective(CHOOSE c \in one : TRUE, s), DOMAIN s.values)
                         ELSE ControlRules(s.path, s.values, Settings)
           f == [c \in primaries |-> ControlRules(c.path, c.values, Settings)]
           g == [s \in secondaries |-> Own(s)]
           F == {f[c] : c \in primaries}
           G == {g[s] : s \in secondaries}
<1>2. ControlSettings(primaries, secondaries) = UNION (F \cup G)
  BY DEF ControlSettings
<1>3. \A T \in F \cup G : IsFiniteSet(T) /\ \A x \in T : x.rule \notin GraphRules
  <2>1. \A c \in primaries : IsFiniteSet(f[c]) /\ \A x \in f[c] : x.rule \notin GraphRules
    BY <1>1
  <2>2. \A s \in secondaries : IsFiniteSet(g[s]) /\ \A x \in g[s] : x.rule \notin GraphRules
    BY <1>1
  <2> HIDE DEF f, g
  <2> QED  BY <2>1, <2>2
<1>4. IsFiniteSet(F)
  <2>1. DOMAIN f = primaries
    OBVIOUS
  <2> HIDE DEF f
  <2> QED  BY <2>1, FiniteImage
<1>5. IsFiniteSet(G)
  <2>1. DOMAIN g = secondaries
    OBVIOUS
  <2> HIDE DEF g
  <2> QED  BY <2>1, FiniteImage
<1> HIDE DEF F, G
<1>6. IsFiniteSet(F \cup G)
  BY <1>4, <1>5, FS_Union
<1> QED  BY <1>2, <1>3, <1>6, FS_UNION

\* All that is wrong with the scripts is finite, and about versions.
LEMMA FaultsAre ==
  ASSUME WorkingSet
  PROVE  /\ IsFiniteSet(AllFaults) /\ \A f \in AllFaults : f.rule \in GraphRules
         /\ AllGraphFindings(Scripts(Documents(FALSE)), Documents(FALSE)) = AllFaults
<1> DEFINE controls == Documents(FALSE)
           scripts == Scripts(controls)
<1>1. /\ IsFiniteSet(controls) /\ Located(controls, DOMAIN Named)
      /\ IsFiniteSet(scripts) /\ Located(scripts, DOMAIN Named)
  BY ControlsAndScripts
<1>2. AllGraphFindings(scripts, controls) = AllFaults
  BY <1>1, GraphFindingsAreFaults
<1> HIDE DEF controls, scripts
<1> DEFINE A == {Found("update.ambiguous-scope", s.path, NoVersion) : s \in Ambiguous(scripts, controls)}
           f == [c \in controls |-> ControlFindings(c, scripts, controls)]
<1>3. AllGraphFindings(scripts, controls) = A \cup UNION {f[c] : c \in controls}
  BY DEF AllGraphFindings
<1>4. IsFiniteSet(A) /\ \A x \in A : x.rule \in GraphRules
  <2> DEFINE S == Ambiguous(scripts, controls)
             g == [s \in S |-> Found("update.ambiguous-scope", s.path, NoVersion)]
  <2>1. A = {g[s] : s \in S} /\ DOMAIN g = S
    OBVIOUS
  <2>2. S \subseteq scripts
    BY DEF Ambiguous
  <2>3. \A s \in S : g[s].rule \in GraphRules
    BY DEF Found, GraphRules
  <2> HIDE DEF S, g, A
  <2> QED  BY <1>1, <2>1, <2>2, <2>3, FS_Subset, FiniteImage
<1>5. ASSUME NEW c \in controls
      PROVE  IsFiniteSet(f[c]) /\ \A x \in f[c] : x.rule \in GraphRules
  <2> DEFINE own == ScriptsOf(c, scripts, controls)
             g == [v \in Nodes(own) |-> Found("update.missing-path", c.path, v)]
             M == {g[v] : v \in Nodes(own)}
  <2>1. f[c] = CycleFindings(c, own) \cup InstallFindings(c, own) \cup PathFindings(c, own)
    BY DEF ControlFindings
  <2>2. /\ IsFiniteSet(CycleFindings(c, own)) /\ IsFiniteSet(InstallFindings(c, own))
        /\ \A x \in CycleFindings(c, own) \cup InstallFindings(c, own) : x.rule \in GraphRules
    <3> DEFINE cycle == Found("update.cycle", c.path, NoVersion)
               missing == Found("update.install-script-missing", c.path, c.default)
    <3>1. cycle.rule \in GraphRules /\ missing.rule \in GraphRules
      BY DEF Found, GraphRules
    <3>2. CycleFindings(c, own) \in {{cycle}, {}} /\ InstallFindings(c, own) \in {{missing}, {}}
      BY DEF CycleFindings, InstallFindings
    <3> HIDE DEF cycle, missing
    <3>3. \A x : IsFiniteSet({x}) /\ IsFiniteSet({})
      BY FS_EmptySet, FS_Singleton
    <3>4. IsFiniteSet(CycleFindings(c, own)) /\ IsFiniteSet(InstallFindings(c, own))
      BY <3>2, <3>3
    <3> QED  BY <3>1, <3>2, <3>4
  <2>3. own \subseteq scripts
    BY DEF ScriptsOf
  <2> HIDE DEF own
  <2>4. IsFiniteSet(own)
    BY <1>1, <2>3, FS_Subset
  <2>5. IsFiniteSet(Nodes(own)) /\ IsFiniteSet(Edges(own)) /\ IsFiniteSet(Bases(own) \cup Ends(Edges(own)))
        /\ Nodes(own) = Bases(own) \cup Ends(Edges(own))
    BY <2>4, FiniteVersions
  <2>6. IsFiniteSet(M) /\ \A x \in M : x.rule \in GraphRules
    <3>1. DOMAIN g = Nodes(own) /\ \A v \in Nodes(own) : g[v].rule \in GraphRules
      BY DEF Found, GraphRules
    <3> HIDE DEF g
    <3> QED  BY <2>5, <3>1, FiniteImage
  <2>7. PathFindings(c, own) \subseteq M
    <3> DEFINE starts == (Nodes(own) \ {e[2] : e \in Edges(own)}) \cup Bases(own)
    <3>1. EntryVersions(own) = ReachableMany(starts, Edges(own))
      BY DEF EntryVersions
    <3>2. starts \subseteq Nodes(own) /\ starts \cup Ends(Edges(own)) \subseteq Nodes(own)
      BY <2>5
    <3> HIDE DEF starts
    <3>3. IsFiniteSet(starts \cup Ends(Edges(own)))
      BY <2>5, <3>2, FS_Subset
    <3>4. EntryVersions(own) \subseteq Nodes(own)
      BY <3>1, <3>2, <3>3, ReachableIsClosure DEF Closure
    <3> QED  BY <3>4 DEF PathFindings
  <2>8. IsFiniteSet(PathFindings(c, own))
    BY <2>6, <2>7, FS_Subset
  <2> HIDE DEF M, f
  <2> QED  BY <2>1, <2>2, <2>6, <2>7, <2>8, FS_Union
<1> HIDE DEF A, f
<1>6. DOMAIN f = controls
  BY DEF f
<1>7. IsFiniteSet(UNION {f[c] : c \in controls})
  BY <1>1, <1>5, <1>6, FiniteUnion
<1>8. IsFiniteSet(AllFaults)
  <2> DEFINE U == UNION {f[c] : c \in controls}
  <2>1. AllFaults = A \cup U
    BY <1>2, <1>3
  <2> HIDE DEF U
  <2> QED  BY <1>4, <1>7, <2>1, FS_Union DEF U
<1>9. ASSUME NEW x \in AllFaults PROVE x.rule \in GraphRules
  <2>1. x \in A \/ \E c \in controls : x \in f[c]
    BY <1>2, <1>3
  <2> QED  BY <1>4, <1>5, <2>1
<1> QED  BY <1>2, <1>8, <1>9 DEF controls, scripts

-----------------------------------------------------------------------------
(* Places above and below each other                                       *)

\* A place above another lies on the way to it.
LEMMA OnTheWay ==
  ASSUME NEW p \in Paths, NEW q \in Paths, IsStrictPrefix(q, p)
  PROVE  LET child == SubSeq(p, 1, Len(q) + 1)
         IN  /\ Len(q) \in 0 .. Len(p) - 1 /\ SubSeq(p, 1, Len(q)) = q
             /\ child \in Below(q) /\ Parent(child) = q /\ IsPrefix(child, p)
             /\ child = p \/ IsStrictPrefix(child, p)
<1> DEFINE X == DOMAIN Named
           child == SubSeq(p, 1, Len(q) + 1)
<1>1. p \in Seq(X) /\ q \in Seq(X) /\ Len(p) \in Nat /\ Len(q) \in Nat
  BY ScanAssumption
<1>2. Len(q) <= Len(p) /\ (\A i \in 1 .. Len(q) : q[i] = p[i]) /\ q # p
  BY <1>1, PrefixMeans DEF IsStrictPrefix
<1>3. Len(q) # Len(p)
  BY <1>1, <1>2
<1>4. Len(q) + 1 \in 0 .. Len(p) /\ Len(q) \in 0 .. Len(p)
  BY <1>1, <1>2, <1>3
<1>5. SubSeq(p, 1, Len(q)) = q
  <2>1. /\ SubSeq(p, 1, Len(q)) \in Seq(X) /\ Len(SubSeq(p, 1, Len(q))) = Len(q)
        /\ \A i \in 1 .. Len(q) : SubSeq(p, 1, Len(q))[i] = p[i]
    BY <1>1, <1>4, PartMeans
  <2> QED  BY <1>1, <1>2, <2>1
<1>6. /\ child \in Seq(X) /\ Len(child) = Len(q) + 1
      /\ \A i \in 1 .. Len(q) + 1 : child[i] = p[i]
  BY <1>1, <1>4, PartMeans
<1>7. child \in Paths
  BY <1>4, ScanAssumption
<1> HIDE DEF child
<1>8. IsStrictPrefix(q, child)
  <2>1. IsPrefix(q, child)
    BY <1>1, <1>2, <1>6, PrefixMeans
  <2> QED  BY <1>1, <1>6, <2>1 DEF IsStrictPrefix
<1>9. Parent(child) = q
  <2>1. Parent(child) = SubSeq(child, 1, Len(q))
    BY <1>1, <1>6 DEF Parent, Front
  <2>2. /\ SubSeq(child, 1, Len(q)) \in Seq(X) /\ Len(SubSeq(child, 1, Len(q))) = Len(q)
        /\ \A i \in 1 .. Len(q) : SubSeq(child, 1, Len(q))[i] = child[i]
    <3>1. Len(q) \in 0 .. Len(child)
      BY <1>1, <1>6
    <3> QED  BY <1>6, <3>1, PartMeans
  <2>3. SubSeq(child, 1, Len(q)) = q
    BY <1>1, <1>2, <1>6, <2>2
  <2> QED  BY <2>1, <2>3
<1>10. IsPrefix(child, p)
  <2>1. Len(child) <= Len(p)
    BY <1>1, <1>4, <1>6
  <2> QED  BY <1>1, <1>6, <2>1, PrefixMeans
<1>11. Len(q) \in 0 .. Len(p) - 1
  BY <1>1, <1>2, <1>3
<1>12. child \in Below(q)
  BY <1>7, <1>8 DEF Below
<1> QED  BY <1>5, <1>9, <1>10, <1>11, <1>12 DEF child, IsStrictPrefix

\* What is below a place is below those above it.
LEMMA BelowBelow ==
  ASSUME NEW p \in Paths, NEW q \in Paths, NEW r \in Paths, IsPrefix(r, q), IsPrefix(q, p)
  PROVE  IsPrefix(r, p)
<1>1. p \in Seq(DOMAIN Named) /\ q \in Seq(DOMAIN Named) /\ r \in Seq(DOMAIN Named)
  BY ScanAssumption
<1>2. /\ Len(r) <= Len(q) /\ \A i \in 1 .. Len(r) : r[i] = q[i]
      /\ Len(q) <= Len(p) /\ \A i \in 1 .. Len(q) : q[i] = p[i]
  BY <1>1, PrefixMeans
<1>3. Len(r) <= Len(p) /\ \A i \in 1 .. Len(r) : r[i] = p[i]
  BY <1>1, <1>2
<1> QED  BY <1>1, <1>3, PrefixMeans

\* What there is in a place lies in directories.
LEMMA LiesInDirectories ==
  ASSUME NEW entries, IsTree(entries), NEW p \in Paths, entries[p].kind # "none",
         NEW q \in Paths, IsStrictPrefix(q, p)
  PROVE  entries[q].kind = "directory"
<1>1. Len(q) \in 0 .. Len(p) - 1 /\ SubSeq(p, 1, Len(q)) = q
  BY OnTheWay
<1> QED  BY <1>1 DEF IsTree

-----------------------------------------------------------------------------
(* The inductive invariant                                                 *)

\* What was edited and what lay below it is touched; the tree remains one.
TreeInv ==
  /\ IsTree(tree) /\ IsPlan(plan)
  /\ touched \subseteq Paths /\ \A q \in touched : Below(q) \subseteq touched

PhaseInv ==
  /\ phase \in {"start", "walk", "read", "generate", "analyse", "done"}
  /\ outcome \in {"none", "report", "input", "error"}
  /\ (phase = "done") = (outcome # "none")
  /\ outcome # "report" => findings = {}

Directories == [path: Paths, root: BOOLEAN]

Items == [path: Paths, dir: BOOLEAN]

\* What is read is in the limits, and what may yet be read too.
ReadInv ==
  /\ roots \in Seq(Paths) /\ dirs \in Seq(Directories) /\ todo \in Seq(Items) /\ found \in Seq(Paths)
  /\ read \in [DOMAIN read -> Contents \ Unreadable] /\ DOMAIN read \subseteq Paths \ {<<>>}
  /\ TotalSize(read) \in Nat /\ TotalSize(read) <= Limits.total
  /\ Len(found) + Cardinality(DOMAIN read) <= Limits.files
  /\ phase \in {"start", "walk"} => read = <<>>
  /\ phase = "start" => found = <<>>

\* The inputs of the artifact that were verified are in the cache as they are
\* pinned, and what is rendered is rendered from them.
GenerationInv ==
  /\ step \in (Nat \ {0}) \X (Nat \ {0})
  /\ DOMAIN cache \subseteq Paths /\ cache \in [DOMAIN cache -> Contents]
  /\ step[1] \in DOMAIN plan.artifacts =>
       /\ step[2] <= Len(Artifact.inputs)
       /\ \A j \in 1 .. step[2] - 1 : /\ Artifact.inputs[j].path \in DOMAIN cache
                                      /\ cache[Artifact.inputs[j].path] = Artifact.inputs[j].content
  /\ rendered \in [DOMAIN rendered -> Contents]
  /\ \A p \in DOMAIN rendered :
       \E a \in Range(plan.artifacts) : \E i \in Range(a.inputs) :
         a.path = p /\ a.template = i.path /\ rendered[p] = Renders[i.content]

\* What the scan noted of an entry still holds unless it was touched.
NotedInv ==
  /\ \A p \in Range(found) \cup DOMAIN read : Supported(p) /\ p \notin DOMAIN plan.exclusions
  /\ \A p \in DOMAIN read \ touched : tree[p].kind = "regular" /\ read[p] = tree[p].content
  /\ DOMAIN skipped \subseteq Paths
  /\ \A p \in DOMAIN skipped : p \notin DOMAIN plan.exclusions => ~Supported(p)
  /\ \A p \in DOMAIN skipped \ touched :
       /\ skipped[p].kind = KindOf(tree[p])
       /\ IF p \in DOMAIN plan.exclusions THEN plan.exclusions[p].content = tree[p].content
          ELSE tree[p].kind # "dirlink"
  /\ \A t \in Range(todo) :
       t.path \notin touched => t.dir = (tree[t.path].kind \in {"directory", "dirlink"})

\* The entries a report has to account for.
Due == {p \in Paths \ touched : /\ tree[p].kind \notin {"none", "directory"}
                                /\ \E r \in Range(plan.roots) : IsStrictPrefix(r, p)}

\* Where an entry is yet to be met.
Ahead(p) ==
  \/ \E r \in Range(roots) : IsStrictPrefix(r, p)
  \/ \E d \in Range(dirs) : IsStrictPrefix(d.path, p)
  \/ \E t \in Range(todo) : IsPrefix(t.path, p)

\* No entry is lost on the way.
DueInv ==
  plan.requested = <<>> =>
    \A p \in Due :
      \/ phase = "start" \/ outcome \in {"input", "error"}
      \/ phase = "walk" /\ Ahead(p)
      \/ phase \in {"walk", "read"} /\ p \in Range(found)
      \/ p \in DOMAIN read \cup DOMAIN skipped

\* A report has what the files, the settings and the scripts give.
ReportInv ==
  Reported =>
    /\ findings = FileFindings(Documents(FALSE))
                  \cup ControlSettings(Documents(FALSE), Documents(TRUE)) \cup AllFaults
    /\ Cardinality(findings) <= Limits.findings

Inv == TreeInv /\ PhaseInv /\ ReadInv /\ GenerationInv /\ NotedInv /\ DueInv /\ ReportInv

-----------------------------------------------------------------------------
(* The invariant holds                                                     *)

\* A scan starts in the invariant.
LEMMA InitInv ==
  ASSUME Init
  PROVE  Inv
<1>1. PICK s \in Scenarios : tree = s.tree /\ plan = s.plan
  BY DEF Init
<1>2. IsTree(tree) /\ IsPlan(plan)
  BY <1>1, ScanAssumption
<1>3. TreeInv
  BY <1>2 DEF TreeInv, Init
<1>4. PhaseInv
  BY DEF PhaseInv, Init
<1>5. ReadInv
  <2>1. read = <<>> /\ found = <<>> /\ roots = <<>> /\ dirs = <<>> /\ todo = <<>>
    BY DEF Init
  <2>2. TotalSize(read) = 0
    BY <2>1, TotalOfNone
  <2>3. DOMAIN read = {} /\ read \in [{} -> Contents \ Unreadable] /\ Len(found) = 0
    BY <2>1
  <2>4. Cardinality(DOMAIN read) = 0
    BY <2>3, FS_EmptySet
  <2>5. Limits.total \in Nat /\ Limits.files \in Nat
    BY ScanAssumption
  <2> QED  BY <2>1, <2>2, <2>3, <2>4, <2>5 DEF ReadInv
<1>6. GenerationInv
  <2>1. step = <<1, 1>> /\ cache = <<>> /\ rendered = <<>>
    BY DEF Init
  <2>2. step[1] = 1 /\ step[2] = 1 /\ DOMAIN cache = {} /\ DOMAIN rendered = {}
    BY <2>1
  <2>3. step[1] \in DOMAIN plan.artifacts => 1 <= Len(Artifact.inputs)
    <3> SUFFICES ASSUME step[1] \in DOMAIN plan.artifacts PROVE 1 <= Len(Artifact.inputs)
      OBVIOUS
    <3>1. Artifact \in Range(plan.artifacts)
      BY DEF Artifact, Range
    <3>2. Artifact.inputs \in Seq(GenerationInput) \ {<<>>}
      BY <1>2, <3>1, ArtifactsAre
    <3> QED  BY <3>2
  <2>4. cache \in [DOMAIN cache -> Contents] /\ rendered \in [DOMAIN rendered -> Contents]
    BY <2>1
  <2>5. step \in (Nat \ {0}) \X (Nat \ {0})
    BY <2>1
  <2> QED  BY <2>2, <2>3, <2>4, <2>5 DEF GenerationInv
<1>7. NotedInv
  <2>1. read = <<>> /\ found = <<>> /\ skipped = <<>> /\ todo = <<>>
    BY DEF Init
  <2>2. DOMAIN read = {} /\ DOMAIN skipped = {} /\ Range(found) = {} /\ Range(todo) = {}
    BY <2>1, RangeOfNone
  <2> QED  BY <2>2 DEF NotedInv
<1>8. DueInv
  BY DEF DueInv, Init
<1>9. ReportInv
  BY DEF ReportInv, Reported, Init
<1> QED  BY <1>3, <1>4, <1>5, <1>6, <1>7, <1>8, <1>9 DEF Inv

\* Parts of the invariant that a step leaves alone.
LEMMA TreeSame ==
  ASSUME TreeInv, UNCHANGED <<tree, touched, plan>>
  PROVE  TreeInv'
  BY DEF TreeInv, IsTree, IsPlan

\* Nothing that a step does not look at disturbs the generation plan.
LEMMA GenerationSame ==
  ASSUME GenerationInv, UNCHANGED <<plan, generation>>
  PROVE  GenerationInv'
  BY DEF GenerationInv, generation, Artifact

\* Without a report there is nothing to be said of it.
LEMMA NoReportYet ==
  ASSUME outcome' # "report"
  PROVE  ReportInv'
  BY DEF ReportInv, Reported

\* The scan ends without a report.
LEMMA EndInv ==
  ASSUME Inv, phase # "done", NEW result \in {"input", "error"}, End(result),
         UNCHANGED <<tree, touched, plan>>
  PROVE  Inv'
<1> USE DEF Inv, End
<1>1. TreeInv'
  BY TreeSame
<1>2. PhaseInv'
  BY DEF PhaseInv
<1>3. ReadInv'
  BY DEF ReadInv, walk
<1>4. GenerationInv'
  BY GenerationSame
<1>5. NotedInv'
  BY DEF NotedInv, walk, Supported, NameOf, KindOf, Links
<1>6. DueInv'
  BY DEF DueInv, Due
<1>7. ReportInv'
  BY NoReportYet
<1> QED  BY <1>1, <1>2, <1>3, <1>4, <1>5, <1>6, <1>7

\* The findings depend on what was read and rendered.
LEMMA FindingsSame ==
  ASSUME UNCHANGED <<tree, plan, read, rendered>>
  PROVE  /\ FileFindings(Documents(FALSE))' = FileFindings(Documents(FALSE))
         /\ ControlSettings(Documents(FALSE), Documents(TRUE))'
              = ControlSettings(Documents(FALSE), Documents(TRUE))
         /\ AllFaults' = AllFaults
<1>1. Analysed' = Analysed
  BY DEF Analysed, Replaced
<1>2. \A secondary \in BOOLEAN : Documents(secondary)' = Documents(secondary)
  BY <1>1 DEF Documents, Document, NameOf
<1>3. DeclaredSql' = DeclaredSql /\ Over(rendered, read)' = Over(rendered, read)
  BY DEF DeclaredSql, NameOf
<1>4. ExtensionSql(Documents(FALSE))' = ExtensionSql(Documents(FALSE))
  BY <1>1, <1>2, <1>3 DEF ExtensionSql, IsExtensionSql, IsFile, NameOf
<1>5. Scripts(Documents(FALSE))' = Scripts(Documents(FALSE))
  BY <1>3, <1>4 DEF Scripts, Script, NameOf
<1>6. FileFindings(Documents(FALSE))' = FileFindings(Documents(FALSE))
  <2> DEFINE Of(files, scanned) ==
               UNION {{Found(rule, p, NoVersion) : rule \in RulesIn[files[p]]} : p \in scanned}
             Sources(files) == {p \in DOMAIN files : NameOf(p).type \in {"source", "control"}}
  <2>1. FileFindings(Documents(FALSE)) =
          Of(Analysed, ExtensionSql(Documents(FALSE)) \cup Sources(Analysed))
    BY DEF FileFindings
  <2>2. FileFindings(Documents(FALSE))' =
          Of(Analysed', ExtensionSql(Documents(FALSE))' \cup Sources(Analysed'))
    BY DEF FileFindings, NameOf
  <2> HIDE DEF Of, Sources
  <2> QED  BY <1>1, <1>4, <2>1, <2>2
<1>7. AllFaults' = AllFaults
  BY <1>2, <1>5 DEF AllFaults
<1> QED  BY <1>2, <1>6, <1>7

\* A step that changes nothing keeps the invariant.
LEMMA StutterInv ==
  ASSUME Inv, UNCHANGED vars
  PROVE  Inv'
<1> USE DEF Inv, vars
<1>1. TreeInv'
  BY TreeSame
<1>2. PhaseInv'
  BY DEF PhaseInv
<1>3. ReadInv'
  BY DEF ReadInv, walk
<1>4. GenerationInv'
  BY GenerationSame
<1>5. NotedInv'
  BY DEF NotedInv, walk, Supported, NameOf, KindOf, Links
<1>6. DueInv'
  BY DEF DueInv, Due, walk, Ahead
<1>7. ReportInv'
  BY FindingsSame DEF generation, ReportInv, Reported
<1> QED  BY <1>1, <1>2, <1>3, <1>4, <1>5, <1>6, <1>7

-----------------------------------------------------------------------------
(* Edits and the walk                                                      *)

\* The first names of a place are a place above it.
LEMMA PartIsAbove ==
  ASSUME NEW p \in Paths, NEW n \in 0 .. Len(p) - 1
  PROVE  SubSeq(p, 1, n) \in Paths /\ IsStrictPrefix(SubSeq(p, 1, n), p) /\ Len(SubSeq(p, 1, n)) = n
<1>1. p \in Seq(DOMAIN Named) /\ n \in 0 .. Len(p) /\ n < Len(p)
  BY ScanAssumption
<1>2. /\ SubSeq(p, 1, n) \in Seq(DOMAIN Named) /\ Len(SubSeq(p, 1, n)) = n
      /\ \A i \in 1 .. n : SubSeq(p, 1, n)[i] = p[i]
  BY <1>1, PartMeans
<1>3. SubSeq(p, 1, n) \in Paths
  BY <1>1, ScanAssumption
<1> DEFINE q == SubSeq(p, 1, n)
<1> HIDE DEF q
<1>4. IsPrefix(q, p)
  <2>1. q \in Seq(DOMAIN Named) /\ Len(q) = n /\ \A i \in 1 .. n : q[i] = p[i]
    BY <1>2 DEF q
  <2> QED  BY <1>1, <2>1, PrefixMeans
<1>5. IsStrictPrefix(q, p)
  BY <1>1, <1>2, <1>4 DEF IsStrictPrefix, q
<1> QED  BY <1>2, <1>3, <1>5 DEF q

\* What is below a place is longer.
LEMMA BelowIsLonger ==
  ASSUME NEW p \in Paths, NEW q \in Paths, IsStrictPrefix(q, p)
  PROVE  Len(q) < Len(p) /\ q # p
<1>1. Len(q) \in 0 .. Len(p) - 1 /\ p \in Seq(DOMAIN Named)
  BY OnTheWay, ScanAssumption
<1> QED  BY <1>1

\* An edited tree is a tree.
LEMMA EditInv ==
  ASSUME Inv, Edit
  PROVE  Inv'
<1> USE DEF Inv
<1>1. PICK change \in Changes :
        /\ tree[Parent(change[1])].kind = "directory"
        /\ tree' = [p \in Paths |-> IF p = change[1] THEN change[2]
                                    ELSE IF p \in Below(change[1]) THEN Absent ELSE tree[p]]
        /\ touched' = touched \cup {change[1]} \cup Below(change[1])
  BY DEF Edit
<1> DEFINE path == change[1]
           dir == Parent(path)
<1>2. path \in Paths /\ path # <<>> /\ change[2] \in Entry
      /\ (change[2].kind = "regular" => change[2].content \in Contents)
  BY ScanAssumption
<1>3. phase # "done" /\ UNCHANGED <<plan, phase, walk, read, generation, outcome, findings>>
  BY DEF Edit
<1> HIDE DEF path
<1>4. \A p \in Paths : tree'[p] = IF p = path THEN change[2]
                                  ELSE IF p \in Below(path) THEN Absent ELSE tree[p]
  BY <1>1 DEF path
<1>5. IsTree(tree) /\ Below(path) \subseteq Paths
  BY DEF TreeInv, Below
<1>6. IsTree(tree')
  <2>1. Absent \in Entry /\ Absent.kind = "none"
    BY DEF Absent, Entry
  <2>2. tree' \in [Paths -> Entry]
    BY <1>1, <1>2, <1>5, <2>1 DEF IsTree, path
  <2>3. <<>> \in Paths /\ <<>> \notin Below(path)
    <3>1. <<>> \in Paths /\ path \in Seq(DOMAIN Named)
      BY <1>2, ScanAssumption
    <3>2. ASSUME IsStrictPrefix(path, <<>>) PROVE FALSE
      <4>1. Len(path) < Len(<<>>)
        BY <1>2, <3>1, <3>2, BelowIsLonger
      <4> QED  BY <3>1, <4>1
    <3> QED  BY <3>1, <3>2 DEF Below
  <2>4. tree'[<<>>].kind = "directory"
    BY <1>2, <1>4, <1>5, <2>3 DEF IsTree
  <2>5. ASSUME NEW p \in Paths, tree'[p].kind = "regular" PROVE tree'[p].content \in Contents
    BY <1>2, <1>4, <1>5, <2>1, <2>5 DEF IsTree
  <2>6. ASSUME NEW p \in Paths, tree'[p].kind # "none", NEW n \in 0 .. Len(p) - 1
        PROVE  tree'[SubSeq(p, 1, n)].kind = "directory"
    <3> DEFINE q == SubSeq(p, 1, n)
    <3>1. q \in Paths /\ IsStrictPrefix(q, p) /\ Len(q) = n
      BY PartIsAbove
    <3> HIDE DEF q
    <3>2. CASE p = path
      <4>1. /\ path \in Seq(DOMAIN Named) /\ Len(path) \in Nat \ {0}
            /\ Parent(path) = SubSeq(path, 1, Len(path) - 1)
        BY <1>2, ScanAssumption DEF Parent, Front
      <4>2. dir \in Paths /\ Len(dir) = Len(path) - 1 /\ IsStrictPrefix(dir, path)
        <5> DEFINE n_ == Len(path) - 1
        <5>1. n_ \in 0 .. Len(path) - 1
          BY <4>1
        <5> HIDE DEF n_
        <5>2. SubSeq(path, 1, n_) \in Paths /\ IsStrictPrefix(SubSeq(path, 1, n_), path)
              /\ Len(SubSeq(path, 1, n_)) = n_
          BY <1>2, <5>1, PartIsAbove
        <5> QED  BY <4>1, <5>2 DEF n_
      <4>3. tree[dir].kind = "directory"
        BY <1>1 DEF path
      <4>4. tree[q].kind = "directory"
        <5>1. CASE n = Len(path) - 1
          BY <3>2, <4>1, <4>3, <5>1 DEF q
        <5>2. CASE n # Len(path) - 1
          <6>1. n \in 0 .. Len(dir) - 1
            BY <2>6, <3>2, <4>1, <4>2, <5>2
          <6>2. SubSeq(dir, 1, n) = q
            <7>1. SubSeq(dir, 1, n) = [i \in 1 .. n |-> dir[i]] /\ q = [i \in 1 .. n |-> path[i]]
              BY <2>6, <3>2, <4>1, <4>2, <6>1 DEF q
            <7>2. \A i \in 1 .. n : dir[i] = path[i]
              BY <2>6, <3>2, <4>1, <4>2, <6>1
            <7> QED  BY <7>1, <7>2
          <6> QED  BY <1>5, <4>2, <4>3, <6>1, <6>2 DEF IsTree
        <5> QED  BY <5>1, <5>2
      <4>5. q # path /\ q \notin Below(path)
        <5>1. Len(q) < Len(path)
          BY <2>6, <3>1, <3>2, <4>1
        <5> QED  BY <1>2, <3>1, <4>1, <5>1, BelowIsLonger DEF Below
      <4> QED  BY <1>4, <3>1, <4>4, <4>5 DEF q
    <3>3. CASE p # path
      <4>1. p \notin Below(path) /\ tree'[p] = tree[p]
        BY <1>4, <2>1, <2>6, <3>3
      <4>2. tree[q].kind = "directory"
        BY <1>5, <2>6, <4>1 DEF IsTree, q
      <4>3. q # path
        BY <3>1, <4>1 DEF Below
      <4>4. q \notin Below(path)
        <5> SUFFICES ASSUME IsStrictPrefix(path, q) PROVE FALSE
          BY DEF Below
        <5>1. IsPrefix(path, p)
          BY <1>2, <3>1, BelowBelow DEF IsStrictPrefix
        <5> QED  BY <3>3, <4>1, <5>1 DEF Below, IsStrictPrefix
      <4> QED  BY <1>4, <3>1, <4>2, <4>3, <4>4 DEF q
    <3> QED  BY <3>2, <3>3
  <2> QED  BY <2>2, <2>4, <2>5, <2>6 DEF IsTree
<1>7. \A p \in Paths \ touched' : p \notin touched /\ tree'[p] = tree[p]
  BY <1>1, <1>4 DEF path
<1>8. TreeInv'
  <2>1. IsPlan(plan)' /\ IsTree(tree)'
    BY <1>3, <1>6 DEF TreeInv, IsPlan
  <2>2. touched' \subseteq Paths
    BY <1>1, <1>2, <1>5 DEF TreeInv, path
  <2>3. ASSUME NEW q \in touched' PROVE Below(q) \subseteq touched'
    <3>1. CASE q \in touched
      BY <1>1, <3>1 DEF TreeInv
    <3>2. CASE q = path
      BY <1>1, <3>2 DEF path
    <3>3. CASE q \in Below(path)
      <4>1. ASSUME NEW p \in Below(q) PROVE p \in Below(path)
        <5>1. p \in Paths /\ q \in Paths /\ IsStrictPrefix(q, p) /\ IsStrictPrefix(path, q)
          BY <3>3 DEF Below
        <5>2. IsPrefix(path, p)
          BY <1>2, <5>1, BelowBelow DEF IsStrictPrefix
        <5>3. Len(path) < Len(q) /\ Len(q) < Len(p) /\ path \in Seq(DOMAIN Named)
              /\ q \in Seq(DOMAIN Named) /\ p \in Seq(DOMAIN Named)
          BY <1>2, <5>1, BelowIsLonger, ScanAssumption
        <5>4. path # p
          BY <5>3
        <5> QED  BY <5>1, <5>2, <5>4 DEF Below, IsStrictPrefix
      <4> QED  BY <1>1, <4>1 DEF path
    <3> QED  BY <1>1, <3>1, <3>2, <3>3 DEF path
  <2> QED  BY <2>1, <2>2, <2>3 DEF TreeInv, Below
<1>9. PhaseInv' /\ ReadInv'
  BY <1>3 DEF PhaseInv, ReadInv, walk
<1>10. GenerationInv'
  BY <1>3, GenerationSame
<1>11. NotedInv'
  <2>1. /\ DOMAIN read \subseteq Paths /\ DOMAIN skipped \subseteq Paths
        /\ \A t \in Range(todo) : t.path \in Paths
    <3>1. Range(todo) \subseteq Items
      BY RangeTyped DEF ReadInv
    <3> QED  BY <3>1 DEF ReadInv, NotedInv, Items
  <2>2. UNCHANGED <<read, skipped, found, todo, plan>>
    BY <1>3 DEF walk
  <2> QED  BY <1>7, <2>1, <2>2 DEF NotedInv, KindOf, Supported, NameOf, Links
<1>12. DueInv'
  <2>1. Due' \subseteq Due
    BY <1>3, <1>7 DEF Due
  <2> QED  BY <1>3, <2>1 DEF DueInv, Ahead, walk
<1>13. ReportInv'
  <2>1. outcome' # "report"
    BY <1>3 DEF PhaseInv
  <2> QED  BY <2>1, NoReportYet
<1> QED  BY <1>8, <1>9, <1>10, <1>11, <1>12, <1>13

\* The scan begins: every entry that is due lies below a root.
LEMMA StartInv ==
  ASSUME Inv, Start
  PROVE  Inv'
<1> USE DEF Inv
<1> DEFINE kind == tree[plan.requested].kind
<1>1. phase = "start" /\ UNCHANGED <<tree, touched, plan>>
  BY DEF Start
<1>2. TreeInv' /\ IsPlan(plan)
  BY <1>1, TreeSame DEF TreeInv
<1>3. read = <<>> /\ found = <<>> /\ Cardinality(DOMAIN read) = 0 /\ outcome = "none"
  <2>1. read = <<>> /\ found = <<>> /\ outcome = "none"
    BY <1>1 DEF ReadInv, PhaseInv
  <2> QED  BY <2>1, FS_EmptySet
<1>4. CASE /\ kind = "directory"
           /\ phase' = "walk" /\ roots' = plan.roots
           /\ UNCHANGED <<dirs, todo, found, skipped, seen, read, generation, outcome, findings>>
  <2>1. PhaseInv'
    BY <1>1, <1>4 DEF PhaseInv
  <2>2. ReadInv'
    BY <1>2, <1>3, <1>4 DEF ReadInv, IsPlan
  <2>3. GenerationInv'
    BY <1>1, <1>4, GenerationSame
  <2>4. NotedInv'
    BY <1>1, <1>4 DEF NotedInv, KindOf, Supported, NameOf, Links
  <2>5. DueInv'
    BY <1>1, <1>4 DEF DueInv, Due, Ahead
  <2>6. ReportInv'
    BY <1>3, <1>4, NoReportYet
  <2> QED  BY <1>2, <2>1, <2>2, <2>3, <2>4, <2>5, <2>6
<1>5. CASE /\ kind = "regular" /\ ~plan.scoped /\ Supported(plan.requested)
           /\ phase' = "read" /\ found' = <<plan.requested>>
           /\ UNCHANGED <<roots, dirs, todo, skipped, seen, read, generation, outcome, findings>>
  <2>1. PhaseInv'
    BY <1>1, <1>5 DEF PhaseInv
  <2>2. plan.requested \in Paths /\ DOMAIN plan.exclusions = {}
    BY <1>2, <1>5 DEF IsPlan
  <2>3. found' \in Seq(Paths) /\ Len(found') = 1 /\ Range(found') = {plan.requested}
    BY <1>5, <2>2, RangeOne
  <2>4. ReadInv'
    <3>1. Len(found') + Cardinality(DOMAIN read) <= Limits.files
      BY <1>3, <2>3, ScanAssumption
    <3> QED  BY <1>5, <2>3, <3>1 DEF ReadInv
  <2>5. GenerationInv'
    BY <1>1, <1>5, GenerationSame
  <2>6. NotedInv'
    BY <1>1, <1>5, <2>2, <2>3 DEF NotedInv, KindOf, Supported, NameOf, Links
  <2>7. DueInv'
    <3>1. plan.requested # <<>>
      BY <1>5 DEF TreeInv, IsTree
    <3> QED  BY <1>1, <3>1 DEF DueInv
  <2>8. ReportInv'
    BY <1>3, <1>5, NoReportYet
  <2> QED  BY <1>2, <2>1, <2>4, <2>5, <2>6, <2>7, <2>8
<1>6. CASE End("input")
  BY <1>1, <1>6, EndInv
<1> QED  BY <1>4, <1>5, <1>6 DEF Start

\* A root is opened: what lies below it lies below a directory to be listed.
LEMMA OpenRootInv ==
  ASSUME Inv, OpenRoot
  PROVE  Inv'
<1> USE DEF Inv
<1> DEFINE root == Head(roots)
<1>1. /\ phase = "walk" /\ roots # <<>> /\ UNCHANGED <<tree, touched, plan>>
      /\ \/ End("input")
         \/ /\ dirs' = <<[path |-> root, root |-> TRUE]>> /\ roots' = Tail(roots)
            /\ dirs = <<>>
            /\ UNCHANGED <<phase, todo, found, skipped, read, generation, outcome, findings>>
  BY DEF OpenRoot
<1>2. CASE End("input")
  BY <1>1, <1>2, EndInv
<1>3. CASE /\ dirs' = <<[path |-> root, root |-> TRUE]>> /\ roots' = Tail(roots)
           /\ dirs = <<>>
           /\ UNCHANGED <<phase, todo, found, skipped, read, generation, outcome, findings>>
  <2>1. /\ root \in Paths /\ roots' \in Seq(Paths) /\ Range(roots) = {root} \cup Range(roots')
    BY <1>1, <1>3, RangeTaken DEF ReadInv
  <2>2. dirs' \in Seq(Directories) /\ Range(dirs') = {[path |-> root, root |-> TRUE]}
    <3>1. [path |-> root, root |-> TRUE] \in Directories
      BY <2>1 DEF Directories
    <3> QED  BY <1>3, <3>1, RangeOne
  <2>3. TreeInv' /\ PhaseInv'
    BY <1>1, <1>3, TreeSame DEF PhaseInv
  <2>4. ReadInv'
    BY <1>1, <1>3, <2>1, <2>2 DEF ReadInv, Directories, Items
  <2>5. GenerationInv'
    BY <1>1, <1>3, GenerationSame
  <2>6. NotedInv'
    BY <1>1, <1>3 DEF NotedInv, KindOf, Supported, NameOf, Links
  <2>7. DueInv'
    <3>1. Range(dirs) = {}
      BY <1>3, RangeOfNone
    <3>2. \A p \in Due : Ahead(p) => Ahead(p)'
      <4> SUFFICES ASSUME NEW p \in Due, Ahead(p) PROVE Ahead(p)'
        OBVIOUS
      <4>1. CASE \E r \in Range(roots) : IsStrictPrefix(r, p)
        <5>1. CASE IsStrictPrefix(root, p)
          <6> DEFINE d == [path |-> root, root |-> TRUE]
          <6>1. d \in Range(dirs') /\ d.path = root
            BY <2>2
          <6> HIDE DEF d
          <6> QED  BY <5>1, <6>1 DEF Ahead
        <5>2. CASE \E r \in Range(roots') : IsStrictPrefix(r, p)
          BY <5>2 DEF Ahead
        <5> QED  BY <2>1, <4>1, <5>1, <5>2
      <4>2. CASE \E t \in Range(todo) : IsPrefix(t.path, p)
        BY <1>3, <4>2 DEF Ahead
      <4> QED  BY <3>1, <4>1, <4>2 DEF Ahead
    <3> QED  BY <1>1, <1>3, <3>2 DEF DueInv, Due
  <2>8. ReportInv'
    <3>1. outcome' # "report"
      BY <1>1, <1>3 DEF PhaseInv
    <3> QED  BY <3>1, NoReportYet
  <2> QED  BY <2>3, <2>4, <2>5, <2>6, <2>7, <2>8
<1> QED  BY <1>1, <1>2, <1>3

\* What there is directly below a directory.
Children(dir) == {p \in Below(dir) : Parent(p) = dir /\ tree[p].kind # "none"}

ItemOf(p) == [path |-> p, dir |-> tree[p].kind \in {"directory", "dirlink"}]

\* os.walk lists every entry of a directory, with what it takes it for.
LEMMA ListingHasAll ==
  ASSUME NEW dir \in Paths
  PROVE  Listing(dir) \in Seq(Items) /\ Range(Listing(dir)) = {ItemOf(p) : p \in Children(dir)}
<1> DEFINE lead == {p \in Children(dir) : tree[p].kind \in {"directory", "dirlink"}}
           F == [p \in lead |-> [path |-> p, dir |-> TRUE]]
           G == [p \in Children(dir) \ lead |-> [path |-> p, dir |-> FALSE]]
           A == {F[p] : p \in lead}
           B == {G[p] : p \in Children(dir) \ lead}
<1>1. Children(dir) \subseteq Paths /\ IsFiniteSet(Paths) /\ lead \subseteq Paths
  BY ScanAssumption DEF Children, Below
<1>2. Listing(dir) = InSomeOrder(A) \o InSomeOrder(B)
  <2>1. A = {[path |-> p, dir |-> TRUE] : p \in lead}
        /\ B = {[path |-> p, dir |-> FALSE] : p \in Children(dir) \ lead}
    OBVIOUS
  <2> HIDE DEF A, B
  <2> QED  BY <2>1 DEF Listing, Children
<1>3. A \cup B = {ItemOf(p) : p \in Children(dir)} /\ A \subseteq Items /\ B \subseteq Items
  <2>1. \A p \in lead : F[p] = ItemOf(p)
    BY DEF ItemOf
  <2>2. ASSUME NEW p \in Children(dir) \ lead PROVE G[p] = ItemOf(p)
    <3>1. (tree[p].kind \in {"directory", "dirlink"}) = FALSE
      OBVIOUS
    <3>2. ItemOf(p) = [path |-> p, dir |-> FALSE]
      BY <3>1, Zenon DEF ItemOf
    <3> QED  BY <3>2
  <2>3. \A p \in Children(dir) : ItemOf(p) \in Items
    BY <1>1 DEF ItemOf, Items
  <2>4. lead \subseteq Children(dir)
    OBVIOUS
  <2> HIDE DEF F, G, lead
  <2> QED  BY <2>1, <2>2, <2>3, <2>4
<1>4. IsFiniteSet(A)
  <2>1. IsFiniteSet(lead) /\ DOMAIN F = lead
    BY <1>1, FS_Subset
  <2> HIDE DEF F, lead
  <2> QED  BY <2>1, FiniteImage
<1>5. IsFiniteSet(B)
  <2>1. Children(dir) \ lead \subseteq Paths
    BY <1>1
  <2>2. IsFiniteSet(Children(dir) \ lead) /\ DOMAIN G = Children(dir) \ lead
    BY <1>1, <2>1, FS_Subset
  <2> HIDE DEF G, lead
  <2> QED  BY <2>2, FiniteImage
<1> HIDE DEF A, B
<1>6. /\ InSomeOrder(A) \in Seq(A) /\ Range(InSomeOrder(A)) = A
      /\ InSomeOrder(B) \in Seq(B) /\ Range(InSomeOrder(B)) = B
  BY <1>4, <1>5, SomeOrder
<1>7. InSomeOrder(A) \in Seq(Items) /\ InSomeOrder(B) \in Seq(Items)
  BY <1>3, <1>6
<1> QED  BY <1>2, <1>3, <1>6, <1>7, RangeJoined

\* A directory is listed: what lies below it is or lies below one of its entries.
LEMMA ListDirectoryInv ==
  ASSUME Inv, ListDirectory
  PROVE  Inv'
<1> USE DEF Inv
<1> DEFINE dir == Head(dirs).path
           kind == tree[dir].kind
           items == IF kind = "directory" THEN Listing(dir) ELSE <<>>
<1>1. /\ phase = "walk" /\ todo = <<>> /\ dirs # <<>> /\ UNCHANGED <<tree, touched, plan>>
      /\ \/ End("error") \/ End("input")
         \/ /\ dirs' = Tail(dirs) /\ todo' = items
            /\ UNCHANGED <<phase, roots, found, skipped, read, generation, outcome, findings>>
  BY DEF ListDirectory
<1>2. CASE End("error") \/ End("input")
  BY <1>1, <1>2, EndInv
<1>3. CASE /\ dirs' = Tail(dirs) /\ todo' = items
           /\ UNCHANGED <<phase, roots, found, skipped, read, generation, outcome, findings>>
  <2>1. /\ Head(dirs) \in Directories /\ dirs' \in Seq(Directories)
        /\ Range(dirs) = {Head(dirs)} \cup Range(dirs')
    BY <1>1, <1>3, RangeTaken DEF ReadInv
  <2>2. dir \in Paths
    BY <2>1 DEF Directories
  <2>3. /\ todo' \in Seq(Items)
        /\ \A t \in Range(todo') : \E p \in Children(dir) : t = ItemOf(p)
        /\ kind = "directory" => \A p \in Children(dir) : ItemOf(p) \in Range(todo')
    <3>1. CASE kind = "directory"
      <4>1. todo' = Listing(dir)
        BY <1>3, <3>1
      <4> HIDE DEF dir
      <4> QED  BY <2>2, <4>1, ListingHasAll
    <3>2. CASE kind # "directory"
      <4>1. todo' = <<>>
        BY <1>3, <3>2
      <4> QED  BY <3>2, <4>1, RangeOfNone
    <3> QED  BY <3>1, <3>2
  <2> HIDE DEF items, dir, kind
  <2>4. TreeInv' /\ PhaseInv'
    BY <1>1, <1>3, TreeSame DEF PhaseInv
  <2>5. ReadInv'
    BY <1>1, <1>3, <2>1, <2>3 DEF ReadInv, Directories, Items
  <2>6. GenerationInv'
    BY <1>1, <1>3, GenerationSame
  <2>7. NotedInv'
    <3>1. \A t \in Range(todo') : t.dir = (tree[t.path].kind \in {"directory", "dirlink"})
      BY <2>3 DEF ItemOf
    <3> QED  BY <1>1, <1>3, <3>1 DEF NotedInv, KindOf, Supported, NameOf, Links
  <2>8. DueInv'
    <3>1. ASSUME NEW p \in Due, Ahead(p) PROVE Ahead(p)'
      <4>1. CASE \E r \in Range(roots) : IsStrictPrefix(r, p)
        BY <1>3, <4>1 DEF Ahead
      <4>2. CASE \E d \in Range(dirs') : IsStrictPrefix(d.path, p)
        BY <4>2 DEF Ahead
      <4>3. CASE IsStrictPrefix(dir, p)
        <5> DEFINE child == SubSeq(p, 1, Len(dir) + 1)
        <5>1. p \in Paths /\ tree[p].kind # "none" /\ IsTree(tree)
          BY DEF Due, TreeInv
        <5>2. /\ child \in Below(dir) /\ Parent(child) = dir /\ IsPrefix(child, p)
              /\ child = p \/ IsStrictPrefix(child, p)
          BY <2>2, <4>3, <5>1, OnTheWay
        <5>3. kind = "directory"
          BY <2>2, <4>3, <5>1, LiesInDirectories DEF kind
        <5>4. child \in Paths /\ tree[child].kind # "none"
          <6>1. child \in Paths
            BY <5>2 DEF Below
          <6> HIDE DEF child
          <6>2. IsStrictPrefix(child, p) => tree[child].kind = "directory"
            BY <5>1, <6>1, LiesInDirectories
          <6> QED  BY <5>1, <5>2, <6>1, <6>2
        <5> HIDE DEF child
        <5>5. child \in Children(dir)
          BY <5>2, <5>4 DEF Children
        <5>6. ItemOf(child) \in Range(todo') /\ ItemOf(child).path = child
          BY <2>3, <5>3, <5>5 DEF ItemOf
        <5> QED  BY <5>2, <5>6 DEF Ahead
      <4>4. Range(todo) = {}
        BY <1>1, RangeOfNone
      <4> QED  BY <2>1, <3>1, <4>1, <4>2, <4>3, <4>4 DEF Ahead, dir
    <3> QED  BY <1>1, <1>3, <3>1 DEF DueInv, Due
  <2>9. ReportInv'
    <3>1. outcome' # "report"
      BY <1>1, <1>3 DEF PhaseInv
    <3> QED  BY <3>1, NoReportYet
  <2> QED  BY <2>4, <2>5, <2>6, <2>7, <2>8, <2>9
<1> QED  BY <1>1, <1>2, <1>3

\* A place above an entry that is due is a directory nobody touched.
LEMMA AboveDue ==
  ASSUME TreeInv, NEW p \in Due, NEW q \in Paths, IsStrictPrefix(q, p)
  PROVE  tree[q].kind = "directory" /\ q \notin touched
<1>1. p \in Paths /\ tree[p].kind # "none" /\ p \notin touched
  BY DEF Due
<1>2. tree[q].kind = "directory"
  BY <1>1, LiesInDirectories DEF TreeInv
<1>3. p \in Below(q)
  BY <1>1 DEF Below
<1> QED  BY <1>1, <1>2, <1>3 DEF TreeInv

\* What is there once x is added to f: what was there before, and x, whose value is
\* the new one if it had none.
LEMMA AddingMeans ==
  ASSUME NEW f, NEW x, NEW v
  PROVE  /\ DOMAIN Adding(f, x, v) = DOMAIN f \cup {x}
         /\ \A y \in DOMAIN f : Adding(f, x, v)[y] = f[y]
         /\ x \notin DOMAIN f => Adding(f, x, v)[x] = v
  BY DEF Adding, Over

\* Adding keeps the type of the values.
LEMMA AddingTyped ==
  ASSUME NEW T, NEW f, f \in [DOMAIN f -> T], NEW x, NEW v \in T
  PROVE  Adding(f, x, v) \in [DOMAIN f \cup {x} -> T]
  BY DEF Adding, Over

\* It changes nothing if x is there.
LEMMA AddedBefore ==
  ASSUME NEW T, NEW f, f \in [DOMAIN f -> T], NEW x \in DOMAIN f, NEW v
  PROVE  Adding(f, x, v) = f
  BY DEF Adding, Over

\* An entry is skipped: it is noted with its kind.
LEMMA SkipInv ==
  ASSUME Inv, phase = "walk", todo # <<>>, UNCHANGED <<tree, touched, plan>>,
         NEW reason, Skip(Head(todo).path, KindOf(tree[Head(todo).path]), reason),
         Head(todo).path \notin DOMAIN plan.exclusions => ~Supported(Head(todo).path),
         Head(todo).path \notin touched =>
           IF Head(todo).path \in DOMAIN plan.exclusions
           THEN plan.exclusions[Head(todo).path].content = tree[Head(todo).path].content
           ELSE tree[Head(todo).path].kind # "dirlink",
         \A p \in Due : IsPrefix(Head(todo).path, p) => p = Head(todo).path
  PROVE  Inv'
<1> USE DEF Inv
<1> DEFINE item == Head(todo)
           path == item.path
           note == [kind |-> KindOf(tree[path]), reason |-> reason]
<1>1. /\ skipped' = Adding(skipped, path, note) /\ todo' = Tail(todo)
      /\ UNCHANGED <<phase, roots, dirs, found, seen, read, generation, outcome, findings>>
  BY DEF Skip
<1>2. item \in Items /\ todo' \in Seq(Items) /\ Range(todo) = {item} \cup Range(todo')
  BY <1>1, RangeTaken DEF ReadInv
<1>3. path \in Paths
  BY <1>2 DEF Items
<1>4. /\ DOMAIN skipped' = DOMAIN skipped \cup {path}
      /\ \A p \in DOMAIN skipped : skipped'[p] = skipped[p]
      /\ path \notin DOMAIN skipped => skipped'[path] = note
  <2> HIDE DEF note, path
  <2>1. skipped' = Adding(skipped, path, note)
    BY <1>1
  <2>2. /\ DOMAIN Adding(skipped, path, note) = DOMAIN skipped \cup {path}
        /\ \A p \in DOMAIN skipped : Adding(skipped, path, note)[p] = skipped[p]
        /\ path \notin DOMAIN skipped => Adding(skipped, path, note)[path] = note
    BY AddingMeans
  <2> QED  BY <2>1, <2>2
<1>5. TreeInv' /\ PhaseInv'
  BY <1>1, TreeSame DEF PhaseInv
<1>6. ReadInv'
  BY <1>1, <1>2 DEF ReadInv, Directories, Items
<1>7. GenerationInv'
  BY <1>1, GenerationSame
<1>8. NotedInv'
  <2>1. ASSUME NEW p \in DOMAIN skipped'
        PROVE  p \in Paths /\ (p \notin DOMAIN plan.exclusions => ~Supported(p))
    BY <1>3, <1>4 DEF NotedInv
  <2>2. ASSUME NEW p \in DOMAIN skipped' \ touched
        PROVE  /\ skipped'[p].kind = KindOf(tree[p])
               /\ IF p \in DOMAIN plan.exclusions THEN plan.exclusions[p].content = tree[p].content
                  ELSE tree[p].kind # "dirlink"
    <3>1. CASE p \in DOMAIN skipped
      BY <1>4, <2>2, <3>1 DEF NotedInv
    <3>2. CASE p \notin DOMAIN skipped
      <4>1. p = path /\ skipped'[p] = note /\ note.kind = KindOf(tree[p])
        BY <1>4, <2>2, <3>2
      <4> QED  BY <2>2, <4>1
    <3> QED  BY <3>1, <3>2
  <2> HIDE DEF path, item, note
  <2> QED  BY <1>1, <1>2, <2>1, <2>2 DEF NotedInv, KindOf, Supported, NameOf, Links
<1>9. DueInv'
  <2>1. ASSUME NEW p \in Due, Ahead(p) PROVE Ahead(p)' \/ p \in DOMAIN skipped'
    BY <1>1, <1>2, <1>4, <2>1 DEF Ahead
  <2> QED  BY <1>1, <1>4, <2>1 DEF DueInv, Due
<1>10. ReportInv'
  <2>1. outcome' # "report"
    BY <1>1 DEF PhaseInv
  <2> QED  BY <2>1, NoReportYet
<1> QED  BY <1>5, <1>6, <1>7, <1>8, <1>9, <1>10

\* One entry is inspected: it is entered, skipped or found, and so are the entries
\* below it.
LEMMA InspectInv ==
  ASSUME Inv, Inspect
  PROVE  Inv'
<1> USE DEF Inv
<1> DEFINE item == Head(todo)
           path == item.path
           entry == tree[path]
           excluded == path \in DOMAIN plan.exclusions
<1>1. phase = "walk" /\ todo # <<>> /\ UNCHANGED <<tree, touched, plan>>
  BY DEF Inspect
<1>2. \/ End("input") \/ End("error")
      \/ excluded /\ InspectExcluded(item, entry)
      \/ ~excluded /\ item.dir /\ InspectDirectory(item, entry)
      \/ ~excluded /\ ~item.dir /\ InspectFile(item, entry)
  BY DEF Inspect
<1>3. item \in Items /\ Tail(todo) \in Seq(Items) /\ Range(todo) = {item} \cup Range(Tail(todo))
  BY <1>1, RangeTaken DEF ReadInv
<1>4. path \in Paths /\ item.dir \in BOOLEAN
  BY <1>3 DEF Items
<1>5. path \notin touched => item.dir = (entry.kind \in {"directory", "dirlink"})
  BY <1>3 DEF NotedInv
<1>6. ASSUME NEW p \in Due, IsPrefix(path, p), p # path
      PROVE  item.dir /\ entry.kind = "directory"
  <2>1. IsStrictPrefix(path, p)
    BY <1>6 DEF IsStrictPrefix
  <2>2. entry.kind = "directory" /\ path \notin touched
    BY <1>4, <2>1, AboveDue
  <2> QED  BY <1>5, <2>2
<1>7. CASE End("input") \/ End("error")
  BY <1>1, <1>7, EndInv
<1>8. CASE excluded /\ InspectExcluded(item, entry)
  <2>1. CASE End("input")
    BY <1>1, <2>1, EndInv
  <2>2. CASE /\ ~(item.dir /\ plan.exclusions[path].kind # "symlink") /\ IsPinned(path, entry)
             /\ Skip(path, KindOf(entry), "scope_excluded")
    <3>1. ASSUME NEW p \in Due, IsPrefix(path, p) PROVE p = path
      <4> SUFFICES ASSUME p # path PROVE FALSE
        OBVIOUS
      <4>1. item.dir /\ entry.kind = "directory"
        BY <1>6, <3>1
      <4>2. KindOf(entry) = "other"
        BY <4>1 DEF KindOf, Links
      <4> QED  BY <2>2, <4>1, <4>2 DEF IsPinned
    <3>2. plan.exclusions[path].content = entry.content
      BY <2>2 DEF IsPinned
    <3> QED  BY <1>1, <1>8, <2>2, <3>1, <3>2, SkipInv
  <2> QED  BY <1>8, <2>1, <2>2 DEF InspectExcluded
<1>9. CASE ~excluded /\ item.dir /\ InspectDirectory(item, entry)
  <2>1. CASE End("error") \/ End("input")
    BY <1>1, <2>1, EndInv
  <2>2. CASE /\ entry.kind \notin Links \cup {"none"}
             /\ dirs' = Descend(path) /\ todo' = Tail(todo)
             /\ UNCHANGED <<phase, roots, found, skipped, seen, read, generation, outcome, findings>>
    <3> DEFINE d == [path |-> path, root |-> FALSE]
    <3>1. d \in Directories /\ d.path = path
      BY <1>4 DEF Directories
    <3>2. dirs' = <<d>> \o dirs
      BY <2>2 DEF Descend
    <3> HIDE DEF d
    <3>3. dirs' \in Seq(Directories) /\ Range(dirs') = {d} \cup Range(dirs)
      <4> DEFINE one == <<d>>
      <4>1. one \in Seq(Directories) /\ Range(one) = {d}
        BY <3>1, RangeOne
      <4>2. dirs \in Seq(Directories) /\ dirs' = one \o dirs
        BY <3>2 DEF ReadInv
      <4> HIDE DEF one
      <4> QED  BY <4>1, <4>2, RangeJoined
    <3>4. TreeInv' /\ PhaseInv'
      BY <1>1, <2>2, TreeSame DEF PhaseInv
    <3>5. ReadInv'
      BY <1>1, <1>3, <2>2, <3>3 DEF ReadInv, Directories, Items
    <3>6. GenerationInv'
      BY <1>1, <2>2, GenerationSame
    <3>7. NotedInv'
      BY <1>1, <1>3, <2>2 DEF NotedInv, KindOf, Supported, NameOf, Links
    <3>8. DueInv'
      <4>1. ASSUME NEW p \in Due, Ahead(p) PROVE Ahead(p)'
        <5>1. CASE IsPrefix(path, p)
          <6>1. p # path
            <7> SUFFICES ASSUME p = path PROVE FALSE
              OBVIOUS
            <7>1. entry.kind \notin {"none", "directory"} /\ path \notin touched
              BY DEF Due
            <7> QED  BY <1>5, <1>9, <2>2, <7>1 DEF Links
          <6>2. IsStrictPrefix(d.path, p) /\ d \in Range(dirs')
            BY <3>1, <3>3, <5>1, <6>1 DEF IsStrictPrefix
          <6> QED  BY <6>2 DEF Ahead
        <5>2. CASE ~IsPrefix(path, p)
          BY <1>3, <2>2, <3>3, <4>1, <5>2 DEF Ahead
        <5> QED  BY <5>1, <5>2
      <4> QED  BY <1>1, <2>2, <4>1 DEF DueInv, Due
    <3>9. ReportInv'
      <4>1. outcome' # "report"
        BY <1>1, <2>2 DEF PhaseInv
      <4> QED  BY <4>1, NoReportYet
    <3> QED  BY <3>4, <3>5, <3>6, <3>7, <3>8, <3>9
  <2> QED  BY <1>9, <2>1, <2>2 DEF InspectDirectory
<1>10. CASE ~excluded /\ ~item.dir /\ InspectFile(item, entry)
  <2>0. \A p \in Due : IsPrefix(path, p) => p = path
    BY <1>6, <1>10
  <2>1. CASE End("error") \/ End("input")
    BY <1>1, <2>1, EndInv
  <2>2. CASE ~Supported(path) /\ Skip(path, KindOf(entry), "unsupported")
    <3>1. path \notin touched => entry.kind # "dirlink"
      BY <1>5, <1>10
    <3> QED  BY <1>1, <1>10, <2>0, <2>2, <3>1, SkipInv
  <2>3. CASE /\ Supported(path) /\ Len(found) # Limits.files
             /\ found' = Append(found, path) /\ todo' = Tail(todo)
             /\ UNCHANGED <<phase, roots, dirs, skipped, seen, read, generation, outcome, findings>>
    <3>1. found' \in Seq(Paths) /\ Range(found') = Range(found) \cup {path} /\ Len(found') = Len(found) + 1
      BY <1>4, <2>3, RangeAppended DEF ReadInv
    <3>2. TreeInv' /\ PhaseInv'
      BY <1>1, <2>3, TreeSame DEF PhaseInv
    <3>3. ReadInv'
      <4>1. read = <<>>
        BY <1>1 DEF ReadInv
      <4>2. Cardinality(DOMAIN read) = 0
        BY <4>1, FS_EmptySet
      <4>3. /\ Len(found) \in Nat /\ Limits.files \in Nat
            /\ Len(found) + Cardinality(DOMAIN read) <= Limits.files
        <5>1. found \in Seq(Paths)
          BY DEF ReadInv
        <5>2. Len(found) \in Nat
          BY <5>1
        <5> QED  BY <5>2, ScanAssumption DEF ReadInv
      <4>4. Len(found') + Cardinality(DOMAIN read) <= Limits.files
        BY <2>3, <3>1, <4>2, <4>3
      <4> QED  BY <1>1, <1>3, <2>3, <3>1, <4>4 DEF ReadInv, Directories, Items
    <3>4. GenerationInv'
      BY <1>1, <2>3, GenerationSame
    <3>5. NotedInv'
      BY <1>1, <1>3, <1>10, <2>3, <3>1 DEF NotedInv, KindOf, Supported, NameOf, Links
    <3>6. DueInv'
      <4>1. ASSUME NEW p \in Due, Ahead(p) PROVE Ahead(p)' \/ p \in Range(found')
        BY <1>3, <2>0, <2>3, <3>1, <4>1 DEF Ahead
      <4> QED  BY <1>1, <2>3, <3>1, <4>1 DEF DueInv, Due
    <3>7. ReportInv'
      <4>1. outcome' # "report"
        BY <1>1, <2>3 DEF PhaseInv
      <4> QED  BY <4>1, NoReportYet
    <3> QED  BY <3>2, <3>3, <3>4, <3>5, <3>6, <3>7
  <2> QED  BY <1>10, <2>1, <2>2, <2>3 DEF InspectFile
<1> QED  BY <1>2, <1>7, <1>8, <1>9, <1>10

\* The walk ends with nothing ahead.
LEMMA EndWalkInv ==
  ASSUME Inv, EndWalk
  PROVE  Inv'
<1> USE DEF Inv
<1>1. /\ phase = "walk" /\ roots = <<>> /\ dirs = <<>> /\ todo = <<>>
      /\ UNCHANGED <<tree, touched, plan>>
      /\ \/ End("input")
         \/ phase' = "read" /\ UNCHANGED <<walk, read, generation, outcome, findings>>
  BY DEF EndWalk
<1>2. CASE End("input")
  BY <1>1, <1>2, EndInv
<1>3. CASE phase' = "read" /\ UNCHANGED <<walk, read, generation, outcome, findings>>
  <2>1. TreeInv' /\ PhaseInv' /\ ReadInv'
    BY <1>1, <1>3, TreeSame DEF PhaseInv, ReadInv, walk
  <2>2. GenerationInv'
    BY <1>1, <1>3, GenerationSame
  <2>3. NotedInv'
    BY <1>1, <1>3 DEF NotedInv, KindOf, Supported, NameOf, Links, walk
  <2>4. DueInv'
    <3>1. \A p : ~Ahead(p)
      BY <1>1, RangeOfNone DEF Ahead
    <3> QED  BY <1>1, <1>3, <3>1 DEF DueInv, Due, walk
  <2>5. ReportInv'
    <3>1. outcome' # "report"
      BY <1>1, <1>3 DEF PhaseInv
    <3> QED  BY <3>1, NoReportYet
  <2> QED  BY <2>1, <2>2, <2>3, <2>4, <2>5
<1> QED  BY <1>1, <1>2, <1>3

-----------------------------------------------------------------------------
(* The reads and the generation plan                                       *)

\* A file is read: it goes from those found to the manifest.
LEMMA ReadFileInv ==
  ASSUME Inv, ReadFile
  PROVE  Inv'
<1> USE DEF Inv
<1> DEFINE path == Head(found)
           entry == tree[path]
           content == entry.content
<1>1. phase = "read" /\ found # <<>> /\ UNCHANGED <<tree, touched, plan>>
  BY DEF ReadFile
<1>2. /\ path \in Paths /\ Tail(found) \in Seq(Paths) /\ Len(Tail(found)) = Len(found) - 1
      /\ Len(found) \in Nat /\ Range(found) = {path} \cup Range(Tail(found))
  BY <1>1, RangeTaken DEF ReadInv
<1>3. CASE End("input") \/ End("error")
  BY <1>1, <1>3, EndInv
<1>4. CASE /\ entry.kind = "regular" /\ Fits(content) /\ content \notin Unreadable
           /\ read' = Adding(read, path, content) /\ found' = Tail(found)
           /\ UNCHANGED <<phase, roots, dirs, todo, skipped, seen, generation, outcome, findings>>
  <2>1. content \in Contents \ Unreadable /\ path # <<>>
    BY <1>2, <1>4 DEF TreeInv, IsTree
  <2>2. SizeOf[content] \in Nat /\ \A p \in DOMAIN read : SizeOf[read[p]] \in Nat
    BY <2>1, ScanAssumption DEF ReadInv
  <2>3. IsFiniteSet(DOMAIN read) /\ Cardinality(DOMAIN read) \in Nat
    <3>1. DOMAIN read \subseteq Paths /\ IsFiniteSet(Paths)
      BY ScanAssumption DEF ReadInv
    <3> QED  BY <3>1, FS_Subset, FS_CardinalityType
  <2> HIDE DEF path, content, entry
  <2>4. /\ DOMAIN read' = DOMAIN read \cup {path}
        /\ \A p \in DOMAIN read : read'[p] = read[p]
        /\ path \notin DOMAIN read => read'[path] = content
    <3>1. read' = Adding(read, path, content)
      BY <1>4
    <3>2. /\ DOMAIN Adding(read, path, content) = DOMAIN read \cup {path}
          /\ \A p \in DOMAIN read : Adding(read, path, content)[p] = read[p]
          /\ path \notin DOMAIN read => Adding(read, path, content)[path] = content
      BY AddingMeans
    <3> QED  BY <3>1, <3>2
  <2>5. read' \in [DOMAIN read' -> Contents \ Unreadable]
    <3>1. read \in [DOMAIN read -> Contents \ Unreadable]
      BY DEF ReadInv
    <3> QED  BY <1>4, <2>1, <2>4, <3>1, AddingTyped
  <2>6. TotalSize(read') \in Nat /\ TotalSize(read') <= Limits.total
    <3>1. CASE path \in DOMAIN read
      <4>1. read' = read
        <5> DEFINE T == Contents \ Unreadable
        <5>1. read \in [DOMAIN read -> T] /\ content \in T /\ read' = Adding(read, path, content)
          BY <1>4, <2>1 DEF ReadInv
        <5> HIDE DEF T, Inv
        <5>2. Adding(read, path, content) = read
          BY <3>1, <5>1, AddedBefore
        <5> QED  BY <5>1, <5>2
      <4> QED  BY <4>1 DEF ReadInv
    <3>2. CASE path \notin DOMAIN read
      <4>1. TotalSize(read) \in Nat /\ TotalSize(read') = TotalSize(read) + SizeOf[content]
        BY <1>4, <2>2, <2>3, <3>2, TotalAdds
      <4> QED  BY <1>4, <2>2, <4>1 DEF Fits
    <3> QED  BY <3>1, <3>2
  <2>7. Len(found') + Cardinality(DOMAIN read') <= Limits.files
    <3>1. Cardinality(DOMAIN read') \in {Cardinality(DOMAIN read), Cardinality(DOMAIN read) + 1}
      BY <2>3, <2>4, FS_AddElement
    <3>2. Len(found) + Cardinality(DOMAIN read) <= Limits.files /\ Limits.files \in Nat
      BY ScanAssumption DEF ReadInv
    <3> QED  BY <1>2, <1>4, <2>3, <3>1, <3>2
  <2>8. TreeInv' /\ PhaseInv'
    BY <1>1, <1>4, TreeSame DEF PhaseInv
  <2>9. ReadInv'
    BY <1>1, <1>2, <1>4, <2>1, <2>4, <2>5, <2>6, <2>7 DEF ReadInv, Directories, Items
  <2>10. GenerationInv'
    BY <1>1, <1>4, GenerationSame
  <2>11. NotedInv'
    <3>1. ASSUME NEW p \in Range(found') \cup DOMAIN read'
          PROVE  Supported(p) /\ p \notin DOMAIN plan.exclusions
      BY <1>2, <1>4, <2>4 DEF NotedInv
    <3>2. ASSUME NEW p \in DOMAIN read' \ touched
          PROVE  tree[p].kind = "regular" /\ read'[p] = tree[p].content
      BY <1>4, <2>4 DEF NotedInv, entry, content
    <3> QED  BY <1>1, <1>4, <3>1, <3>2 DEF NotedInv, KindOf, Supported, NameOf, Links
  <2>12. DueInv'
    BY <1>1, <1>2, <1>4, <2>4 DEF DueInv, Due
  <2>13. ReportInv'
    <3>1. outcome' # "report"
      BY <1>1, <1>4 DEF PhaseInv
    <3> QED  BY <3>1, NoReportYet
  <2> QED  BY <2>8, <2>9, <2>10, <2>11, <2>12, <2>13
<1> QED  BY <1>3, <1>4 DEF ReadFile

\* Everything found was read.
LEMMA EndReadsInv ==
  ASSUME Inv, EndReads
  PROVE  Inv'
<1> USE DEF Inv
<1>1. /\ phase = "read" /\ found = <<>> /\ UNCHANGED <<tree, touched, plan>>
      /\ \/ End("input")
         \/ /\ phase' \in {"analyse", "generate"}
            /\ UNCHANGED <<walk, read, generation, outcome, findings>>
  BY DEF EndReads
<1>2. CASE End("input")
  BY <1>1, <1>2, EndInv
<1>3. CASE phase' \in {"analyse", "generate"} /\ UNCHANGED <<walk, read, generation, outcome, findings>>
  <2>1. TreeInv' /\ PhaseInv' /\ ReadInv'
    BY <1>1, <1>3, TreeSame DEF PhaseInv, ReadInv, walk
  <2>2. GenerationInv'
    BY <1>1, <1>3, GenerationSame
  <2>3. NotedInv'
    BY <1>1, <1>3 DEF NotedInv, KindOf, Supported, NameOf, Links, walk
  <2>4. DueInv'
    <3>1. Range(found) = {}
      BY <1>1, RangeOfNone
    <3> QED  BY <1>1, <1>3, <3>1 DEF DueInv, Due, walk
  <2>5. ReportInv'
    <3>1. outcome' # "report"
      BY <1>1, <1>3 DEF PhaseInv
    <3> QED  BY <3>1, NoReportYet
  <2> QED  BY <2>1, <2>2, <2>3, <2>4, <2>5
<1> QED  BY <1>1, <1>2, <1>3

\* An artifact is complete, or one of its inputs is.
LEMMA VerifyInputInv ==
  ASSUME Inv, VerifyInput
  PROVE  Inv'
<1> USE DEF Inv
<1>1. phase = "generate" /\ step[1] \in DOMAIN plan.artifacts /\ UNCHANGED <<tree, touched, plan>>
  BY DEF VerifyInput
<1>2. CASE End("input")
  BY <1>1, <1>2, EndInv
<1>3. ASSUME NEW content \in ReadInput, DigestMatches(content),
             UNCHANGED <<phase, walk, read, outcome, findings>>,
             cache' = Adding(cache, Input.path, content),
             \/ /\ step[2] < Len(Artifact.inputs)
                /\ step' = <<step[1], step[2] + 1>> /\ UNCHANGED rendered
             \/ /\ step[2] >= Len(Artifact.inputs) /\ step' = <<step[1] + 1, 1>>
                /\ \/ UNCHANGED rendered
                   \/ /\ Artifact.template # <<>> /\ Renderable(cache'[Artifact.template])
                      /\ rendered' = Adding(rendered, Artifact.path, Renders[cache'[Artifact.template]])
      PROVE  Inv'
  <2>1. Artifact \in Range(plan.artifacts) /\ IsPlan(plan)
    BY <1>1 DEF Artifact, Range, TreeInv
  <2>2. /\ Artifact.path \in Paths \ {<<>>} /\ Artifact.inputs \in Seq(GenerationInput) \ {<<>>}
        /\ Artifact.template # <<>> => \E i \in Range(Artifact.inputs) : i.path = Artifact.template
    BY <2>1, ArtifactsAre
  <2>3. step = <<step[1], step[2]>> /\ step[1] \in Nat \ {0} /\ step[2] \in Nat \ {0}
        /\ step[2] \in 1 .. Len(Artifact.inputs)
    BY <1>1, <2>2 DEF GenerationInv
  <2>4. Input = Artifact.inputs[step[2]] /\ Input \in GenerationInput
    BY <2>2, <2>3 DEF Input
  <2>5. content = Input.content /\ content \in Contents /\ Input.path \in Paths
    BY <1>3, <2>4 DEF DigestMatches, GenerationInput
  <2>6. Input.path \in DOMAIN cache => cache[Input.path] = content
    BY <1>3 DEF ReadInput
  <2>7. /\ DOMAIN cache' = DOMAIN cache \cup {Input.path}
        /\ \A p \in DOMAIN cache : cache'[p] = cache[p]
        /\ cache'[Input.path] = content
    <3> DEFINE p == Input.path
    <3> HIDE DEF p
    <3>1. /\ DOMAIN Adding(cache, p, content) = DOMAIN cache \cup {p}
          /\ \A q \in DOMAIN cache : Adding(cache, p, content)[q] = cache[q]
          /\ p \notin DOMAIN cache => Adding(cache, p, content)[p] = content
      BY AddingMeans
    <3>2. cache' = Adding(cache, p, content) /\ (p \in DOMAIN cache => cache[p] = content)
      BY <1>3, <2>6 DEF p
    <3>3. DOMAIN cache' = DOMAIN cache \cup {p} /\ (\A q \in DOMAIN cache : cache'[q] = cache[q])
          /\ cache'[p] = content
      BY <3>1, <3>2
    <3> QED  BY <3>3 DEF p
  <2>8. cache' \in [DOMAIN cache' -> Contents]
    <3>1. cache \in [DOMAIN cache -> Contents]
      BY DEF GenerationInv
    <3> QED  BY <1>3, <2>5, <2>7, <3>1, AddingTyped
  <2>9. \A j \in 1 .. step[2] : /\ Artifact.inputs[j].path \in DOMAIN cache'
                                /\ cache'[Artifact.inputs[j].path] = Artifact.inputs[j].content
    <3> SUFFICES ASSUME NEW j \in 1 .. step[2]
                 PROVE  /\ Artifact.inputs[j].path \in DOMAIN cache'
                        /\ cache'[Artifact.inputs[j].path] = Artifact.inputs[j].content
      OBVIOUS
    <3>1. CASE j = step[2]
      BY <2>4, <2>5, <2>7, <3>1
    <3>2. CASE j # step[2]
      <4>1. j \in 1 .. step[2] - 1
        BY <2>3, <3>2
      <4>2. Artifact.inputs[j].path \in DOMAIN cache
            /\ cache[Artifact.inputs[j].path] = Artifact.inputs[j].content
        BY <1>1, <4>1 DEF GenerationInv
      <4> QED  BY <2>7, <4>2
    <3> QED  BY <3>1, <3>2
  <2>10. step' \in (Nat \ {0}) \X (Nat \ {0})
    BY <1>3, <2>3
  <2>11. step'[1] \in DOMAIN plan.artifacts =>
           /\ step'[2] <= Len(Artifact'.inputs)
           /\ \A j \in 1 .. step'[2] - 1 :
                /\ Artifact'.inputs[j].path \in DOMAIN cache'
                /\ cache'[Artifact'.inputs[j].path] = Artifact'.inputs[j].content
    <3>1. CASE step[2] < Len(Artifact.inputs) /\ step' = <<step[1], step[2] + 1>>
      <4>1. Artifact' = Artifact /\ step'[2] = step[2] + 1
        BY <1>1, <3>1 DEF Artifact
      <4>2. Len(Artifact.inputs) \in Nat
        BY <2>2
      <4>3. step'[2] <= Len(Artifact.inputs) /\ step'[2] - 1 = step[2]
        BY <2>3, <3>1, <4>1, <4>2
      <4> QED  BY <2>9, <4>1, <4>3
    <3>2. CASE step' = <<step[1] + 1, 1>>
      <4>1. step'[2] = 1 /\ Artifact' = plan.artifacts[step'[1]]
        BY <1>1, <3>2 DEF Artifact
      <4>2. ASSUME step'[1] \in DOMAIN plan.artifacts PROVE 1 <= Len(Artifact'.inputs)
        <5>1. Artifact' \in Range(plan.artifacts)
          BY <4>1, <4>2 DEF Range
        <5>2. Artifact'.inputs \in Seq(GenerationInput) \ {<<>>}
          BY <2>1, <5>1, ArtifactsAre
        <5> QED  BY <5>2
      <4> QED  BY <4>1, <4>2
    <3> QED  BY <1>3, <3>1, <3>2
  <2>12. /\ rendered' \in [DOMAIN rendered' -> Contents]
         /\ \A p \in DOMAIN rendered' :
              \E a \in Range(plan.artifacts) : \E i \in Range(a.inputs) :
                a.path = p /\ a.template = i.path /\ rendered'[p] = Renders[i.content]
    <3>1. CASE UNCHANGED rendered
      BY <3>1 DEF GenerationInv
    <3>2. CASE /\ step[2] >= Len(Artifact.inputs)
               /\ Artifact.template # <<>> /\ Renderable(cache'[Artifact.template])
               /\ rendered' = Adding(rendered, Artifact.path, Renders[cache'[Artifact.template]])
      <4> DEFINE image == Renders[cache'[Artifact.template]]
      <4>1. PICK i \in Range(Artifact.inputs) : i.path = Artifact.template
        BY <2>2, <3>2
      <4>2. cache'[Artifact.template] = i.content /\ i.content \in Contents
        <5>1. Len(Artifact.inputs) \in Nat /\ DOMAIN Artifact.inputs = 1 .. Len(Artifact.inputs)
          BY <2>2
        <5>2. PICK j \in 1 .. Len(Artifact.inputs) : i = Artifact.inputs[j]
          BY <4>1, <5>1 DEF Range
        <5>3. j \in 1 .. step[2]
          BY <2>3, <3>2, <5>1
        <5>4. i \in GenerationInput
          BY <2>2, <5>2
        <5> QED  BY <2>9, <4>1, <5>2, <5>3, <5>4 DEF GenerationInput
      <4>3. image = Renders[i.content] /\ image \in Contents
        BY <3>2, <4>2, ScanAssumption DEF Renderable
      <4> HIDE DEF image
      <4>4. rendered' = Adding(rendered, Artifact.path, image)
        BY <3>2 DEF image
      <4>5. /\ DOMAIN rendered' = DOMAIN rendered \cup {Artifact.path}
            /\ \A p \in DOMAIN rendered : rendered'[p] = rendered[p]
            /\ Artifact.path \notin DOMAIN rendered => rendered'[Artifact.path] = image
        <5> DEFINE p == Artifact.path
        <5> HIDE DEF p
        <5>1. /\ DOMAIN Adding(rendered, p, image) = DOMAIN rendered \cup {p}
              /\ \A q \in DOMAIN rendered : Adding(rendered, p, image)[q] = rendered[q]
              /\ p \notin DOMAIN rendered => Adding(rendered, p, image)[p] = image
          BY AddingMeans
        <5>2. rendered' = Adding(rendered, p, image)
          BY <4>4 DEF p
        <5>3. /\ DOMAIN rendered' = DOMAIN rendered \cup {p}
              /\ \A q \in DOMAIN rendered : rendered'[q] = rendered[q]
              /\ p \notin DOMAIN rendered => rendered'[p] = image
          BY <5>1, <5>2
        <5> QED  BY <5>3 DEF p
      <4>6. rendered' \in [DOMAIN rendered' -> Contents]
        <5>1. rendered \in [DOMAIN rendered -> Contents]
          BY DEF GenerationInv
        <5> QED  BY <4>3, <4>4, <4>5, <5>1, AddingTyped
      <4>7. ASSUME NEW p \in DOMAIN rendered'
            PROVE  \E a \in Range(plan.artifacts) : \E k \in Range(a.inputs) :
                     a.path = p /\ a.template = k.path /\ rendered'[p] = Renders[k.content]
        <5>1. CASE p \in DOMAIN rendered
          BY <4>5, <5>1 DEF GenerationInv
        <5>2. CASE p \notin DOMAIN rendered
          <6>1. p = Artifact.path /\ rendered'[p] = image
            BY <4>5, <4>7, <5>2
          <6> QED  BY <2>1, <4>1, <4>3, <6>1
        <5> QED  BY <5>1, <5>2
      <4> QED  BY <4>6, <4>7
    <3> QED  BY <1>3, <3>1, <3>2
  <2>13. GenerationInv'
    <3>1. DOMAIN cache' \subseteq Paths
      BY <2>5, <2>7 DEF GenerationInv
    <3> QED  BY <1>1, <2>8, <2>10, <2>11, <2>12, <3>1 DEF GenerationInv
  <2>14. TreeInv' /\ PhaseInv' /\ ReadInv'
    BY <1>1, <1>3, TreeSame DEF PhaseInv, ReadInv, walk
  <2>15. NotedInv'
    BY <1>1, <1>3 DEF NotedInv, KindOf, Supported, NameOf, Links, walk
  <2>16. DueInv'
    BY <1>1, <1>3 DEF DueInv, Due, walk
  <2>17. ReportInv'
    <3>1. outcome' # "report"
      BY <1>1, <1>3 DEF PhaseInv
    <3> QED  BY <3>1, NoReportYet
  <2> QED  BY <2>13, <2>14, <2>15, <2>16, <2>17
<1>4. ASSUME ~End("input")
      PROVE  \E content \in ReadInput :
               /\ DigestMatches(content) /\ UNCHANGED <<phase, walk, read, outcome, findings>>
               /\ cache' = Adding(cache, Input.path, content)
               /\ \/ /\ step[2] < Len(Artifact.inputs)
                     /\ step' = <<step[1], step[2] + 1>> /\ UNCHANGED rendered
                  \/ /\ step[2] >= Len(Artifact.inputs) /\ step' = <<step[1] + 1, 1>>
                     /\ \/ UNCHANGED rendered
                        \/ /\ Artifact.template # <<>> /\ Renderable(cache'[Artifact.template])
                           /\ rendered' = Adding(rendered, Artifact.path, Renders[cache'[Artifact.template]])
  <2>1. step[2] \in Nat /\ Len(Artifact.inputs) \in Nat
    <3>1. Artifact \in Range(plan.artifacts) /\ IsPlan(plan)
      BY <1>1 DEF Artifact, Range, TreeInv
    <3>2. Artifact.inputs \in Seq(GenerationInput)
      BY <3>1, ArtifactsAre
    <3> QED  BY <3>2 DEF GenerationInv
  <2>2. step[2] < Len(Artifact.inputs) \/ step[2] >= Len(Artifact.inputs)
    BY <2>1
  <2> HIDE DEF Inv
  <2> QED  BY <1>4, <2>2 DEF VerifyInput
<1>5. CASE ~End("input")
  <2>1. PICK content \in ReadInput :
          /\ DigestMatches(content) /\ UNCHANGED <<phase, walk, read, outcome, findings>>
          /\ cache' = Adding(cache, Input.path, content)
          /\ \/ /\ step[2] < Len(Artifact.inputs)
                /\ step' = <<step[1], step[2] + 1>> /\ UNCHANGED rendered
             \/ /\ step[2] >= Len(Artifact.inputs) /\ step' = <<step[1] + 1, 1>>
                /\ \/ UNCHANGED rendered
                   \/ /\ Artifact.template # <<>> /\ Renderable(cache'[Artifact.template])
                      /\ rendered' = Adding(rendered, Artifact.path, Renders[cache'[Artifact.template]])
    BY <1>4, <1>5
  <2> QED  BY <1>3, <2>1
<1> QED  BY <1>2, <1>5

-----------------------------------------------------------------------------
(* The analysis                                                            *)

\* Every artifact is complete, and the analysis may start.
LEMMA EndGenerationInv ==
  ASSUME Inv, EndGeneration
  PROVE  Inv'
<1> USE DEF Inv
<1>1. /\ phase = "generate" /\ phase' = "analyse"
      /\ UNCHANGED <<tree, touched, plan, walk, read, generation, outcome, findings>>
  BY DEF EndGeneration
<1>2. TreeInv' /\ PhaseInv' /\ ReadInv'
  BY <1>1, TreeSame DEF PhaseInv, ReadInv, walk
<1>3. GenerationInv'
  BY <1>1, GenerationSame
<1>4. NotedInv'
  BY <1>1 DEF NotedInv, KindOf, Supported, NameOf, Links, walk
<1>5. DueInv'
  BY <1>1 DEF DueInv, Due, walk
<1>6. ReportInv'
  <2>1. outcome' # "report"
    BY <1>1 DEF PhaseInv
  <2> QED  BY <2>1, NoReportYet
<1> QED  BY <1>2, <1>3, <1>4, <1>5, <1>6

\* What the analysis works on is as its lemmas want it.
LEMMA InvWorkingSet ==
  ASSUME Inv
  PROVE  WorkingSet
<1>1. IsPlan(plan)
  BY DEF Inv, TreeInv
<1>2. DOMAIN read \subseteq Paths \ {<<>>} /\ Range(read) \subseteq Contents
  BY DEF Inv, ReadInv, Range
<1>3. DOMAIN rendered \subseteq Paths \ {<<>>}
  <2>1. \A p \in DOMAIN rendered : \E a \in Range(plan.artifacts) : a.path = p
    BY DEF Inv, GenerationInv
  <2> QED  BY <1>1, <2>1, ArtifactsAre
<1>4. Range(rendered) \subseteq Contents
  BY DEF Inv, GenerationInv, Range
<1> QED  BY <1>1, <1>2, <1>3, <1>4 DEF WorkingSet

\* The report has all there is to be found: what is found first leaves room for
\* one more than the limit allows, so that a search that stops at that many has
\* gone over it.
LEMMA AnalyseInv ==
  ASSUME Inv, Analyse
  PROVE  Inv'
<1> USE DEF Inv
<1> DEFINE controls == Documents(FALSE)
           files == FileFindings(controls)
           settings == ControlSettings(controls, Documents(TRUE))
           before == files \cup settings
           count == Cardinality(before)
           graph == GraphFindings(Scripts(controls), controls, GraphLimit(count))
<1>1. phase = "analyse" /\ UNCHANGED <<tree, touched, plan>>
  BY DEF Analyse
<1>2. CASE End("input")
  BY <1>1, <1>2, EndInv
<1>3. CASE /\ ~(count > Limits.findings \/ count + Cardinality(graph) > Limits.findings)
           /\ findings' = before \cup graph /\ outcome' = "report" /\ phase' = "done"
           /\ UNCHANGED <<walk, read, generation>>
  <2>1. TreeInv' /\ PhaseInv' /\ ReadInv'
    BY <1>1, <1>3, TreeSame DEF PhaseInv, ReadInv, walk
  <2>2. GenerationInv'
    BY <1>1, <1>3, GenerationSame
  <2>3. NotedInv'
    BY <1>1, <1>3 DEF NotedInv, KindOf, Supported, NameOf, Links, walk
  <2>4. DueInv'
    BY <1>1, <1>3 DEF DueInv, Due, walk, PhaseInv
  <2>5. ReportInv'
    <3>1. WorkingSet
      BY InvWorkingSet
    <3>2. IsFiniteSet(before) /\ count \in Nat
      <4>1. IsFiniteSet(Documents(FALSE)) /\ IsFiniteSet(Documents(TRUE))
        BY <3>1, ControlsAndScripts
      <4>2. IsFiniteSet(files) /\ IsFiniteSet(settings)
        BY <3>1, <4>1, FileFindingsAre, SettingsAre
      <4> HIDE DEF files, settings
      <4> QED  BY <4>2, FS_Union, FS_CardinalityType
    <3>3. AllGraphFindings(Scripts(controls), controls) = AllFaults /\ IsFiniteSet(AllFaults)
      BY <3>1, FaultsAre
    <3>4. /\ FileFindings(Documents(FALSE))' = files
          /\ ControlSettings(Documents(FALSE), Documents(TRUE))' = settings
          /\ AllFaults' = AllFaults
      BY <1>1, <1>3, FindingsSame DEF generation
    <3>5. ~(count > Limits.findings \/ count + Cardinality(graph) > Limits.findings)
          /\ findings' = before \cup graph
      BY <1>3
    <3> DEFINE limit == GraphLimit(count)
               scripts == Scripts(controls)
    <3>6. count <= Limits.findings /\ limit = (Limits.findings - count) + 1 /\ limit \in Nat
      <4> HIDE DEF count, graph
      <4>1. Limits.findings \in Nat /\ count <= Limits.findings
        BY <3>2, <3>5, ScanAssumption
      <4> QED  BY <3>2, <4>1 DEF GraphLimit
    <3>7. graph = GraphFindings(scripts, controls, limit)
      OBVIOUS
    <3>8. IsFiniteSet(AllGraphFindings(scripts, controls))
      BY <3>3
    <3> HIDE DEF before, count, limit, graph, scripts, controls, files, settings, Inv
    <3>9. Cardinality(graph) \in Nat
      <4>1. CASE Cardinality(AllGraphFindings(scripts, controls)) < limit
        BY <3>7, <3>8, <4>1, FS_CardinalityType DEF GraphFindings
      <4>2. CASE ~(Cardinality(AllGraphFindings(scripts, controls)) < limit)
        <5> DEFINE all == AllGraphFindings(scripts, controls)
        <5>1. graph = CHOOSE some \in SUBSET all : Cardinality(some) = limit
          BY <3>7, <4>2 DEF GraphFindings
        <5> HIDE DEF all
        <5>2. IsFiniteSet(all) /\ Cardinality(all) \in Nat
          BY <3>8, FS_CardinalityType DEF all
        <5>3. limit <= Cardinality(all)
          BY <3>6, <4>2, <5>2 DEF all
        <5>4. \E T \in SUBSET all : Cardinality(T) = limit
          BY <3>6, <5>2, <5>3, SubsetOfSize
        <5>5. Cardinality(graph) = limit
          BY <5>1, <5>4
        <5> QED  BY <3>6, <5>5
      <4> QED  BY <4>1, <4>2
    <3>10. Cardinality(graph) < limit
      <4>1. Limits.findings \in Nat
        BY ScanAssumption
      <4>2. count + Cardinality(graph) <= Limits.findings
        BY <3>2, <3>5, <3>9, <4>1
      <4> QED  BY <3>2, <3>6, <3>9, <4>1, <4>2
    <3>11. graph = AllFaults
      <4>1. GraphFindings(scripts, controls, limit) = AllGraphFindings(scripts, controls)
        BY <3>6, <3>7, <3>8, <3>10, SearchIsComplete
      <4>2. AllGraphFindings(scripts, controls) = AllFaults
        BY <3>3 DEF scripts, controls
      <4> QED  BY <3>7, <4>1, <4>2
    <3>12. Cardinality(findings') <= Limits.findings
      <4>1. Limits.findings \in Nat /\ IsFiniteSet(graph)
        BY <3>3, <3>11, ScanAssumption
      <4>2. Cardinality(before \cup graph) = count + Cardinality(graph) - Cardinality(before \cap graph)
        BY <3>2, <4>1, FS_Union DEF count
      <4>3. Cardinality(before \cap graph) \in Nat
        BY <4>1, FS_Intersection, FS_CardinalityType
      <4> QED  BY <3>2, <3>5, <3>9, <4>1, <4>2, <4>3
    <3>13. findings' = files \cup settings \cup AllFaults
      BY <3>5, <3>11 DEF before
    <3> QED  BY <3>4, <3>12, <3>13 DEF ReportInv
  <2> QED  BY <2>1, <2>2, <2>3, <2>4, <2>5
<1> QED
  <2>1. \/ End("input")
        \/ /\ ~(count > Limits.findings \/ count + Cardinality(graph) > Limits.findings)
           /\ findings' = before \cup graph /\ outcome' = "report" /\ phase' = "done"
           /\ UNCHANGED <<walk, read, generation>>
    <3> HIDE DEF End, Inv
    <3> QED  BY DEF Analyse
  <2> QED  BY <1>2, <1>3, <2>1

\* Every step keeps the invariant.
LEMMA NextInv ==
  ASSUME Inv, [Next]_vars
  PROVE  Inv'
<1>1. CASE Edit
  BY <1>1, EditInv
<1>2. CASE Start
  BY <1>2, StartInv
<1>3. CASE OpenRoot
  BY <1>3, OpenRootInv
<1>4. CASE ListDirectory
  BY <1>4, ListDirectoryInv
<1>5. CASE Inspect
  BY <1>5, InspectInv
<1>6. CASE EndWalk
  BY <1>6, EndWalkInv
<1>7. CASE ReadFile
  BY <1>7, ReadFileInv
<1>8. CASE EndReads
  BY <1>8, EndReadsInv
<1>9. CASE VerifyInput
  BY <1>9, VerifyInputInv
<1>10. CASE EndGeneration
  BY <1>10, EndGenerationInv
<1>11. CASE Analyse
  BY <1>11, AnalyseInv
<1>12. CASE UNCHANGED vars
  BY <1>12, StutterInv
<1> QED  BY <1>1, <1>2, <1>3, <1>4, <1>5, <1>6, <1>7, <1>8, <1>9, <1>10, <1>11, <1>12 DEF Next, Scan

-----------------------------------------------------------------------------
(* The properties                                                          *)

\* The invariant holds at every step of a scan of a tree that may change meanwhile
\* (scanner.py:428-813, generation.py:440-480).
THEOREM InvHolds == Spec => []Inv
<1>1. Init => Inv
  BY InitInv
<1>2. Inv /\ [Next]_vars => Inv'
  BY NextInv
<1> QED  BY <1>1, <1>2, PTL DEF Spec

\* The scan's variables have their types, and what is read, and a report, stay
\* within the limits (scanner.py:590-631, 791-797).
THEOREM TypeCorrect == Spec => []TypeOK
<1>1. ASSUME Inv PROVE TypeOK
  <2> USE <1>1 DEF Inv
  <2>1. tree \in [Paths -> Entry] /\ touched \subseteq Paths
    BY DEF TreeInv, IsTree
  <2>2. /\ DOMAIN read \subseteq Paths /\ Range(read) \subseteq Contents \ Unreadable
        /\ TotalSize(read) <= Limits.total /\ Len(found) + Cardinality(DOMAIN read) <= Limits.files
    BY DEF ReadInv, Range
  <2>3. Range(cache) \cup Range(rendered) \subseteq Contents
    BY DEF GenerationInv, Range
  <2>4. Cardinality(findings) <= Limits.findings
    <3>1. CASE outcome = "report"
      BY <3>1 DEF ReportInv, Reported
    <3>2. CASE outcome # "report"
      <4>1. Cardinality(findings) = 0 /\ Limits.findings \in Nat
        BY <3>2, FS_EmptySet, ScanAssumption DEF PhaseInv
      <4> QED  BY <4>1
    <3> QED  BY <3>1, <3>2
  <2> QED  BY <2>1, <2>2, <2>3, <2>4 DEF TypeOK, PhaseInv
<1> QED  BY <1>1, InvHolds, PTL

\* A report leaves nothing out in silence: what was due is in the manifest as it is
\* in the tree, or among the skipped files (scanner.py:197-280, 428-546, 651-689).
THEOREM EntriesAccounted == Spec => []EveryEntryAccounted
<1>1. ASSUME Inv PROVE EveryEntryAccounted
  <2> USE <1>1 DEF Inv
  <2> SUFFICES ASSUME Reported, plan.requested = <<>>, NEW p \in Paths \ touched,
                      tree[p].kind \notin {"none", "directory"},
                      \E r \in Range(plan.roots) : IsStrictPrefix(r, p)
               PROVE  \/ /\ p \in DOMAIN read \ DOMAIN skipped
                         /\ tree[p].kind = "regular" /\ read[p] = tree[p].content /\ Supported(p)
                      \/ /\ p \in DOMAIN skipped \ DOMAIN read
                         /\ skipped[p].kind = KindOf(tree[p])
                         /\ IF p \in DOMAIN plan.exclusions
                            THEN plan.exclusions[p].content = tree[p].content
                            ELSE tree[p].kind # "dirlink" /\ ~Supported(p)
    BY DEF EveryEntryAccounted
  <2>1. p \in Due /\ phase = "done" /\ outcome = "report"
    BY DEF Due, Reported, PhaseInv
  <2>2. p \in DOMAIN read \cup DOMAIN skipped
    BY <2>1 DEF DueInv
  <2>3. ~(p \in DOMAIN read /\ p \in DOMAIN skipped)
    BY DEF NotedInv
  <2>4. CASE p \in DOMAIN read
    BY <2>3, <2>4 DEF NotedInv
  <2>5. CASE p \in DOMAIN skipped
    BY <2>3, <2>5 DEF NotedInv
  <2> QED  BY <2>2, <2>4, <2>5
<1> QED  BY <1>1, InvHolds, PTL

\* Whatever is analysed is in the manifest, or is rendered from the content that
\* the plan pins (generation.py:324-374, 440-480; scanner.py:691-715).
THEOREM AnalysedAccounted == Spec => []AnalysedIsAccounted
<1>1. ASSUME Inv PROVE AnalysedIsAccounted
  BY <1>1, AnalysedIs DEF Inv, GenerationInv, AnalysedIsAccounted
<1> QED  BY <1>1, InvHolds, PTL

\* A privilege that holds when a version is installed is reported on the version's
\* control file or the primary (scanner.py:742-763; rules.py:205-287).
THEOREM PrivilegesReported == Spec => []PrivilegeIsReported
<1>1. ASSUME Inv PROVE PrivilegeIsReported
  <2>1. Reported => ControlSettings(Documents(FALSE), Documents(TRUE)) \subseteq findings
    BY <1>1 DEF Inv, ReportInv
  <2> QED  BY <2>1, PrivilegeHasFinding DEF PrivilegeIsReported
<1> QED  BY <1>1, InvHolds, PTL

\* What a report says of versions is so (graph.py:28-341).
THEOREM GraphFindingsTrue == Spec => []GraphFindingsReal
<1>1. ASSUME Inv PROVE GraphFindingsReal
  <2>1. WorkingSet
    BY <1>1, InvWorkingSet
  <2>2. IsFiniteSet(Documents(FALSE)) /\ IsFiniteSet(Documents(TRUE))
    BY <2>1, ControlsAndScripts
  <2>3. /\ \A f \in FileFindings(Documents(FALSE)) : f.rule \notin GraphRules
        /\ \A f \in ControlSettings(Documents(FALSE), Documents(TRUE)) : f.rule \notin GraphRules
    BY <2>1, <2>2, FileFindingsAre, SettingsAre
  <2> QED  BY <1>1, <2>3 DEF Inv, ReportInv, GraphFindingsReal
<1> QED  BY <1>1, InvHolds, PTL

\* A report says all that there is to be said of versions (scanner.py:722-728,
\* 791-797).
THEOREM NothingCut == Spec => []NoFindingIsCut
<1>1. ASSUME Inv PROVE NoFindingIsCut
  BY <1>1 DEF Inv, ReportInv, NoFindingIsCut
<1> QED  BY <1>1, InvHolds, PTL
=============================================================================
