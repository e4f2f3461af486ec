---------------------------- MODULE SequenceLemmas ----------------------------
(***************************************************************************)
(* Lemmas the proofs of several components need about natural numbers,     *)
(* sequences and recursive functions.                                      *)
(*                                                                         *)
(* The library's induction theorems have a predicate as a parameter.  Here *)
(* induction is over a set: to prove P(n) for every n, it is applied to    *)
(* the set of the n with P(n).  It follows from the well-foundedness of    *)
(* the order of the natural numbers.                                       *)
(***************************************************************************)
EXTENDS Integers, FiniteSets, Sequences, SequencesExt, FiniteSetTheorems,
        WellFoundedInduction, TLAPS

-----------------------------------------------------------------------------
(***************************************************************************)
(* Induction                                                               *)
(***************************************************************************)

Smaller == {p \in Nat \X Nat : p[1] < p[2]}

\* The order of the natural numbers, as a set of pairs, is well-founded.
LEMMA SmallerWellFounded == IsWellFoundedOn(Smaller, Nat)
BY NatLessThanWellFounded DEF OpToRel, Smaller

\* A set of natural numbers that is not empty has a least element.
LEMMA LeastElement ==
  ASSUME NEW T \in SUBSET Nat, T # {}
  PROVE  \E x \in T : \A y \in T : x <= y
<1>1. PICK x \in T : \A y \in T : <<y, x>> \notin Smaller
  <2>1. \E x \in T : \A y \in T : <<y, x>> \notin Smaller
    BY SmallerWellFounded, WFMin, Zenon
  <2> QED
    BY <2>1
<1>2. ASSUME NEW y \in T PROVE x <= y
  <2>1. <<y, x>> \notin {p \in Nat \X Nat : p[1] < p[2]}
    BY <1>1, Zenon DEF Smaller
  <2>2. <<y, x>> \in Nat \X Nat
    OBVIOUS
  <2> QED
    BY <2>1, <2>2
<1> QED
  BY <1>2

\* A set of natural numbers that has 0, and n + 1 when it has n, has them all.
LEMMA SetInduction ==
  ASSUME NEW S \in SUBSET Nat, 0 \in S, \A n \in S : n + 1 \in S
  PROVE  S = Nat
<1> SUFFICES ASSUME Nat \ S # {} PROVE FALSE
  OBVIOUS
<1>1. PICK x \in Nat \ S : \A y \in Nat \ S : x <= y
  BY LeastElement
<1>2. x - 1 \in S
  BY <1>1
<1> QED
  BY <1>1, <1>2

\* A bounded set of natural numbers that is not empty has a greatest element.
LEMMA BoundedGreatest ==
  ASSUME NEW I \in SUBSET Nat, NEW b \in Nat, \A j \in I : j <= b, I # {}
  PROVE  \E i \in I : \A j \in I : j <= i
<1> DEFINE T == {k \in Nat : \A j \in I : j <= k}
<1>1. T \in SUBSET Nat /\ b \in T
  OBVIOUS
<1>2. PICK k \in T : \A m \in T : k <= m
  BY <1>1, LeastElement
<1>3. k \in I
  <2> SUFFICES ASSUME k \notin I PROVE FALSE
    OBVIOUS
  <2>1. PICK i \in I : TRUE
    OBVIOUS
  <2>2. k \in Nat /\ i \in Nat /\ i <= k /\ i # k
    BY <2>1, <1>2
  <2>3. ASSUME NEW j \in I PROVE j <= k - 1
    <3>1. j \in Nat /\ j <= k /\ j # k
      BY <1>2
    <3> QED
      BY <3>1, <2>2
  <2>4. k - 1 \in T
    BY <2>2, <2>3
  <2> QED
    BY <2>4, <2>2, <1>2
<1> QED
  BY <1>2, <1>3

\* The elements of a finite set of natural numbers have a greatest one.
LEMMA GreatestElement ==
  ASSUME NEW S \in SUBSET Nat, IsFiniteSet(S), S # {}
  PROVE  \E x \in S : \A y \in S : x >= y
<1>1. PICK n \in Nat : ExistsSurjection(1 .. n, S)
  BY FS_NatSurjection
<1>2. PICK f \in [1 .. n -> Nat] : \A y \in S : \E i \in 1 .. n : f[i] = y
  <2>1. PICK f \in [1 .. n -> S] : \A y \in S : \E i \in 1 .. n : f[i] = y
    BY <1>1 DEF ExistsSurjection, Surjection
  <2>2. f \in [1 .. n -> Nat]
    BY <2>1
  <2> QED
    BY <2>1, <2>2
<1> DEFINE B == {k \in Nat : k <= n => \E b \in Nat : \A i \in 1 .. k : f[i] <= b}
<1>3. 0 \in B
  OBVIOUS
<1>4. ASSUME NEW k \in B PROVE k + 1 \in B
  <2> SUFFICES ASSUME k + 1 <= n
               PROVE  \E b \in Nat : \A i \in 1 .. k + 1 : f[i] <= b
    BY <1>4
  <2>1. PICK b \in Nat : \A i \in 1 .. k : f[i] <= b
    BY <1>4
  <2>2. k \in Nat /\ k + 1 \in 1 .. n
    BY <1>4
  <2>3. f[k + 1] \in Nat /\ b + f[k + 1] \in Nat
    BY <2>2, <1>2
  <2>4. ASSUME NEW i \in 1 .. k + 1 PROVE f[i] <= b + f[k + 1]
    <3>1. f[i] \in Nat
      BY <2>2, <1>2
    <3>2. CASE i = k + 1
      BY <3>2, <2>3
    <3>3. CASE i # k + 1
      <4>1. f[i] <= b
        BY <3>3, <2>1, <2>2
      <4> QED
        BY <4>1, <3>1, <2>3
    <3> QED
      BY <3>2, <3>3
  <2> QED
    BY <2>3, <2>4
<1>5. n \in B
  <2> HIDE DEF B
  <2>1. B \in SUBSET Nat
    BY DEF B
  <2> QED
    BY <1>3, <1>4, <2>1, SetInduction
<1>6. PICK b \in Nat : \A i \in 1 .. n : f[i] <= b
  BY <1>5
<1>7. \A y \in S : y <= b
  BY <1>2, <1>6
<1>8. PICK x \in S : \A y \in S : y <= x
  BY <1>7, BoundedGreatest
<1> QED
  BY <1>8

-----------------------------------------------------------------------------
(***************************************************************************)
(* Recursive functions on an interval                                      *)
(***************************************************************************)

\* g begins with c, and each value follows from the one before and its index.
Follows(g, N, c, step) ==
  g[0] = c /\ \A i \in 1 .. N : g[i] = step[<<g[i - 1], i>>]

\* Such a function exists: a recursive definition over an interval, whose step
\* keeps to a set of values, defines what its equation says.
LEMMA RecursionExists ==
  ASSUME NEW N \in Nat, NEW T, NEW c \in T, NEW step \in [T \X (1 .. N) -> T]
  PROVE  \E g \in [0 .. N -> T] : Follows(g, N, c, step)
<1> DEFINE S == {n \in Nat : n <= N =>
                   \E g \in [0 .. n -> T] :
                     g[0] = c /\ \A i \in 1 .. n : g[i] = step[<<g[i - 1], i>>]}
<1>1. 0 \in S
  <2> DEFINE h == [i \in 0 .. 0 |-> c]
  <2>1. /\ h \in [0 .. 0 -> T]
        /\ h[0] = c
        /\ \A i \in 1 .. 0 : h[i] = step[<<h[i - 1], i>>]
    OBVIOUS
  <2>2. 0 <= N => \E g \in [0 .. 0 -> T] :
                     g[0] = c /\ \A i \in 1 .. 0 : g[i] = step[<<g[i - 1], i>>]
    BY <2>1, Zenon
  <2> QED
    BY <2>2, Zenon
<1>2. ASSUME NEW n \in S PROVE n + 1 \in S
  <2> SUFFICES ASSUME n + 1 <= N
               PROVE  \E g \in [0 .. n + 1 -> T] :
                        /\ g[0] = c
                        /\ \A i \in 1 .. n + 1 : g[i] = step[<<g[i - 1], i>>]
    BY <1>2
  <2>1. PICK g \in [0 .. n -> T] :
          g[0] = c /\ \A i \in 1 .. n : g[i] = step[<<g[i - 1], i>>]
    BY <1>2
  <2> DEFINE h == [i \in 0 .. n + 1 |-> IF i = n + 1 THEN step[<<g[n], i>>] ELSE g[i]]
  <2>2. h \in [0 .. n + 1 -> T]
    BY <2>1
  <2>3. h[0] = c
    BY <2>1
  <2>4. ASSUME NEW i \in 1 .. n + 1 PROVE h[i] = step[<<h[i - 1], i>>]
    BY <2>1
  <2> QED
    BY <2>2, <2>3, <2>4
<1>3. N \in S
  <2> HIDE DEF S
  <2>1. S \in SUBSET Nat
    BY DEF S
  <2> QED
    BY <1>1, <1>2, <2>1, SetInduction
<1> QED
  BY <1>3 DEF Follows

-----------------------------------------------------------------------------
(***************************************************************************)
(* Sequences                                                               *)
(***************************************************************************)

\* The elements of a sequence are a finite set.
LEMMA ToSetFinite ==
  ASSUME NEW S, NEW s \in Seq(S)
  PROVE  IsFiniteSet(ToSet(s)) /\ ToSet(s) \subseteq S
<1>1. s \in [1 .. Len(s) -> ToSet(s)]
  BY DEF ToSet
<1>2. s \in Surjection(1 .. Len(s), ToSet(s))
  BY <1>1 DEF Surjection, ToSet
<1>3. IsFiniteSet(ToSet(s))
  BY <1>2, FS_NatSurjection DEF ExistsSurjection
<1> QED
  BY <1>3 DEF ToSet

\* The values of a function on a finite set are finitely many.
LEMMA ImageFinite ==
  ASSUME NEW S, IsFiniteSet(S), NEW f, f = [x \in S |-> f[x]]
  PROVE  IsFiniteSet({f[x] : x \in S})
<1> DEFINE R == {f[x] : x \in S}
<1>1. f \in [S -> R] /\ \A y \in R : \E x \in S : f[x] = y
  OBVIOUS
<1>2. f \in Surjection(S, R)
  BY <1>1 DEF Surjection
<1> QED
  BY <1>2, FS_Surjection

\* A sequence without repetition is as long as its set of elements is large.
LEMMA InjectiveLength ==
  ASSUME NEW S, NEW s \in Seq(S), IsInjective(s)
  PROVE  IsFiniteSet(ToSet(s)) /\ Cardinality(ToSet(s)) = Len(s)
<1>1. s \in [1 .. Len(s) -> ToSet(s)]
  BY DEF ToSet
<1>2. s \in Surjection(1 .. Len(s), ToSet(s))
  BY <1>1 DEF Surjection, ToSet
<1>3. s \in Injection(1 .. Len(s), ToSet(s))
  BY <1>1 DEF Injection
<1>4. ExistsBijection(1 .. Len(s), ToSet(s))
  BY <1>2, <1>3 DEF ExistsBijection, Bijection
<1> QED
  BY <1>4, FS_CountingElements, FS_NatBijection
\* What a sequence with one more element is.
LEMMA AppendIs ==
  ASSUME NEW S, NEW q \in Seq(S), NEW x \in S
  PROVE  /\ Append(q, x) \in Seq(S) /\ Len(Append(q, x)) = Len(q) + 1
         /\ \A i \in DOMAIN Append(q, x) :
              /\ Append(q, x)[i] = IF i = Len(q) + 1 THEN x ELSE q[i]
              /\ i # Len(q) + 1 => i \in DOMAIN q
         /\ \A i \in DOMAIN q : i \in DOMAIN Append(q, x) /\ Append(q, x)[i] = q[i]
OBVIOUS

\* The same for the first k elements.
LEMMA PrefixIs ==
  ASSUME NEW S, NEW q \in Seq(S), NEW k \in Nat, k <= Len(q)
  PROVE  /\ SubSeq(q, 1, k) \in Seq(S) /\ Len(SubSeq(q, 1, k)) = k
         /\ \A i \in DOMAIN SubSeq(q, 1, k) : i \in DOMAIN q /\ SubSeq(q, 1, k)[i] = q[i]
<1>1. /\ SubSeq(q, 1, k) \in Seq(S) /\ Len(SubSeq(q, 1, k)) = k
  OBVIOUS
<1>2. \A i \in 1 .. k : i \in DOMAIN q /\ SubSeq(q, 1, k)[i] = q[i]
  OBVIOUS
<1>3. DOMAIN SubSeq(q, 1, k) = 1 .. k
  BY <1>1
<1> QED
  BY <1>1, <1>2, <1>3

\* The same for an element that is replaced.
LEMMA ReplaceIs ==
  ASSUME NEW S, NEW q \in Seq(S), NEW i \in DOMAIN q, NEW x \in S
  PROVE  /\ [q EXCEPT ![i] = x] \in Seq(S) /\ Len([q EXCEPT ![i] = x]) = Len(q)
         /\ DOMAIN [q EXCEPT ![i] = x] = DOMAIN q
         /\ \A j \in DOMAIN q : [q EXCEPT ![i] = x][j] = IF j = i THEN x ELSE q[j]
OBVIOUS
-----------------------------------------------------------------------------
(***************************************************************************)
(* The elements of a sequence, and sequences without repetition            *)
(***************************************************************************)

\* An element at the end.
LEMMA AppendSet ==
  ASSUME NEW S, NEW q \in Seq(S), NEW x \in S
  PROVE  /\ ToSet(Append(q, x)) = ToSet(q) \cup {x}
         /\ IsInjective(q) /\ x \notin ToSet(q) => IsInjective(Append(q, x))
<1> DEFINE r == Append(q, x)
<1>1. /\ DOMAIN r = 1 .. Len(q) + 1 /\ DOMAIN q = 1 .. Len(q) /\ Len(q) \in Nat
      /\ r[Len(q) + 1] = x /\ \A i \in 1 .. Len(q) : r[i] = q[i]
  OBVIOUS
<1> HIDE DEF r
<1>2. ToSet(r) = ToSet(q) \cup {x}
  <2>1. ASSUME NEW y \in ToSet(q) PROVE y \in ToSet(r)
    <3>1. PICK i \in 1 .. Len(q) : y = q[i]
      BY <1>1 DEF ToSet
    <3> QED
      BY <1>1, <3>1 DEF ToSet
  <2>2. x \in ToSet(r)
    BY <1>1 DEF ToSet
  <2>3. ASSUME NEW y \in ToSet(r) PROVE y \in ToSet(q) \cup {x}
    <3>1. PICK i \in 1 .. Len(q) + 1 : y = r[i]
      BY <1>1 DEF ToSet
    <3> QED
      BY <1>1, <3>1 DEF ToSet
  <2> QED
    BY <2>1, <2>2, <2>3
<1>3. ASSUME IsInjective(q), x \notin ToSet(q) PROVE IsInjective(r)
  <2> SUFFICES ASSUME NEW i \in 1 .. Len(q) + 1, NEW j \in 1 .. Len(q) + 1, r[i] = r[j]
               PROVE  i = j
    BY <1>1 DEF IsInjective
  <2>1. \A k \in 1 .. Len(q) : r[k] # x
    BY <1>1, <1>3 DEF ToSet
  <2>2. i \in 1 .. Len(q) \/ i = Len(q) + 1
    BY <1>1
  <2>3. j \in 1 .. Len(q) \/ j = Len(q) + 1
    BY <1>1
  <2> QED
    BY <1>1, <1>3, <2>1, <2>2, <2>3 DEF IsInjective
<1> QED
  BY <1>2, <1>3 DEF r

\* One sequence after the other.
LEMMA ConcatSet ==
  ASSUME NEW S, NEW q \in Seq(S), NEW r \in Seq(S)
  PROVE  /\ q \o r \in Seq(S) /\ Len(q \o r) = Len(q) + Len(r)
         /\ \A i \in 1 .. Len(q) : (q \o r)[i] = q[i]
         /\ ToSet(q \o r) = ToSet(q) \cup ToSet(r)
         /\ IsInjective(q) /\ IsInjective(r) /\ ToSet(q) \cap ToSet(r) = {} =>
              IsInjective(q \o r)
<1> DEFINE c == q \o r
<1>1. /\ c \in Seq(S) /\ Len(c) = Len(q) + Len(r)
      /\ Len(q) \in Nat /\ Len(r) \in Nat
      /\ DOMAIN c = 1 .. Len(q) + Len(r) /\ DOMAIN q = 1 .. Len(q) /\ DOMAIN r = 1 .. Len(r)
  OBVIOUS
<1>2. \A i \in 1 .. Len(q) : c[i] = q[i] /\ i \in 1 .. Len(q) + Len(r)
  OBVIOUS
<1>3. \A i \in 1 .. Len(r) : c[Len(q) + i] = r[i] /\ Len(q) + i \in 1 .. Len(q) + Len(r)
  OBVIOUS
<1>4. \A i \in 1 .. Len(q) + Len(r) :
        \/ i \in 1 .. Len(q)
        \/ i - Len(q) \in 1 .. Len(r) /\ i = Len(q) + (i - Len(q))
  BY <1>1
<1> HIDE DEF c
<1>5. ToSet(c) = ToSet(q) \cup ToSet(r)
  <2>1. ASSUME NEW y \in ToSet(q) PROVE y \in ToSet(c)
    <3>1. PICK i \in 1 .. Len(q) : y = q[i]
      BY <1>1 DEF ToSet
    <3> QED
      BY <1>1, <1>2, <3>1 DEF ToSet
  <2>2. ASSUME NEW y \in ToSet(r) PROVE y \in ToSet(c)
    <3>1. PICK i \in 1 .. Len(r) : y = r[i]
      BY <1>1 DEF ToSet
    <3>2. c[Len(q) + i] = y /\ Len(q) + i \in DOMAIN c
      BY <1>1, <1>3, <3>1
    <3> QED
      BY <3>2 DEF ToSet
  <2>3. ASSUME NEW y \in ToSet(c) PROVE y \in ToSet(q) \cup ToSet(r)
    <3>1. PICK i \in 1 .. Len(q) + Len(r) : y = c[i]
      BY <1>1 DEF ToSet
    <3>2. CASE i \in 1 .. Len(q)
      BY <1>1, <1>2, <3>1, <3>2 DEF ToSet
    <3>3. CASE i - Len(q) \in 1 .. Len(r) /\ i = Len(q) + (i - Len(q))
      <4>1. y = r[i - Len(q)]
        BY <1>3, <3>1, <3>3
      <4> QED
        BY <4>1, <3>3, <1>1 DEF ToSet
    <3> QED
      BY <1>4, <3>2, <3>3
  <2> QED
    BY <2>1, <2>2, <2>3
<1>6. ASSUME IsInjective(q), IsInjective(r), ToSet(q) \cap ToSet(r) = {}
      PROVE  IsInjective(c)
  <2> SUFFICES ASSUME NEW i \in 1 .. Len(q) + Len(r), NEW j \in 1 .. Len(q) + Len(r), c[i] = c[j]
               PROVE  i = j
    BY <1>1 DEF IsInjective
  <2>1. \A k \in 1 .. Len(q), l \in 1 .. Len(r) : q[k] # r[l]
    <3>1. \A k \in 1 .. Len(q) : q[k] \in ToSet(q)
      BY <1>1 DEF ToSet
    <3>2. \A l \in 1 .. Len(r) : r[l] \in ToSet(r)
      BY <1>1 DEF ToSet
    <3> QED
      BY <3>1, <3>2, <1>6
  <2>2. CASE i \in 1 .. Len(q) /\ j \in 1 .. Len(q)
    BY <2>2, <1>1, <1>2, <1>6 DEF IsInjective
  <2>3. CASE i \in 1 .. Len(q) /\ j - Len(q) \in 1 .. Len(r) /\ j = Len(q) + (j - Len(q))
    <3>1. c[i] = q[i] /\ c[j] = r[j - Len(q)]
      BY <2>3, <1>2, <1>3
    <3> QED
      BY <3>1, <2>1, <2>3
  <2>4. CASE j \in 1 .. Len(q) /\ i - Len(q) \in 1 .. Len(r) /\ i = Len(q) + (i - Len(q))
    <3>1. c[j] = q[j] /\ c[i] = r[i - Len(q)]
      BY <2>4, <1>2, <1>3
    <3> QED
      BY <3>1, <2>1, <2>4
  <2>5. CASE /\ i - Len(q) \in 1 .. Len(r) /\ i = Len(q) + (i - Len(q))
             /\ j - Len(q) \in 1 .. Len(r) /\ j = Len(q) + (j - Len(q))
    <3>1. c[i] = r[i - Len(q)] /\ c[j] = r[j - Len(q)]
      BY <2>5, <1>3
    <3>2. i - Len(q) = j - Len(q)
      BY <3>1, <2>5, <1>1, <1>6 DEF IsInjective
    <3> QED
      BY <3>2, <2>5
  <2> QED
    BY <1>4, <2>2, <2>3, <2>4, <2>5
<1> QED
  BY <1>1, <1>2, <1>5, <1>6 DEF c

\* The sequence from its end to its beginning.
LEMMA ReverseSet ==
  ASSUME NEW S, NEW q \in Seq(S)
  PROVE  /\ Reverse(q) \in Seq(S) /\ Len(Reverse(q)) = Len(q)
         /\ ToSet(Reverse(q)) = ToSet(q)
         /\ IsInjective(q) => IsInjective(Reverse(q))
<1> DEFINE r == Reverse(q)
<1>1. /\ Len(q) \in Nat /\ DOMAIN q = 1 .. Len(q) /\ DOMAIN r = 1 .. Len(q)
      /\ \A i \in 1 .. Len(q) : Len(q) - i + 1 \in 1 .. Len(q)
      /\ \A i \in 1 .. Len(q) : Len(q) - (Len(q) - i + 1) + 1 = i
      /\ \A i \in 1 .. Len(q) : r[i] = q[Len(q) - i + 1]
  BY DEF Reverse
<1>2. r \in Seq(S) /\ Len(r) = Len(q)
  <2>1. r = [i \in 1 .. Len(q) |-> q[Len(q) - i + 1]]
    BY DEF Reverse
  <2>2. \A i \in 1 .. Len(q) : q[Len(q) - i + 1] \in S
    BY <1>1
  <2> QED
    BY <1>1, <2>1, <2>2
<1> HIDE DEF r
<1>3. ToSet(r) = ToSet(q)
  <2>1. ASSUME NEW y \in ToSet(q) PROVE y \in ToSet(r)
    <3>1. PICK i \in 1 .. Len(q) : y = q[i]
      BY <1>1 DEF ToSet
    <3>2. r[Len(q) - i + 1] = y /\ Len(q) - i + 1 \in DOMAIN r
      BY <1>1, <3>1
    <3> QED
      BY <3>2 DEF ToSet
  <2>2. ASSUME NEW y \in ToSet(r) PROVE y \in ToSet(q)
    <3>1. PICK i \in 1 .. Len(q) : y = r[i]
      BY <1>1 DEF ToSet
    <3>2. q[Len(q) - i + 1] = y /\ Len(q) - i + 1 \in DOMAIN q
      BY <1>1, <3>1
    <3> QED
      BY <3>2 DEF ToSet
  <2> QED
    BY <2>1, <2>2
<1>4. ASSUME IsInjective(q) PROVE IsInjective(r)
  <2> SUFFICES ASSUME NEW i \in 1 .. Len(q), NEW j \in 1 .. Len(q), r[i] = r[j]
               PROVE  i = j
    BY <1>1 DEF IsInjective
  <2>1. Len(q) - i + 1 = Len(q) - j + 1
    BY <1>1, <1>4 DEF IsInjective
  <2> QED
    BY <2>1, <1>1
<1> QED
  BY <1>2, <1>3, <1>4 DEF r

\* The first k elements, and those after the first.
LEMMA PrefixSet ==
  ASSUME NEW S, NEW q \in Seq(S), NEW k \in Nat, k <= Len(q)
  PROVE  /\ ToSet(SubSeq(q, 1, k)) = {q[i] : i \in 1 .. k}
         /\ ToSet(SubSeq(q, 1, k)) \subseteq ToSet(q)
         /\ IsInjective(q) => IsInjective(SubSeq(q, 1, k))
<1> DEFINE p == SubSeq(q, 1, k)
<1>1. /\ p \in Seq(S) /\ DOMAIN p = 1 .. k /\ DOMAIN q = 1 .. Len(q)
      /\ \A i \in 1 .. k : i \in DOMAIN q /\ p[i] = q[i]
  <2>1. p \in Seq(S) /\ Len(p) = k /\ \A i \in DOMAIN p : i \in DOMAIN q /\ p[i] = q[i]
    BY PrefixIs
  <2>2. DOMAIN p = 1 .. k
    BY <2>1
  <2> QED
    BY <2>1, <2>2
<1> HIDE DEF p
<1> QED
  BY <1>1 DEF p, ToSet, IsInjective

\* The tail of a queue without repetitions has all elements but the first.
LEMMA TailSet ==
  ASSUME NEW S, NEW q \in Seq(S), q # <<>>
  PROVE  /\ Tail(q) \in Seq(S) /\ Head(q) \in S /\ Head(q) \in ToSet(q)
         /\ IsInjective(q) =>
              IsInjective(Tail(q)) /\ ToSet(Tail(q)) = ToSet(q) \ {Head(q)}
<1> DEFINE t == Tail(q)
<1>1. /\ t \in Seq(S) /\ Len(q) \in Nat /\ Len(q) >= 1 /\ Head(q) = q[1] /\ q[1] \in S
      /\ DOMAIN q = 1 .. Len(q) /\ DOMAIN t = 1 .. Len(q) - 1
      /\ \A i \in 1 .. Len(q) - 1 : t[i] = q[i + 1]
  OBVIOUS
<1> HIDE DEF t
<1>2. Head(q) \in ToSet(q)
  BY <1>1 DEF ToSet
<1>3. ASSUME IsInjective(q) PROVE IsInjective(t) /\ ToSet(t) = ToSet(q) \ {Head(q)}
  <2>1. IsInjective(t)
    <3> SUFFICES ASSUME NEW i \in 1 .. Len(q) - 1, NEW j \in 1 .. Len(q) - 1, t[i] = t[j]
                 PROVE  i = j
      BY <1>1 DEF IsInjective
    <3>1. q[i + 1] = q[j + 1] /\ i + 1 \in DOMAIN q /\ j + 1 \in DOMAIN q
      BY <1>1
    <3>2. i + 1 = j + 1
      BY <3>1, <1>3 DEF IsInjective
    <3> QED
      BY <3>2
  <2>2. ASSUME NEW y \in ToSet(t) PROVE y \in ToSet(q) \ {Head(q)}
    <3>1. PICK i \in 1 .. Len(q) - 1 : y = t[i]
      BY <1>1 DEF ToSet
    <3>2. y = q[i + 1] /\ i + 1 \in DOMAIN q /\ i + 1 # 1 /\ 1 \in DOMAIN q
      BY <1>1, <3>1
    <3> QED
      BY <3>2, <1>1, <1>3 DEF ToSet, IsInjective
  <2>3. ASSUME NEW y \in ToSet(q) \ {Head(q)} PROVE y \in ToSet(t)
    <3>1. PICK i \in 1 .. Len(q) : y = q[i]
      BY <1>1 DEF ToSet
    <3>2. i # 1
      BY <3>1, <1>1
    <3>3. i - 1 \in DOMAIN t /\ i - 1 + 1 = i
      BY <3>2, <1>1
    <3>4. t[i - 1] = y
      BY <3>1, <3>3, <1>1
    <3> QED
      BY <3>3, <3>4 DEF ToSet
  <2> QED
    BY <2>1, <2>2, <2>3
<1> QED
  BY <1>1, <1>2, <1>3 DEF t
=============================================================================
