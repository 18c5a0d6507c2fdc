--------------------------- MODULE SequenceLemmas ---------------------------
(***************************************************************************)
(* Facts that several of the proofs need: about the operators of the       *)
(* community modules the models are built from (the least element of a set *)
(* of numbers, which the searches of the code find first, what is inserted *)
(* into a list or removed from it), about the order of a set of numbers,   *)
(* and about products and quotients.                                       *)
(***************************************************************************)
EXTENDS Integers, Sequences, SequencesExt, FiniteSets, FiniteSetsExt,
        SequenceTheorems, FiniteSetTheorems, WellFoundedInduction, TLAPS

\* A set of numbers has a least element, and Min is it.
LEMMA MinProperties ==
    ASSUME NEW S \in SUBSET Nat, S # {}
    PROVE  /\ Min(S) \in S
           /\ \A y \in S : Min(S) <= y
<1>1. PICK x \in S : \A y \in S : ~ (<<y, x>> \in OpToRel(<, Nat))
  BY WFMin, NatLessThanWellFounded
<1>2. \A y \in S : x <= y
  <2> SUFFICES ASSUME NEW y \in S PROVE x <= y
    OBVIOUS
  <2>1. <<y, x>> \in Nat \X Nat
    OBVIOUS
  <2>2. ~ (y < x)
    BY <1>1, <2>1 DEF OpToRel
  <2>. QED
    BY <2>2
<1>. QED
  BY <1>1, <1>2 DEF Min

\* What shifting the entries after position i up by one makes of a list (bucket_remove).
LEMMA RemoveAtProperties ==
    ASSUME NEW S, NEW s \in Seq(S), NEW i \in 1..Len(s)
    PROVE  /\ RemoveAt(s, i) \in Seq(S)
           /\ Len(RemoveAt(s, i)) = Len(s) - 1
           /\ \A j \in 1..(Len(s) - 1) :
                  RemoveAt(s, i)[j] = IF j < i THEN s[j] ELSE s[j + 1]
<1> DEFINE u == SubSeq(s, 1, i - 1)
           v == SubSeq(s, i + 1, Len(s))
<1>1. u \in Seq(S) /\ Len(u) = i - 1 /\ \A j \in 1..(i - 1) : u[j] = s[j]
  OBVIOUS
<1>2. v \in Seq(S) /\ Len(v) = Len(s) - i /\ \A j \in 1..(Len(s) - i) : v[j] = s[i + j]
  OBVIOUS
<1> HIDE DEF u, v
<1>3. /\ u \o v \in Seq(S)
      /\ Len(u \o v) = Len(s) - 1
      /\ \A j \in 1..(Len(s) - 1) : (u \o v)[j] = IF j < i THEN s[j] ELSE s[j + 1]
  <2>1. /\ u \o v \in Seq(S)
        /\ Len(u \o v) = Len(u) + Len(v)
        /\ \A j \in 1..(Len(u) + Len(v)) :
              (u \o v)[j] = IF j <= Len(u) THEN u[j] ELSE v[j - Len(u)]
    BY <1>1, <1>2, ConcatProperties
  <2>2. Len(s) \in Nat
    OBVIOUS
  <2>. QED
    BY <1>1, <1>2, <2>1, <2>2
<1>. QED
  BY <1>3 DEF RemoveAt, u, v

\* The search of bucket_remove finds an entry that occurs once where it is.
LEMMA RemoveFirstProperties ==
    ASSUME NEW S, NEW s \in Seq(S), NEW k \in 1..Len(s),
           \A i \in 1..Len(s) : s[i] = s[k] => i = k
    PROVE  RemoveFirst(s, s[k]) = RemoveAt(s, k)
<1> DEFINE I == { i \in 1..Len(s) : s[i] = s[k] }
<1>1. I = {k}
  OBVIOUS
<1>2. Min(I) = k
  BY <1>1 DEF Min
<1>. HIDE DEF I
<1>3. RemoveFirst(s, s[k]) = RemoveAt(s, IF I # {} THEN Min(I) ELSE 0)
  BY DEF RemoveFirst, SelectInSeq, I
<1>. QED
  BY <1>1, <1>2, <1>3

\* A set of numbers that has 0 and what follows each of its numbers has all.
LEMMA NumbersInduction ==
    ASSUME NEW S, 0 \in S, \A n \in Nat : n \in S => n + 1 \in S
    PROVE  \A n \in Nat : n \in S
<1> DEFINE Rest == {n \in Nat : n \notin S}
<1>1. SUFFICES ASSUME Rest # {} PROVE FALSE
  OBVIOUS
<1>2. Rest \in SUBSET Nat
  OBVIOUS
<1>3. PICK m \in Rest : \A y \in Rest : m <= y
  <2> HIDE DEF Rest
  <2> QED
    BY <1>1, <1>2, MinProperties
<1>4. m # 0
  OBVIOUS
<1>5. m - 1 \in Nat /\ m - 1 \notin Rest
  BY <1>3, <1>4
<1> QED
  BY <1>5

\* What insertion before place i makes of a list.
LEMMA InsertAtProperties ==
    ASSUME NEW S, NEW s \in Seq(S), NEW i \in 1..(Len(s) + 1), NEW e \in S
    PROVE  /\ InsertAt(s, i, e) \in Seq(S)
           /\ Len(InsertAt(s, i, e)) = Len(s) + 1
           /\ \A j \in 1..(Len(s) + 1) : j < i => InsertAt(s, i, e)[j] = s[j]
           /\ InsertAt(s, i, e)[i] = e
           /\ \A j \in 1..(Len(s) + 1) : j > i => InsertAt(s, i, e)[j] = s[j - 1]
<1> DEFINE u == SubSeq(s, 1, i - 1)
           v == SubSeq(s, i, Len(s))
           w == u \o <<e>>
<1>1. u \in Seq(S) /\ Len(u) = i - 1 /\ \A j \in 1..(i - 1) : u[j] = s[j]
  OBVIOUS
<1>2. v \in Seq(S) /\ Len(v) = Len(s) - i + 1 /\ \A j \in 1..(Len(s) - i + 1) : v[j] = s[i + j - 1]
  OBVIOUS
<1>3. Len(s) \in Nat
  OBVIOUS
<1> HIDE DEF u, v
<1>4. w \in Seq(S) /\ Len(w) = i /\ \A j \in 1..i : w[j] = IF j < i THEN s[j] ELSE e
  BY <1>1
<1> HIDE DEF w
<1>5. /\ w \o v \in Seq(S)
      /\ Len(w \o v) = Len(w) + Len(v)
      /\ \A j \in 1..(Len(w) + Len(v)) : (w \o v)[j] = IF j <= Len(w) THEN w[j] ELSE v[j - Len(w)]
  BY <1>2, <1>4, ConcatProperties
<1>6. \A j \in 1..(Len(s) + 1) : (w \o v)[j] = IF j < i THEN s[j] ELSE IF j = i THEN e ELSE s[j - 1]
  <2> SUFFICES ASSUME NEW j \in 1..(Len(s) + 1)
               PROVE  (w \o v)[j] = IF j < i THEN s[j] ELSE IF j = i THEN e ELSE s[j - 1]
    OBVIOUS
  <2>1. CASE j <= i
    BY <1>2, <1>3, <1>4, <1>5, <2>1
  <2>2. CASE j > i
    <3>1. j - i \in 1..(Len(s) - i + 1) /\ i + (j - i) - 1 = j - 1 /\ ~(j <= i) /\ ~(j < i) /\ j # i
      BY <2>2, <1>3
    <3>2. v[j - i] = s[j - 1]
      BY <1>2, <3>1
    <3>3. (w \o v)[j] = v[j - i]
      BY <1>2, <1>3, <1>4, <1>5, <3>1
    <3> QED
      BY <3>1, <3>2, <3>3
  <2>3. j <= i \/ j > i
    BY <1>3
  <2> QED
    BY <2>1, <2>2, <2>3
<1>7. Len(w \o v) = Len(s) + 1
  BY <1>2, <1>3, <1>4, <1>5
<1>8. InsertAt(s, i, e) = w \o v
  BY DEF InsertAt, u, v, w
<1> DEFINE x == InsertAt(s, i, e)
<1>9. x = w \o v
  BY <1>8
<1> HIDE DEF x
<1>10. /\ \A j \in 1..(Len(s) + 1) : j < i => x[j] = s[j]
       /\ x[i] = e
       /\ \A j \in 1..(Len(s) + 1) : j > i => x[j] = s[j - 1]
  <2>1. i \in 1..(Len(s) + 1) /\ ~(i < i)
    BY <1>3
  <2>2. x[i] = e
    BY <1>6, <1>9, <2>1
  <2>3. \A j \in 1..(Len(s) + 1) : j < i => x[j] = s[j]
    BY <1>6, <1>9
  <2>4. ASSUME NEW j \in 1..(Len(s) + 1), j > i PROVE x[j] = s[j - 1]
    <3>1. ~(j < i) /\ j # i
      BY <1>3, <2>4
    <3> QED
      BY <1>6, <1>9, <3>1
  <2> QED
    BY <2>2, <2>3, <2>4
<1>11. x \in Seq(S) /\ Len(x) = Len(s) + 1
  BY <1>5, <1>7, <1>9
<1> QED
  BY <1>10, <1>11 DEF x

\* Sets are what they hold.
LEMMA SameSet ==
    ASSUME NEW S, NEW T, \A x : x \in S <=> x \in T
    PROVE  S = T
OBVIOUS

\* Division rounds down.
LEMMA Quotient ==
    ASSUME NEW x \in Nat, NEW s \in Nat \ {0}
    PROVE  x \div s \in Nat /\ s * (x \div s) <= x /\ x < s * (x \div s) + s
OBVIOUS

\* A product with a factor of one at least.
LEMMA ProductLeast ==
    ASSUME NEW a \in Nat \ {0}, NEW b \in Nat
    PROVE  a * b \in Nat /\ b <= a * b
OBVIOUS

\* Products grow with their factors.
LEMMA ProductMonotone ==
    ASSUME NEW a \in Nat, NEW b \in Nat, NEW c \in Nat, a <= b
    PROVE  a * c <= b * c /\ c * a <= c * b
OBVIOUS

\* Where t stands among the members of S.
Rank(S, t) == Cardinality({u \in S : u < t})

\* All have places of their own, from 0.
LEMMA RankFacts ==
    ASSUME NEW S \in SUBSET Nat, IsFiniteSet(S)
    PROVE  /\ Cardinality(S) \in Nat
           /\ \A t \in S : Rank(S, t) \in Nat /\ Rank(S, t) < Cardinality(S)
           /\ \A t, u \in S : t < u => Rank(S, t) < Rank(S, u)
           /\ \A t, u \in S : t # u => Rank(S, t) # Rank(S, u)
  <1>1. ASSUME NEW A \in SUBSET S, NEW B \in SUBSET S, A \subseteq B, A # B
        PROVE  Cardinality(A) \in Nat /\ Cardinality(B) \in Nat /\ Cardinality(A) < Cardinality(B)
    <2>1. IsFiniteSet(A) /\ IsFiniteSet(B)
      BY FS_Subset
    <2>2. Cardinality(A) <= Cardinality(B) /\ (Cardinality(B) = Cardinality(A) => B = A)
      BY <1>1, <2>1, FS_Subset
    <2>3. Cardinality(A) \in Nat /\ Cardinality(B) \in Nat
      BY <2>1, FS_CardinalityType
    <2> QED
      BY <1>1, <2>2, <2>3
  <1>2. ASSUME NEW t \in S
        PROVE  Rank(S, t) \in Nat /\ Rank(S, t) < Cardinality(S)
    <2>1. {u \in S : u < t} \in SUBSET S /\ t \notin {u \in S : u < t}
      OBVIOUS
    <2> QED
      BY <1>1, <2>1 DEF Rank
  <1>3. ASSUME NEW t \in S, NEW u \in S, t < u
        PROVE  Rank(S, t) \in Nat /\ Rank(S, u) \in Nat /\ Rank(S, t) < Rank(S, u)
    <2> DEFINE A == {v \in S : v < t}
               B == {v \in S : v < u}
    <2>1. A \in SUBSET S /\ B \in SUBSET S /\ A \subseteq B
      <3>1. \A v \in S : v < t => v < u
        <4>1. t \in Nat /\ u \in Nat /\ \A v \in S : v \in Nat
          OBVIOUS
        <4> QED
          BY <1>3, <4>1
      <3> QED
        BY <3>1
    <2>2. t \in B /\ t \notin A
      BY <1>3
    <2> HIDE DEF A, B
    <2>3. Cardinality(A) \in Nat /\ Cardinality(B) \in Nat /\ Cardinality(A) < Cardinality(B)
      BY <1>1, <2>1, <2>2
    <2> QED
      BY <2>3 DEF A, B, Rank
  <1>4. ASSUME NEW t \in S, NEW u \in S, t # u
        PROVE  Rank(S, t) # Rank(S, u)
    <2>1. CASE t < u
      BY <1>3, <2>1
    <2>2. CASE u < t
      BY <1>3, <2>2
    <2> QED
      BY <1>4, <2>1, <2>2
  <1>5. Cardinality(S) \in Nat
    BY FS_CardinalityType
  <1> QED
    BY <1>2, <1>3, <1>4, <1>5

\* There is one for each place.
LEMMA RankTaken ==
    ASSUME NEW S \in SUBSET Nat, IsFiniteSet(S), NEW k \in 0..(Cardinality(S) - 1)
    PROVE  \E t \in S : Rank(S, t) = k
<1> DEFINE n == Cardinality(S)
           T == 0..(n - 1)
           f == [t \in S |-> Rank(S, t)]
<1>1. n \in Nat
  BY RankFacts
<1>2. f \in [S -> T] /\ \A t, u \in S : f[t] = f[u] => t = u
  BY <1>1, RankFacts
<1>3. IsFiniteSet(T) /\ Cardinality(T) = n
  BY <1>1, FS_Interval
<1>4. f \in Injection(S, T)
  <2> HIDE DEF f, T
  <2> QED
    BY <1>2 DEF Injection, IsInjective
<1>5. f \in Surjection(S, T)
  <2> HIDE DEF f, T
  <2> QED
    BY <1>3, <1>4, FS_Injection DEF n
<1>6. \E t \in S : f[t] = k
  <2> HIDE DEF f
  <2> QED
    BY <1>5 DEF Surjection
<1> QED
  BY <1>6
=============================================================================
