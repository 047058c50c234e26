------------------------------ MODULE ListFacts ------------------------------
(***************************************************************************)
(* Facts about numbers and lists that several proofs need: what push(),    *)
(* shift(), concatenation and the removal of an element do to a list of    *)
(* the code, and induction over the positions of a list.                   *)
(***************************************************************************)
EXTENDS Integers, FiniteSets, SequencesExt, FiniteSetTheorems, SequenceTheorems,
        WellFoundedInduction, TLAPS

(***************************************************************************)
(* Least and greatest numbers, and induction as a fact about sets.         *)
(***************************************************************************)

\* A set of natural numbers has a least one: nothing the code does, but what the facts about
\* its lists rest on.
LEMMA LeastNumber ==
    ASSUME NEW T, T \subseteq Nat, T # {}
    PROVE  \E m \in T : \A k \in T : m <= k
<1> DEFINE R == {p \in Nat \X Nat : p[1] < p[2]}
<1>1. OpToRel(<, Nat) = R
  BY DEF OpToRel
<1>2. IsWellFoundedOn(R, Nat)
  BY <1>1, NatLessThanWellFounded
<1>3. \A x, y \in Nat : x < y => <<x, y>> \in R
  OBVIOUS
<1> HIDE DEF R
<1>4. PICK m \in T : \A k \in T : ~ (<<k, m>> \in R)
  BY <1>2, WFMin
<1>5. \A k \in T : m \in Nat /\ k \in Nat /\ ~(k < m)
  BY <1>3, <1>4
<1>6. \A k \in T : m <= k
  BY <1>5
<1> QED
  BY <1>6

\* So a set that holds 0, and the successor of each of its elements, holds every number.
LEMMA SetInduction ==
    ASSUME NEW P, 0 \in P, \A n \in Nat : n \in P => n + 1 \in P
    PROVE  Nat \subseteq P
<1> SUFFICES ASSUME Nat \ P # {} PROVE FALSE
  OBVIOUS
<1>1. PICK m \in Nat \ P : \A k \in Nat \ P : m <= k
  BY LeastNumber
<1>2. m # 0 /\ m - 1 \in Nat /\ ~(m <= m - 1)
  BY <1>1
<1>3. m - 1 \in P
  BY <1>1, <1>2
<1>4. (m - 1) + 1 \in P
  BY <1>2, <1>3
<1> QED
  BY <1>1, <1>4

\* A finite set of natural numbers that is not empty has a greatest one.
LEMMA GreatestNumber ==
    ASSUME NEW T, T \subseteq Nat, IsFiniteSet(T), T # {}
    PROVE  \E m \in T : \A k \in T : m >= k
<1> DEFINE Claim(n) == \A U \in SUBSET Nat :
                IsFiniteSet(U) /\ Cardinality(U) = n /\ U # {} => \E m \in U : \A k \in U : m >= k
           P == {n \in Nat : Claim(n)}
<1>1. 0 \in P
  BY FS_EmptySet
<1>2. ASSUME NEW n \in Nat, n \in P
      PROVE  n + 1 \in P
  <2> SUFFICES ASSUME NEW U \in SUBSET Nat, IsFiniteSet(U), Cardinality(U) = n + 1, U # {}
               PROVE  \E m \in U : \A k \in U : m >= k
    BY <1>2
  <2>1. PICK x \in U : TRUE
    OBVIOUS
  <2>2. IsFiniteSet(U \ {x}) /\ Cardinality(U \ {x}) = n /\ U \ {x} \in SUBSET Nat
    <3>1. IsFiniteSet(U \ {x}) /\ Cardinality(U \ {x}) = Cardinality(U) - 1
      BY <2>1, FS_RemoveElement
    <3> QED
      BY <3>1
  <2>3. CASE U \ {x} = {}
    <3>1. U = {x} /\ x \in Nat
      BY <2>1, <2>3
    <3> QED
      BY <3>1
  <2>4. CASE U \ {x} # {}
    <3>1. PICK m \in U \ {x} : \A k \in U \ {x} : m >= k
      BY <1>2, <2>2, <2>4
    <3>2. m \in Nat /\ x \in Nat /\ \A k \in U : k \in Nat /\ (k = x \/ m >= k)
      BY <2>1, <3>1
    <3>3. CASE m >= x
      BY <3>1, <3>2, <3>3
    <3>4. CASE ~(m >= x)
      <4>1. x >= x /\ \A k \in U : x >= k
        BY <3>2, <3>4
      <4> QED
        BY <2>1, <4>1
    <3> QED
      BY <3>3, <3>4
  <2> QED
    BY <2>3, <2>4
<1>3. Nat \subseteq P
  <2> HIDE DEF P
  <2> QED
    BY <1>1, <1>2, SetInduction
<1>4. Cardinality(T) \in Nat
  BY FS_CardinalityType
<1> QED
  BY <1>3, <1>4

----------------------------------------------------------------------------
(* Lists.                                                                  *)

\* Putting messages behind a queue: what was there keeps its place.
LEMMA Extended ==
    ASSUME NEW S, NEW s \in Seq(S), NEW t \in Seq(S)
    PROVE  /\ s \o t \in Seq(S)
           /\ Range(s \o t) = Range(s) \cup Range(t)
           /\ DOMAIN s \subseteq DOMAIN (s \o t)
           /\ \A i \in DOMAIN s : (s \o t)[i] = s[i]
           /\ \A i \in DOMAIN (s \o t) \ DOMAIN s :
                    /\ i \in Nat /\ (i - Len(s)) \in DOMAIN t
                    /\ (s \o t)[i] = t[i - Len(s)]
           /\ \A i \in DOMAIN s, j \in DOMAIN (s \o t) \ DOMAIN s : i < j
<1>1. /\ Len(s) \in Nat /\ DOMAIN s = 1 .. Len(s)
      /\ Len(t) \in Nat /\ DOMAIN t = 1 .. Len(t)
  BY LenProperties
<1>2. /\ s \o t \in Seq(S) /\ Len(s \o t) = Len(s) + Len(t)
      /\ \A i \in 1 .. Len(s) + Len(t) : (s \o t)[i] = IF i <= Len(s) THEN s[i] ELSE t[i - Len(s)]
  BY ConcatProperties
<1>3. DOMAIN (s \o t) = 1 .. Len(s) + Len(t)
  BY <1>2, LenProperties
<1>4. Range(s \o t) = Range(s) \cup Range(t)
  BY RangeConcatenation
<1> QED
  BY <1>1, <1>2, <1>3, <1>4

\* Taking the first message of a queue: the others move up.
LEMMA Taken ==
    ASSUME NEW S, NEW s \in Seq(S), s # <<>>
    PROVE  /\ Tail(s) \in Seq(S) /\ Head(s) \in S
           /\ 1 \in DOMAIN s /\ s[1] = Head(s) /\ Head(s) \in Range(s)
           /\ \A i \in DOMAIN Tail(s) : i \in Nat /\ i + 1 \in DOMAIN s /\ Tail(s)[i] = s[i + 1]
           /\ \A i \in DOMAIN s \ {1} : i - 1 \in DOMAIN Tail(s) /\ Tail(s)[i - 1] = s[i]
           /\ Range(Tail(s)) \subseteq Range(s)
<1>1. Len(s) \in Nat \ {0} /\ DOMAIN s = 1 .. Len(s)
  BY EmptySeq, LenProperties
<1>2. /\ Head(s) \in S /\ Tail(s) \in Seq(S) /\ Len(Tail(s)) = Len(s) - 1
      /\ \A i \in 1 .. Len(Tail(s)) : Tail(s)[i] = s[i + 1]
  BY HeadTailProperties
<1>3. DOMAIN Tail(s) = 1 .. Len(s) - 1
  BY <1>2, LenProperties
<1>4. s[1] = Head(s)
  BY <1>1
<1>5. /\ 1 \in DOMAIN s
      /\ \A i \in DOMAIN Tail(s) : i \in Nat /\ i + 1 \in DOMAIN s /\ Tail(s)[i] = s[i + 1]
      /\ \A i \in DOMAIN s \ {1} : i - 1 \in DOMAIN Tail(s) /\ Tail(s)[i - 1] = s[i]
  BY <1>1, <1>2, <1>3
<1>6. Head(s) \in Range(s) /\ Range(Tail(s)) \subseteq Range(s)
  BY <1>4, <1>5 DEF Range
<1> QED
  BY <1>2, <1>4, <1>5, <1>6

\* A list with one element more.
LEMMA Appended ==
    ASSUME NEW S, NEW s \in Seq(S), NEW e \in S
    PROVE  /\ Append(s, e) \in Seq(S)
           /\ Range(Append(s, e)) = Range(s) \cup {e}
           /\ IsInjective(s) /\ e \notin Range(s) => IsInjective(Append(s, e))
<1>1. Len(s) \in Nat /\ DOMAIN s = 1 .. Len(s)
  BY LenProperties
<1>2. /\ Append(s, e) \in Seq(S) /\ Len(Append(s, e)) = Len(s) + 1
      /\ \A i \in 1 .. Len(s) : Append(s, e)[i] = s[i]
      /\ Append(s, e)[Len(s) + 1] = e
  BY AppendProperties
<1>3. DOMAIN Append(s, e) = 1 .. Len(s) + 1
  BY <1>2, LenProperties
<1>4. Range(Append(s, e)) = Range(s) \cup {e}
  BY <1>1, <1>2, <1>3 DEF Range
<1>5. IsInjective(s) /\ e \notin Range(s) => IsInjective(Append(s, e))
  BY <1>1, <1>2, <1>3 DEF Range, IsInjective
<1> QED
  BY <1>2, <1>4, <1>5

\* Removing an element from a list leaves the others; none is left of a list without doubles.
LEMMA Removed ==
    ASSUME NEW S, NEW s \in Seq(S), NEW e
    PROVE  /\ RemoveFirst(s, e) \in Seq(S)
           /\ Range(RemoveFirst(s, e)) \subseteq Range(s)
           /\ Range(s) \ {e} \subseteq Range(RemoveFirst(s, e))
           /\ IsInjective(s) => /\ IsInjective(RemoveFirst(s, e))
                               /\ e \notin Range(RemoveFirst(s, e))
<1>1. Len(s) \in Nat /\ DOMAIN s = 1 .. Len(s)
  BY LenProperties
<1> DEFINE I == {i \in 1 .. Len(s) : s[i] = e}
<1>2. CASE I = {}
  <2>1. RemoveFirst(s, e) = s
    BY <1>2 DEF RemoveFirst
  <2>2. e \notin Range(s)
    BY <1>1, <1>2 DEF Range
  <2> QED
    BY <2>1, <2>2
<1>3. CASE I # {}
  <2> DEFINE k == Min(I)
  <2>1. RemoveFirst(s, e) = RemoveAt(s, k)
    BY <1>3 DEF RemoveFirst, SelectInSeq
  <2>2. k \in I
    <3>1. I \subseteq Nat
      OBVIOUS
    <3> HIDE DEF I
    <3>2. \E x \in I : \A y \in I : x <= y
      BY <1>3, <3>1, LeastNumber
    <3> QED
      BY <3>2 DEF Min
  <2> HIDE DEF k
  <2> DEFINE a == SubSeq(s, 1, k - 1)
             b == SubSeq(s, k + 1, Len(s))
  <2>3. k \in 1 .. Len(s) /\ s[k] = e
    BY <2>2
  <2>4. \A i \in 1 .. Len(s) : s[i] \in S
    BY ElementOfSeq
  <2>5. /\ a \in Seq(S) /\ Len(a) = k - 1
        /\ \A i \in 1 .. k - 1 : a[i] = s[i]
    <3>1. k - 1 \in Int /\ 1 \in Int /\ \A i \in 1 .. k - 1 : s[i] \in S
      BY <1>1, <2>3, <2>4
    <3>2. /\ a \in Seq(S) /\ Len(a) = IF 1 <= k - 1 THEN (k - 1) - 1 + 1 ELSE 0
          /\ \A i \in 1 .. (k - 1) - 1 + 1 : a[i] = s[1 + i - 1]
      BY <3>1, SubSeqProperties
    <3> HIDE DEF a
    <3> QED
      BY <1>1, <2>3, <3>2
  <2>6. /\ b \in Seq(S) /\ Len(b) = Len(s) - k
        /\ \A i \in 1 .. Len(s) - k : b[i] = s[k + i]
    <3>1. k + 1 \in Int /\ Len(s) \in Int /\ \A i \in k + 1 .. Len(s) : s[i] \in S
      BY <1>1, <2>3, <2>4
    <3>2. /\ b \in Seq(S) /\ Len(b) = IF k + 1 <= Len(s) THEN Len(s) - (k + 1) + 1 ELSE 0
          /\ \A i \in 1 .. Len(s) - (k + 1) + 1 : b[i] = s[(k + 1) + i - 1]
      BY <3>1, SubSeqProperties
    <3> HIDE DEF b
    <3> DEFINE N == Len(s)
    <3>3. k \in Int /\ N \in Int /\ k <= N
      BY <1>1, <2>3
    <3> HIDE DEF N
    <3>4. Len(b) = N - k
      BY <3>2, <3>3 DEF N
    <3>5. ASSUME NEW i \in 1 .. N - k
          PROVE  b[i] = s[k + i]
      <4>1. i \in 1 .. N - (k + 1) + 1 /\ (k + 1) + i - 1 = k + i
        BY <3>3
      <4>2. b[i] = s[(k + 1) + i - 1]
        BY <3>2, <4>1 DEF N
      <4> QED
        BY <4>1, <4>2
    <3> QED
      BY <3>2, <3>4, <3>5 DEF N
  <2> HIDE DEF a, b, I
  <2>7. Range(a \o b) = Range(a) \cup Range(b) /\ a \o b \in Seq(S)
    BY <2>5, <2>6, RangeConcatenation, ConcatProperties
  <2>8. /\ DOMAIN a = 1 .. k - 1 /\ DOMAIN b = 1 .. Len(s) - k
    BY <2>5, <2>6, LenProperties
  <2>9. Range(a) \cup Range(b) \subseteq Range(s)
    <3>1. \A i \in DOMAIN a : i \in DOMAIN s /\ a[i] = s[i]
      BY <1>1, <2>3, <2>5, <2>8
    <3>2. \A i \in DOMAIN b : k + i \in DOMAIN s /\ b[i] = s[k + i]
      BY <1>1, <2>3, <2>6, <2>8
    <3> QED
      BY <3>1, <3>2 DEF Range
  <2>10. ASSUME NEW i \in 1 .. Len(s), s[i] # e
         PROVE  s[i] \in Range(a) \cup Range(b)
    <3>1. CASE i < k
      BY <1>1, <2>3, <2>5, <2>8, <3>1 DEF Range
    <3>2. CASE i > k
      <4>1. i - k \in DOMAIN b /\ b[i - k] = s[i]
        BY <1>1, <2>3, <2>6, <2>8, <3>2
      <4> QED
        BY <4>1 DEF Range
    <3>3. i # k
      BY <2>3, <2>10
    <3> QED
      BY <1>1, <2>3, <3>1, <3>2, <3>3
  <2>11. RemoveFirst(s, e) = a \o b
    BY <2>1 DEF RemoveAt, a, b
  <2>12. Range(s) \ {e} \subseteq Range(a) \cup Range(b)
    BY <1>1, <2>10 DEF Range
  <2>13. ASSUME IsInjective(s)
         PROVE  IsInjective(a \o b) /\ e \notin Range(a \o b)
    <3> DEFINE old(i) == IF i < k THEN i ELSE i + 1
               ab == a \o b
               N == Len(s)
    <3>0. k \in 1 .. N /\ N \in Nat /\ DOMAIN s = 1 .. N
      BY <1>1, <2>3
    <3>1. /\ Len(ab) = Len(a) + Len(b)
          /\ \A i \in 1 .. Len(a) + Len(b) : ab[i] = IF i <= Len(a) THEN a[i] ELSE b[i - Len(a)]
      BY <2>5, <2>6, ConcatProperties
    <3>a. Len(a) = k - 1 /\ Len(b) = N - k
      BY <2>5, <2>6
    <3>b. ab \in Seq(S)
      BY <2>7
    <3> HIDE DEF N, ab
    <3>c. Len(a) + Len(b) = N - 1
      BY <3>0, <3>a
    <3>2. DOMAIN ab = 1 .. N - 1
      BY <3>1, <3>b, <3>c, LenProperties
    <3>d. \A i \in 1 .. N - 1 : ab[i] = IF i <= k - 1 THEN a[i] ELSE b[i - (k - 1)]
      BY <3>1, <3>a, <3>c
    <3>e. (\A i \in 1 .. k - 1 : a[i] = s[i]) /\ (\A i \in 1 .. N - k : b[i] = s[k + i])
      BY <2>5, <2>6 DEF N
    <3>3. ASSUME NEW i \in DOMAIN ab
          PROVE  ab[i] = s[old(i)] /\ old(i) \in DOMAIN s /\ old(i) # k
      <4>1. i \in 1 .. N - 1
        BY <3>2
      <4>2. CASE i < k
        BY <3>0, <3>d, <3>e, <4>1, <4>2
      <4>3. CASE ~(i < k)
        <5>1. i - (k - 1) \in 1 .. N - k /\ k + (i - (k - 1)) = i + 1
          BY <3>0, <4>1, <4>3
        <5>2. ab[i] = b[i - (k - 1)]
          BY <3>0, <3>d, <4>1, <4>3
        <5> QED
          BY <3>0, <3>e, <4>1, <4>3, <5>1, <5>2
      <4> QED
        BY <4>2, <4>3
    <3>4. IsInjective(ab)
      <4> SUFFICES ASSUME NEW i \in DOMAIN ab, NEW j \in DOMAIN ab, ab[i] = ab[j]
                   PROVE  i = j
        BY DEF IsInjective
      <4>1. old(i) = old(j)
        BY <2>13, <3>3 DEF IsInjective
      <4>2. i \in Int /\ j \in Int
        BY <3>2
      <4> QED
        BY <2>3, <4>1, <4>2
    <3>5. e \notin Range(ab)
      <4> SUFFICES ASSUME NEW i \in DOMAIN ab, ab[i] = e
                   PROVE  FALSE
        BY DEF Range
      <4> QED
        BY <1>1, <2>3, <2>13, <3>3 DEF IsInjective
    <3> QED
      BY <3>4, <3>5 DEF ab
  <2> QED
    BY <2>7, <2>9, <2>11, <2>12, <2>13
<1> QED
  BY <1>2, <1>3

\* unshift(): the new element comes first, and the others move back.
LEMMA Unshifted ==
    ASSUME NEW S, NEW s \in Seq(S), NEW e \in S
    PROVE  /\ <<e>> \o s \in Seq(S)
           /\ <<e>> \o s # <<>>
           /\ DOMAIN (<<e>> \o s) = 1 .. Len(s) + 1
           /\ (<<e>> \o s)[1] = e
           /\ \A i \in DOMAIN (<<e>> \o s) \ {1} :
                    i - 1 \in DOMAIN s /\ (<<e>> \o s)[i] = s[i - 1]
           /\ \A i \in DOMAIN s : i + 1 \in DOMAIN (<<e>> \o s) /\ (<<e>> \o s)[i + 1] = s[i]
<1> DEFINE t == <<e>> \o s
<1>1. <<e>> \in Seq(S) /\ Len(<<e>>) = 1 /\ <<e>>[1] = e
  OBVIOUS
<1>2. Len(s) \in Nat /\ DOMAIN s = 1 .. Len(s)
  BY LenProperties
<1>3. /\ t \in Seq(S) /\ Len(t) = 1 + Len(s)
      /\ \A i \in 1 .. 1 + Len(s) : t[i] = IF i <= 1 THEN <<e>>[i] ELSE s[i - 1]
  BY <1>1, ConcatProperties
<1>4. DOMAIN t = 1 .. Len(s) + 1
  BY <1>2, <1>3, LenProperties
<1>5. t[1] = e
  BY <1>1, <1>2, <1>3
<1> HIDE DEF t
<1>6. t # <<>>
  BY <1>2, <1>3, EmptySeq
<1>7. \A i \in DOMAIN t \ {1} : i - 1 \in DOMAIN s /\ t[i] = s[i - 1]
  BY <1>2, <1>3, <1>4
<1>8. \A i \in DOMAIN s : i + 1 \in DOMAIN t /\ t[i + 1] = s[i]
  BY <1>2, <1>3, <1>4
<1> QED
  BY <1>3, <1>4, <1>5, <1>6, <1>7, <1>8 DEF t

\* pop(): the last element goes.
LEMMA Popped ==
    ASSUME NEW S, NEW s \in Seq(S), s # <<>>
    PROVE  /\ Front(s) \in Seq(S) /\ Len(Front(s)) = Len(s) - 1
           /\ Len(s) \in Nat \ {0} /\ DOMAIN s = 1 .. Len(s)
           /\ DOMAIN Front(s) = 1 .. Len(s) - 1
           /\ \A i \in DOMAIN Front(s) : Front(s)[i] = s[i]
<1>1. Len(s) \in Nat \ {0} /\ DOMAIN s = 1 .. Len(s)
  BY EmptySeq, LenProperties
<1>2. \A i \in 1 .. Len(s) : s[i] \in S
  BY ElementOfSeq
<1>3. 1 \in Int /\ Len(s) - 1 \in Int /\ \A i \in 1 .. Len(s) - 1 : s[i] \in S
  BY <1>1, <1>2
<1>4. /\ Front(s) \in Seq(S)
      /\ Len(Front(s)) = IF 1 <= Len(s) - 1 THEN (Len(s) - 1) - 1 + 1 ELSE 0
      /\ \A i \in 1 .. (Len(s) - 1) - 1 + 1 : Front(s)[i] = s[1 + i - 1]
  BY <1>3, SubSeqProperties DEF Front
<1> DEFINE N == Len(s)
           f == Front(s)
<1>5. N \in Nat \ {0} /\ Len(f) = (IF 1 <= N - 1 THEN (N - 1) - 1 + 1 ELSE 0) /\ f \in Seq(S)
  BY <1>1, <1>4
<1>6. \A i \in 1 .. (N - 1) - 1 + 1 : f[i] = s[1 + i - 1]
  BY <1>4
<1> HIDE DEF N, f
<1>7. Len(f) = N - 1
  BY <1>5
<1>8. DOMAIN f = 1 .. N - 1
  BY <1>5, <1>7, LenProperties
<1>9. ASSUME NEW i \in DOMAIN f
      PROVE  f[i] = s[i]
  <2>1. i \in 1 .. (N - 1) - 1 + 1 /\ 1 + i - 1 = i
    BY <1>5, <1>8
  <2> QED
    BY <1>6, <2>1
<1> QED
  BY <1>1, <1>5, <1>7, <1>8, <1>9 DEF N, f
==============================================================================
