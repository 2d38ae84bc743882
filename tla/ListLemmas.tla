----------------------------- MODULE ListLemmas -----------------------------
(* Facts about lists that the proofs of several modules use.               *)
EXTENDS Integers, SequencesExt, SequenceTheorems, FiniteSetTheorems, TLAPS

(* Removing the i-th element shifts the later ones down by one.            *)
LEMMA RemoveAtElements ==
  ASSUME NEW S, NEW s \in Seq(S), NEW i \in DOMAIN s
  PROVE  /\ RemoveAt(s, i) \in Seq(S)
         /\ Len(RemoveAt(s, i)) = Len(s) - 1
         /\ \A j \in 1 .. Len(s) - 1 :
              RemoveAt(s, i)[j] = IF j < i THEN s[j] ELSE s[j + 1]
<1>1. i \in 1 .. Len(s) /\ Len(s) \in Nat
  OBVIOUS
<1> DEFINE a == SubSeq(s, 1, i - 1)
           b == SubSeq(s, i + 1, Len(s))
<1>2. a \in Seq(S) /\ Len(a) = i - 1 /\ \A j \in 1 .. i - 1 : a[j] = s[j]
  BY <1>1, SubSeqProperties
<1>3. b \in Seq(S) /\ Len(b) = Len(s) - i /\ \A j \in 1 .. Len(s) - i : b[j] = s[i + j]
  BY <1>1, SubSeqProperties
<1>4. RemoveAt(s, i) = a \o b
  BY DEF RemoveAt
<1> HIDE DEF a, b
<1>5. /\ a \o b \in Seq(S)
      /\ Len(a \o b) = Len(s) - 1
      /\ \A j \in 1 .. Len(s) - 1 :
           (a \o b)[j] = IF j <= i - 1 THEN a[j] ELSE b[j - (i - 1)]
  <2>1. /\ a \o b \in Seq(S)
        /\ Len(a \o b) = Len(a) + Len(b)
        /\ \A j \in 1 .. Len(a) + Len(b) :
             (a \o b)[j] = IF j <= Len(a) THEN a[j] ELSE b[j - Len(a)]
    BY <1>2, <1>3, ConcatProperties
  <2>2. Len(a) + Len(b) = Len(s) - 1 /\ Len(a) = i - 1
    BY <1>1, <1>2, <1>3
  <2> QED
    BY <2>1, <2>2
<1>6. ASSUME NEW j \in 1 .. Len(s) - 1
      PROVE  (a \o b)[j] = IF j < i THEN s[j] ELSE s[j + 1]
  <2>1. CASE j < i
    BY <1>1, <1>2, <1>5, <2>1
  <2>2. CASE ~(j < i)
    <3>1. j - (i - 1) \in 1 .. Len(s) - i /\ i + (j - (i - 1)) = j + 1
      BY <1>1, <2>2
    <3>2. b[j - (i - 1)] = s[j + 1]
      BY <1>3, <3>1
    <3> QED
      BY <1>1, <1>5, <2>2, <3>2
  <2> QED
    BY <2>1, <2>2
<1> QED
  BY <1>4, <1>5, <1>6

(* Removing an element of a list without duplicates removes it alone.      *)
LEMMA RemoveAtDistinct ==
  ASSUME NEW S, NEW s \in Seq(S), NEW k \in DOMAIN s,
         \A i, j \in DOMAIN s : s[i] = s[j] => i = j
  PROVE  /\ RemoveAt(s, k) \in Seq(S)
         /\ Len(RemoveAt(s, k)) = Len(s) - 1
         /\ \A i, j \in DOMAIN RemoveAt(s, k) :
              RemoveAt(s, k)[i] = RemoveAt(s, k)[j] => i = j
         /\ \A u : (\E i \in DOMAIN RemoveAt(s, k) : RemoveAt(s, k)[i] = u)
                   <=> u # s[k] /\ \E i \in DOMAIN s : s[i] = u
<1> DEFINE r == RemoveAt(s, k)
<1>1. k \in 1 .. Len(s) /\ Len(s) \in Nat /\ DOMAIN s = 1 .. Len(s)
  OBVIOUS
<1>2. /\ r \in Seq(S)
      /\ Len(r) = Len(s) - 1
      /\ \A j \in 1 .. Len(s) - 1 : r[j] = IF j < k THEN s[j] ELSE s[j + 1]
  BY RemoveAtElements
<1> HIDE DEF r
<1>3. DOMAIN r = 1 .. Len(s) - 1
  BY <1>2
<1>4. ASSUME NEW i \in DOMAIN r, NEW j \in DOMAIN r, r[i] = r[j]
      PROVE  i = j
  <2> DEFINE p(n) == IF n < k THEN n ELSE n + 1
  <2>1. p(i) \in DOMAIN s /\ p(j) \in DOMAIN s
    BY <1>1, <1>3
  <2>2. s[p(i)] = r[i] /\ s[p(j)] = r[j]
    BY <1>2, <1>3
  <2>3. p(i) = p(j)
    BY <1>4, <2>1, <2>2
  <2> QED
    BY <1>1, <1>3, <2>3
<1>5. ASSUME NEW u, u # s[k], NEW i \in DOMAIN s, s[i] = u
      PROVE  \E j \in DOMAIN r : r[j] = u
  <2>1. CASE i < k
    <3>1. i \in 1 .. Len(s) - 1 /\ r[i] = u
      BY <1>1, <1>2, <1>5, <2>1
    <3> QED
      BY <1>3, <3>1
  <2>2. CASE ~(i < k)
    <3>1. i - 1 \in 1 .. Len(s) - 1 /\ r[i - 1] = u
      BY <1>1, <1>2, <1>5, <2>2
    <3> QED
      BY <1>3, <3>1
  <2> QED
    BY <2>1, <2>2
<1>6. ASSUME NEW u, NEW j \in DOMAIN r, r[j] = u
      PROVE  u # s[k] /\ \E i \in DOMAIN s : s[i] = u
  <2>1. PICK i \in DOMAIN s : i # k /\ s[i] = u
    BY <1>1, <1>2, <1>3, <1>6
  <2> QED
    BY <2>1
<1>7. \A u : (\E i \in DOMAIN r : r[i] = u) <=> u # s[k] /\ \E i \in DOMAIN s : s[i] = u
  BY <1>5, <1>6
<1> QED
  BY <1>2, <1>4, <1>7 DEF r

(* Removing an element keeps the order of the others.                      *)
LEMMA RemoveAtOrder ==
  ASSUME NEW S, NEW s \in Seq(S), NEW k \in DOMAIN s,
         NEW i \in DOMAIN s, NEW j \in DOMAIN s, i < j, i # k, j # k
  PROVE  \E x, y \in DOMAIN RemoveAt(s, k) :
           x < y /\ RemoveAt(s, k)[x] = s[i] /\ RemoveAt(s, k)[y] = s[j]
<1> DEFINE r == RemoveAt(s, k)
           p(n) == IF n < k THEN n ELSE n - 1
<1>1. Len(s) \in Nat /\ DOMAIN s = 1 .. Len(s)
  BY LenProperties
<1>2. /\ r \in Seq(S)
      /\ Len(r) = Len(s) - 1
      /\ \A n \in 1 .. Len(s) - 1 : r[n] = IF n < k THEN s[n] ELSE s[n + 1]
  BY RemoveAtElements
<1> HIDE DEF r
<1>3. DOMAIN r = 1 .. Len(s) - 1
  BY <1>2, LenProperties
<1>4. \A n \in DOMAIN s \ {k} : p(n) \in DOMAIN r /\ r[p(n)] = s[n]
  BY <1>1, <1>2, <1>3
<1>5. p(i) < p(j)
  BY <1>1
<1> QED
  BY <1>4, <1>5 DEF r

-----------------------------------------------------------------------------
(* Counting: the places of a list whose element is in a set, and how many  *)
(* there are.                                                              *)
At(q, P)    == {i \in DOMAIN q : q[i] \in P}
Count(q, P) == Cardinality(At(q, P))

(* A count is a natural number, and zero where nothing is counted.         *)
LEMMA CountType ==
  ASSUME NEW S, NEW q \in Seq(S), NEW P
  PROVE  /\ IsFiniteSet(At(q, P)) /\ Count(q, P) \in Nat
         /\ Count(q, P) = 0 <=> \A i \in DOMAIN q : q[i] \notin P
<1>1. Len(q) \in Nat /\ DOMAIN q = 1 .. Len(q)
  BY LenProperties
<1>2. IsFiniteSet(1 .. Len(q)) /\ At(q, P) \in SUBSET (1 .. Len(q))
  BY <1>1, FS_Interval DEF At
<1>3. IsFiniteSet(At(q, P))
  BY <1>2, FS_Subset
<1>4. Count(q, P) \in Nat
  BY <1>3, FS_CardinalityType DEF Count
<1>5. Count(q, P) = 0 <=> At(q, P) = {}
  BY <1>3, FS_EmptySet DEF Count
<1> QED
  BY <1>3, <1>4, <1>5 DEF At

(* Nothing is counted in an empty list.                                    *)
LEMMA CountEmpty == \A P : Count(<<>>, P) = 0
<1>1. \A P : At(<<>>, P) = {}
  BY DEF At
<1> QED
  BY <1>1, FS_EmptySet DEF Count

(* The length of a list counts everything.                                 *)
LEMMA CountAll ==
  ASSUME NEW S, NEW q \in Seq(S)
  PROVE  Count(q, S) = Len(q)
<1>1. Len(q) \in Nat /\ At(q, S) = 1 .. Len(q)
  BY LenProperties, ElementOfSeq DEF At
<1>2. Cardinality(1 .. Len(q)) = IF 1 > Len(q) THEN 0 ELSE Len(q) - 1 + 1
  BY <1>1, FS_Interval
<1> QED
  BY <1>1, <1>2 DEF Count

(* Lists are counted one after the other.                                  *)
LEMMA CountConcat ==
  ASSUME NEW S, NEW a \in Seq(S), NEW b \in Seq(S), NEW P
  PROVE  Count(a \o b, P) = Count(a, P) + Count(b, P)
<1> DEFINE B == {i \in Len(a) + 1 .. Len(a) + Len(b) : (a \o b)[i] \in P}
           f == [i \in At(b, P) |-> i + Len(a)]
<1>1. Len(a) \in Nat /\ Len(b) \in Nat /\ DOMAIN a = 1 .. Len(a) /\ DOMAIN b = 1 .. Len(b)
  BY LenProperties
<1>2. /\ a \o b \in Seq(S) /\ Len(a \o b) = Len(a) + Len(b)
      /\ \A i \in 1 .. Len(a) + Len(b) :
           (a \o b)[i] = IF i <= Len(a) THEN a[i] ELSE b[i - Len(a)]
  BY ConcatProperties
<1>3. DOMAIN (a \o b) = 1 .. Len(a) + Len(b)
  BY <1>2, LenProperties
<1>4. At(a \o b, P) = At(a, P) \cup B
  BY <1>1, <1>2, <1>3 DEF At
<1>5. At(a, P) \cap B = {}
  BY <1>1 DEF At
<1>6. f \in Bijection(At(b, P), B)
  <2>1. \A i \in At(b, P) : f[i] \in B
    BY <1>1, <1>2 DEF At
  <2>2. ASSUME NEW j \in B PROVE \E i \in At(b, P) : f[i] = j
    <3>1. j - Len(a) \in At(b, P)
      BY <1>1, <1>2 DEF At
    <3>2. f[j - Len(a)] = j
      BY <1>1, <3>1
    <3> QED
      BY <3>1, <3>2
  <2>3. \A i, j \in At(b, P) : f[i] = f[j] => i = j
    BY <1>1 DEF At
  <2> QED
    BY <2>1, <2>2, <2>3 DEF Bijection, Injection, Surjection, IsInjective
<1>7. IsFiniteSet(At(a, P)) /\ IsFiniteSet(At(b, P)) /\ Count(a, P) \in Nat
  BY CountType
<1>8. ExistsBijection(At(b, P), B)
  BY <1>6 DEF ExistsBijection
<1> HIDE DEF B, f
<1>9. IsFiniteSet(B) /\ Cardinality(B) = Count(b, P) /\ Count(b, P) \in Nat
  BY <1>7, <1>8, FS_Bijection, CountType DEF Count
<1>10. Cardinality(At(a, P) \cup B) = Cardinality(At(a, P)) + Cardinality(B) - Cardinality({})
  BY <1>5, <1>7, <1>9, FS_Union
<1> QED
  BY <1>4, <1>7, <1>9, <1>10, FS_EmptySet DEF Count

(* A list of one.                                                          *)
LEMMA CountOne ==
  ASSUME NEW c, NEW P
  PROVE  Count(<<c>>, P) = IF c \in P THEN 1 ELSE 0
<1>1. At(<<c>>, P) = IF c \in P THEN {1} ELSE {}
  BY DEF At
<1> QED
  BY <1>1, FS_EmptySet, FS_Singleton DEF Count

(* One more element, at either end.                                        *)
LEMMA CountAppend ==
  ASSUME NEW S, NEW q \in Seq(S), NEW c \in S, NEW P
  PROVE  /\ Count(Append(q, c), P) = Count(q, P) + IF c \in P THEN 1 ELSE 0
         /\ Count(<<c>> \o q, P) = Count(q, P) + IF c \in P THEN 1 ELSE 0
<1>1. <<c>> \in Seq(S) /\ Append(q, c) = q \o <<c>>
  BY AppendIsConcat
<1>2. Count(q, P) \in Nat
  BY CountType
<1>3. /\ Count(q \o <<c>>, P) = Count(q, P) + Count(<<c>>, P)
      /\ Count(<<c>> \o q, P) = Count(<<c>>, P) + Count(q, P)
  BY <1>1, CountConcat
<1> QED
  BY <1>1, <1>2, <1>3, CountOne

(* One element less, at either end.                                        *)
LEMMA CountEnds ==
  ASSUME NEW S, NEW q \in Seq(S), q # <<>>, NEW P
  PROVE  /\ Head(q) \in S /\ Tail(q) \in Seq(S)
         /\ Count(Tail(q), P) = Count(q, P) - IF Head(q) \in P THEN 1 ELSE 0
         /\ Last(q) \in S /\ Front(q) \in Seq(S)
         /\ Count(Front(q), P) = Count(q, P) - IF Last(q) \in P THEN 1 ELSE 0
<1>1. Head(q) \in S /\ Tail(q) \in Seq(S) /\ q = <<Head(q)>> \o Tail(q)
  OBVIOUS
<1>2. Count(Tail(q), P) \in Nat
  BY <1>1, CountType
<1>3. Count(q, P) = Count(Tail(q), P) + IF Head(q) \in P THEN 1 ELSE 0
  <2>1. Count(<<Head(q)>> \o Tail(q), P) = Count(Tail(q), P) + IF Head(q) \in P THEN 1 ELSE 0
    BY <1>1, CountAppend
  <2> QED
    BY <1>1, <2>1
<1>4. Len(q) \in Nat /\ Len(q) # 0 /\ Last(q) = q[Len(q)]
      /\ Front(q) = SubSeq(q, 1, Len(q) - 1)
  BY DEF Last, Front
<1>5. Last(q) \in S /\ Front(q) \in Seq(S)
  BY <1>4, SubSeqProperties
<1>6. q = Append(Front(q), Last(q))
  <2>1. Len(Front(q)) = Len(q) - 1 /\ \A i \in 1 .. Len(q) - 1 : Front(q)[i] = q[i]
    <3> DEFINE w == SubSeq(q, 1, Len(q) - 1)
               n == Len(q) - 1
    <3>1. \A i \in 1 .. n : q[i] \in S
      BY <1>4
    <3>2. /\ Len(w) = IF 1 <= n THEN n - 1 + 1 ELSE 0
          /\ \A i \in 1 .. n - 1 + 1 : w[i] = q[1 + i - 1]
      BY <1>4, <3>1, SubSeqProperties
    <3>3. n \in Nat /\ Front(q) = w
      BY <1>4
    <3> HIDE DEF w, n
    <3>4. Len(w) = n /\ \A i \in 1 .. n : w[i] = q[i]
      BY ONLY <3>2, <3>3
    <3> QED
      BY <3>3, <3>4 DEF n
  <2> QED
    BY <1>4, <1>5, <2>1, AppendProperties, SeqEqual
<1>7. Count(Front(q), P) \in Nat
  BY <1>5, CountType
<1>8. Count(q, P) = Count(Front(q), P) + IF Last(q) \in P THEN 1 ELSE 0
  <2>1. Count(Append(Front(q), Last(q)), P) = Count(Front(q), P) + IF Last(q) \in P THEN 1 ELSE 0
    BY <1>5, CountAppend
  <2> QED
    BY <1>6, <2>1
<1> QED
  BY <1>1, <1>2, <1>3, <1>5, <1>7, <1>8

(* Removing an element takes it out of the count, if it was in it.         *)
LEMMA CountRemoveAt ==
  ASSUME NEW S, NEW q \in Seq(S), NEW k \in DOMAIN q, NEW P
  PROVE  Count(RemoveAt(q, k), P) = Count(q, P) - IF q[k] \in P THEN 1 ELSE 0
<1> DEFINE a == SubSeq(q, 1, k - 1)
           b == SubSeq(q, k, Len(q))
           c == SubSeq(q, k + 1, Len(q))
<1>1. Len(q) \in Nat /\ k \in 1 .. Len(q) /\ q[k] \in S
  BY LenProperties, ElementOfSeq
<1>2. a \in Seq(S) /\ c \in Seq(S) /\ b \in Seq(S)
  BY <1>1, SubSeqProperties
<1>3. RemoveAt(q, k) = a \o c
  BY DEF RemoveAt
<1>4. q = a \o b
  <2>1. k - 1 \in 1 - 1 .. Len(q) /\ 1 \in 1 .. Len(q) + 1 /\ Len(q) \in k - 1 .. Len(q)
    BY <1>1
  <2>2. a \o SubSeq(q, (k - 1) + 1, Len(q)) = SubSeq(q, 1, Len(q))
    BY ONLY <1>1, <2>1, ConcatAdjacentSubSeq
  <2>3. (k - 1) + 1 = k /\ SubSeq(q, 1, Len(q)) = q
    BY <1>1, SubSeqFull
  <2> QED
    BY ONLY <2>2, <2>3
<1>5. b = <<q[k]>> \o c
  <2>1. k \in 1 .. Len(q) /\ Len(q) \in k .. Len(q)
    BY <1>1
  <2> QED
    BY ONLY <2>1, SubSeqRecursiveFirst
<1> HIDE DEF a, b, c
<1>6. Count(b, P) = Count(c, P) + IF q[k] \in P THEN 1 ELSE 0
  BY <1>1, <1>2, <1>5, CountAppend
<1>7. Count(q, P) = Count(a, P) + Count(b, P) /\ Count(RemoveAt(q, k), P) = Count(a, P) + Count(c, P)
  BY <1>2, <1>3, <1>4, CountConcat
<1>8. Count(a, P) \in Nat /\ Count(b, P) \in Nat /\ Count(c, P) \in Nat
  BY <1>2, CountType
<1> QED
  BY <1>6, <1>7, <1>8

=============================================================================
