----------------------------- MODULE SequenceLemmas ----------------------------
(***************************************************************************)
(* Facts about sequences and numbers that the proofs rest on: the removal  *)
(* of one element, the last of a set of places, the smallest number.       *)
(***************************************************************************)
EXTENDS Integers, Sums, SequencesExt, SequenceTheorems, WellFoundedInduction, TLAPS

\* A non-empty set of numbers has a smallest one.
LEMMA SmallestNat ==
  ASSUME NEW S \in SUBSET Nat, S # {}
  PROVE  \E m \in S : \A k \in S : m <= k
<1>1. PICK m \in S : \A k \in S : ~ (<<k, m>> \in OpToRel(<, Nat))
  BY WFMin, NatLessThanWellFounded
<1>2. \A k \in S : m <= k
  <2>1. SUFFICES ASSUME NEW k \in S
                 PROVE  m <= k
    OBVIOUS
  <2>2. m \in Nat /\ k \in Nat
    OBVIOUS
  <2>3. ~(k < m)
    BY <1>1, <2>2 DEF OpToRel
  <2> QED BY <2>2, <2>3
<1> QED BY <1>2

\* RemoveAt() takes one place out, and the rest keeps its order.
LEMMA RemoveAtOfSeq ==
  ASSUME NEW S, NEW s \in Seq(S), NEW n \in DOMAIN s
  PROVE  /\ RemoveAt(s, n) \in Seq(S)
         /\ DOMAIN RemoveAt(s, n) = 1 .. Len(s) - 1
         /\ \A i \in 1 .. Len(s) - 1 : RemoveAt(s, n)[i] = IF i < n THEN s[i] ELSE s[i + 1]
<1>1. Len(s) \in Nat /\ DOMAIN s = 1 .. Len(s) /\ \A i \in 1 .. Len(s) : s[i] \in S
  BY LenProperties, ElementOfSeq
<1>2. n \in 1 .. Len(s)
  BY <1>1
<1> DEFINE before == SubSeq(s, 1, n - 1)
           after == SubSeq(s, n + 1, Len(s))
<1>3. /\ before \in Seq(S) /\ Len(before) = n - 1
      /\ \A i \in 1 .. n - 1 : before[i] = s[i]
  BY <1>1, <1>2, SubSeqProperties
<1>4. /\ after \in Seq(S) /\ Len(after) = Len(s) - n
      /\ \A i \in 1 .. Len(s) - n : after[i] = s[n + i]
  <2>1. \A i \in n + 1 .. Len(s) : s[i] \in S
    BY <1>1, <1>2
  <2>2. /\ after \in Seq(S)
        /\ Len(after) = IF n + 1 <= Len(s) THEN Len(s) - (n + 1) + 1 ELSE 0
        /\ \A i \in 1 .. Len(s) - (n + 1) + 1 : after[i] = s[n + 1 + i - 1]
    BY <1>1, <1>2, <2>1, SubSeqProperties
  <2>3. Len(s) - (n + 1) + 1 = Len(s) - n /\ (~(n + 1 <= Len(s)) => Len(s) - n = 0)
    BY <1>1, <1>2
  <2>4. \A i \in 1 .. Len(s) - n : n + 1 + i - 1 = n + i
    BY <1>1, <1>2
  <2> HIDE DEF after
  <2> QED BY <2>2, <2>3, <2>4
<1>5. RemoveAt(s, n) = before \o after
  BY DEF RemoveAt
<1> HIDE DEF before, after
<1>6. /\ before \o after \in Seq(S) /\ Len(before \o after) = Len(s) - 1
      /\ \A i \in 1 .. Len(s) - 1 :
           (before \o after)[i] = IF i <= n - 1 THEN before[i] ELSE after[i - (n - 1)]
  <2>1. Len(before) + Len(after) = Len(s) - 1
    BY <1>1, <1>2, <1>3, <1>4
  <2>2. /\ before \o after \in Seq(S) /\ Len(before \o after) = Len(before) + Len(after)
        /\ \A i \in 1 .. Len(before) + Len(after) :
             (before \o after)[i] = IF i <= Len(before) THEN before[i]
                                                       ELSE after[i - Len(before)]
    BY <1>3, <1>4, ConcatProperties
  <2> QED BY <1>3, <2>1, <2>2
<1>7. \A i \in 1 .. Len(s) - 1 : (before \o after)[i] = IF i < n THEN s[i] ELSE s[i + 1]
  <2>1. SUFFICES ASSUME NEW i \in 1 .. Len(s) - 1
                 PROVE  (before \o after)[i] = IF i < n THEN s[i] ELSE s[i + 1]
    OBVIOUS
  <2>2. CASE i < n
    BY <1>1, <1>2, <1>3, <1>6, <2>2
  <2>3. CASE ~(i < n)
    <3>1. i - (n - 1) \in 1 .. Len(s) - n /\ n + (i - (n - 1)) = i + 1
      BY <1>1, <1>2, <2>3
    <3> QED BY <1>1, <1>2, <1>4, <1>6, <2>3, <3>1
  <2> QED BY <2>2, <2>3
<1>8. DOMAIN (before \o after) = 1 .. Len(s) - 1
  BY <1>6, LenProperties
<1> QED BY <1>5, <1>6, <1>7, <1>8

\* RemoveFirst() does so at the place it finds, if there is one.
LEMMA RemoveFirstOfSeq ==
  ASSUME NEW S, NEW s \in Seq(S), NEW e
  PROVE  \/ RemoveFirst(s, e) = s /\ \A i \in DOMAIN s : s[i] # e
         \/ \E n \in DOMAIN s : s[n] = e /\ RemoveFirst(s, e) = RemoveAt(s, n)
<1> DEFINE I == {i \in 1 .. Len(s) : s[i] = e}
           n == SelectInSeq(s, LAMBDA v : v = e)
<1>1. Len(s) \in Nat /\ DOMAIN s = 1 .. Len(s)
  BY LenProperties
<1>2. CASE I = {}
  BY <1>1, <1>2 DEF RemoveFirst
<1>3. CASE I # {}
  <2>1. \E i \in I : \A j \in I : i <= j
    <3>1. I \in SUBSET Nat
      BY <1>1
    <3> QED BY <1>3, <3>1, SmallestNat
  <2>2. n \in I
    BY <1>3, <2>1 DEF SelectInSeq, Min
  <2>3. RemoveFirst(s, e) = RemoveAt(s, n)
    BY <1>3 DEF RemoveFirst
  <2> QED BY <1>1, <2>2, <2>3
<1> QED BY <1>2, <1>3

\* r is s without the place n, where e was; at[i] is where its element i came from.
LeavesOut(r, s, e, n, at) ==
  /\ at \in [DOMAIN r -> DOMAIN s]
  /\ n \in DOMAIN s => s[n] = e
  /\ n \notin DOMAIN s => \A i \in DOMAIN s : s[i] # e
  /\ \A i \in DOMAIN r : r[i] = s[at[i]] /\ at[i] # n
  /\ \A i, j \in DOMAIN r : i < j => at[i] < at[j]
  /\ \A i \in DOMAIN s : i # n => \E j \in DOMAIN r : at[j] = i

\* RemoveFirst() keeps the order of the others.
LEMMA RemoveFirstKeepsOrder ==
  ASSUME NEW S, NEW s \in Seq(S), NEW e
  PROVE  /\ RemoveFirst(s, e) \in Seq(S)
         /\ \E n \in Nat : \E at : LeavesOut(RemoveFirst(s, e), s, e, n, at)
<1> DEFINE r == RemoveFirst(s, e)
<1>1. Len(s) \in Nat /\ DOMAIN s = 1 .. Len(s)
  BY LenProperties
<1>2. CASE r = s /\ \A i \in DOMAIN s : s[i] # e
  <2> DEFINE at == [i \in DOMAIN s |-> i]
  <2> HIDE DEF r
  <2>1. LeavesOut(r, s, e, 0, at)
    BY <1>1, <1>2 DEF LeavesOut
  <2> HIDE DEF at
  <2>2. 0 \in Nat /\ r \in Seq(S)
    BY <1>2
  <2> QED BY <2>1, <2>2 DEF r
<1>3. ASSUME NEW n \in DOMAIN s, s[n] = e, r = RemoveAt(s, n)
      PROVE  /\ r \in Seq(S)
             /\ \E at : LeavesOut(r, s, e, n, at)
  <2> DEFINE at == [i \in DOMAIN r |-> IF i < n THEN i ELSE i + 1]
  <2> HIDE DEF r
  <2>1. /\ r \in Seq(S) /\ DOMAIN r = 1 .. Len(s) - 1
        /\ \A i \in 1 .. Len(s) - 1 : r[i] = IF i < n THEN s[i] ELSE s[i + 1]
    BY <1>3, RemoveAtOfSeq
  <2>2. at \in [DOMAIN r -> DOMAIN s]
    BY <1>1, <1>3, <2>1
  <2>3. \A i \in DOMAIN r : r[i] = s[at[i]] /\ at[i] # n
    BY <1>1, <1>3, <2>1
  <2>4. \A i, j \in DOMAIN r : i < j => at[i] < at[j]
    BY <1>1, <1>3, <2>1
  <2>5. ASSUME NEW i \in DOMAIN s, i # n
        PROVE  \E j \in DOMAIN r : at[j] = i
    <3>1. CASE i < n
      BY <1>1, <1>3, <2>1, <3>1
    <3>2. CASE i > n
      <4>1. i - 1 \in DOMAIN r /\ at[i - 1] = i
        BY <1>1, <1>3, <2>1, <3>2
      <4> QED BY <4>1
    <3> QED BY <1>1, <1>3, <2>5, <3>1, <3>2
  <2> HIDE DEF at
  <2>6. LeavesOut(r, s, e, n, at)
    BY <1>3, <2>2, <2>3, <2>4, <2>5 DEF LeavesOut
  <2> QED BY <2>1, <2>6
<1> HIDE DEF r
<1>4. CASE \E n \in DOMAIN s : s[n] = e /\ r = RemoveAt(s, n)
  <2>1. PICK n \in DOMAIN s : s[n] = e /\ r = RemoveAt(s, n)
    BY <1>4
  <2>2. n \in Nat
    BY <1>1
  <2> QED BY <1>3, <2>1, <2>2 DEF r
<1>5. \/ r = s /\ \A i \in DOMAIN s : s[i] # e
      \/ \E n \in DOMAIN s : s[n] = e /\ r = RemoveAt(s, n)
  BY RemoveFirstOfSeq DEF r
<1> QED BY <1>2, <1>4, <1>5

\* A set of places of a sequence has a last one.
LEMMA LastPlace ==
  ASSUME NEW n \in Nat, NEW I \in SUBSET (1 .. n), I # {}
  PROVE  Max(I) \in I /\ \A i \in I : i <= Max(I)
<1> DEFINE D == {n - i : i \in I}
<1>1. D \subseteq Nat /\ D # {}
  <2>1. \A i \in I : n - i \in Nat
    OBVIOUS
  <2> QED BY <2>1
<1>2. PICK m \in D : \A k \in D : m <= k
  BY <1>1, SmallestNat
<1>3. PICK i \in I : m = n - i
  OBVIOUS
<1>4. \A j \in I : j <= i
  <2>1. SUFFICES ASSUME NEW j \in I
                 PROVE  j <= i
    OBVIOUS
  <2>2. i \in Int /\ j \in Int
    <3>1. i \in 1 .. n /\ j \in 1 .. n
      OBVIOUS
    <3> HIDE DEF D
    <3> QED BY <3>1
  <2>3. m <= n - j
    BY <1>2
  <2> QED BY <1>3, <2>2, <2>3
<1> QED BY <1>3, <1>4 DEF Max

-----------------------------------------------------------------------------
(* Sums *)

\* f[n] is the sum of the first n numbers of s.
Sums(f, s) == f = [n \in 0 .. Len(s) |-> IF n = 0 THEN 0 ELSE f[n - 1] + s[n]]

\* Each prefix has a sum: a shortest one without does not exist.
LEMMA SumExists ==
  ASSUME NEW s \in Seq(Int)
  PROVE  \E f : Sums(f, s)
<1> DEFINE UpTo(f, n) == f = [i \in 0 .. n |-> IF i = 0 THEN 0 ELSE f[i - 1] + s[i]]
           S == {k \in Nat : k <= Len(s) /\ ~\E f : UpTo(f, k)}
<1>0. Len(s) \in Nat
  BY LenProperties
<1>1. S = {}
  <2>1. SUFFICES ASSUME S # {}
                 PROVE  FALSE
    OBVIOUS
  <2>2. PICK m \in S : \A k \in S : m <= k
    BY <2>1, SmallestNat
  <2>3. m \in Nat /\ m <= Len(s) /\ ~\E f : UpTo(f, m)
    OBVIOUS
  <2>4. CASE m = 0
    <3> DEFINE g == [i \in 0 .. 0 |-> 0]
    <3>1. UpTo(g, 0)
      OBVIOUS
    <3> QED BY <2>3, <2>4, <3>1
  <2>5. CASE m # 0
    <3>1. m - 1 \in Nat /\ m - 1 <= Len(s) /\ ~(m <= m - 1)
      BY <1>0, <2>3, <2>5
    <3>2. PICK f : UpTo(f, m - 1)
      <4> HIDE DEF UpTo
      <4> QED BY <2>2, <3>1
    <3> DEFINE g == [i \in 0 .. m |-> IF i = m THEN f[m - 1] + s[m] ELSE f[i]]
    <3>3. \A i \in 0 .. m - 1 : f[i] = IF i = 0 THEN 0 ELSE f[i - 1] + s[i]
      BY <3>2
    <3>4. g = [i \in 0 .. m |-> IF i = 0 THEN 0 ELSE g[i - 1] + s[i]]
      <4>1. ASSUME NEW i \in 0 .. m
            PROVE  g[i] = IF i = 0 THEN 0 ELSE g[i - 1] + s[i]
        <5>1. CASE i = m
          <6>1. m - 1 \in 0 .. m /\ m - 1 # m
            BY <2>3, <2>5
          <6>2. g[m] = f[m - 1] + s[m] /\ g[m - 1] = f[m - 1]
            BY <2>3, <6>1
          <6> QED BY <2>5, <5>1, <6>2
        <5>2. CASE i # m
          <6>1. i \in 0 .. m - 1 /\ (i # 0 => i - 1 \in 0 .. m - 1 /\ i - 1 # m)
            BY <2>3, <4>1, <5>2
          <6>2. g[i] = f[i] /\ (i # 0 => g[i - 1] = f[i - 1])
            BY <2>3, <6>1, <5>2
          <6> QED BY <3>3, <6>1, <6>2
        <5> QED BY <5>1, <5>2
      <4>2. g = [i \in 0 .. m |-> g[i]]
        OBVIOUS
      <4> HIDE DEF g
      <4> QED BY <4>1, <4>2
    <3> HIDE DEF g
    <3>5. UpTo(g, m)
      BY <3>4
    <3> QED BY <2>3, <3>5
  <2> QED BY <2>4, <2>5
<1>2. \E f : UpTo(f, Len(s))
  BY <1>0, <1>1
<1> QED BY <1>2 DEF Sums

LEMMA PrefixesAreInts ==
  ASSUME NEW s \in Seq(Int), NEW f, Sums(f, s), NEW k \in Nat, k <= Len(s)
  PROVE  f[k] \in Int
<1> DEFINE T == {j \in Nat : j <= Len(s) /\ f[j] \notin Int}
<1>0. Len(s) \in Nat
  BY LenProperties
<1>1. \A n \in 0 .. Len(s) : f[n] = IF n = 0 THEN 0 ELSE f[n - 1] + s[n]
  BY DEF Sums
<1>2. k \notin T => f[k] \in Int
  OBVIOUS
<1>3. SUFFICES ASSUME T # {}
               PROVE  FALSE
  BY <1>2
<1>4. PICK n \in T : \A j \in T : n <= j
  BY <1>3, SmallestNat
<1>5. n # 0
  BY <1>0, <1>1
<1>6. n - 1 \in Nat /\ n - 1 <= Len(s) /\ f[n - 1] \in Int
  BY <1>0, <1>4, <1>5
<1>7. f[n] = f[n - 1] + s[n] /\ s[n] \in Int
  BY <1>0, <1>1, <1>4, <1>5, ElementOfSeq
<1> QED BY <1>4, <1>6, <1>7

\* The first k numbers of s are those of t that follow d others.
Follow(s, t, d, k) == \A i \in 1 .. k : s[i] = t[i + d]

\* Two sequences with a common prefix have its sum in common.
LEMMA SumsAgree ==
  ASSUME NEW s \in Seq(Int), NEW t \in Seq(Int), NEW f, NEW g, Sums(f, s), Sums(g, t),
         NEW d \in Nat, NEW c \in Int, NEW k \in Nat, k <= Len(s), k + d <= Len(t),
         g[d] = c, Follow(s, t, d, k)
  PROVE  g[k + d] = f[k] + c
<1> DEFINE S == {j \in Nat : j <= k /\ g[j + d] # f[j] + c}
<1>0. Len(s) \in Nat /\ Len(t) \in Nat
  BY LenProperties
<1>1. SUFFICES ASSUME S # {}
               PROVE  FALSE
  <2>1. k \notin S => g[k + d] = f[k] + c
    OBVIOUS
  <2> QED BY <2>1
<1>2. PICK m \in S : \A j \in S : m <= j
  BY <1>1, SmallestNat
<1>3. m \in Nat /\ m <= k /\ g[m + d] # f[m] + c
  OBVIOUS
<1>4. /\ \A n \in 0 .. Len(s) : f[n] = IF n = 0 THEN 0 ELSE f[n - 1] + s[n]
      /\ \A n \in 0 .. Len(t) : g[n] = IF n = 0 THEN 0 ELSE g[n - 1] + t[n]
  BY DEF Sums
<1>5. CASE m = 0
  <2>1. f[0] = 0
    BY <1>0, <1>4
  <2> QED BY <1>3, <1>5, <2>1
<1>6. CASE m # 0
  <2>1. m - 1 \in Nat /\ m - 1 <= k /\ m - 1 \notin S
    BY <1>2, <1>3, <1>6
  <2>2. g[m - 1 + d] = f[m - 1] + c
    BY <2>1
  <2>3. f[m] = f[m - 1] + s[m]
    <3>1. m \in 0 .. Len(s) /\ m # 0
      BY <1>0, <1>3, <1>6
    <3> QED BY <1>4, <3>1
  <2>4. /\ m + d \in 0 .. Len(t) /\ m + d # 0
        /\ m + d - 1 = m - 1 + d
    BY <1>0, <1>3, <1>6
  <2>5. g[m + d] = g[m - 1 + d] + t[m + d]
    BY <1>4, <2>4
  <2>6. s[m] = t[m + d] /\ s[m] \in Int
    BY <1>3, <1>6, ElementOfSeq DEF Follow
  <2>7. f[m - 1] \in Int
    BY <1>0, <1>3, <2>1, PrefixesAreInts
  <2> QED BY <1>3, <2>2, <2>3, <2>5, <2>6, <2>7
<1> QED BY <1>5, <1>6

LEMMA SumIsLast ==
  ASSUME NEW s \in Seq(Int)
  PROVE  \E f : Sums(f, s) /\ SumOf(s) = f[Len(s)]
<1> DEFINE f == CHOOSE f : Sums(f, s)
<1>1. SumOf(s) = f[Len(s)]
  BY DEF SumOf, Sums
<1>2. Sums(f, s)
  BY SumExists
<1> QED BY <1>1, <1>2

LEMMA SumIsInt ==
  ASSUME NEW s \in Seq(Int)
  PROVE  SumOf(s) \in Int
<1>1. PICK f : Sums(f, s) /\ SumOf(s) = f[Len(s)]
  BY SumIsLast
<1> QED BY <1>1, PrefixesAreInts, LenProperties

\* The sum of natural numbers is one.
LEMMA SumIsNat ==
  ASSUME NEW s \in Seq(Int), \A i \in 1 .. Len(s) : s[i] \in Nat
  PROVE  SumOf(s) \in Nat
<1>0. Len(s) \in Nat
  BY LenProperties
<1>1. PICK f : Sums(f, s) /\ SumOf(s) = f[Len(s)]
  BY SumIsLast
<1>2. \A n \in 0 .. Len(s) : f[n] = IF n = 0 THEN 0 ELSE f[n - 1] + s[n]
  BY <1>1 DEF Sums
<1> DEFINE T == {j \in Nat : j <= Len(s) /\ f[j] \notin Nat}
<1>3. Len(s) \notin T => f[Len(s)] \in Nat
  BY <1>0
<1>4. SUFFICES ASSUME T # {}
               PROVE  FALSE
  BY <1>1, <1>3
<1>5. PICK n \in T : \A j \in T : n <= j
  BY <1>4, SmallestNat
<1>6. n # 0
  BY <1>0, <1>2
<1>7. n - 1 \in Nat /\ n - 1 <= Len(s) /\ f[n - 1] \in Nat
  BY <1>0, <1>5, <1>6
<1>8. f[n] = f[n - 1] + s[n] /\ s[n] \in Nat
  BY <1>0, <1>2, <1>5, <1>6
<1> QED BY <1>5, <1>7, <1>8

LEMMA SumOfNone ==
  ASSUME NEW s \in Seq(Int), Len(s) = 0
  PROVE  SumOf(s) = 0
<1>1. PICK f : Sums(f, s) /\ SumOf(s) = f[Len(s)]
  BY SumIsLast
<1> QED BY <1>1 DEF Sums

\* One more number adds to the sum.
LEMMA SumGrows ==
  ASSUME NEW s \in Seq(Int), NEW t \in Seq(Int), Len(t) = Len(s) + 1,
         \A i \in 1 .. Len(s) : t[i] = s[i]
  PROVE  SumOf(t) = SumOf(s) + t[Len(t)]
<1>0. Len(s) \in Nat
  BY LenProperties
<1>1. PICK f : Sums(f, s) /\ SumOf(s) = f[Len(s)]
  BY SumIsLast
<1>2. PICK g : Sums(g, t) /\ SumOf(t) = g[Len(t)]
  BY SumIsLast
<1>3. \A n \in 0 .. Len(t) : g[n] = IF n = 0 THEN 0 ELSE g[n - 1] + t[n]
  BY <1>2 DEF Sums
<1>4. \A n \in 0 .. Len(s) : f[n] = IF n = 0 THEN 0 ELSE f[n - 1] + s[n]
  BY <1>1 DEF Sums
<1>5. g[0] = 0
  BY <1>0, <1>3
<1>6. Follow(s, t, 0, Len(s))
  <2>1. \A i \in 1 .. Len(s) : i + 0 = i
    BY <1>0
  <2> QED BY <2>1 DEF Follow
<1>7. 0 \in Nat /\ 0 \in Int /\ Len(s) <= Len(s) /\ Len(s) + 0 <= Len(t)
  BY <1>0
<1>8. g[Len(s) + 0] = f[Len(s)] + 0
  BY ONLY <1>0, <1>1, <1>2, <1>5, <1>6, <1>7, SumsAgree, s \in Seq(Int), t \in Seq(Int)
<1>9. SumOf(s) \in Int
  BY SumIsInt
<1>10. /\ Len(t) \in 0 .. Len(t) /\ Len(t) # 0 /\ Len(t) - 1 = Len(s)
       /\ Len(s) + 0 = Len(s)
  BY <1>0
<1>11. g[Len(t)] = g[Len(s)] + t[Len(t)]
  BY <1>3, <1>10
<1>12. g[Len(s)] = SumOf(s)
  BY <1>1, <1>8, <1>9, <1>10
<1> QED BY <1>2, <1>11, <1>12

\* The first number is a part of the sum.
LEMMA SumOfRest ==
  ASSUME NEW s \in Seq(Int), NEW t \in Seq(Int), Len(t) = Len(s) + 1,
         \A i \in 1 .. Len(s) : s[i] = t[i + 1]
  PROVE  SumOf(t) = t[1] + SumOf(s)
<1>0. Len(s) \in Nat
  BY LenProperties
<1>1. PICK f : Sums(f, s) /\ SumOf(s) = f[Len(s)]
  BY SumIsLast
<1>2. PICK g : Sums(g, t) /\ SumOf(t) = g[Len(t)]
  BY SumIsLast
<1>3. \A n \in 0 .. Len(t) : g[n] = IF n = 0 THEN 0 ELSE g[n - 1] + t[n]
  BY <1>2 DEF Sums
<1>4. 0 \in 0 .. Len(t) /\ 1 \in 0 .. Len(t) /\ 1 \in 1 .. Len(t)
  BY <1>0
<1>5. g[0] = 0 /\ g[1] = g[0] + t[1] /\ t[1] \in Int
  BY <1>3, <1>4, ElementOfSeq
<1>6. g[1] = t[1]
  BY <1>5
<1>7. 1 \in Nat /\ Len(s) <= Len(s) /\ Len(s) + 1 <= Len(t)
  BY <1>0
<1>8. g[Len(s) + 1] = f[Len(s)] + t[1]
  <2>1. PICK c \in Int : c = t[1]
    BY <1>5
  <2>2. g[1] = c
    BY <1>6, <2>1
  <2>3. g[Len(s) + 1] = f[Len(s)] + c
    <3>1. Sums(f, s) /\ Sums(g, t)
      BY <1>1, <1>2
    <3>2. /\ Len(s) \in Nat /\ 1 \in Nat /\ Len(s) <= Len(s) /\ Len(s) + 1 <= Len(t)
          /\ \A i \in 1 .. Len(s) : s[i] = t[i + 1]
      BY <1>0, <1>7
    <3>3. PICK k \in Nat, d \in Nat : k = Len(s) /\ d = 1
      BY <3>2
    <3>4. /\ g[d] = c /\ k <= Len(s) /\ k + d <= Len(t)
          /\ Follow(s, t, d, k)
      BY ONLY <2>2, <3>2, <3>3 DEF Follow
    <3>5. g[k + d] = f[k] + c
      BY <3>1, <3>4, SumsAgree
    <3> QED BY <3>3, <3>5
  <2> QED BY <2>1, <2>3
<1>9. SumOf(s) \in Int
  BY SumIsInt
<1> QED BY <1>1, <1>2, <1>5, <1>8, <1>9

\* A sequence followed by another has both sums.
LEMMA SumOfConcat ==
  ASSUME NEW s \in Seq(Int), NEW u \in Seq(Int), NEW t \in Seq(Int), Len(t) = Len(s) + Len(u),
         \A i \in 1 .. Len(s) : t[i] = s[i], \A i \in 1 .. Len(u) : t[i + Len(s)] = u[i]
  PROVE  SumOf(t) = SumOf(s) + SumOf(u)
<1>0. Len(s) \in Nat /\ Len(u) \in Nat
  BY LenProperties
<1>1. PICK f : Sums(f, s) /\ SumOf(s) = f[Len(s)]
  BY SumIsLast
<1>2. PICK h : Sums(h, u) /\ SumOf(u) = h[Len(u)]
  BY SumIsLast
<1>3. PICK g : Sums(g, t) /\ SumOf(t) = g[Len(t)]
  BY SumIsLast
<1>4. SumOf(s) \in Int /\ SumOf(u) \in Int
  BY SumIsInt
<1>5. g[0] = 0
  BY <1>0, <1>3 DEF Sums
<1>6. g[Len(s)] = SumOf(s)
  <2>1. PICK k \in Nat, d \in Nat, c \in Int : k = Len(s) /\ d = 0 /\ c = 0
    BY <1>0
  <2>2. g[d] = c /\ k <= Len(s) /\ k + d <= Len(t)
    BY <1>0, <1>5, <2>1
  <2>3. Follow(s, t, d, k)
    BY <1>0, <2>1 DEF Follow
  <2>4. g[k + d] = f[k] + c
    <3>1. Sums(f, s) /\ Sums(g, t)
      BY <1>1, <1>3
    <3>2. k \in Nat /\ d \in Nat /\ c \in Int
      OBVIOUS
    <3> QED BY ONLY <2>2, <2>3, <3>1, <3>2, SumsAgree, s \in Seq(Int), t \in Seq(Int)
  <2> QED BY <1>0, <1>1, <1>4, <2>1, <2>4
<1>7. g[Len(u) + Len(s)] = h[Len(u)] + SumOf(s)
  <2>1. PICK k \in Nat, d \in Nat, c \in Int : k = Len(u) /\ d = Len(s) /\ c = SumOf(s)
    BY <1>0, <1>4
  <2>2. g[d] = c /\ k <= Len(u) /\ k + d <= Len(t)
    BY <1>0, <1>6, <2>1
  <2>3. Follow(u, t, d, k)
    BY <2>1 DEF Follow
  <2>4. g[k + d] = h[k] + c
    <3>1. Sums(h, u) /\ Sums(g, t)
      BY <1>2, <1>3
    <3>2. k \in Nat /\ d \in Nat /\ c \in Int
      OBVIOUS
    <3> QED BY ONLY <2>2, <2>3, <3>1, <3>2, SumsAgree, u \in Seq(Int), t \in Seq(Int)
  <2> QED BY <2>1, <2>4
<1>8. Len(u) + Len(s) = Len(t)
  BY <1>0
<1> QED BY <1>2, <1>3, <1>4, <1>7, <1>8

=============================================================================
