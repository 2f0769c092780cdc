-------------------------- MODULE SchedulerProofs --------------------------
(***************************************************************************)
(* SchedulerHealth, for any allowances, wallets, slots, batches and        *)
(* minutes: the scheduler's tasks stay within its slots and are never       *)
(* dropped, no slot is left idle, every failure is reported, and it looks  *)
(* unhealthy only for a failure or for time lost.                          *)
(*                                                                         *)
(* The provers have no induction; what an increasing enumeration needs of  *)
(* it is taken from the well-foundedness of the naturals.                  *)
(***************************************************************************)
EXTENDS SchedulerHealth, TLAPS, FiniteSetTheorems, SequenceTheorems,
        WellFoundedInduction

(* Every set of naturals has a least element.                              *)
LEMMA LeastElement ==
    ASSUME NEW T \in SUBSET Nat, T # {}
    PROVE  \E x \in T : \A y \in T : x <= y
<1>. DEFINE R == OpToRel(<, Nat)
<1>1. \A x, y \in Nat : x < y => <<x, y>> \in R
  BY Zenon DEF OpToRel
<1>2. IsWellFoundedOn(R, Nat)
  BY NatLessThanWellFounded
<1>. HIDE DEF R
<1>3. PICK x \in T : \A y \in T : ~(<<y, x>> \in R)
  BY <1>2, WFMin
<1>4. \A y \in T : ~(y < x)
  BY <1>1, <1>3, Zenon
<1>5. \A y \in T : x <= y
  BY <1>4
<1>. QED
  BY <1>5

Increasing(f) == \A i, j \in DOMAIN f : i < j => f[i] < f[j]

Enumerable(K) == \E f \in [1..Cardinality(K) -> K] : Increasing(f)

(* The positions kept by Only can be enumerated in their order: were m the  *)
(* least bound of a set that cannot, m would be its last element, and the  *)
(* set without it could.                                                   *)
LEMMA Enumeration ==
    ASSUME NEW n \in Nat, NEW K \in SUBSET (1..n)
    PROVE  Enumerable(K)
<1>. DEFINE Bad == {m \in Nat : \E L \in SUBSET (1..m) : ~Enumerable(L)}
<1>1. ASSUME Bad # {} PROVE FALSE
  <2>1. PICK m \in Bad : \A l \in Bad : m <= l
    BY <1>1, LeastElement
  <2>2. m \in Nat /\ \E L \in SUBSET (1..m) : ~Enumerable(L)
    OBVIOUS
  <2>3. PICK L \in SUBSET (1..m) : ~Enumerable(L)
    BY <2>2
  <2>. HIDE DEF Bad
  <2>4. IsFiniteSet(L) /\ Cardinality(L) \in Nat
    <3>1. 1 \in Int /\ m \in Int
      BY <2>2
    <3>2. IsFiniteSet(1..m)
      BY <3>1, FS_Interval
    <3>. QED
      BY <3>2, FS_Subset, FS_CardinalityType
  <2>5. ASSUME m = 0 \/ m \notin L PROVE FALSE
    <3>1. CASE m = 0
      <4>1. L = {}
        BY <3>1
      <4>1a. Cardinality(L) = 0
        BY <4>1, FS_EmptySet
      <4>2. [x \in {} |-> x] \in [1..Cardinality(L) -> L] /\ Increasing([x \in {} |-> x])
        BY <4>1, <4>1a DEF Increasing
      <4>. QED
        BY <2>3, <4>2 DEF Enumerable
    <3>2. CASE m # 0 /\ m \notin L
      <4>1. m - 1 \in Nat /\ L \in SUBSET (1..m - 1) /\ m - 1 < m
        BY <2>2, <3>2
      <4>2. m - 1 \in Bad
        BY <4>1, <2>3 DEF Bad
      <4>. QED
        BY <2>1, <2>2, <4>1, <4>2
    <3>. QED
      BY <2>5, <3>1, <3>2
  <2>6. m \in L /\ m # 0
    BY <2>5
  <2>. DEFINE M == L \ {m}
              c == Cardinality(M)
  <2>7. c \in Nat /\ Cardinality(L) = c + 1
    <3>1. IsFiniteSet(M) /\ c = Cardinality(L) - 1
      BY <2>4, <2>6, FS_RemoveElement
    <3>2. c \in Nat
      BY <3>1, FS_CardinalityType
    <3>. QED
      BY <2>4, <3>1, <3>2
  <2>8. m - 1 \in Nat /\ M \in SUBSET (1..m - 1) /\ m - 1 < m
    BY <2>2, <2>6
  <2>9. Enumerable(M)
    <3>1. m - 1 \notin Bad
      <4>1. m - 1 \in Bad => m <= m - 1
        BY <2>1
      <4>. QED
        BY <2>2, <2>8, <4>1
    <3>. QED
      BY <2>8, <3>1 DEF Bad
  <2>. HIDE DEF M, c
  <2>10. PICK f \in [1..c -> M] : Increasing(f)
    BY <2>9 DEF Enumerable, c
  <2>. DEFINE g == [i \in 1..c + 1 |-> IF i = c + 1 THEN m ELSE f[i]]
  <2>11. g \in [1..c + 1 -> L]
    <3>1. \A i \in 1..c + 1 : i # c + 1 => i \in 1..c
      BY <2>7
    <3>2. M \subseteq L
      BY DEF M
    <3>. QED
      BY <2>6, <2>10, <3>1, <3>2
  <2>12. \A i \in 1..c : f[i] \in Nat /\ f[i] < m
    <3>1. \A x \in M : x \in Nat /\ x < m
      BY <2>2, <2>8
    <3>. QED
      BY <2>10, <3>1
  <2>13. ASSUME NEW i \in 1..c + 1, NEW j \in 1..c + 1, i < j PROVE g[i] < g[j]
    <3>1. i \in 1..c
      BY <2>7, <2>13
    <3>2. CASE j = c + 1
      <4>1. g[j] = m /\ g[i] = f[i]
        BY <2>7, <3>1, <3>2
      <4>. QED
        BY <2>12, <3>1, <4>1
    <3>3. CASE j # c + 1
      <4>1. j \in 1..c
        BY <2>7, <3>3
      <4>2. f[i] < f[j]
        BY <2>10, <2>13, <3>1, <4>1 DEF Increasing
      <4>. QED
        BY <2>7, <3>1, <4>1, <4>2
    <3>. QED
      BY <3>2, <3>3
  <2>14. DOMAIN g = 1..c + 1
    OBVIOUS
  <2>. HIDE DEF g
  <2>15. Increasing(g)
    BY <2>13, <2>14 DEF Increasing
  <2>. QED
    BY <2>3, <2>7, <2>11, <2>15 DEF Enumerable
<1>. QED
  BY <1>1

(* Functions on 1..n are sequences.                                        *)
LEMMA FunctionIsSeq ==
    ASSUME NEW S, NEW n \in Nat, NEW f \in [1..n -> S]
    PROVE  f \in Seq(S) /\ Len(f) = n /\ DOMAIN f = 1..n
<1>1. f \in Seq(S)
  BY SeqDef
<1>2. DOMAIN f = 1..n /\ DOMAIN f = 1..Len(f) /\ Len(f) \in Nat
  BY <1>1, LenProperties
<1>3. Len(f) = n
  <2>1. \A k \in Nat : 1..k = 1..n => k = n
    <3>. SUFFICES ASSUME NEW k \in Nat, 1..k = 1..n PROVE k = n
      OBVIOUS
    <3>1. \A i \in Nat : 1 <= i /\ i <= k <=> 1 <= i /\ i <= n
      OBVIOUS
    <3>2. k <= n
      BY <3>1
    <3>3. n <= k
      BY <3>1
    <3>. QED
      BY <3>2, <3>3
  <2>. QED
    BY <1>2, <2>1
<1>. QED
  BY <1>1, <1>2, <1>3

(* A finite sequence has finitely many elements, as many as positions if    *)
(* none is repeated.                                                       *)
LEMMA ElementsOf ==
    ASSUME NEW S, NEW s \in Seq(S)
    PROVE  /\ ToSet(s) \in SUBSET S
           /\ IsFiniteSet(ToSet(s)) /\ Cardinality(ToSet(s)) \in Nat
           /\ Cardinality(ToSet(s)) <= Len(s)
           /\ IsInjective(s) => Cardinality(ToSet(s)) = Len(s)
<1>1. Len(s) \in Nat /\ s \in [1..Len(s) -> S] /\ DOMAIN s = 1..Len(s)
  BY LenProperties
<1>2. s \in Surjection(1..Len(s), ToSet(s))
  BY <1>1 DEF Surjection, ToSet
<1>3. IsFiniteSet(1..Len(s)) /\ Cardinality(1..Len(s)) = Len(s)
  <2>1. 1 \in Int /\ Len(s) \in Int
    BY <1>1
  <2>2. Cardinality(1..Len(s)) = IF 1 > Len(s) THEN 0 ELSE Len(s) - 1 + 1
    BY <2>1, FS_Interval
  <2>3. Cardinality(1..Len(s)) = Len(s)
    BY <1>1, <2>2
  <2>. QED
    BY <2>1, <2>3, FS_Interval
<1>4. /\ IsFiniteSet(ToSet(s))
      /\ Cardinality(ToSet(s)) <= Cardinality(1..Len(s))
      /\ Cardinality(ToSet(s)) = Cardinality(1..Len(s))
           <=> s \in Injection(1..Len(s), ToSet(s))
  BY <1>2, <1>3, FS_Surjection
<1>5. IsInjective(s) => s \in Injection(1..Len(s), ToSet(s))
  BY <1>2 DEF Injection, Surjection
<1>6. ToSet(s) \in SUBSET S
  BY <1>1 DEF ToSet
<1>7. Cardinality(ToSet(s)) \in Nat
  BY <1>4, FS_CardinalityType
<1>. QED
  BY <1>3, <1>4, <1>5, <1>6, <1>7

(* Only keeps the elements of T, each as often as s has it.                *)
LEMMA OnlyKeeps ==
    ASSUME NEW S, NEW s \in Seq(S), NEW T
    PROVE  /\ Only(s, T) \in Seq(S)
           /\ ToSet(Only(s, T)) = ToSet(s) \cap T
           /\ IsInjective(s) => IsInjective(Only(s, T))
<1>. DEFINE kept == {i \in DOMAIN s : s[i] \in T}
            n == Cardinality(kept)
            nth == CHOOSE f \in [1..n -> kept] :
                       \A i, j \in DOMAIN f : i < j => f[i] < f[j]
            kept_s == [i \in 1..n |-> s[nth[i]]]
<1>1. Len(s) \in Nat /\ DOMAIN s = 1..Len(s) /\ \A i \in DOMAIN s : s[i] \in S
  BY LenProperties
<1>2. kept \in SUBSET (1..Len(s))
  BY <1>1
<1>3. IsFiniteSet(kept) /\ n \in Nat
  <2>1. 1 \in Int /\ Len(s) \in Int
    BY <1>1
  <2>2. IsFiniteSet(1..Len(s))
    BY <2>1, FS_Interval
  <2>. QED
    BY <1>2, <2>2, FS_Subset, FS_CardinalityType
<1>4. \E f \in [1..n -> kept] : \A i, j \in DOMAIN f : i < j => f[i] < f[j]
  <2>1. Enumerable(kept)
    BY <1>1, <1>2, Enumeration
  <2>. QED
    BY <2>1 DEF Enumerable, Increasing
<1>5. nth \in [1..n -> kept] /\ \A i, j \in DOMAIN nth : i < j => nth[i] < nth[j]
  <2>. HIDE DEF n, kept
  <2>. QED
    BY <1>4
<1>6. Only(s, T) = kept_s
  BY DEF Only
<1>. HIDE DEF nth, n
<1>7. \A i \in 1..n : nth[i] \in 1..Len(s) /\ s[nth[i]] \in S \cap T
  BY <1>1, <1>2, <1>5
<1>8. nth \in Injection(1..n, kept)
  <2>1. ASSUME NEW i \in 1..n, NEW j \in 1..n, nth[i] = nth[j] PROVE i = j
    <3>1. i \in Int /\ j \in Int /\ nth[i] \in Int /\ nth[j] \in Int
      BY <1>3, <1>7
    <3>2. ~(i < j) /\ ~(j < i)
      BY <1>5, <2>1, <3>1
    <3>. QED
      BY <3>1, <3>2
  <2>2. DOMAIN nth = 1..n
    BY <1>5
  <2>3. IsInjective(nth)
    BY <2>1, <2>2 DEF IsInjective
  <2>. QED
    BY <1>5, <2>3 DEF Injection
<1>9. \A k \in kept : \E i \in 1..n : nth[i] = k
  <2>1. Cardinality(1..n) = n
    <3>1. 1 \in Int /\ n \in Int
      BY <1>3
    <3>2. Cardinality(1..n) = IF 1 > n THEN 0 ELSE n - 1 + 1
      BY <3>1, FS_Interval
    <3>. QED
      BY <1>3, <3>2
  <2>2. nth \in Surjection(1..n, kept)
    BY <1>3, <1>8, <2>1, FS_Injection DEF n
  <2>. QED
    BY <2>2 DEF Surjection
<1>10. kept_s \in [1..n -> S] /\ DOMAIN kept_s = 1..n
  BY <1>7
<1>11. kept_s \in Seq(S)
  BY <1>3, <1>10, FunctionIsSeq
<1>12. ToSet(kept_s) = ToSet(s) \cap T
  <2>1. ASSUME NEW x \in ToSet(kept_s) PROVE x \in ToSet(s) \cap T
    <3>1. PICK i \in 1..n : x = kept_s[i]
      BY <1>10 DEF ToSet
    <3>. QED
      BY <1>1, <1>7, <3>1 DEF ToSet
  <2>2. ASSUME NEW x \in ToSet(s) \cap T PROVE x \in ToSet(kept_s)
    <3>1. PICK k \in kept : x = s[k]
      BY DEF ToSet
    <3>2. PICK i \in 1..n : nth[i] = k
      BY <1>9
    <3>3. kept_s[i] = x
      BY <3>1, <3>2
    <3>. QED
      BY <1>10, <3>3 DEF ToSet
  <2>. QED
    BY <2>1, <2>2
<1>13. ASSUME IsInjective(s) PROVE IsInjective(kept_s)
  <2>1. ASSUME NEW i \in 1..n, NEW j \in 1..n, kept_s[i] = kept_s[j] PROVE i = j
    <3>1. s[nth[i]] = s[nth[j]] /\ nth[i] \in DOMAIN s /\ nth[j] \in DOMAIN s
      BY <1>1, <1>7, <2>1
    <3>2. nth[i] = nth[j]
      BY <1>13, <3>1 DEF IsInjective
    <3>3. DOMAIN nth = 1..n
      BY <1>5
    <3>. QED
      BY <1>8, <3>2, <3>3 DEF Injection, IsInjective
  <2>. HIDE DEF kept_s
  <2>. QED
    BY <1>10, <2>1 DEF IsInjective
<1>. QED
  BY <1>6, <1>11, <1>12, <1>13

(* Rotation moves the elements of s and nothing else.                      *)
LEMMA RotationKeeps ==
    ASSUME NEW S, NEW s \in Seq(S), NEW x
    PROVE  /\ RotateAfter(s, x) \in Seq(S)
           /\ ToSet(RotateAfter(s, x)) = ToSet(s)
           /\ IsInjective(s) => IsInjective(RotateAfter(s, x))
<1>1. CASE x \notin ToSet(s)
  BY <1>1 DEF RotateAfter
<1>2. CASE x \in ToSet(s)
  <2>. DEFINE i == CHOOSE j \in DOMAIN s : s[j] = x
              n == Len(s)
              head == SubSeq(s, i + 1, n)
              tail == SubSeq(s, 1, i)
              r == head \o tail
  <2>1. n \in Nat /\ DOMAIN s = 1..n /\ \A k \in 1..n : s[k] \in S
    BY LenProperties
  <2>2. RotateAfter(s, x) = r
    BY <1>2 DEF RotateAfter
  <2>3. i \in 1..n
    <3>1. \E j \in DOMAIN s : s[j] = x
      BY <1>2 DEF ToSet
    <3>2. i \in DOMAIN s
      BY <3>1
    <3>. QED
      BY <2>1, <3>2
  <2>. HIDE DEF i, n
  <2>4. /\ head \in Seq(S) /\ Len(head) = n - i
        /\ \A k \in 1..n - i : head[k] = s[i + k]
    <3>1. i + 1 \in Int /\ n \in Int /\ n - (i + 1) + 1 = n - i
      BY <2>1, <2>3
    <3>2. \A k \in i + 1..n : s[k] \in S
      BY <2>1, <2>3
    <3>3. /\ head \in Seq(S)
          /\ Len(head) = IF i + 1 <= n THEN n - (i + 1) + 1 ELSE 0
          /\ \A k \in 1..n - (i + 1) + 1 : head[k] = s[(i + 1) + k - 1]
      BY <3>1, <3>2, SubSeqProperties
    <3>4. (IF i + 1 <= n THEN n - (i + 1) + 1 ELSE 0) = n - i
      BY <2>1, <2>3
    <3>5. \A k \in 1..n - i : (i + 1) + k - 1 = i + k
      BY <2>1, <2>3
    <3>. QED
      BY <3>1, <3>3, <3>4, <3>5
  <2>5. /\ tail \in Seq(S) /\ Len(tail) = i
        /\ \A k \in 1..i : tail[k] = s[k]
    <3>1. 1 \in Int /\ i \in Int /\ i - 1 + 1 = i
      BY <2>3
    <3>2. \A k \in 1..i : s[k] \in S
      BY <2>1, <2>3
    <3>3. /\ tail \in Seq(S)
          /\ Len(tail) = IF 1 <= i THEN i - 1 + 1 ELSE 0
          /\ \A k \in 1..i - 1 + 1 : tail[k] = s[1 + k - 1]
      BY <3>1, <3>2, SubSeqProperties
    <3>4. (IF 1 <= i THEN i - 1 + 1 ELSE 0) = i
      BY <2>3
    <3>5. \A k \in 1..i : 1 + k - 1 = k
      BY <2>3
    <3>. QED
      BY <3>1, <3>3, <3>4, <3>5
  <2>. HIDE DEF head, tail
  <2>6. /\ r \in Seq(S) /\ Len(r) = n
        /\ \A k \in 1..n : r[k] = IF k <= n - i THEN s[i + k] ELSE s[k - (n - i)]
    <3>1. /\ r \in Seq(S) /\ Len(r) = Len(head) + Len(tail)
          /\ \A k \in 1..Len(head) + Len(tail) :
               r[k] = IF k <= Len(head) THEN head[k] ELSE tail[k - Len(head)]
      BY <2>4, <2>5, ConcatProperties
    <3>2. Len(head) + Len(tail) = n
      BY <2>1, <2>3, <2>4, <2>5
    <3>3. ASSUME NEW k \in 1..n
          PROVE  r[k] = IF k <= n - i THEN s[i + k] ELSE s[k - (n - i)]
      <4>1. k <= n - i => k \in 1..n - i
        BY <2>1, <2>3
      <4>2. ~(k <= n - i) => k - (n - i) \in 1..i
        BY <2>1, <2>3
      <4>. QED
        BY <2>4, <2>5, <3>1, <3>2, <4>1, <4>2
    <3>. QED
      BY <3>1, <3>2, <3>3
  <2>. HIDE DEF r
  <2>7. DOMAIN r = 1..n
    BY <2>6, LenProperties
  <2>. DEFINE from(k) == IF k <= n - i THEN i + k ELSE k - (n - i)
  <2>8. \A k \in 1..n : from(k) \in 1..n /\ r[k] = s[from(k)]
    BY <2>1, <2>3, <2>6
  <2>9. \A k \in 1..n : \E j \in 1..n : from(j) = k
    <3>. SUFFICES ASSUME NEW k \in 1..n PROVE \E j \in 1..n : from(j) = k
      OBVIOUS
    <3>1. CASE k <= i
      <4>1. k + (n - i) \in 1..n /\ from(k + (n - i)) = k
        BY <2>1, <2>3, <3>1
      <4>. QED
        BY <4>1
    <3>2. CASE ~(k <= i)
      <4>1. k - i \in 1..n /\ from(k - i) = k
        BY <2>1, <2>3, <3>2
      <4>. QED
        BY <4>1
    <3>. QED
      BY <3>1, <3>2
  <2>10. \A j, k \in 1..n : from(j) = from(k) => j = k
    BY <2>1, <2>3
  <2>. HIDE DEF from
  <2>11. ToSet(r) = ToSet(s)
    <3>1. ASSUME NEW y \in ToSet(r) PROVE y \in ToSet(s)
      BY <2>1, <2>7, <2>8 DEF ToSet
    <3>2. ASSUME NEW y \in ToSet(s) PROVE y \in ToSet(r)
      <4>1. PICK k \in 1..n : y = s[k]
        BY <2>1 DEF ToSet
      <4>2. PICK j \in 1..n : from(j) = k
        BY <2>9
      <4>3. r[j] = y
        BY <2>8, <4>1, <4>2
      <4>. QED
        BY <2>7, <4>3 DEF ToSet
    <3>. QED
      BY <3>1, <3>2
  <2>12. IsInjective(s) => IsInjective(r)
    <3>. SUFFICES ASSUME IsInjective(s), NEW j \in 1..n, NEW k \in 1..n, r[j] = r[k]
                  PROVE  j = k
      BY <2>7 DEF IsInjective
    <3>1. from(j) = from(k)
      BY <2>1, <2>8 DEF IsInjective
    <3>. QED
      BY <2>10, <3>1
  <2>. QED
    BY <2>2, <2>6, <2>11, <2>12
<1>. QED
  BY <1>1, <1>2

(* A prefix is the whole or as long as asked for.                          *)
LEMMA PrefixKeeps ==
    ASSUME NEW S, NEW s \in Seq(S), NEW n \in Nat
    PROVE  /\ Prefix(s, n) \in Seq(S)
           /\ Len(Prefix(s, n)) <= n
           /\ Prefix(s, n) = s \/ Len(Prefix(s, n)) = n
           /\ ToSet(Prefix(s, n)) \subseteq ToSet(s)
           /\ IsInjective(s) => IsInjective(Prefix(s, n))
<1>. DEFINE l == Len(s)
            m == IF n <= l THEN n ELSE l
            p == SubSeq(s, 1, m)
<1>1. l \in Nat /\ DOMAIN s = 1..l /\ \A k \in 1..l : s[k] \in S
  BY LenProperties
<1>3. Prefix(s, n) = p
  BY DEF Prefix
<1>. HIDE DEF l
<1>2. m \in Nat /\ m <= l /\ m <= n /\ (m = n \/ m = l)
  BY <1>1
<1>. HIDE DEF m
<1>0. 1..m \subseteq 1..l
  BY <1>1, <1>2
<1>4. /\ p \in Seq(S) /\ Len(p) = m
      /\ \A k \in 1..m : p[k] = s[k]
  <2>1. 1 \in Int /\ m \in Int /\ m - 1 + 1 = m
    BY <1>2
  <2>2. \A k \in 1..m : s[k] \in S
    BY <1>0, <1>1, Zenon
  <2>3. /\ p \in Seq(S)
        /\ Len(p) = IF 1 <= m THEN m - 1 + 1 ELSE 0
        /\ \A k \in 1..m - 1 + 1 : p[k] = s[1 + k - 1]
    BY <2>1, <2>2, SubSeqProperties
  <2>4. (IF 1 <= m THEN m - 1 + 1 ELSE 0) = m
    BY <1>2
  <2>5. \A k \in 1..m : 1 + k - 1 = k
    BY <1>2
  <2>. QED
    BY <2>1, <2>3, <2>4, <2>5
<1>. HIDE DEF p
<1>5. DOMAIN p = 1..m
  BY <1>4, LenProperties
<1>6. m = l => p = s
  BY <1>4, SeqEqual DEF l
<1>7. ToSet(p) \subseteq ToSet(s)
  <2>. SUFFICES ASSUME NEW k \in 1..m PROVE p[k] \in ToSet(s)
    BY <1>5, Zenon DEF ToSet
  <2>. QED
    BY <1>0, <1>1, <1>4, Zenon DEF ToSet
<1>8. IsInjective(s) => IsInjective(p)
  <2>. SUFFICES ASSUME IsInjective(s), NEW j \in 1..m, NEW k \in 1..m, p[j] = p[k]
                PROVE  j = k
    BY <1>5 DEF IsInjective
  <2>1. s[j] = s[k] /\ j \in DOMAIN s /\ k \in DOMAIN s
    BY <1>0, <1>1, <1>4, Zenon
  <2>. QED
    BY <2>1 DEF IsInjective
<1>. QED
  BY <1>2, <1>3, <1>4, <1>6, <1>7, <1>8
-----------------------------------------------------------------------------
(* The query's order has each row once.                                    *)
LEMMA OrderIsSeq ==
    ASSUME TypeOK
    PROVE  order \in Seq(Allowances) /\ IsInjective(order) /\ ToSet(order) = Allowances
<1>. DEFINE c == Cardinality(Allowances)
<1>1. c \in Nat
  BY WorkersAssumption, FS_CardinalityType
<1>2. /\ order \in [1..c -> Allowances] /\ IsInjective(order)
      /\ \A a \in Allowances : \E i \in 1..c : order[i] = a
  BY DEF TypeOK, Bijection, Injection, Surjection
<1>. HIDE DEF c
<1>3. order \in Seq(Allowances) /\ DOMAIN order = 1..c
  BY <1>1, <1>2, FunctionIsSeq
<1>4. ToSet(order) = Allowances
  BY <1>2, <1>3 DEF ToSet
<1>. QED
  BY <1>2, <1>3, <1>4

(* A finished row goes to the end of it.                                   *)
LEMMA MovedToEnd ==
    ASSUME TypeOK, NEW a \in Allowances
    PROVE  Append(Only(order, Allowances \ {a}), a)
             \in Bijection(1..Cardinality(Allowances), Allowances)
<1>. DEFINE c == Cardinality(Allowances)
            o == Only(order, Allowances \ {a})
            s == Append(o, a)
<1>1. /\ o \in Seq(Allowances) /\ IsInjective(o)
      /\ ToSet(o) = Allowances \ {a}
  BY OrderIsSeq, OnlyKeeps
<1>2. IsFiniteSet(Allowances) /\ c \in Nat
  BY WorkersAssumption, FS_CardinalityType
<1>3. Cardinality(Allowances \ {a}) = c - 1
  BY <1>2, FS_RemoveElement
<1>. HIDE DEF c, o
<1>4. Len(o) = c - 1
  BY <1>1, <1>3, ElementsOf
<1>5. DOMAIN o = 1..c - 1 /\ c - 1 \in Nat /\ \A i \in 1..c - 1 : o[i] \in Allowances
  BY <1>1, <1>4, LenProperties
<1>6. /\ s \in Seq(Allowances) /\ Len(s) = (c - 1) + 1
      /\ \A i \in 1..c - 1 : s[i] = o[i]
      /\ s[(c - 1) + 1] = a
  BY <1>1, <1>4, AppendProperties
<1>7. (c - 1) + 1 = c /\ \A i \in 1..c : i # c => i \in 1..c - 1
  BY <1>2
<1>. HIDE DEF s
<1>8. s \in [1..c -> Allowances] /\ DOMAIN s = 1..c
  BY <1>6, <1>7, LenProperties
<1>9. \A i \in 1..c - 1 : o[i] # a
  BY <1>1, <1>5 DEF ToSet
<1>10. IsInjective(s)
  <2>. SUFFICES ASSUME NEW i \in 1..c, NEW j \in 1..c, s[i] = s[j] PROVE i = j
    BY <1>8 DEF IsInjective
  <2>1. CASE i = c \/ j = c
    BY <1>6, <1>7, <1>9, <2>1
  <2>2. CASE i # c /\ j # c
    <3>1. i \in DOMAIN o /\ j \in DOMAIN o /\ o[i] = o[j]
      BY <1>5, <1>6, <1>7, <2>2
    <3>. QED
      BY <1>1, <3>1 DEF IsInjective
  <2>. QED
    BY <2>1, <2>2
<1>11. \A b \in Allowances : \E i \in 1..c : s[i] = b
  <2>. SUFFICES ASSUME NEW b \in Allowances PROVE \E i \in 1..c : s[i] = b
    OBVIOUS
  <2>1. CASE b = a
    <3>1. c \in 1..c /\ s[c] = a
      BY <1>5, <1>6, <1>7
    <3>. QED
      BY <2>1, <3>1
  <2>2. CASE b # a
    <3>1. PICK i \in 1..c - 1 : o[i] = b
      BY <1>1, <1>5, <2>2 DEF ToSet
    <3>2. i \in 1..c /\ s[i] = b
      BY <1>2, <1>5, <1>6, <3>1
    <3>. QED
      BY <3>2
  <2>. QED
    BY <2>1, <2>2
<1>. QED
  BY <1>8, <1>10, <1>11 DEF Bijection, Injection, Surjection, c, o, s

(* The wallets a poll considers, each once: those with a row on offer.     *)
LEMMA WalletsOfOffered ==
    ASSUME TypeOK
    PROVE  /\ WalletOrder \in Seq(Wallets)
           /\ IsInjective(WalletOrder)
           /\ ToSet(WalletOrder) = {WalletOf[a] : a \in Offered}
           /\ \A w \in Wallets : Queued(w) \in Seq(Allowances)
<1>. DEFINE heads == {a \in Offered : a = Head(Queued(WalletOf[a]))}
            first == Only(order, heads)
<1>1. Offered \subseteq Allowances /\ WalletOf \in [Allowances -> Wallets]
  BY WorkersAssumption DEF TypeOK, Offered
<1>2. \A w \in Wallets :
        /\ Queued(w) \in Seq(Allowances)
        /\ ToSet(Queued(w)) = {a \in Offered : WalletOf[a] = w}
  BY <1>1, OrderIsSeq, OnlyKeeps DEF Queued
<1>3. /\ first \in Seq(Allowances) /\ IsInjective(first)
      /\ ToSet(first) = heads
  BY <1>1, OrderIsSeq, OnlyKeeps
<1>4. WalletOrder = [i \in DOMAIN first |-> WalletOf[first[i]]]
  BY DEF WalletOrder
<1>5. \A a \in heads : a \in Offered /\ a = Head(Queued(WalletOf[a]))
  OBVIOUS
<1>6. \A a \in Offered : \E h \in heads : WalletOf[h] = WalletOf[a]
  <2>. SUFFICES ASSUME NEW a \in Offered PROVE \E h \in heads : WalletOf[h] = WalletOf[a]
    OBVIOUS
  <2>. DEFINE w == WalletOf[a]
              q == Queued(w)
  <2>1. w \in Wallets /\ q \in Seq(Allowances) /\ a \in ToSet(q)
    BY <1>1, <1>2
  <2>2. q # <<>> /\ Head(q) = q[1] /\ 1 \in DOMAIN q
    <3>1. DOMAIN q = 1..Len(q) /\ Len(q) \in Nat
      BY <2>1, LenProperties
    <3>2. Len(q) # 0
      BY <2>1, <3>1 DEF ToSet
    <3>. HIDE DEF q
    <3>. QED
      BY <2>1, <3>1, <3>2
  <2>3. Head(q) \in ToSet(q)
    BY <2>2 DEF ToSet
  <2>4. Head(q) \in Offered /\ WalletOf[Head(q)] = w
    BY <1>2, <2>1, <2>3
  <2>5. Head(q) \in heads
    BY <2>4
  <2>. QED
    BY <2>4, <2>5
<1>. HIDE DEF heads, first
<1>7. /\ Len(first) \in Nat /\ DOMAIN first = 1..Len(first)
      /\ \A i \in DOMAIN first : first[i] \in Allowances /\ first[i] \in heads
  BY <1>3, LenProperties DEF ToSet
<1>8. DOMAIN WalletOrder = 1..Len(first) /\ WalletOrder \in [1..Len(first) -> Wallets]
  BY <1>1, <1>4, <1>7
<1>9. WalletOrder \in Seq(Wallets)
  BY <1>7, <1>8, FunctionIsSeq
<1>10. IsInjective(WalletOrder)
  <2>. SUFFICES ASSUME NEW i \in DOMAIN first, NEW j \in DOMAIN first,
                       WalletOf[first[i]] = WalletOf[first[j]]
                PROVE  i = j
    BY <1>4, <1>7, <1>8 DEF IsInjective
  <2>1. first[i] = first[j]
    BY <1>5, <1>7
  <2>. QED
    BY <1>3, <2>1 DEF IsInjective
<1>11. ToSet(WalletOrder) = {WalletOf[a] : a \in heads}
  BY <1>3, <1>4, <1>7, <1>8 DEF ToSet
<1>12. {WalletOf[a] : a \in heads} = {WalletOf[a] : a \in Offered}
  BY <1>5, <1>6
<1>. QED
  BY <1>2, <1>9, <1>10, <1>11, <1>12

(* With the tasks that are left, a poll fills the slots, or starts all      *)
(* wallets with a row on offer; it starts no wallet twice.                 *)
LEMMA PollFills ==
    ASSUME TypeOK,
           NEW occupied \in [Wallets -> Tasks \cup {None}],
           NEW Busy, Busy = {w \in Wallets : occupied[w] # None},
           Cardinality(Busy) <= MaxRunning,
           NEW Started, Started = ToSet(Startable(occupied))
    PROVE  /\ Startable(occupied) \in Seq(Wallets)
           /\ Started \subseteq Wallets \ Busy
           /\ Cardinality(Busy \cup Started) <= MaxRunning
           /\ \/ \A a \in Offered : WalletOf[a] \in Busy \cup Started
              \/ Cardinality(Busy \cup Started) = MaxRunning
<1>. DEFINE rotated == RotateAfter(WalletOrder, last_wallet)
            idle == Only(rotated, {w \in Wallets : occupied[w] = None})
            n == MaxRunning - Cardinality(Busy)
            started == Prefix(idle, n)
<1>1. IsFiniteSet(Busy) /\ Cardinality(Busy) \in Nat
  <2>1. Busy \in SUBSET Wallets
    OBVIOUS
  <2>. QED
    BY <2>1, WorkersAssumption, FS_Subset, FS_CardinalityType
<1>2. n \in Nat
  BY <1>1, WorkersAssumption
<1>3. Startable(occupied) = started
  BY DEF Startable
<1>4. /\ rotated \in Seq(Wallets) /\ IsInjective(rotated)
      /\ ToSet(rotated) = {WalletOf[a] : a \in Offered}
  BY WalletsOfOffered, RotationKeeps
<1>. HIDE DEF rotated, n
<1>5. /\ idle \in Seq(Wallets) /\ IsInjective(idle)
      /\ ToSet(idle) = {WalletOf[a] : a \in Offered}
                          \cap {w \in Wallets : occupied[w] = None}
  BY <1>4, OnlyKeeps
<1>. HIDE DEF idle
<1>6. /\ started \in Seq(Wallets) /\ IsInjective(started)
      /\ Len(started) <= n /\ ToSet(started) \subseteq ToSet(idle)
      /\ started = idle \/ Len(started) = n
  BY <1>2, <1>5, PrefixKeeps
<1>. HIDE DEF started
<1>7. /\ IsFiniteSet(Started) /\ Cardinality(Started) \in Nat
      /\ Cardinality(Started) = Len(started)
  BY <1>3, <1>6, ElementsOf
<1>8. Started \subseteq Wallets \ Busy
  BY <1>3, <1>5, <1>6
<1>9. Cardinality(Busy \cup Started) = Cardinality(Busy) + Cardinality(Started)
  <2>0. Busy \cap Started = {}
    BY <1>8
  <2>1. Cardinality(Busy \cap Started) = 0
    BY <2>0, FS_EmptySet
  <2>2. Cardinality(Busy \cup Started) =
          Cardinality(Busy) + Cardinality(Started) - Cardinality(Busy \cap Started)
    BY <1>1, <1>7, FS_Union
  <2>. QED
    BY <1>1, <1>7, <2>1, <2>2
<1>10. Cardinality(Busy \cup Started) <= MaxRunning
  BY <1>1, <1>2, <1>6, <1>7, <1>9, WorkersAssumption DEF n
<1>11. CASE started = idle
  <2>1. \A a \in Offered : WalletOf[a] \in Busy \cup Started
    <3>1. \A a \in Offered : WalletOf[a] \in Wallets
      BY WorkersAssumption DEF Offered, TypeOK
    <3>2. Started = ToSet(idle)
      BY <1>3, <1>11
    <3>. QED
      BY <1>5, <3>1, <3>2
  <2>. QED
    BY <1>3, <1>6, <1>8, <1>10, <2>1
<1>12. CASE Len(started) = n
  <2>1. Cardinality(Busy \cup Started) = MaxRunning
    BY <1>1, <1>7, <1>9, <1>12, WorkersAssumption DEF n
  <2>. QED
    BY <1>3, <1>6, <1>8, <1>10, <2>1
<1>. QED
  BY <1>6, <1>11, <1>12
-----------------------------------------------------------------------------
(* Steps                                                                   *)

(* The steps of the scheduler and its surroundings, but for the heartbeat. *)
WorkersStep ==
    \/ StartCycle \/ Heartbeat \/ Poll \/ PollFails \/ Collect \/ Decide \/ Wake
    \/ Tick \/ Restart
    \/ \E w \in Wallets : TaskStep(w)
    \/ \E a \in Allowances : UserChanges(a)

LEMMA HealthStep == [HealthNext]_allvars => [WorkersStep]_vars
BY DEF HealthNext, allvars, WorkersStep, HeartbeatRecorded, PollFailsRecorded,
    DecideRecorded, TickRecorded, CycleUnrecorded, RestartUnrecorded,
    TaskUnrecorded, UserUnrecorded

Busy == {w \in Wallets : IsRunning(w)}

(* collect() only frees slots, and does nothing if no task has ended.      *)
LEMMA CollectFrees ==
    ASSUME TypeOK
    PROVE  /\ Collected \in [Wallets -> Tasks \cup {None}]
           /\ \A w \in Wallets : Collected[w] \in {running[w], None}
           /\ \A w \in Wallets :
                IsRunning(w) /\ running[w].pc = "run" => Collected[w] = running[w]
           /\ ~AnyEnded => Collected = running
           /\ AnyEnded \in BOOLEAN /\ AnyFailed \in BOOLEAN
<1>1. running \in [Wallets -> Tasks \cup {None}]
  BY DEF TypeOK
<1>2. \A w \in Wallets : Collected[w] = IF Ended(w) THEN None ELSE running[w]
  BY DEF Collected
<1>3. \A w \in Wallets : running[w].pc = "run" => ~Ended(w)
  BY DEF Ended
<1>4. ~AnyEnded => Collected = running
  <2>. SUFFICES ASSUME \A w \in Wallets : ~Ended(w) PROVE Collected = running
    BY DEF AnyEnded
  <2>. QED
    BY <1>1 DEF Collected
<1>5. Collected \in [Wallets -> Tasks \cup {None}]
  BY <1>1 DEF Collected
<1>. QED
  BY <1>2, <1>3, <1>4, <1>5 DEF AnyEnded, AnyFailed

LEMMA LeftFits ==
    ASSUME TypeOK, SlotsBounded
    PROVE  Cardinality({w \in Wallets : Collected[w] # None}) <= MaxRunning
<1>. DEFINE left == {w \in Wallets : Collected[w] # None}
<1>1. left \in SUBSET Busy
  BY CollectFrees DEF Busy, IsRunning
<1>2. IsFiniteSet(Busy)
  BY WorkersAssumption, FS_Subset DEF Busy
<1>3. /\ Cardinality(left) <= Cardinality(Busy)
      /\ Cardinality(left) \in Nat /\ Cardinality(Busy) \in Nat
  BY <1>1, <1>2, FS_Subset, FS_CardinalityType
<1>4. Cardinality(Busy) <= MaxRunning
  BY DEF SlotsBounded, Busy
<1>. HIDE DEF left
<1>5. Cardinality(left) <= MaxRunning
  BY <1>3, <1>4, WorkersAssumption
<1>. QED
  BY <1>5 DEF left

(* Slots that no step takes stay as they are.                              *)
LEMMA SlotsKept ==
    ASSUME TypeOK, SlotsBounded,
           \A w \in Wallets : running'[w] # None => running[w] # None
    PROVE  /\ SlotsBounded'
           /\ (\A w \in Wallets : running'[w] = None => running[w] = None) =>
                /\ SlotsFull' = SlotsFull
                /\ \A w \in Wallets : IsRunning(w)' = IsRunning(w)
<1>1. Busy' \in SUBSET Busy /\ Busy \in SUBSET Wallets
  BY DEF Busy, IsRunning
<1>2. IsFiniteSet(Busy) /\ Cardinality(Busy) \in Nat
  BY <1>1, WorkersAssumption, FS_Subset, FS_CardinalityType
<1>3. Cardinality(Busy') <= Cardinality(Busy) /\ Cardinality(Busy') \in Nat
  BY <1>1, <1>2, FS_Subset, FS_CardinalityType
<1>4. Cardinality(Busy') <= MaxRunning
  BY <1>2, <1>3, WorkersAssumption DEF SlotsBounded, Busy
<1>5. ASSUME \A w \in Wallets : running'[w] = None => running[w] = None
      PROVE  Busy' = Busy /\ \A w \in Wallets : IsRunning(w)' = IsRunning(w)
  BY <1>5 DEF Busy, IsRunning
<1>. QED
  BY <1>4, <1>5 DEF SlotsBounded, SlotsFull, Busy

(* A task about to start is a task.                                        *)
LEMMA NewTaskTyped ==
    ASSUME TypeOK, NEW w \in Wallets
    PROVE  NewTask(w) \in Tasks /\ NewTask(w) # None
<1>1. Queued(w) \in Seq(Allowances)
  BY WalletsOfOffered
<1>2. Batch \in Nat /\ Minute \in Nat
  BY WorkersAssumption
<1>3. Prefix(RotateAfter(Queued(w), last_allowance[w]), Batch) \in Seq(Allowances)
  BY <1>1, <1>2, RotationKeeps, PrefixKeeps
<1>4. NewTask(w) \in Tasks
  BY <1>2, <1>3 DEF NewTask, Tasks
<1>. QED
  BY <1>4, TaskAssumption

(* The coroutine's state after its steps.                                  *)
LoopPcs == {"down", "start", "heartbeat", "poll", "polled", "decide",
            "wait", "sleep", "backoff"}

LoopAt(m, p, g, t, c, f) ==
    /\ m \in Loops
    /\ m.pc = p /\ m.grid = g /\ m.timer = t /\ m.completed = c /\ m.failed = f

LEMMA LoopMoves ==
    ASSUME NEW l \in Loops, NEW p \in LoopPcs, NEW g \in 0..Minute,
           NEW t \in 0..Minute, NEW c \in BOOLEAN, NEW f \in BOOLEAN
    PROVE  /\ LoopAt([l EXCEPT !.pc = p, !.completed = c, !.failed = f, !.grid = g],
                     p, g, l.timer, c, f)
           /\ LoopAt([l EXCEPT !.pc = p, !.timer = t, !.completed = c, !.failed = f],
                     p, l.grid, t, c, f)
           /\ LoopAt([l EXCEPT !.pc = p, !.grid = g, !.timer = t,
                              !.completed = c, !.failed = f],
                     p, g, t, c, f)
<1>1. ASSUME NEW m \in Loops
      PROVE  LoopAt([m EXCEPT !.completed = c, !.failed = f],
                    m.pc, m.grid, m.timer, c, f)
  BY DEF LoopAt, Loops
<1>2. ASSUME NEW m \in Loops PROVE LoopAt([m EXCEPT !.pc = p],
                                          p, m.grid, m.timer, m.completed, m.failed)
  BY DEF LoopAt, Loops, LoopPcs
<1>3. ASSUME NEW m \in Loops PROVE LoopAt([m EXCEPT !.grid = g],
                                          m.pc, g, m.timer, m.completed, m.failed)
  BY DEF LoopAt, Loops
<1>4. ASSUME NEW m \in Loops PROVE LoopAt([m EXCEPT !.timer = t],
                                          m.pc, m.grid, t, m.completed, m.failed)
  BY DEF LoopAt, Loops
<1>. DEFINE a == [l EXCEPT !.pc = p]
<1>5. LoopAt(a, p, l.grid, l.timer, l.completed, l.failed)
  BY <1>2
<1>. HIDE DEF a
<1>6. LoopAt([a EXCEPT !.completed = c, !.failed = f, !.grid = g], p, g, l.timer, c, f)
  <2>. DEFINE b == [a EXCEPT !.completed = c, !.failed = f]
  <2>1. LoopAt(b, p, l.grid, l.timer, c, f)
    BY <1>1, <1>5 DEF LoopAt
  <2>. HIDE DEF b
  <2>2. LoopAt([b EXCEPT !.grid = g], p, g, l.timer, c, f)
    BY <1>3, <2>1 DEF LoopAt
  <2>. QED
    BY <2>2 DEF b
<1>7. LoopAt([a EXCEPT !.timer = t, !.completed = c, !.failed = f], p, l.grid, t, c, f)
  <2>. DEFINE b == [a EXCEPT !.timer = t]
  <2>1. LoopAt(b, p, l.grid, t, l.completed, l.failed)
    BY <1>4, <1>5 DEF LoopAt
  <2>. HIDE DEF b
  <2>2. LoopAt([b EXCEPT !.completed = c, !.failed = f], p, l.grid, t, c, f)
    BY <1>1, <2>1 DEF LoopAt
  <2>. QED
    BY <2>2 DEF b
<1>8. LoopAt([a EXCEPT !.grid = g, !.timer = t, !.completed = c, !.failed = f],
             p, g, t, c, f)
  <2>. DEFINE b == [a EXCEPT !.grid = g]
              d == [b EXCEPT !.timer = t]
  <2>1. LoopAt(b, p, g, l.timer, l.completed, l.failed)
    BY <1>3, <1>5 DEF LoopAt
  <2>. HIDE DEF b
  <2>2. LoopAt(d, p, g, t, l.completed, l.failed)
    BY <1>4, <2>1 DEF LoopAt
  <2>. HIDE DEF d
  <2>3. LoopAt([d EXCEPT !.completed = c, !.failed = f], p, g, t, c, f)
    BY <1>1, <2>2 DEF LoopAt
  <2>. QED
    BY <2>3 DEF b, d
<1>. QED
  BY <1>6, <1>7, <1>8 DEF a

(* What the steps of the coroutine make of its state.                      *)
AfterDecide ==
    IF loop.failed THEN "backoff" ELSE IF loop.completed THEN "start"
    ELSE IF \A w \in Wallets : running[w] = None THEN "sleep" ELSE "wait"

LEMMA LoopSteps ==
    ASSUME TypeOK
    PROVE  /\ StartCycle =>
                \E g \in 1..Minute :
                  LoopAt(loop', "heartbeat", g, loop.timer, FALSE, AnyFailed)
           /\ Heartbeat => LoopAt(loop', "poll", loop.grid, loop.timer,
                                  loop.completed, loop.failed)
           /\ Poll => LoopAt(loop', "polled", loop.grid, loop.timer, AnyEnded,
                             loop.failed \/ AnyFailed)
           /\ Collect => LoopAt(loop', "decide", loop.grid, loop.timer,
                                loop.completed \/ AnyEnded, loop.failed \/ AnyFailed)
           /\ PollFails => LoopAt(loop', "decide", loop.grid, loop.timer,
                                  loop.completed, TRUE)
           /\ Decide =>
                LoopAt(loop', AfterDecide, loop.grid,
                       IF AfterDecide = "backoff" THEN Minute ELSE 0, FALSE, FALSE)
           /\ Wake => LoopAt(loop', "start", loop.grid, loop.timer,
                             loop.completed, loop.failed)
           /\ Tick => LoopAt(loop', loop.pc, Less(loop.grid), Less(loop.timer),
                             loop.completed, loop.failed)
           /\ Restart => LoopAt(loop', "down", 0, 0, FALSE, FALSE)
<1>0. /\ loop \in Loops /\ Minute \in Nat \ {0}
      /\ loop.grid \in 0..Minute /\ loop.timer \in 0..Minute
      /\ loop.completed \in BOOLEAN /\ loop.failed \in BOOLEAN /\ loop.pc \in LoopPcs
      /\ AnyEnded \in BOOLEAN /\ AnyFailed \in BOOLEAN
      /\ 0 \in 0..Minute /\ Minute \in 0..Minute
  BY WorkersAssumption, CollectFrees DEF TypeOK, Loops, LoopPcs
<1>1. ASSUME StartCycle
      PROVE  \E g \in 1..Minute :
               LoopAt(loop', "heartbeat", g, loop.timer, FALSE, AnyFailed)
  <2>1. PICK g \in 1..Minute :
          loop' = [loop EXCEPT !.pc = "heartbeat", !.completed = FALSE,
                               !.failed = AnyFailed, !.grid = g]
    BY <1>0, <1>1 DEF StartCycle
  <2>2. g \in 0..Minute /\ "heartbeat" \in LoopPcs
    BY <1>0 DEF LoopPcs
  <2>3. LoopAt(loop', "heartbeat", g, loop.timer, FALSE, AnyFailed)
    BY <1>0, <2>1, <2>2, LoopMoves
  <2>. QED
    BY <2>2, <2>3
<1>2. ASSUME Heartbeat
      PROVE  LoopAt(loop', "poll", loop.grid, loop.timer, loop.completed, loop.failed)
  BY <1>0, <1>2 DEF Heartbeat, LoopAt, Loops
<1>3. ASSUME Poll
      PROVE  LoopAt(loop', "polled", loop.grid, loop.timer, AnyEnded,
                    loop.failed \/ AnyFailed)
  <2>1. loop' = [loop EXCEPT !.pc = "polled", !.completed = AnyEnded,
                             !.failed = loop.failed \/ AnyFailed]
    BY <1>0, <1>3 DEF Poll
  <2>2. (loop.failed \/ AnyFailed) \in BOOLEAN
    OBVIOUS
  <2>. QED
    BY <1>0, <2>1, <2>2 DEF LoopAt, Loops
<1>4. ASSUME Collect
      PROVE  LoopAt(loop', "decide", loop.grid, loop.timer,
                    loop.completed \/ AnyEnded, loop.failed \/ AnyFailed)
  <2>1. loop' = [loop EXCEPT !.pc = "decide",
                             !.completed = loop.completed \/ AnyEnded,
                             !.failed = loop.failed \/ AnyFailed]
    BY <1>0, <1>4 DEF Collect
  <2>2. (loop.failed \/ AnyFailed) \in BOOLEAN /\ (loop.completed \/ AnyEnded) \in BOOLEAN
    OBVIOUS
  <2>. QED
    BY <1>0, <2>1, <2>2 DEF LoopAt, Loops
<1>5. ASSUME PollFails
      PROVE  LoopAt(loop', "decide", loop.grid, loop.timer, loop.completed, TRUE)
  BY <1>0, <1>5 DEF PollFails, LoopAt, Loops
<1>6. ASSUME Decide
      PROVE  LoopAt(loop', AfterDecide, loop.grid,
                    IF AfterDecide = "backoff" THEN Minute ELSE 0, FALSE, FALSE)
  <2>. DEFINE t == IF AfterDecide = "backoff" THEN Minute ELSE 0
  <2>1. t \in 0..Minute /\ AfterDecide \in LoopPcs
    BY <1>0 DEF LoopPcs, AfterDecide
  <2>2. loop' = [loop EXCEPT !.pc = AfterDecide, !.timer = t,
                             !.completed = FALSE, !.failed = FALSE]
    BY <1>6 DEF Decide, AfterDecide
  <2>. HIDE DEF t
  <2>3. LoopAt(loop', AfterDecide, loop.grid, t, FALSE, FALSE)
    BY <1>0, <2>1, <2>2, LoopMoves
  <2>. QED
    BY <2>3 DEF t
<1>7. ASSUME Wake
      PROVE  LoopAt(loop', "start", loop.grid, loop.timer, loop.completed, loop.failed)
  BY <1>0, <1>7 DEF Wake, LoopAt, Loops
<1>8. ASSUME Tick
      PROVE  LoopAt(loop', loop.pc, Less(loop.grid), Less(loop.timer),
                    loop.completed, loop.failed)
  <2>1. Less(loop.grid) \in 0..Minute /\ Less(loop.timer) \in 0..Minute
    BY <1>0 DEF Less
  <2>. QED
    BY <1>0, <1>8, <2>1 DEF Tick, LoopAt, Loops
<1>9. ASSUME Restart PROVE LoopAt(loop', "down", 0, 0, FALSE, FALSE)
  <2>1. "down" \in LoopPcs
    BY DEF LoopPcs
  <2>2. loop' = [loop EXCEPT !.pc = "down", !.grid = 0, !.timer = 0,
                             !.completed = FALSE, !.failed = FALSE]
    BY <1>9 DEF Restart
  <2>. QED
    BY <1>0, <2>1, <2>2, LoopMoves
<1>. QED
  BY <1>1, <1>2, <1>3, <1>4, <1>5, <1>6, <1>7, <1>8, <1>9

LEMMA TypeStep ==
    ASSUME TypeOK, SlotsBounded, [WorkersStep]_vars
    PROVE  TypeOK'
<1>0. /\ ready \in SUBSET Allowances
      /\ rest \in [Allowances -> 0..Minute]
      /\ running \in [Wallets -> Tasks \cup {None}]
      /\ last_wallet \in Wallets \cup {None}
      /\ last_allowance \in [Wallets -> Allowances \cup {None}]
      /\ offered \in SUBSET Allowances
      /\ loop \in Loops
      /\ Minute \in Nat
      /\ \A w \in Wallets : IsRunning(w) => running[w] \in Tasks
  BY WorkersAssumption DEF TypeOK, IsRunning
<1>1. CASE StartCycle
  <2>1. running' \in [Wallets -> Tasks \cup {None}] /\ AnyFailed \in BOOLEAN
    BY <1>1, CollectFrees DEF StartCycle
  <2>2. loop' \in Loops
    BY <1>1, LoopSteps DEF LoopAt
  <2>. QED
    BY <1>1, <2>1, <2>2 DEF StartCycle, TypeOK
<1>2. CASE Poll
  <2>. DEFINE started == Startable(Collected)
  <2>1. \A w \in Wallets : NewTask(w) \in Tasks
    BY NewTaskTyped
  <2>2. running' \in [Wallets -> Tasks \cup {None}]
    <3>1. running' = [w \in Wallets |->
                        IF w \in ToSet(started) THEN NewTask(w) ELSE Collected[w]]
      BY <1>2 DEF Poll
    <3>. HIDE DEF started
    <3>. QED
      BY <2>1, <3>1, CollectFrees
  <2>3. last_wallet' \in Wallets \cup {None}
    <3>1. started \in Seq(Wallets)
      <4>1. Cardinality({w \in Wallets : Collected[w] # None}) <= MaxRunning
        BY LeftFits
      <4>. QED
        BY <4>1, CollectFrees, PollFills
    <3>2. last_wallet' = IF started = <<>> THEN last_wallet ELSE Last(started)
      BY <1>2 DEF Poll
    <3>. HIDE DEF started
    <3>3. started # <<>> => Last(started) \in Wallets
      <4>1. started # <<>> => Len(started) \in Nat \ {0}
        BY <3>1, EmptySeq
      <4>2. started # <<>> => Len(started) \in 1..Len(started)
        BY <4>1
      <4>. QED
        BY <3>1, <4>2, ElementOfSeq DEF Last
    <3>. QED
      BY <1>0, <3>2, <3>3
  <2>4. loop' \in Loops
    BY <1>2, LoopSteps DEF LoopAt
  <2>5. offered' \in SUBSET Allowances
    BY <1>0, <1>2 DEF Poll, Offered
  <2>6. UNCHANGED <<ready, order, rest, last_allowance>>
    BY <1>2 DEF Poll
  <2>. QED
    BY <2>2, <2>3, <2>4, <2>5, <2>6 DEF TypeOK
<1>3. CASE PollFails
  <2>1. loop' \in Loops
    BY <1>3, LoopSteps DEF LoopAt
  <2>. QED
    BY <1>3, <2>1 DEF PollFails, TypeOK
<1>4. CASE Collect
  <2>1. running' \in [Wallets -> Tasks \cup {None}]
    BY <1>4, CollectFrees DEF Collect
  <2>2. loop' \in Loops
    BY <1>4, LoopSteps DEF LoopAt
  <2>. QED
    BY <1>4, <2>1, <2>2 DEF Collect, TypeOK
<1>5. CASE Heartbeat \/ Decide \/ Wake
  <2>1. loop' \in Loops
    BY <1>5, LoopSteps DEF LoopAt
  <2>. QED
    BY <1>5, <2>1 DEF Heartbeat, Decide, Wake, TypeOK
<1>6. CASE Tick
  <2>1. \A n \in 0..Minute : Less(n) \in 0..Minute
    BY <1>0 DEF Less
  <2>2. loop' \in Loops
    BY <1>6, LoopSteps DEF LoopAt
  <2>3. ready' \in SUBSET Allowances
    BY <1>0, <1>6, WorkersAssumption DEF Tick
  <2>4. rest' \in [Allowances -> 0..Minute]
    BY <1>0, <1>6, <2>1 DEF Tick
  <2>5. running' \in [Wallets -> Tasks \cup {None}]
    <3>1. ASSUME NEW t \in Tasks, t.age < Minute
          PROVE  [t EXCEPT !.age = @ + 1] \in Tasks
      <4>1. t.age + 1 \in 0..Minute
        BY <1>0, <3>1 DEF Tasks
      <4>. QED
        BY <4>1 DEF Tasks
    <3>2. running' = [w \in Wallets |->
            IF IsRunning(w) /\ running[w].age < Minute
              THEN [running[w] EXCEPT !.age = @ + 1] ELSE running[w]]
      BY <1>6 DEF Tick
    <3>. QED
      BY <1>0, <3>1, <3>2
  <2>. QED
    BY <1>6, <2>2, <2>3, <2>4, <2>5 DEF Tick, TypeOK
<1>7. CASE Restart
  <2>1. loop' \in Loops
    BY <1>7, LoopSteps DEF LoopAt
  <2>. QED
    BY <1>0, <1>7, <2>1 DEF Restart, TypeOK
<1>8. ASSUME NEW a \in Allowances
      PROVE  Outdated(a) \in [Wallets -> Tasks \cup {None}]
  <2>1. ASSUME NEW t \in Tasks PROVE [t EXCEPT !.stale = @ \cup {a}] \in Tasks
    BY DEF Tasks
  <2>. QED
    BY <1>0, <2>1 DEF Outdated
<1>9. ASSUME NEW w \in Wallets, TaskStep(w) PROVE TypeOK'
  <2>1. CASE BeginRow(w)
    <3>. DEFINE t == running[w]
                a == Head(t.queue)
                u == [t EXCEPT !.at = a, !.queue = Tail(t.queue)]
    <3>1. t \in Tasks /\ t.queue # <<>>
      BY <1>0, <2>1 DEF BeginRow
    <3>2. t.queue \in Seq(Allowances) /\ t.age \in 0..Minute
      BY <3>1 DEF Tasks
    <3>3. a \in Allowances /\ Tail(t.queue) \in Seq(Allowances)
      BY <3>1, <3>2, HeadTailProperties
    <3>4. u \in Tasks
      <4>. HIDE DEF a, t
      <4>. QED
        BY <3>1, <3>3 DEF Tasks
    <3>5. /\ running' = [running EXCEPT ![w] = u]
          /\ last_allowance' = [last_allowance EXCEPT ![w] = a]
          /\ rest' = [rest EXCEPT ![a] = IF a \in t.stale THEN 0 ELSE Minute - t.age]
          /\ UNCHANGED <<ready, order, last_wallet, offered, loop>>
      BY <1>0, <2>1 DEF BeginRow
    <3>6. (IF a \in t.stale THEN 0 ELSE Minute - t.age) \in 0..Minute
      <4>. HIDE DEF a, t
      <4>. QED
        BY <1>0, <3>2
    <3>. HIDE DEF a, t, u
    <3>. QED
      BY <1>0, <3>3, <3>4, <3>5, <3>6 DEF TypeOK
  <2>2. CASE EndUnchanged(w)
    <3>. DEFINE u == [running[w] EXCEPT !.at = None]
    <3>1. u \in Tasks
      BY <1>0, <2>2 DEF EndUnchanged, Tasks
    <3>2. running' = [running EXCEPT ![w] = u]
      BY <1>0, <2>2 DEF EndUnchanged
    <3>. HIDE DEF u
    <3>. QED
      BY <1>0, <2>2, <3>1, <3>2 DEF EndUnchanged, TypeOK
  <2>3. CASE EndChanged(w)
    <3>. DEFINE a == running[w].at
                u == [Outdated(a)[w] EXCEPT !.at = None]
    <3>1. a \in Allowances
      BY <1>0, <2>3 DEF EndChanged, Tasks
    <3>2. Outdated(a) \in [Wallets -> Tasks \cup {None}] /\ Outdated(a)[w] \in Tasks
      <4>1. Outdated(a)[w] # None
        <5>1. Outdated(a)[w] = [running[w] EXCEPT !.stale = @ \cup {a}]
          BY <2>3 DEF EndChanged, Outdated
        <5>2. Outdated(a)[w] \in Tasks
          <6>1. running[w] \in Tasks
            BY <1>0, <2>3 DEF EndChanged
          <6>. QED
            BY <3>1, <5>1, <6>1 DEF Tasks
        <5>. QED
          BY <5>2, TaskAssumption
      <4>2. Outdated(a) \in [Wallets -> Tasks \cup {None}]
        BY <1>8, <3>1
      <4>. QED
        BY <4>1, <4>2
    <3>. DEFINE o == Outdated(a)
    <3>3. running' = [o EXCEPT ![w] = [o[w] EXCEPT !.at = None]]
      BY <2>3, <3>2 DEF EndChanged
    <3>4. /\ rest' = [rest EXCEPT ![a] = 0]
          /\ offered' = offered \ {a}
          /\ UNCHANGED <<last_wallet, last_allowance, loop>>
      BY <2>3 DEF EndChanged
    <3>5. ready' \in SUBSET Allowances
      BY <1>0, <2>3 DEF EndChanged
    <3>6. order' \in Bijection(1..Cardinality(Allowances), Allowances)
      <4>1. order' = order \/ order' = Append(Only(order, Allowances \ {a}), a)
        BY <2>3 DEF EndChanged
      <4>. QED
        BY <3>1, <4>1, MovedToEnd DEF TypeOK
    <3>. HIDE DEF a, o
    <3>7. [o[w] EXCEPT !.at = None] \in Tasks
      BY <3>2 DEF Tasks, o
    <3>8. running' \in [Wallets -> Tasks \cup {None}]
      <4>. DEFINE u0 == [o[w] EXCEPT !.at = None]
      <4>1. running' = [o EXCEPT ![w] = u0] /\ u0 \in Tasks
        BY <3>3, <3>7
      <4>2. o \in [Wallets -> Tasks \cup {None}]
        BY <3>2 DEF o
      <4>. HIDE DEF u0
      <4>. QED
        BY <4>1, <4>2
    <3>. QED
      BY <1>0, <3>1, <3>4, <3>5, <3>6, <3>8 DEF TypeOK
  <2>4. CASE TaskDone(w)
    <3>. DEFINE u == [running[w] EXCEPT !.pc = "done"]
    <3>1. u \in Tasks
      BY <1>0, <2>4 DEF TaskDone, Tasks
    <3>2. running' = [running EXCEPT ![w] = u]
      BY <1>0, <2>4 DEF TaskDone
    <3>. HIDE DEF u
    <3>. QED
      BY <1>0, <2>4, <3>1, <3>2 DEF TaskDone, TypeOK
  <2>5. CASE TaskFails(w)
    <3>. DEFINE u == [running[w] EXCEPT !.pc = "failed", !.at = None, !.queue = <<>>]
    <3>1. u \in Tasks
      BY <1>0, <2>5, EmptySeq DEF TaskFails, Tasks
    <3>2. running' = [running EXCEPT ![w] = u]
      BY <1>0, <2>5 DEF TaskFails
    <3>. HIDE DEF u
    <3>. QED
      BY <1>0, <2>5, <3>1, <3>2 DEF TaskFails, TypeOK
  <2>. QED
    BY <1>9, <2>1, <2>2, <2>3, <2>4, <2>5 DEF TaskStep
<1>10. ASSUME NEW a \in Allowances, UserChanges(a) PROVE TypeOK'
  <2>1. running' \in [Wallets -> Tasks \cup {None}]
    BY <1>8, <1>10 DEF UserChanges
  <2>2. rest' \in [Allowances -> 0..Minute]
    BY <1>0, <1>10 DEF UserChanges
  <2>. QED
    BY <1>0, <1>10, <2>1, <2>2 DEF UserChanges, TypeOK
<1>11. CASE UNCHANGED vars
  BY <1>11 DEF vars, TypeOK
<1>. QED
  BY <1>1, <1>2, <1>3, <1>4, <1>5, <1>6, <1>7, <1>9, <1>10, <1>11 DEF WorkersStep

(* A task that no step of the scheduler collects goes on: it takes rows     *)
(* from its queue, works on one at a time, and a failure of it stays.       *)
Follows(u, t) ==
    /\ u \in Tasks
    /\ Len(u.queue) <= Len(t.queue)
    /\ t.at # None => u.at \in {None, t.at}
    /\ t.pc = "failed" => u.pc = "failed"

GoesOn(w) == IF IsRunning(w) THEN Follows(running'[w], running[w]) ELSE running'[w] = None

LEMMA TaskFollows ==
    ASSUME NEW t \in Tasks
    PROVE  /\ Follows(t, t)
           /\ \A p \in {"done", "failed"} : t.pc = "run" \/ p = "failed" =>
                Follows([t EXCEPT !.pc = p], t)
           /\ Follows([t EXCEPT !.at = None], t)
           /\ Follows([t EXCEPT !.pc = "failed", !.at = None, !.queue = <<>>], t)
           /\ t.at = None /\ t.queue # <<>> =>
                Follows([t EXCEPT !.at = Head(t.queue), !.queue = Tail(t.queue)], t)
           /\ \A a \in Allowances : Follows([t EXCEPT !.stale = @ \cup {a}], t)
           /\ t.age < Minute => Follows([t EXCEPT !.age = @ + 1], t)
<1>0. /\ t.queue \in Seq(Allowances) /\ Len(t.queue) \in Nat /\ t.age \in 0..Minute
      /\ t.pc \in {"run", "done", "failed"} /\ Minute \in Nat
  <2>1. t.queue \in Seq(Allowances) /\ t.age \in 0..Minute
          /\ t.pc \in {"run", "done", "failed"}
    BY DEF Tasks
  <2>. QED
    BY <2>1, LenProperties, WorkersAssumption
<1>1. Follows(t, t)
  BY <1>0 DEF Follows
<1>2. ASSUME NEW p \in {"done", "failed"}, t.pc = "run" \/ p = "failed"
      PROVE  Follows([t EXCEPT !.pc = p], t)
  BY <1>0, <1>2 DEF Follows, Tasks
<1>3. Follows([t EXCEPT !.at = None], t)
  BY <1>0 DEF Follows, Tasks
<1>4. Follows([t EXCEPT !.pc = "failed", !.at = None, !.queue = <<>>], t)
  <2>. DEFINE u == [t EXCEPT !.pc = "failed", !.at = None]
              v == [u EXCEPT !.queue = <<>>]
  <2>1. u \in Tasks /\ u.pc = "failed" /\ u.at = None
    BY DEF Tasks
  <2>. HIDE DEF u
  <2>2. <<>> \in Seq(Allowances) /\ Len(<<>>) = 0
    BY EmptySeq
  <2>3. v \in Tasks /\ v.pc = "failed" /\ v.at = None /\ v.queue = <<>>
    BY <2>1, <2>2 DEF Tasks
  <2>. HIDE DEF v
  <2>4. Follows(v, t)
    BY <1>0, <2>2, <2>3 DEF Follows
  <2>. QED
    BY <2>4 DEF v, u
<1>5. ASSUME t.at = None, t.queue # <<>>
      PROVE  Follows([t EXCEPT !.at = Head(t.queue), !.queue = Tail(t.queue)], t)
  <2>. DEFINE q == Tail(t.queue)
              a == Head(t.queue)
  <2>1. a \in Allowances /\ q \in Seq(Allowances) /\ Len(q) = Len(t.queue) - 1
    BY <1>0, <1>5, HeadTailProperties
  <2>. HIDE DEF a, q
  <2>2. [t EXCEPT !.at = a, !.queue = q] \in Tasks
    BY <2>1 DEF Tasks
  <2>3. [t EXCEPT !.at = a, !.queue = q].queue = q
    BY DEF Tasks
  <2>. QED
    BY <1>0, <1>5, <2>1, <2>2, <2>3 DEF Follows, Tasks, a, q
<1>6. ASSUME NEW a \in Allowances PROVE Follows([t EXCEPT !.stale = @ \cup {a}], t)
  BY <1>0 DEF Follows, Tasks
<1>7. ASSUME t.age < Minute PROVE Follows([t EXCEPT !.age = @ + 1], t)
  <2>1. t.age + 1 \in 0..Minute
    BY <1>0, <1>7
  <2>. QED
    BY <1>0, <2>1 DEF Follows, Tasks
<1>. QED
  BY <1>1, <1>2, <1>3, <1>4, <1>5, <1>6, <1>7

LEMMA FollowsTwice ==
    ASSUME NEW t \in Tasks, NEW u, NEW v, Follows(u, t), Follows(v, u),
           v.at = None
    PROVE  Follows(v, t)
<1>1. Len(t.queue) \in Nat /\ Len(u.queue) \in Nat /\ Len(v.queue) \in Nat
  <2>1. \A x \in Tasks : x.queue \in Seq(Allowances)
    BY DEF Tasks
  <2>. QED
    BY <2>1, LenProperties DEF Follows
<1>. QED
  BY <1>1 DEF Follows

LEMMA TasksGoOn ==
    ASSUME TypeOK, NEW w \in Wallets,
           \/ \E v \in Wallets : TaskStep(v)
           \/ \E a \in Allowances : UserChanges(a)
           \/ Tick
    PROVE  GoesOn(w)
<1>0. /\ running \in [Wallets -> Tasks \cup {None}]
      /\ \A v \in Wallets : IsRunning(v) => running[v] \in Tasks
      /\ \A v \in Wallets : ~IsRunning(v) => running[v] = None
  BY DEF TypeOK, IsRunning
<1>1. ASSUME NEW v \in Wallets, NEW u, IsRunning(v), Follows(u, running[v]),
             running' = [running EXCEPT ![v] = u]
      PROVE  GoesOn(w)
  <2>1. running'[w] = IF w = v THEN u ELSE running[w]
    BY <1>0, <1>1
  <2>. QED
    BY <1>0, <1>1, <2>1, TaskFollows DEF GoesOn
<1>2. ASSUME NEW a \in Allowances
      PROVE  \A v \in Wallets :
               IF IsRunning(v) THEN Follows(Outdated(a)[v], running[v])
               ELSE Outdated(a)[v] = None
  BY <1>0, TaskFollows DEF Outdated
<1>3. ASSUME NEW v \in Wallets, TaskStep(v) PROVE GoesOn(w)
  <2>1. CASE BeginRow(v)
    BY <1>0, <1>1, <2>1, TaskFollows DEF BeginRow
  <2>2. CASE EndUnchanged(v)
    BY <1>0, <1>1, <2>2, TaskFollows DEF EndUnchanged
  <2>3. CASE EndChanged(v)
    <3>. DEFINE a == running[v].at
                o == Outdated(a)
                u == [o[v] EXCEPT !.at = None]
    <3>1. a \in Allowances /\ running[v] \in Tasks /\ IsRunning(v)
      BY <1>0, <2>3 DEF EndChanged, Tasks
    <3>2. \A x \in Wallets :
            IF IsRunning(x) THEN Follows(o[x], running[x]) ELSE o[x] = None
      BY <1>2, <3>1
    <3>3. running' = [o EXCEPT ![v] = u] /\ DOMAIN o = Wallets
      BY <2>3 DEF EndChanged, Outdated
    <3>. HIDE DEF a, o
    <3>4. o[v] \in Tasks /\ Follows(u, o[v])
      BY <3>1, <3>2, TaskFollows DEF Follows
    <3>5. Follows(u, running[v])
      <4>1. u.at = None
        BY <3>4 DEF Tasks
      <4>. QED
        BY <3>1, <3>2, <3>4, <4>1, FollowsTwice
    <3>. HIDE DEF u
    <3>6. running'[w] = IF w = v THEN u ELSE o[w]
      BY <3>3
    <3>. QED
      BY <3>1, <3>2, <3>5, <3>6 DEF GoesOn
  <2>4. CASE TaskDone(v)
    <3>1. /\ IsRunning(v) /\ running[v].pc = "run"
          /\ running' = [running EXCEPT ![v] = [running[v] EXCEPT !.pc = "done"]]
      BY <1>0, <2>4 DEF TaskDone
    <3>. QED
      BY <1>0, <1>1, <3>1, TaskFollows
  <2>5. CASE TaskFails(v)
    BY <1>0, <1>1, <2>5, TaskFollows DEF TaskFails
  <2>. QED
    BY <1>3, <2>1, <2>2, <2>3, <2>4, <2>5 DEF TaskStep
<1>4. ASSUME NEW a \in Allowances, UserChanges(a) PROVE GoesOn(w)
  BY <1>2, <1>4 DEF UserChanges, GoesOn
<1>5. CASE Tick
  <2>1. running' = [v \in Wallets |->
            IF IsRunning(v) /\ running[v].age < Minute
              THEN [running[v] EXCEPT !.age = @ + 1] ELSE running[v]]
    BY <1>5 DEF Tick
  <2>2. running'[w] = IF IsRunning(w) /\ running[w].age < Minute
              THEN [running[w] EXCEPT !.age = @ + 1] ELSE running[w]
    BY <2>1
  <2>. QED
    BY <1>0, <2>2, TaskFollows DEF GoesOn
<1>. QED
  BY <1>3, <1>4, <1>5

(* Slots are used as far as rows are on offer, whatever happens but a       *)
(* collection; and Decide waits only if none since the poll found a task.  *)
LEMMA SlotsStep ==
    ASSUME WorkersInv, TypeOK', [WorkersStep]_vars
    PROVE  SlotsBounded' /\ SlotsUsed'
<1>0. /\ TypeOK /\ SlotsBounded /\ SlotsUsed /\ FailureNoted
      /\ loop.failed \in BOOLEAN /\ loop.completed \in BOOLEAN
  BY DEF WorkersInv, TypeOK, Loops
<1>. DEFINE Kept == \A a \in offered : IsRunning(WalletOf[a]) \/ SlotsFull
<1>1. ASSUME \A w \in Wallets : running'[w] # None => running[w] # None,
             \/ loop'.pc \notin {"polled", "decide", "wait", "sleep"}
             \/ loop'.pc = "decide" /\ (loop'.completed \/ loop'.failed)
      PROVE  SlotsBounded' /\ SlotsUsed'
  <2>1. SlotsBounded'
    BY <1>0, <1>1, SlotsKept
  <2>. QED
    BY <1>1, <2>1 DEF SlotsUsed
<1>2. ASSUME \A w \in Wallets : running'[w] = None <=> running[w] = None,
             offered' \subseteq offered, Kept
      PROVE  SlotsBounded' /\ SlotsUsed'
  <2>1. /\ SlotsBounded' /\ SlotsFull' = SlotsFull
        /\ \A w \in Wallets : IsRunning(w)' = IsRunning(w)
    BY <1>0, <1>2, SlotsKept
  <2>2. \A a \in offered' : a \in offered /\ WalletOf[a] \in Wallets
    BY <1>0, <1>2, WorkersAssumption DEF TypeOK
  <2>3. SlotsUsed'
    <3>. SUFFICES ASSUME NEW a \in offered'
                  PROVE  IsRunning(WalletOf[a])' \/ SlotsFull'
      BY DEF SlotsUsed
    <3>1. IsRunning(WalletOf[a]) \/ SlotsFull
      BY <1>2, <2>2
    <3>2. IsRunning(WalletOf[a])' = IsRunning(WalletOf[a])
      BY <2>1, <2>2
    <3>. QED
      BY <2>1, <3>1, <3>2
  <2>. QED
    BY <2>1, <2>3
<1>3. ASSUME StartCycle PROVE SlotsBounded' /\ SlotsUsed'
  <2>1. \A w \in Wallets : running'[w] # None => running[w] # None
    BY <1>0, <1>3, CollectFrees DEF StartCycle
  <2>2. loop'.pc = "heartbeat"
    BY <1>0, <1>3, LoopSteps DEF LoopAt
  <2>. QED
    BY <1>1, <2>1, <2>2
<1>4. ASSUME Poll PROVE SlotsBounded' /\ SlotsUsed'
  <2>. DEFINE left == {w \in Wallets : Collected[w] # None}
              started == ToSet(Startable(Collected))
  <2>1. Cardinality(left) <= MaxRunning
    BY <1>0, LeftFits
  <2>2. /\ started \subseteq Wallets \ left
        /\ Cardinality(left \cup started) <= MaxRunning
        /\ \/ \A a \in Offered : WalletOf[a] \in left \cup started
           \/ Cardinality(left \cup started) = MaxRunning
    BY <1>0, <2>1, CollectFrees, PollFills
  <2>3. \A w \in Wallets : running'[w] # None <=> w \in left \cup started
    <3>1. running' = [w \in Wallets |->
                        IF w \in started THEN NewTask(w) ELSE Collected[w]]
      BY <1>4 DEF Poll
    <3>2. \A w \in Wallets : NewTask(w) # None
      BY <1>0, NewTaskTyped
    <3>. HIDE DEF started
    <3>. QED
      BY <3>1, <3>2
  <2>. HIDE DEF started
  <2>4. Busy' = left \cup started
    BY <2>2, <2>3 DEF Busy, IsRunning
  <2>5. SlotsBounded'
    BY <2>2, <2>4 DEF SlotsBounded, Busy
  <2>6. offered' = Offered /\ Offered \subseteq Allowances
    BY <1>0, <1>4 DEF Poll, Offered, TypeOK
  <2>7. SlotsUsed'
    <3>1. CASE \A a \in Offered : WalletOf[a] \in left \cup started
      <4>1. \A a \in Offered : IsRunning(WalletOf[a])'
        BY <2>3, <2>6, <3>1, WorkersAssumption DEF IsRunning
      <4>. QED
        BY <2>6, <4>1 DEF SlotsUsed
    <3>2. CASE Cardinality(left \cup started) = MaxRunning
      <4>1. SlotsFull'
        BY <2>4, <3>2 DEF SlotsFull, Busy
      <4>. QED
        BY <4>1 DEF SlotsUsed
    <3>. QED
      BY <2>2, <3>1, <3>2
  <2>. QED
    BY <2>5, <2>7
<1>5. ASSUME PollFails PROVE SlotsBounded' /\ SlotsUsed'
  <2>1. loop'.pc = "decide" /\ loop'.failed
    BY <1>0, <1>5, LoopSteps DEF LoopAt
  <2>2. \A w \in Wallets : running'[w] # None => running[w] # None
    BY <1>5 DEF PollFails
  <2>. QED
    BY <1>1, <2>1, <2>2
<1>6. ASSUME Collect PROVE SlotsBounded' /\ SlotsUsed'
  <2>1. /\ loop'.pc = "decide" /\ loop'.completed = (loop.completed \/ AnyEnded)
        /\ loop.pc = "polled" /\ running' = Collected /\ offered' = offered
    BY <1>0, <1>6, LoopSteps DEF LoopAt, Collect
  <2>2. CASE AnyEnded
    <3>1. \A w \in Wallets : running'[w] # None => running[w] # None
      BY <1>0, <2>1, CollectFrees
    <3>. QED
      BY <1>1, <2>1, <2>2, <3>1
  <2>3. CASE ~AnyEnded
    <3>1. running' = running
      BY <1>0, <2>1, <2>3, CollectFrees
    <3>2. Kept
      BY <1>0, <2>1 DEF SlotsUsed
    <3>. QED
      BY <1>2, <2>1, <3>1, <3>2
  <2>. QED
    BY <2>2, <2>3
<1>7. ASSUME Decide PROVE SlotsBounded' /\ SlotsUsed'
  <2>1. loop.pc = "decide" /\ running' = running /\ offered' = offered
    BY <1>7 DEF Decide
  <2>2. loop'.pc = AfterDecide
    BY <1>0, <1>7, LoopSteps DEF LoopAt
  <2>3. CASE loop.failed \/ loop.completed
    BY <1>1, <2>1, <2>2, <2>3 DEF AfterDecide
  <2>4. CASE ~loop.failed /\ ~loop.completed
    <3>1. Kept
      BY <1>0, <2>1, <2>4 DEF SlotsUsed
    <3>. QED
      BY <1>2, <2>1, <3>1
  <2>. QED
    BY <2>3, <2>4
<1>8. ASSUME Heartbeat \/ Wake \/ Restart PROVE SlotsBounded' /\ SlotsUsed'
  <2>1. loop'.pc \in {"poll", "start", "down"}
    BY <1>0, <1>8, LoopSteps DEF LoopAt
  <2>2. \A w \in Wallets : running'[w] # None => running[w] # None
    BY <1>8 DEF Heartbeat, Wake, Restart
  <2>. QED
    BY <1>1, <2>1, <2>2
<1>9. ASSUME \A w \in Wallets : running'[w] = None <=> running[w] = None,
             loop'.pc = loop.pc, loop'.completed = loop.completed,
             loop'.failed = loop.failed, offered' \subseteq offered
      PROVE  SlotsBounded' /\ SlotsUsed'
  <2>1. CASE Kept
    BY <1>2, <1>9, <2>1
  <2>2. CASE ~Kept
    BY <1>0, <1>1, <1>9, <2>2 DEF SlotsUsed
  <2>. QED
    BY <2>1, <2>2
<1>. HIDE DEF Kept
<1>14. ASSUME \A w \in Wallets : GoesOn(w)
       PROVE  \A w \in Wallets : running'[w] = None <=> running[w] = None
  BY <1>14, TaskAssumption DEF GoesOn, Follows, IsRunning
<1>10. ASSUME NEW w \in Wallets, TaskStep(w) PROVE SlotsBounded' /\ SlotsUsed'
  <2>1. loop' = loop /\ offered' \subseteq offered
    BY <1>10 DEF TaskStep, BeginRow, EndUnchanged, EndChanged, TaskDone, TaskFails
  <2>2. \A v \in Wallets : GoesOn(v)
    BY <1>0, <1>10, TasksGoOn
  <2>. QED
    BY <1>9, <1>14, <2>1, <2>2
<1>11. ASSUME NEW a \in Allowances, UserChanges(a) PROVE SlotsBounded' /\ SlotsUsed'
  <2>1. loop' = loop /\ offered' \subseteq offered
    BY <1>11 DEF UserChanges
  <2>2. \A v \in Wallets : GoesOn(v)
    BY <1>0, <1>11, TasksGoOn
  <2>. QED
    BY <1>9, <1>14, <2>1, <2>2
<1>12. ASSUME Tick PROVE SlotsBounded' /\ SlotsUsed'
  <2>1. /\ loop'.pc = loop.pc /\ loop'.completed = loop.completed
        /\ loop'.failed = loop.failed
    BY <1>0, <1>12, LoopSteps DEF LoopAt
  <2>2. offered' = offered
    BY <1>12 DEF Tick
  <2>3. \A v \in Wallets : GoesOn(v)
    BY <1>0, <1>12, TasksGoOn
  <2>. QED
    BY <1>9, <1>14, <2>1, <2>2, <2>3
<1>13. ASSUME UNCHANGED vars PROVE SlotsBounded' /\ SlotsUsed'
  <2>1. running' = running /\ loop' = loop /\ offered' = offered
    BY <1>13 DEF vars
  <2>. QED
    BY <1>9, <2>1
<1>. QED
  BY <1>3, <1>4, <1>5, <1>6, <1>7, <1>8, <1>10, <1>11, <1>12, <1>13 DEF WorkersStep

(* No task runs or starts while the coroutine sleeps.                      *)
LEMMA SleepStep ==
    ASSUME TypeOK, SleepsIdle, [WorkersStep]_vars
    PROVE  SleepsIdle'
<1>1. ASSUME loop.pc = "sleep", \A w \in Wallets : ~IsRunning(w) => running'[w] = None
      PROVE  SleepsIdle'
  BY <1>1 DEF SleepsIdle, IsRunning
<1>2. CASE StartCycle \/ Heartbeat \/ Poll \/ PollFails \/ Collect \/ Wake \/ Restart
  <2>1. loop'.pc # "sleep"
    BY <1>2, LoopSteps DEF LoopAt
  <2>. QED
    BY <2>1 DEF SleepsIdle
<1>3. CASE Decide
  <2>1. loop'.pc = AfterDecide /\ running' = running
    BY <1>3, LoopSteps DEF LoopAt, Decide
  <2>. QED
    BY <2>1 DEF AfterDecide, SleepsIdle, IsRunning
<1>4. CASE \/ \E v \in Wallets : TaskStep(v)
           \/ \E a \in Allowances : UserChanges(a)
           \/ Tick
  <2>1. \A w \in Wallets : GoesOn(w)
    BY <1>4, TasksGoOn
  <2>2. loop'.pc = loop.pc
    <3>1. CASE Tick
      BY <3>1, LoopSteps DEF LoopAt
    <3>2. CASE ~Tick
      BY <1>4, <3>2 DEF TaskStep, BeginRow, EndUnchanged, EndChanged, TaskDone,
          TaskFails, UserChanges
    <3>. QED
      BY <3>1, <3>2
  <2>. QED
    BY <1>1, <2>1, <2>2 DEF GoesOn, SleepsIdle
<1>5. CASE UNCHANGED vars
  BY <1>5 DEF vars, SleepsIdle, IsRunning
<1>. QED
  BY <1>2, <1>3, <1>4, <1>5 DEF WorkersStep

LEMMA WorkersInvStep ==
    ASSUME WorkersInv, [WorkersStep]_vars
    PROVE  WorkersInv'
<1>0. TypeOK /\ SlotsBounded /\ SleepsIdle /\ FailureNoted /\ loop.failed \in BOOLEAN
  BY DEF WorkersInv, TypeOK, Loops
<1>1. TypeOK'
  BY <1>0, TypeStep
<1>2. SlotsBounded' /\ SlotsUsed'
  BY <1>1, SlotsStep
<1>3. SleepsIdle'
  BY <1>0, SleepStep
<1>4. FailureNoted'
  <2>1. CASE StartCycle \/ Poll \/ PollFails \/ Collect \/ Decide \/ Tick \/ Restart
    BY <1>0, <2>1, LoopSteps DEF LoopAt, FailureNoted
  <2>2. CASE Wake
    <3>1. loop.pc \in {"backoff", "wait", "sleep"}
      BY <2>2 DEF Wake, Wakes
    <3>2. loop'.pc = "start" /\ loop'.failed = loop.failed
      BY <1>0, <2>2, LoopSteps DEF LoopAt
    <3>. QED
      BY <1>0, <3>1, <3>2 DEF FailureNoted
  <2>3. CASE Heartbeat
    BY <1>0, <2>3, LoopSteps DEF LoopAt, FailureNoted
  <2>4. ASSUME NEW w \in Wallets, TaskStep(w) PROVE loop' = loop
    BY <2>4 DEF TaskStep, BeginRow, EndUnchanged, EndChanged, TaskDone, TaskFails
  <2>5. ASSUME NEW a \in Allowances, UserChanges(a) PROVE loop' = loop
    BY <2>5 DEF UserChanges
  <2>6. ASSUME loop' = loop PROVE FailureNoted'
    BY <1>0, <2>6 DEF FailureNoted
  <2>7. CASE UNCHANGED vars
    BY <2>6, <2>7 DEF vars
  <2>. QED
    BY <2>1, <2>2, <2>3, <2>4, <2>5, <2>6, <2>7 DEF WorkersStep
<1>. QED
  BY <1>1, <1>2, <1>3, <1>4 DEF WorkersInv
-----------------------------------------------------------------------------
(* The heartbeat                                                           *)

Rows == [state : {"starting", "running", "healthy", "error"},
         age : 0..Old, lost : 0..Much, call : 0..Old]

RowAt(r, a, l, c) == r \in Rows /\ r.age = a /\ r.lost = l /\ r.call = c

(* What the steps make of the row.                                         *)
LEMMA HealthMoves ==
    ASSUME HealthTypeOK
    PROVE  /\ \A state \in {"running", "healthy", "error"} :
                RowAt(Recorded(state), health.call, UpTo(Much, health.call), 0)
           /\ RowAt(Unrecorded, health.age, health.lost, 0)
           /\ RowAt([Unrecorded EXCEPT !.lost = UpTo(Much, @ + Minute)],
                    health.age, UpTo(Much, health.lost + Minute), 0)
           /\ TickRecorded =>
                \E c \in 0..Old :
                  RowAt(health', UpTo(Old, health.age + 1),
                        IF Stalled THEN UpTo(Much, health.lost + 1) ELSE health.lost, c)
<1>0. /\ health \in Rows /\ Minute \in Nat
      /\ Old \in Nat /\ Much \in Nat /\ 0 \in 0..Old /\ 0 \in 0..Much
      /\ health.age \in Nat /\ health.lost \in Nat /\ health.call \in Nat
  BY WorkersAssumption DEF HealthTypeOK, Rows, Old, Much
<1>1. \A n \in Nat : UpTo(Much, n) \in 0..Much /\ UpTo(Old, n) \in 0..Old
  BY <1>0 DEF UpTo
<1>2. ASSUME NEW state \in {"running", "healthy", "error"}
      PROVE  RowAt(Recorded(state), health.call, UpTo(Much, health.call), 0)
  <2>1. UpTo(Much, health.call) \in 0..Much
    BY <1>0, <1>1
  <2>. QED
    BY <1>0, <2>1 DEF Recorded, RowAt, Rows
<1>3. RowAt(Unrecorded, health.age, health.lost, 0)
  BY <1>0 DEF Unrecorded, RowAt, Rows
<1>4. ASSUME NEW r \in Rows, NEW l \in 0..Much
      PROVE  RowAt([r EXCEPT !.lost = l], r.age, l, r.call)
  BY DEF RowAt, Rows
<1>5. RowAt([Unrecorded EXCEPT !.lost = UpTo(Much, @ + Minute)],
            health.age, UpTo(Much, health.lost + Minute), 0)
  <2>. DEFINE l == UpTo(Much, health.lost + Minute)
  <2>1. l \in 0..Much
    BY <1>0, <1>1
  <2>2. [Unrecorded EXCEPT !.lost = UpTo(Much, @ + Minute)] = [Unrecorded EXCEPT !.lost = l]
    BY <1>3 DEF RowAt
  <2>. HIDE DEF l
  <2>3. RowAt([Unrecorded EXCEPT !.lost = l], health.age, l, 0)
    BY <1>3, <1>4, <2>1 DEF RowAt
  <2>. QED
    BY <2>2, <2>3 DEF l
<1>6. ASSUME TickRecorded
      PROVE  \E c \in 0..Old :
               RowAt(health', UpTo(Old, health.age + 1),
                     IF Stalled THEN UpTo(Much, health.lost + 1) ELSE health.lost, c)
  <2>. DEFINE a == UpTo(Old, health.age + 1)
              l == IF Stalled THEN UpTo(Much, health.lost + 1) ELSE health.lost
              c == IF loop.pc \in {"heartbeat", "decide"}
                     THEN UpTo(Old, health.call + 1) ELSE health.call
  <2>1. a \in 0..Old /\ l \in 0..Much /\ c \in 0..Old
    BY <1>0, <1>1 DEF Rows
  <2>2. health' = [health EXCEPT !.age = a, !.lost = l, !.call = c]
    BY <1>0, <1>6 DEF TickRecorded
  <2>. HIDE DEF a, l, c
  <2>3. RowAt(health', a, l, c)
    BY <1>0, <2>1, <2>2 DEF RowAt, Rows
  <2>. QED
    BY <2>1, <2>3 DEF a, l
<1>. QED
  BY <1>2, <1>3, <1>5, <1>6

LEMMA HealthTypeStep ==
    ASSUME HealthTypeOK, HealthNext \/ UNCHANGED allvars
    PROVE  HealthTypeOK'
<1>1. ASSUME health' \in Rows PROVE HealthTypeOK'
  BY <1>1 DEF HealthTypeOK, Rows, Old, Much
<1>2. CASE HeartbeatRecorded
  BY <1>1, <1>2, HealthMoves DEF HeartbeatRecorded, RowAt
<1>3. CASE PollFailsRecorded
  BY <1>1, <1>3, HealthMoves DEF PollFailsRecorded, RowAt, HealthTypeOK, Rows
<1>4. CASE DecideRecorded
  BY <1>1, <1>4, HealthMoves DEF DecideRecorded, RowAt
<1>5. CASE TickRecorded
  BY <1>1, <1>5, HealthMoves DEF RowAt
<1>6. CASE RestartUnrecorded
  BY <1>1, <1>6, HealthMoves DEF RestartUnrecorded, RowAt
<1>7. CASE UNCHANGED health
  BY <1>1, <1>7 DEF HealthTypeOK, Rows
<1>. QED
  BY <1>2, <1>3, <1>4, <1>5, <1>6, <1>7 DEF HealthNext, CycleUnrecorded, TaskUnrecorded,
      UserUnrecorded, allvars

(* What was not lost of the age of the last write, and the wait under way,  *)
(* are a minute at most.                                                   *)
LEMMA HeartbeatStep ==
    ASSUME HealthInv, WorkersInv', HealthNext \/ UNCHANGED allvars
    PROVE  WritesInTime'
<1>0. /\ TypeOK /\ HealthTypeOK /\ WritesInTime /\ Minute \in Nat
      /\ loop.grid \in 0..Minute /\ loop.timer \in 0..Minute
      /\ loop'.grid \in 0..Minute /\ loop'.timer \in 0..Minute
      /\ health.lost \in Nat /\ health.age \in Nat /\ health.call \in Nat
      /\ Much = 2 * Minute + 1 /\ Old = 3 * Minute + 1
  BY WorkersAssumption
  DEF HealthInv, WorkersInv, HealthTypeOK, TypeOK, Loops, Old, Much
<1>1. Remaining \in 0..Minute /\ Remaining' \in 0..Minute
  BY <1>0 DEF Remaining
<1>2. CASE HeartbeatRecorded
  <2>1. loop'.pc = "poll"
    BY <1>0, <1>2, LoopSteps DEF HeartbeatRecorded, LoopAt
  <2>2. health'.age = health.call /\ health'.lost = UpTo(Much, health.call)
    BY <1>0, <1>2, HealthMoves DEF HeartbeatRecorded, RowAt
  <2>. QED
    BY <1>0, <2>1, <2>2 DEF WritesInTime, Allowed, Remaining, UpTo
<1>3. CASE PollFailsRecorded
  <2>1. loop'.pc = "decide" /\ loop.pc \in {"heartbeat", "poll"}
    BY <1>0, <1>3, LoopSteps DEF PollFailsRecorded, PollFails, LoopAt
  <2>2. /\ Remaining = 0 /\ Remaining' = 0 /\ Allowed' = 0
        /\ Allowed = IF loop.pc = "poll" THEN 0 ELSE Minute
    BY <2>1 DEF Remaining, Allowed
  <2>3. /\ health'.age = health.age
        /\ health'.lost = IF loop.pc = "poll" THEN health.lost
                          ELSE UpTo(Much, health.lost + Minute)
    BY <1>0, <1>3, HealthMoves DEF PollFailsRecorded, RowAt
  <2>. QED
    BY <1>0, <2>2, <2>3 DEF WritesInTime, UpTo
<1>4. CASE DecideRecorded
  <2>1. loop.pc = "decide" /\ loop'.pc = AfterDecide
    BY <1>0, <1>4, LoopSteps DEF DecideRecorded, Decide, LoopAt
  <2>2. Remaining = 0 /\ Allowed = 0 /\ Allowed' = Minute
    BY <2>1 DEF Remaining, Allowed, AfterDecide
  <2>3. \/ health'.age = health.age /\ health'.lost = health.lost
        \/ health'.age = health.call /\ health'.lost = UpTo(Much, health.call)
    BY <1>0, <1>4, HealthMoves DEF DecideRecorded, RowAt
  <2>. QED
    BY <1>0, <1>1, <2>2, <2>3 DEF WritesInTime, UpTo
<1>5. CASE TickRecorded
  <2>1. /\ Waiting \/ Stalled
        /\ loop'.pc = loop.pc /\ loop'.grid = Less(loop.grid)
        /\ loop'.timer = Less(loop.timer)
    BY <1>0, <1>5, LoopSteps DEF TickRecorded, Tick, LoopAt
  <2>2. Allowed' = Allowed /\ Allowed \in Nat
    BY <1>0, <2>1 DEF Allowed
  <2>3. /\ health'.age = UpTo(Old, health.age + 1)
        /\ health'.lost = IF Stalled THEN UpTo(Much, health.lost + 1) ELSE health.lost
    BY <1>0, <1>5, HealthMoves DEF RowAt
  <2>4. CASE Stalled
    <3>1. Remaining = 0 /\ Remaining' = 0
      BY <2>1, <2>4 DEF Stalled, Remaining
    <3>. QED
      BY <1>0, <2>2, <2>3, <2>4, <3>1 DEF WritesInTime, UpTo
  <2>5. CASE ~Stalled
    <3>1. Remaining > 0 /\ Remaining' = Remaining - 1
      BY <1>0, <2>1, <2>5 DEF Waiting, Wakes, Remaining, Less
    <3>. QED
      BY <1>0, <1>1, <2>2, <2>3, <2>5, <3>1 DEF WritesInTime, UpTo
  <2>. QED
    BY <2>4, <2>5
<1>6. ASSUME health'.age = health.age, health'.lost = health.lost,
             Remaining' = 0, Allowed <= Allowed'
      PROVE  WritesInTime'
  <2>1. Allowed \in Nat /\ Allowed' \in Nat
    BY <1>0 DEF Allowed
  <2>. QED
    BY <1>0, <1>1, <1>6, <2>1 DEF WritesInTime
<1>7. CASE CycleUnrecorded
  <2>1. \/ loop.pc \in {"poll", "polled"} /\ loop'.pc \in {"polled", "decide"}
        \/ loop'.pc \in {"heartbeat", "start"}
    BY <1>0, <1>7, LoopSteps DEF CycleUnrecorded, LoopAt, Poll, Collect
  <2>2. Remaining' = 0 /\ Allowed <= Allowed'
    BY <1>0, <2>1 DEF Remaining, Allowed
  <2>. QED
    BY <1>6, <1>7, <2>2 DEF CycleUnrecorded
<1>8. CASE RestartUnrecorded
  <2>1. loop'.pc = "down"
    BY <1>0, <1>8, LoopSteps DEF RestartUnrecorded, LoopAt
  <2>2. Remaining' = 0 /\ Allowed <= Allowed'
    BY <1>0, <2>1 DEF Remaining, Allowed
  <2>3. health'.age = health.age /\ health'.lost = health.lost
    BY <1>0, <1>8, HealthMoves DEF RestartUnrecorded, RowAt
  <2>. QED
    BY <1>6, <2>2, <2>3
<1>9. ASSUME UNCHANGED health, loop' = loop PROVE WritesInTime'
  BY <1>0, <1>9 DEF WritesInTime, Remaining, Allowed
<1>10. ASSUME NEW w \in Wallets, TaskUnrecorded(w) PROVE WritesInTime'
  <2>1. loop' = loop /\ UNCHANGED health
    BY <1>10 DEF TaskUnrecorded, TaskStep, BeginRow, EndUnchanged, EndChanged,
        TaskDone, TaskFails
  <2>. QED
    BY <1>9, <2>1
<1>11. ASSUME NEW a \in Allowances, UserUnrecorded(a) PROVE WritesInTime'
  <2>1. loop' = loop /\ UNCHANGED health
    BY <1>11 DEF UserUnrecorded, UserChanges
  <2>. QED
    BY <1>9, <2>1
<1>12. CASE UNCHANGED allvars
  <2>1. loop' = loop /\ UNCHANGED health
    BY <1>12 DEF allvars, vars
  <2>. QED
    BY <1>9, <2>1
<1>. QED
  BY <1>2, <1>3, <1>4, <1>5, <1>7, <1>8, <1>10, <1>11, <1>12 DEF HealthNext
-----------------------------------------------------------------------------
(* Theorems                                                                *)

LEMMA HealthInitially == HealthInit => HealthInv
<1>. SUFFICES ASSUME HealthInit PROVE HealthInv
  OBVIOUS
<1>1. Minute \in Nat \ {0} /\ MaxRunning \in Nat \ {0}
  BY WorkersAssumption
<1>2. TypeOK
  <2>1. loop \in Loops
    BY <1>1 DEF HealthInit, Init, Loops
  <2>. QED
    BY <1>1, <2>1, WorkersAssumption DEF HealthInit, Init, TypeOK
<1>3. {w \in Wallets : IsRunning(w)} = {}
  BY DEF HealthInit, Init, IsRunning
<1>4. Cardinality({w \in Wallets : IsRunning(w)}) = 0
  BY <1>3, FS_EmptySet
<1>5. SlotsBounded
  BY <1>1, <1>4 DEF SlotsBounded
<1>6. loop.pc = "start" /\ ~loop.failed
  BY DEF HealthInit, Init
<1>7. SlotsUsed /\ SleepsIdle /\ FailureNoted
  BY <1>6 DEF SlotsUsed, SleepsIdle, FailureNoted
<1>8. health \in [state : {"starting", "error"}, age : {Old}, lost : {Much}, call : {0}]
  BY DEF HealthInit
<1>9. HealthTypeOK /\ WritesInTime
  BY <1>1, <1>8 DEF HealthTypeOK, WritesInTime, Old, Much
<1>. QED
  BY <1>2, <1>5, <1>7, <1>9 DEF HealthInv, WorkersInv

LEMMA HealthInvStep == HealthInv /\ [HealthNext]_allvars => HealthInv'
<1>. SUFFICES ASSUME HealthInv, HealthNext \/ UNCHANGED allvars PROVE HealthInv'
  OBVIOUS
<1>1. WorkersInv'
  <2>1. [WorkersStep]_vars
    BY HealthStep
  <2>. QED
    BY <2>1, WorkersInvStep DEF HealthInv
<1>2. HealthTypeOK'
  BY HealthTypeStep DEF HealthInv
<1>3. WritesInTime'
  BY <1>1, HeartbeatStep
<1>. QED
  BY <1>1, <1>2, <1>3 DEF HealthInv

(* What is said below of every state follows from these.                   *)
THEOREM HealthInvariant == HealthSpec => []HealthInv
BY HealthInitially, HealthInvStep, PTL DEF HealthSpec

(* The scheduler's variables are well formed.                              *)
THEOREM WorkersTyped == HealthSpec => []TypeOK
<1>1. HealthInv => TypeOK
  BY DEF HealthInv, WorkersInv
<1>. QED
  BY <1>1, HealthInvariant, PTL

(* The row in scheduler_health is well formed.                             *)
THEOREM HealthTyped == HealthSpec => []HealthTypeOK
<1>1. HealthInv => HealthTypeOK
  BY DEF HealthInv
<1>. QED
  BY <1>1, HealthInvariant, PTL

(* At most MaxRunning tasks pay at once, however many wallets have rows to  *)
(* pay and however long the tasks take (tasks.py:443-447).                 *)
THEOREM SlotsNeverExceeded == HealthSpec => []SlotsBounded
<1>1. HealthInv => SlotsBounded
  BY DEF HealthInv, WorkersInv
<1>. QED
  BY <1>1, HealthInvariant, PTL

(* The scheduler never waits with a slot free for a row that its last poll  *)
(* offered (tasks.py:459-460, 502-509).                                    *)
THEOREM SlotsNeverIdle == HealthSpec => []NoIdleSlot
<1>1. HealthInv => NoIdleSlot
  <2>. SUFFICES ASSUME HealthInv, loop.pc \in {"wait", "sleep"}, ~Wakes, NEW a \in offered
                PROVE  \/ Working(WalletOf[a])
                       \/ Cardinality({w \in Wallets : Working(w)}) = MaxRunning
    BY DEF NoIdleSlot
  <2>1. TypeOK /\ SlotsUsed /\ SleepsIdle
    BY DEF HealthInv, WorkersInv
  <2>2. \A w \in Wallets : Working(w) <=> IsRunning(w)
    BY <2>1 DEF Wakes, AnyEnded, Ended, SleepsIdle, Working
  <2>3. WalletOf[a] \in Wallets
    BY <2>1, WorkersAssumption DEF TypeOK
  <2>4. {w \in Wallets : Working(w)} = {w \in Wallets : IsRunning(w)}
    BY <2>2
  <2>5. IsRunning(WalletOf[a]) \/ SlotsFull
    BY <2>1 DEF SlotsUsed
  <2>. QED
    BY <2>2, <2>3, <2>4, <2>5 DEF SlotsFull
<1>. QED
  BY <1>1, HealthInvariant, PTL

(* Calls of the database, tasks and downtimes may take any time: the health *)
(* endpoint calls a scheduler unhealthy only for a failure it reported, or *)
(* for more than two minutes lost in those calls, without a server and (a  *)
(* minute each) in cycles that could not write, because the waits between  *)
(* two writes are no longer than a minute (tasks.py:499-511,               *)
(* views_api.py:471).                                                      *)
THEOREM HealthyUnlessSilent == HealthSpec => []UnhealthyOnlyIfSilent
<1>1. HealthInv => UnhealthyOnlyIfSilent
  <2>. SUFFICES ASSUME HealthInv, ~scheduler_ok, health.state # "error",
                       ~(health.lost > 2 * Minute)
                PROVE  FALSE
    BY DEF UnhealthyOnlyIfSilent
  <2>1. /\ loop \in Loops /\ WritesInTime /\ Minute \in Nat
        /\ health.lost \in Nat /\ health.age \in Nat
    BY WorkersAssumption DEF HealthInv, WorkersInv, HealthTypeOK, TypeOK, Old, Much
  <2>2. Remaining \in Nat /\ Allowed \in 0..Minute
    BY <2>1 DEF Remaining, Allowed, Loops
  <2>3. health.age <= 3 * Minute
    BY <2>1, <2>2 DEF WritesInTime
  <2>. QED
    BY <2>3 DEF scheduler_ok
<1>. QED
  BY <1>1, HealthInvariant, PTL

LEMMA TasksKept ==
    ASSUME HealthInv, HealthNext \/ UNCHANGED allvars
    PROVE  KeepsTasks
<1>0. TypeOK /\ SlotsBounded /\ WorkersInv
  BY DEF HealthInv, WorkersInv
<1>1. [WorkersStep]_vars
  BY HealthStep
<1>. SUFFICES ASSUME NEW w \in Wallets, IsRunning(w), running[w].pc = "run", ~Restart
              PROVE  /\ running'[w] # None
                     /\ Len(running'[w].queue) <= Len(running[w].queue)
                     /\ running[w].at # None => running'[w].at \in {None, running[w].at}
  BY DEF KeepsTasks
<1>2. running[w] \in Tasks /\ Follows(running[w], running[w])
  BY <1>0, TaskFollows DEF TypeOK, IsRunning
<1>3. ASSUME running'[w] = running[w] \/ GoesOn(w)
      PROVE  /\ running'[w] # None
             /\ Len(running'[w].queue) <= Len(running[w].queue)
             /\ running[w].at # None => running'[w].at \in {None, running[w].at}
  <2>1. Follows(running'[w], running[w])
    BY <1>2, <1>3 DEF GoesOn
  <2>. QED
    BY <2>1, TaskAssumption DEF Follows
<1>4. Collected[w] = running[w]
  BY <1>0, CollectFrees
<1>5. CASE StartCycle \/ Collect
  BY <1>3, <1>4, <1>5 DEF StartCycle, Collect
<1>6. CASE Poll
  <2>. DEFINE left == {v \in Wallets : Collected[v] # None}
              started == ToSet(Startable(Collected))
  <2>1. Cardinality(left) <= MaxRunning
    BY <1>0, LeftFits
  <2>2. started \subseteq Wallets \ left
    BY <1>0, <2>1, CollectFrees, PollFills
  <2>3. w \in left
    BY <1>4 DEF IsRunning
  <2>4. running' = [v \in Wallets |->
                      IF v \in started THEN NewTask(v) ELSE Collected[v]]
    BY <1>6 DEF Poll
  <2>. HIDE DEF started
  <2>5. running'[w] = running[w]
    BY <1>4, <2>2, <2>3, <2>4
  <2>. QED
    BY <1>3, <2>5
<1>7. CASE Heartbeat \/ PollFails \/ Decide \/ Wake \/ UNCHANGED vars
  BY <1>3, <1>7 DEF Heartbeat, PollFails, Decide, Wake, vars
<1>8. CASE \/ \E v \in Wallets : TaskStep(v)
           \/ \E a \in Allowances : UserChanges(a)
           \/ Tick
  <2>1. GoesOn(w)
    BY <1>0, <1>8, TasksGoOn
  <2>. QED
    BY <1>3, <2>1
<1>. QED
  BY <1>1, <1>5, <1>6, <1>7, <1>8 DEF WorkersStep

(* A task that is paying is never replaced or forgotten, nor does it go     *)
(* back in its queue, until the server stops (tasks.py:401-407, 446).      *)
THEOREM TasksStay == HealthSpec => TasksNeverDropped
<1>1. HealthInv /\ [HealthNext]_allvars => [KeepsTasks]_vars
  BY TasksKept
<1>. QED
  BY <1>1, HealthInvariant, PTL DEF HealthSpec, TasksNeverDropped

LEMMA FailureStep ==
    ASSUME HealthInv, HealthNext, Failure, ~Restart
    PROVE  \/ Failure'
           \/ loop'.pc = "backoff" /\ health' \in {Unrecorded, Recorded("error")}
<1>0. TypeOK /\ FailureNoted /\ loop.failed \in BOOLEAN
  BY DEF HealthInv, WorkersInv, TypeOK, Loops
<1>1. AnyFailed <=> \E w \in Wallets : Ended(w) /\ running[w].pc = "failed"
  BY DEF AnyFailed, Ended
<1>2. loop.failed \/ AnyFailed
  BY <1>1 DEF Failure
<1>3. CASE StartCycle
  <2>1. loop.pc \in {"down", "start"} /\ loop'.failed = AnyFailed
    BY <1>0, <1>3, LoopSteps DEF StartCycle, LoopAt
  <2>2. loop'.failed
    BY <1>0, <1>2, <2>1 DEF FailureNoted
  <2>. QED
    BY <2>2 DEF Failure
<1>4. CASE Poll \/ Collect
  <2>1. loop'.failed = (loop.failed \/ AnyFailed)
    BY <1>0, <1>4, LoopSteps DEF LoopAt
  <2>2. loop'.failed
    BY <1>2, <2>1
  <2>. QED
    BY <2>2 DEF Failure
<1>5. CASE PollFails
  <2>1. loop'.failed = TRUE
    BY <1>0, <1>5, LoopSteps DEF LoopAt
  <2>. QED
    BY <2>1 DEF Failure
<1>6. CASE DecideRecorded
  <2>1. loop'.pc = AfterDecide /\ running' = running
    BY <1>0, <1>6, LoopSteps DEF DecideRecorded, Decide, LoopAt
  <2>2. CASE loop.failed
    BY <1>6, <2>1, <2>2 DEF DecideRecorded, AfterDecide
  <2>3. CASE AnyFailed
    <3>1. Failure'
      BY <2>1, <2>3 DEF Failure, AnyFailed, Ended, IsRunning
    <3>. QED
      BY <3>1
  <2>. QED
    BY <1>2, <2>2, <2>3
<1>7. ASSUME loop'.failed = loop.failed,
             \A w \in Wallets :
               IsRunning(w) /\ running[w].pc = "failed" =>
                 running'[w] # None /\ running'[w].pc = "failed"
      PROVE  Failure'
  <2>1. CASE loop.failed
    BY <1>7, <2>1 DEF Failure
  <2>2. CASE AnyFailed
    <3>1. PICK w \in Wallets : IsRunning(w) /\ running[w].pc = "failed"
      BY <2>2 DEF AnyFailed
    <3>2. running'[w] # None /\ running'[w].pc = "failed"
      BY <1>7, <3>1
    <3>. QED
      BY <3>2 DEF Failure, Ended, IsRunning
  <2>. QED
    BY <1>2, <2>1, <2>2
<1>8. CASE Heartbeat \/ Wake
  <2>1. loop'.failed = loop.failed /\ running' = running
    BY <1>0, <1>8, LoopSteps DEF Heartbeat, Wake, LoopAt
  <2>. QED
    BY <1>7, <2>1 DEF IsRunning
<1>9. CASE \/ \E v \in Wallets : TaskStep(v)
           \/ \E a \in Allowances : UserChanges(a)
           \/ Tick
  <2>1. \A w \in Wallets : GoesOn(w)
    BY <1>0, <1>9, TasksGoOn
  <2>2. \A w \in Wallets :
          IsRunning(w) /\ running[w].pc = "failed" =>
            running'[w] # None /\ running'[w].pc = "failed"
    BY <2>1, TaskAssumption DEF GoesOn, Follows
  <2>3. loop'.failed = loop.failed
    <3>1. CASE Tick
      BY <1>0, <3>1, LoopSteps DEF LoopAt
    <3>2. CASE ~Tick
      BY <1>9, <3>2 DEF TaskStep, BeginRow, EndUnchanged, EndChanged, TaskDone,
          TaskFails, UserChanges
    <3>. QED
      BY <3>1, <3>2
  <2>. QED
    BY <1>7, <2>2, <2>3
<1>. QED
  BY <1>3, <1>4, <1>5, <1>6, <1>8, <1>9
  DEF HealthNext, HeartbeatRecorded, PollFailsRecorded, TickRecorded, CycleUnrecorded,
      RestartUnrecorded, TaskUnrecorded, UserUnrecorded

(* No failure is forgotten before it was written, or its write failed too   *)
(* (tasks.py:482-498).                                                     *)
THEOREM FailuresReported == HealthSpec => FailureReported
<1>1. HealthInv /\ HealthNext => ReportsFailure
  BY FailureStep DEF ReportsFailure
<1>2. HealthInv /\ [HealthNext]_allvars => [ReportsFailure]_allvars
  BY <1>1
<1>. QED
  BY <1>2, HealthInvariant, PTL DEF HealthSpec, FailureReported
=============================================================================
