-------------------------- MODULE QuoteVerifyProofs --------------------------
(***************************************************************************)
(* Proofs about QuoteVerify, for any registers, values, quotes, slices and *)
(* number of calls.                                                        *)
(***************************************************************************)
EXTENDS QuoteVerify, FiniteSetTheorems, SequenceTheorems, TLAPS

(***************************************************************************)
(* The digest over registers determines their values.                      *)
(***************************************************************************)

\* A register has its own place in the order of the registers.
LEMMA NthRank ==
  ASSUME NEW D, IsFiniteSet(D), D \subseteq Nat, NEW i \in D
  PROVE  LET k == Cardinality({j \in D : j <= i})
         IN  k \in 1 .. Cardinality(D) /\ Nth(D, k) = i
  <1> DEFINE Up(x) == {j \in D : j <= x}
             k == Cardinality(Up(i))
  <1>1. ASSUME NEW x \in D
        PROVE  IsFiniteSet(Up(x)) /\ Cardinality(Up(x)) <= Cardinality(D)
               /\ Cardinality(Up(x)) \in Nat /\ x \in Up(x)
    <2>1. Up(x) \in SUBSET D
      OBVIOUS
    <2>2. IsFiniteSet(Up(x)) /\ Cardinality(Up(x)) <= Cardinality(D)
      BY <2>1, FS_Subset
    <2> QED
      BY <2>2, FS_CardinalityType
  <1>2. Cardinality(Up(i)) # 0 /\ Cardinality(D) \in Nat
    BY <1>1, FS_EmptySet, FS_CardinalityType
  <1>3. ASSUME NEW x \in D, NEW y \in D, x < y, Cardinality(Up(x)) = Cardinality(Up(y))
        PROVE  FALSE
    <2>0. x \in Nat /\ y \in Nat /\ \A j \in D : j \in Nat
      OBVIOUS
    <2>1. Up(x) \in SUBSET Up(y)
      <3> SUFFICES ASSUME NEW j \in D, j <= x PROVE j <= y
        OBVIOUS
      <3> QED
        BY <1>3, <2>0
    <2>2. Up(x) = Up(y)
      BY <1>1, <1>3, <2>1, FS_Subset
    <2>3. y \in Up(y) /\ y \notin Up(x)
      BY <1>3
    <2> QED
      BY <2>2, <2>3
  <1>4. ASSUME NEW x \in D, Cardinality(Up(x)) = k
        PROVE  x = i
    <2>1. x \in Nat /\ i \in Nat
      OBVIOUS
    <2> QED
      BY <1>3, <1>4, <2>1
  <1>5. k \in 1 .. Cardinality(D)
    BY <1>1, <1>2
  <1>6. Nth(D, k) = i
    BY <1>4 DEF Nth
  <1> QED
    BY <1>5, <1>6

\* Two banks with the same registers and the same digest.
SameDigest(f, g) ==
  /\ DOMAIN f = DOMAIN g /\ IsFiniteSet(DOMAIN f) /\ DOMAIN f \subseteq Nat
  /\ Concat(f) = Concat(g)

\* They have the same values.
LEMMA ConcatInjective ==
  ASSUME NEW f, NEW g, SameDigest(f, g)
  PROVE  \A i \in DOMAIN f : f[i] = g[i]
  <1> DEFINE D == DOMAIN f
  <1>0. DOMAIN g = D /\ IsFiniteSet(D) /\ D \subseteq Nat /\ Concat(f) = Concat(g)
    BY DEF SameDigest
  <1> SUFFICES ASSUME NEW i \in D PROVE f[i] = g[i]
    OBVIOUS
  <1> DEFINE k == Cardinality({j \in D : j <= i})
  <1>1. k \in 1 .. Cardinality(D) /\ Nth(D, k) = i
    BY <1>0, NthRank
  <1> HIDE DEF k
  <1>2. Concat(f)[k] = f[i] /\ Concat(g)[k] = g[i]
    BY <1>0, <1>1 DEF Concat
  <1> QED
    BY <1>0, <1>2

\* The slice s has n elements, is sorted, and has each register of D once.
EachOnce(s, D, n) ==
  /\ n \in Nat /\ D \subseteq Nat /\ n = Cardinality(D)
  /\ \A m \in 1 .. n : s[m].index \in D
  /\ \A d \in D : \E m \in 1 .. n : s[m].index = d
  /\ \A l, m \in 1 .. n : l < m => s[l].index <= s[m].index

\* Then it has the registers of D in their order.
LEMMA SortedNth ==
  ASSUME NEW s, NEW D, NEW n, EachOnce(s, D, n)
  PROVE  \A k \in 1 .. n : Nth(D, k) = s[k].index
  <1> SUFFICES ASSUME n \in Nat, D \subseteq Nat, n = Cardinality(D),
                      \A m \in 1 .. n : s[m].index \in D,
                      \A d \in D : \E m \in 1 .. n : s[m].index = d,
                      \A l, m \in 1 .. n : l < m => s[l].index <= s[m].index,
                      NEW k \in 1 .. n
               PROVE  Nth(D, k) = s[k].index
    BY DEF EachOnce
  <1> DEFINE g == [m \in 1 .. n |-> s[m].index]
             R == {j \in D : j <= s[k].index}
             h == [m \in 1 .. k |-> s[m].index]
  <1>0. \A m \in 1 .. n : s[m].index \in Nat
    OBVIOUS
  <1>1. g \in Surjection(1 .. n, D)
    BY DEF Surjection
  <1>2. IsFiniteSet(1 .. n) /\ Cardinality(1 .. n) = n
    BY FS_Interval
  <1>3. g \in Injection(1 .. n, D) /\ IsFiniteSet(D)
    BY <1>1, <1>2, FS_Surjection
  <1>4. \A a, b \in 1 .. n : s[a].index = s[b].index => a = b
    BY <1>3 DEF Injection, IsInjective
  <1>5. h \in Bijection(1 .. k, R)
    <2>1. h \in [1 .. k -> R]
      <3> SUFFICES ASSUME NEW m \in 1 .. k PROVE s[m].index \in R
        OBVIOUS
      <3>1. m \in 1 .. n /\ (m < k \/ m = k)
        OBVIOUS
      <3>2. s[m].index \in D /\ s[m].index <= s[k].index
        BY <1>0, <3>1
      <3> QED
        BY <3>2
    <2>2. \A a, b \in 1 .. k : h[a] = h[b] => a = b
      BY <1>4
    <2>3. ASSUME NEW r \in R PROVE \E m \in 1 .. k : h[m] = r
      <3>0. r \in D /\ r <= s[k].index
        OBVIOUS
      <3>1. PICK m \in 1 .. n : s[m].index = r
        BY <3>0
      <3>2. ~(k < m)
        <4>1. SUFFICES ASSUME k < m PROVE FALSE
          OBVIOUS
        <4>2. s[k].index <= s[m].index
          BY <4>1
        <4>3. s[m].index = s[k].index
          BY <1>0, <3>0, <3>1, <4>2
        <4> QED
          BY <1>4, <4>1, <4>3
      <3> QED
        BY <3>1, <3>2
    <2> QED
      BY <2>1, <2>2, <2>3 DEF Bijection, Injection, Surjection, IsInjective
  <1>6. IsFiniteSet(1 .. k) /\ Cardinality(1 .. k) = k
    BY FS_Interval
  <1>7. Cardinality(R) = k
    <2>1. ExistsBijection(1 .. k, R)
      BY <1>5 DEF ExistsBijection
    <2> QED
      BY <1>6, <2>1, FS_Bijection
  <1>8. s[k].index \in D
    OBVIOUS
  <1>9. Nth(D, Cardinality(R)) = s[k].index
    BY <1>3, <1>8, NthRank
  <1> QED
    BY <1>7, <1>9

(***************************************************************************)
(* What a call does to the slice.                                          *)
(***************************************************************************)

\* The slices s and t have the same registers with the same values.
SameData(s, t) ==
  /\ DOMAIN s = DOMAIN t
  /\ \A k \in DOMAIN s : /\ s[k].index = t[k].index
                         /\ s[k].alg = t[k].alg
                         /\ s[k].digest = t[k].digest

\* The algorithms of the slice are found by their identifiers.
LEMMA KnownHash ==
  ASSUME NEW a \in {"sha1", "sha256"}
  PROVE  cryptoHash(a) = a
  BY HashIDAssumption DEF cryptoHash

\* No other algorithm is taken for one of them in a quote of the AK.
LEMMA HashOfQuote ==
  ASSUME NEW q \in Quotes, q.signer = "ak", cryptoHash(q.bank) \in {"sha1", "sha256"}
  PROVE  cryptoHash(q.bank) = q.bank
  <1>1. q.bank \in Bank /\ HashID[q.bank] \in Nat /\ HashID[q.bank] < 256
    BY HashIDAssumption, QuotesAssumption
  <1>2. HashID[q.bank] % 256 = HashID[q.bank]
    BY <1>1
  <1>3. HashID[q.bank] = 4 \/ HashID[q.bank] = 11
    BY <1>2 DEF cryptoHash
  <1>4. q.bank \in {"sha1", "sha256"}
    BY <1>1, <1>3, HashIDAssumption
  <1> QED
    BY <1>4, KnownHash

\* The register r of a slice is one that the quote q is over.
Over(q, r) == r.index \in DOMAIN q.vals /\ r.alg = cryptoHash(q.bank)

\* The elements of a slice are registers.
LEMMA SliceElements ==
  ASSUME NEW s \in Seq(PCRs)
  PROVE  /\ Len(s) \in Nat /\ DOMAIN s = 1 .. Len(s)
         /\ \A k \in DOMAIN s : /\ s[k] \in PCRs
                                /\ s[k].index \in PCRIndex /\ s[k].index \in Nat
                                /\ s[k].alg \in {"sha1", "sha256"}
                                /\ s[k].quoteVerified \in BOOLEAN
  <1>1. Len(s) \in Nat /\ DOMAIN s = 1 .. Len(s) /\ s \in [1 .. Len(s) -> PCRs]
    BY LenProperties
  <1>2. \A k \in DOMAIN s : s[k] \in PCRs
    BY <1>1
  <1>3. \A r \in PCRs : r.index \in PCRIndex /\ r.alg \in {"sha1", "sha256"}
    BY DEF PCRs
  <1>4. \A r \in PCRs : r.quoteVerified \in BOOLEAN
    BY Zenon DEF PCRs
  <1> QED
    BY <1>1, <1>2, <1>3, <1>4, PCRsAssumption

\* Marking a register leaves its data alone.
LEMMA MarkElement ==
  ASSUME NEW r \in PCRs
  PROVE  \A x : x = [r EXCEPT !.quoteVerified = TRUE] =>
           /\ x \in PCRs /\ x.index = r.index /\ x.alg = r.alg /\ x.digest = r.digest
           /\ x.quoteVerified
  BY DEF PCRs

\* validate20Quote marks the registers that the quote is over.
LEMMA Mark20Does ==
  ASSUME NEW s \in Seq(PCRs), NEW q
  PROVE  /\ Mark20(q, s) \in Seq(PCRs)
         /\ SameData(Mark20(q, s), s)
         /\ \A k \in DOMAIN s :
              Mark20(q, s)[k].quoteVerified <=> s[k].quoteVerified \/ Over(q, s[k])
  <1> DEFINE t == Mark20(q, s)
  <1>1. /\ Len(s) \in Nat /\ DOMAIN s = 1 .. Len(s)
        /\ \A k \in DOMAIN s : s[k] \in PCRs /\ s[k].quoteVerified \in BOOLEAN
    BY SliceElements
  <1>2. DOMAIN t = DOMAIN s
    BY DEF Mark20
  <1>3. ASSUME NEW k \in DOMAIN s
        PROVE  /\ t[k] \in PCRs
               /\ t[k].index = s[k].index /\ t[k].alg = s[k].alg /\ t[k].digest = s[k].digest
               /\ t[k].quoteVerified <=> s[k].quoteVerified \/ Over(q, s[k])
    <2>1. CASE Over(q, s[k])
      <3>1. t[k] = [s[k] EXCEPT !.quoteVerified = TRUE]
        BY <2>1 DEF Mark20, Over
      <3> HIDE DEF t
      <3> QED
        BY <1>1, <2>1, <3>1, MarkElement
    <2>2. CASE ~Over(q, s[k])
      <3>1. t[k] = s[k]
        BY <2>2 DEF Mark20, Over
      <3> HIDE DEF t
      <3> QED
        BY <1>1, <2>2, <3>1
    <2> QED
      BY <2>1, <2>2
  <1>4. t = [k \in 1 .. Len(s) |-> t[k]]
    BY <1>1, <1>2 DEF Mark20
  <1> HIDE DEF t
  <1>5. t \in Seq(PCRs)
    BY <1>1, <1>3, <1>4, IsASeq
  <1>6. SameData(t, s)
    BY <1>2, <1>3 DEF SameData
  <1> QED
    BY <1>3, <1>5, <1>6 DEF t

\* validate12Quote marks every register.
LEMMA Mark12Does ==
  ASSUME NEW s \in Seq(PCRs)
  PROVE  Mark12(s) \in Seq(PCRs) /\ SameData(Mark12(s), s)
  <1> DEFINE t == Mark12(s)
  <1>1. Len(s) \in Nat /\ DOMAIN s = 1 .. Len(s) /\ \A k \in DOMAIN s : s[k] \in PCRs
    BY SliceElements
  <1>2. DOMAIN t = DOMAIN s
    BY DEF Mark12
  <1>3. ASSUME NEW k \in DOMAIN s
        PROVE  /\ t[k] \in PCRs
               /\ t[k].index = s[k].index /\ t[k].alg = s[k].alg /\ t[k].digest = s[k].digest
    <2>1. t[k] = [s[k] EXCEPT !.quoteVerified = TRUE]
      BY DEF Mark12
    <2> HIDE DEF t
    <2> QED
      BY <1>1, <2>1, MarkElement
  <1>4. t = [k \in 1 .. Len(s) |-> t[k]]
    BY <1>1, <1>2 DEF Mark12
  <1> HIDE DEF t
  <1>5. t \in Seq(PCRs)
    BY <1>1, <1>3, <1>4, IsASeq
  <1>6. SameData(t, s)
    BY <1>2, <1>3 DEF SameData
  <1> QED
    BY <1>5, <1>6 DEF t

\* Slices with the same data are distinct together.
LEMMA SameDistinct ==
  ASSUME NEW s, NEW t, SameData(s, t)
  PROVE  Distinct(s) <=> Distinct(t)
  BY DEF SameData, Distinct

\* What sort.Slice makes of a slice: its elements, in another order.
LEMMA SortingDoes ==
  ASSUME NEW s \in Seq(PCRs), NEW t \in Sortings(s)
  PROVE  /\ t \in Seq(PCRs) /\ DOMAIN t = DOMAIN s
         /\ \A j, k \in DOMAIN s : j < k => t[j].index <= t[k].index
         /\ \E f \in Bijection(DOMAIN s, DOMAIN s) : \A k \in DOMAIN s : t[k] = s[f[k]]
  <1>1. PICK f \in Bijection(DOMAIN s, DOMAIN s) : t = [k \in DOMAIN s |-> s[f[k]]]
    BY DEF Sortings
  <1>2. \A j, k \in DOMAIN s : j < k => t[j].index <= t[k].index
    BY DEF Sortings
  <1>3. f \in [DOMAIN s -> DOMAIN s]
    BY DEF Bijection, Injection
  <1>4. Len(s) \in Nat /\ DOMAIN s = 1 .. Len(s) /\ \A k \in DOMAIN s : s[k] \in PCRs
    BY SliceElements
  <1>5. \A k \in 1 .. Len(s) : t[k] \in PCRs
    BY <1>1, <1>3, <1>4
  <1>6. t = [k \in 1 .. Len(s) |-> t[k]]
    BY <1>1, <1>4
  <1>7. t \in Seq(PCRs)
    BY <1>4, <1>5, <1>6, IsASeq
  <1>8. DOMAIN t = DOMAIN s
    BY <1>1
  <1>9. f \in Bijection(DOMAIN s, DOMAIN s) /\ \A k \in DOMAIN s : t[k] = s[f[k]]
    BY <1>1
  <1>10. \E g \in Bijection(DOMAIN s, DOMAIN s) : \A k \in DOMAIN s : t[k] = s[g[k]]
    BY <1>9, Zenon
  <1> QED
    BY <1>2, <1>7, <1>8, <1>10

\* Sorting a slice makes no register of it the same as another.
LEMMA SortingDistinct ==
  ASSUME NEW s \in Seq(PCRs), NEW t \in Sortings(s)
  PROVE  Distinct(s) <=> Distinct(t)
  <1>1. PICK f \in Bijection(DOMAIN s, DOMAIN s) : \A k \in DOMAIN s : t[k] = s[f[k]]
    BY SortingDoes
  <1>2. /\ \A k \in DOMAIN s : f[k] \in DOMAIN s
        /\ \A j, k \in DOMAIN s : f[j] = f[k] => j = k
        /\ \A m \in DOMAIN s : \E k \in DOMAIN s : f[k] = m
    BY DEF Bijection, Injection, Surjection, IsInjective
  <1>3. DOMAIN t = DOMAIN s
    BY SortingDoes
  <1>4. ASSUME Distinct(s), NEW j \in DOMAIN s, NEW k \in DOMAIN s,
               t[j].index = t[k].index, t[j].alg = t[k].alg
        PROVE  j = k
    <2>1. t[j] = s[f[j]] /\ t[k] = s[f[k]] /\ f[j] \in DOMAIN s /\ f[k] \in DOMAIN s
      BY <1>1, <1>2
    <2>2. f[j] = f[k]
      BY <1>4, <2>1 DEF Distinct
    <2> QED
      BY <1>2, <2>2
  <1>5. ASSUME Distinct(t), NEW j \in DOMAIN s, NEW k \in DOMAIN s,
               s[j].index = s[k].index, s[j].alg = s[k].alg
        PROVE  j = k
    <2>1. PICK a \in DOMAIN s : f[a] = j
      BY <1>2
    <2>2. PICK b \in DOMAIN s : f[b] = k
      BY <1>2
    <2>3. t[a] = s[j] /\ t[b] = s[k]
      BY <1>1, <2>1, <2>2
    <2>4. a = b
      BY <1>3, <1>5, <2>3 DEF Distinct
    <2> QED
      BY <2>1, <2>2, <2>4
  <1> QED
    BY <1>3, <1>4, <1>5 DEF Distinct

\* The registers that validate20Quote finds for an algorithm.
LEMMA ByIndexDomain ==
  ASSUME NEW s, NEW a
  PROVE  /\ \A k \in DOMAIN s : s[k].alg = a => s[k].index \in DOMAIN pcrByIndex(s, a)
         /\ \A i \in DOMAIN pcrByIndex(s, a) :
              \E k \in DOMAIN s : s[k].alg = a /\ s[k].index = i
         /\ pcrByIndex(s, a) = [i \in DOMAIN pcrByIndex(s, a) |-> pcrByIndex(s, a)[i]]
  BY DEF pcrByIndex

\* A set of places in a sequence has a last one.
LEMMA LastPlace ==
  ASSUME NEW n \in Nat, NEW T, T \subseteq 1 .. n, T # {}
  PROVE  \E k \in T : \A j \in T : j <= k
  <1> DEFINE U == {m \in Nat : n - m \in T}
             R == OpToRel(<, Nat)
  <1>1. IsWellFoundedOn(R, Nat)
    BY NatLessThanWellFounded
  <1>2. \A x, y \in Nat : <<x, y>> \in R <=> x < y
    BY DEF OpToRel
  <1>3. \A k \in T : k \in Int /\ n - k \in Nat /\ n - (n - k) = k
    OBVIOUS
  <1>4. U \subseteq Nat /\ U # {} /\ \A k \in T : n - k \in U
    BY <1>3
  <1> HIDE DEF R, U
  <1>5. PICK x \in U : \A y \in U : ~(<<y, x>> \in R)
    BY <1>1, <1>4, WFMin
  <1>6. x \in Nat /\ n - x \in T
    BY <1>5 DEF U
  <1>7. \A k \in T : ~(n - k < x)
    BY <1>2, <1>3, <1>4, <1>5, <1>6
  <1> QED
    BY <1>3, <1>6, <1>7

\* They depend on the data of the slice only.
LEMMA ByIndexData ==
  ASSUME NEW s \in Seq(PCRs), NEW t, SameData(s, t), NEW a
  PROVE  pcrByIndex(s, a) = pcrByIndex(t, a)
  <1> DEFINE At(u, i) == {k \in DOMAIN u : u[k].alg = a /\ u[k].index = i}
             Pick(u, i) == CHOOSE k \in At(u, i) : \A j \in At(u, i) : j <= k
             idx(u) == {u[k].index : k \in {j \in DOMAIN u : u[j].alg = a}}
  <1>1. ASSUME NEW i PROVE At(s, i) = At(t, i)
    BY DEF SameData
  <1>2. idx(s) = idx(t)
    <2>1. ASSUME NEW i PROVE i \in idx(s) <=> i \in idx(t)
      BY DEF SameData
    <2> QED
      BY <2>1
  <1>3. ASSUME NEW i \in idx(s)
        PROVE  s[Pick(s, i)].digest = t[Pick(t, i)].digest
    <2>1. At(s, i) = At(t, i)
      BY <1>1
    <2>2. Pick(s, i) = Pick(t, i)
      BY <2>1
    <2>3. At(s, i) # {} /\ At(s, i) \subseteq DOMAIN s
      OBVIOUS
    <2> HIDE DEF At
    <2>4. Pick(s, i) \in At(s, i)
      <3>1. Len(s) \in Nat /\ DOMAIN s = 1 .. Len(s)
        BY SliceElements
      <3>2. \E k \in At(s, i) : \A j \in At(s, i) : j <= k
        BY <2>3, <3>1, LastPlace
      <3> QED
        BY <3>2
    <2>5. Pick(s, i) \in DOMAIN s
      BY <2>3, <2>4
    <2> HIDE DEF Pick
    <2> QED
      BY <2>2, <2>5 DEF SameData
  <1>4. pcrByIndex(s, a) = [i \in idx(s) |-> s[Pick(s, i)].digest]
    BY DEF pcrByIndex
  <1>5. pcrByIndex(t, a) = [i \in idx(t) |-> t[Pick(t, i)].digest]
    BY DEF pcrByIndex
  <1> HIDE DEF Pick, idx, At
  <1> QED
    BY <1>2, <1>3, <1>4, <1>5

\* If the registers are distinct, each one's value is found.
LEMMA ByIndexDistinct ==
  ASSUME NEW s \in Seq(PCRs), Distinct(s), NEW k \in DOMAIN s
  PROVE  pcrByIndex(s, s[k].alg)[s[k].index] = s[k].digest
  <1> DEFINE At == {l \in DOMAIN s : s[l].alg = s[k].alg /\ s[l].index = s[k].index}
  <1>1. At = {k}
    BY DEF Distinct
  <1>2. k \in Nat
    BY SliceElements
  <1>3. (CHOOSE l \in At : \A j \in At : j <= l) = k
    BY <1>1, <1>2
  <1>4. s[k].index \in {s[l].index : l \in {j \in DOMAIN s : s[j].alg = s[k].alg}}
    OBVIOUS
  <1> QED
    BY <1>3, <1>4 DEF pcrByIndex

(***************************************************************************)
(* Quotes that verify.                                                     *)
(***************************************************************************)

\* A quote has a set of registers, each with a value.
LEMMA QuoteElements ==
  ASSUME NEW q \in Quotes
  PROVE  /\ DOMAIN q.vals # {} /\ IsFiniteSet(DOMAIN q.vals) /\ DOMAIN q.vals \subseteq Nat
         /\ q.vals = [i \in DOMAIN q.vals |-> q.vals[i]]
  <1>1. /\ DOMAIN q.vals # {} /\ DOMAIN q.vals \in SUBSET PCRIndex
        /\ q.vals \in [DOMAIN q.vals -> Digest]
    BY QuotesAssumption
  <1> QED
    BY <1>1, PCRsAssumption, FS_Subset

\* A quote that validate20Quote accepts shows the values of its bank.
LEMMA QuotedValues ==
  ASSUME NEW q \in Quotes, NEW s, Quoted20(q, s)
  PROVE  q.vals = pcrByIndex(s, cryptoHash(q.bank))
  <1> DEFINE f == pcrByIndex(s, cryptoHash(q.bank))
             D == DOMAIN q.vals
  <1>1. DOMAIN f = D /\ Concat(q.vals) = Concat(f)
    BY DEF Quoted20
  <1>2. f = [i \in DOMAIN f |-> f[i]]
    BY ByIndexDomain
  <1>3. IsFiniteSet(D) /\ D \subseteq Nat /\ q.vals = [i \in D |-> q.vals[i]]
    BY QuoteElements
  <1>4. SameDigest(q.vals, f)
    BY <1>1, <1>3 DEF SameDigest
  <1> HIDE DEF f
  <1>5. \A i \in D : q.vals[i] = f[i]
    BY <1>4, ConcatInjective
  <1>6. q.vals = f
    BY <1>1, <1>2, <1>3, <1>5
  <1> QED
    BY <1>6 DEF f

\* The quote q vouches for the register r.
Vouches(q, r) ==
  /\ q.signer = "ak" /\ q.typ = "quote"
  /\ q.version = 20 => q.bank = r.alg
  /\ r.index \in DOMAIN q.vals
  /\ q.vals[r.index] = r.digest

\* It does so for every register that validate20Quote marks.
LEMMA Vouches20 ==
  ASSUME NEW q \in Quotes, NEW s \in Seq(PCRs), Quoted20(q, s), Distinct(s),
         NEW k \in DOMAIN s, Over(q, s[k])
  PROVE  Vouches(q, s[k])
  <1>1. s[k].alg = cryptoHash(q.bank) /\ s[k].alg \in {"sha1", "sha256"}
    BY SliceElements DEF Over
  <1>2. q.signer = "ak" /\ q.typ = "quote"
    BY DEF Quoted20, Signed
  <1>3. q.vals[s[k].index] = s[k].digest
    BY <1>1, QuotedValues, ByIndexDistinct
  <1>4. q.bank = s[k].alg
    BY <1>1, <1>2, HashOfQuote
  <1> QED
    BY <1>2, <1>3, <1>4 DEF Vouches, Over

\* And for every register that validate12Quote marks.
LEMMA Vouches12 ==
  ASSUME NEW q \in Quotes, q.version = 12, q.signer = "ak", q.typ = "quote",
         NEW p \in Seq(PCRs), NEW s \in Sortings(p), Quoted12(q, s), NEW k \in DOMAIN s
  PROVE  Vouches(q, s[k])
  <1> DEFINE D == DOMAIN q.vals
             n == Len(s)
  <1>1. /\ s \in Seq(PCRs) /\ DOMAIN s = DOMAIN p
        /\ \A i, j \in DOMAIN p : i < j => s[i].index <= s[j].index
    BY SortingDoes
  <1>2. n \in Nat /\ DOMAIN s = 1 .. n
    BY <1>1, SliceElements
  <1>3. IsFiniteSet(D) /\ D \subseteq Nat
    BY QuoteElements
  <1>4. Cardinality(D) \in Nat
    BY <1>3, FS_CardinalityType
  <1>5. [i \in DOMAIN s |-> s[i].digest] = Concat(q.vals)
    BY DEF Quoted12
  <1>6. Concat(q.vals) = [i \in 1 .. Cardinality(D) |-> q.vals[Nth(D, i)]]
    BY DEF Concat
  <1>7. 1 .. n = 1 .. Cardinality(D)
    <2> DEFINE g == [i \in DOMAIN s |-> s[i].digest]
               c == [i \in 1 .. Cardinality(D) |-> q.vals[Nth(D, i)]]
    <2>1. DOMAIN g = 1 .. n /\ DOMAIN c = 1 .. Cardinality(D)
      BY <1>2
    <2> QED
      BY <1>5, <1>6, <2>1
  <1>8. n = Cardinality(D)
    BY <1>2, <1>4, <1>7
  <1>9. D = {s[i].index : i \in 1 .. n}
    BY <1>2 DEF Quoted12
  <1>10. s[k].digest = q.vals[Nth(D, k)]
    BY <1>2, <1>5, <1>6, <1>7
  <1>11. /\ \A m \in 1 .. n : s[m].index \in D
         /\ \A d \in D : \E m \in 1 .. n : s[m].index = d
         /\ \A i, j \in 1 .. n : i < j => s[i].index <= s[j].index
    BY <1>1, <1>2, <1>9
  <1>12. k \in 1 .. n
    BY <1>2
  <1> HIDE DEF D, n
  <1>13. Nth(D, k) = s[k].index
    <2>1. EachOnce(s, D, n)
      BY <1>2, <1>3, <1>8, <1>11 DEF EachOnce
    <2> QED
      BY <2>1, <1>12, SortedNth
  <1>14. s[k].index \in D
    BY <1>11, <1>12
  <1> QED
    BY <1>10, <1>13, <1>14 DEF Vouches, D

(***************************************************************************)
(* The inductive invariant.                                                *)
(***************************************************************************)

Types ==
  /\ pcrs \in Seq(PCRs) /\ given \in Seq(PCRs)
  /\ quotes \in Seq(Quotes) /\ next \in Nat \ {0}
  /\ pc \in {"idle", "verify"} /\ all \in BOOLEAN
  /\ shown \subseteq Quotes

\* A call makes no register of the slice the same as another, and got the quotes
\* of its nonce together with it.
CallInv ==
  /\ Distinct(given) <=> Distinct(pcrs)
  /\ \A j \in DOMAIN quotes : quotes[j].nonce = nonce => quotes[j] \in shown

\* A marked register has a quote that vouches for it.
MarkInv ==
  Distinct(pcrs) =>
    \A k \in DOMAIN pcrs : pcrs[k].quoteVerified => \E q \in shown : Vouches(q, pcrs[k])

\* The call is one that DecidesAsSpecified is about.
Fresh ==
  /\ all /\ Distinct(given) /\ Unmarked(given) /\ nonce # NoNonce
  /\ \A j \in DOMAIN quotes : quotes[j].version = 20

\* The quotes of the call, each valid on its own.
ValidTo(n) == \A j \in 1 .. n : Quoted20(quotes[j], given)

\* In such a call the marks are those of the quotes so far, all of them valid,
\* and the call returns nil if all quotes are valid and mark every register.
DecideInv ==
  Fresh =>
    /\ pc = "verify" =>
         /\ next <= Len(quotes) + 1
         /\ SameData(pcrs, given)
         /\ ValidTo(next - 1)
         /\ \A k \in DOMAIN pcrs :
              pcrs[k].quoteVerified <=> \E j \in 1 .. next - 1 : Over(quotes[j], given[k])
    /\ pc = "idle" /\ result # "none" =>
         (result = "ok" <=>
            /\ quotes # << >>
            /\ ValidTo(Len(quotes))
            /\ \A k \in DOMAIN given : \E j \in 1 .. Len(quotes) : Over(quotes[j], given[k]))

IInv == Types /\ CallInv /\ MarkInv /\ DecideInv

\* Whether a quote vouches for a register, or is over it, depends on its data.
LEMMA SameVouched ==
  ASSUME NEW s, NEW t, SameData(s, t), NEW k \in DOMAIN s, NEW q
  PROVE  /\ Vouches(q, s[k]) <=> Vouches(q, t[k])
         /\ Over(q, s[k]) <=> Over(q, t[k])
  BY DEF SameData, Vouches, Over

\* A quote does not depend on the marks of the registers.
LEMMA SameQuoted ==
  ASSUME NEW s \in Seq(PCRs), NEW t, SameData(s, t), NEW q
  PROVE  Quoted20(q, s) <=> Quoted20(q, t)
  <1>1. pcrByIndex(s, cryptoHash(q.bank)) = pcrByIndex(t, cryptoHash(q.bank))
    BY ByIndexData
  <1> QED
    BY <1>1 DEF Quoted20

\* The invariant holds at first.
LEMMA InitIInv == Init => IInv
  <1> SUFFICES ASSUME Init PROVE IInv
    OBVIOUS
  <1>1. pcrs \in Seq(PCRs) /\ \A k \in DOMAIN pcrs : ~pcrs[k].quoteVerified
    BY PCRsAssumption DEF Init
  <1>2. Types
    <2>1. all \in BOOLEAN
      BY DEF Init
    <2>2. quotes \in Seq(Quotes)
      BY DEF Init
    <2> QED
      BY <1>1, <2>1, <2>2 DEF Init, Types
  <1>3. CallInv
    BY DEF Init, CallInv
  <1>4. MarkInv
    BY <1>1 DEF MarkInv
  <1>5. DecideInv
    BY DEF Init, DecideInv
  <1> QED
    BY <1>2, <1>3, <1>4, <1>5 DEF IInv

\* A call starts from the slice as it is.
LEMMA CallStep ==
  ASSUME IInv, NEW isAll \in BOOLEAN, NEW qs \in Seq(Quotes), NEW n, Call(isAll, qs, n)
  PROVE  IInv'
  <1>1. /\ pc' = "verify" /\ next' = 1 /\ quotes' = qs /\ nonce' = n
        /\ given' = pcrs /\ pcrs' = pcrs
        /\ shown' = shown \cup {q \in ToSet(qs) : q.nonce = n}
    BY DEF Call
  <1>2. all' = isAll
    BY DEF Call
  <1>3. \A j \in DOMAIN qs : qs[j] \in ToSet(qs) /\ qs[j] \in Quotes
    BY DEF ToSet
  <1>4. ToSet(qs) \subseteq Quotes
    BY DEF ToSet
  <1>5. Types'
    <2>1. all' \in BOOLEAN
      BY <1>2
    <2> QED
      BY <1>1, <1>4, <2>1 DEF IInv, Types
  <1>6. CallInv'
    BY <1>1, <1>3 DEF CallInv
  <1>7. MarkInv'
    BY <1>1 DEF IInv, MarkInv
  <1>8. DecideInv'
    <2>1. SUFFICES ASSUME Fresh'
                   PROVE  /\ next' <= Len(quotes') + 1
                          /\ SameData(pcrs', given')
                          /\ ValidTo(next - 1)'
                          /\ \A k \in DOMAIN pcrs' :
                               pcrs'[k].quoteVerified <=>
                                 \E j \in 1 .. next' - 1 : Over(quotes'[j], given'[k])
      BY <1>1 DEF DecideInv
    <2>2. \A k \in DOMAIN pcrs : ~pcrs[k].quoteVerified
      BY <1>1, <2>1 DEF Fresh, Unmarked
    <2>3. 1 .. next' - 1 = {} /\ next' <= Len(quotes') + 1
      BY <1>1
    <2>4. ValidTo(next - 1)'
      BY <2>3 DEF ValidTo
    <2>5. SameData(pcrs', given')
      BY <1>1 DEF SameData
    <2> QED
      BY <1>1, <2>2, <2>3, <2>4, <2>5
  <1> QED
    BY <1>5, <1>6, <1>7, <1>8 DEF IInv

\* A step of a call that leaves the slice alone.
LEMMA KeepsSlice ==
  ASSUME IInv, UNCHANGED <<keyType, pcrs, shown, callVars>>,
         pc' \in {"idle", "verify"}, next' \in Nat \ {0}
  PROVE  /\ Types' /\ CallInv' /\ MarkInv'
         /\ Fresh' <=> Fresh
         /\ \A n : ValidTo(n)' <=> ValidTo(n)
  <1>1. /\ pcrs' = pcrs /\ shown' = shown /\ keyType' = keyType
        /\ all' = all /\ quotes' = quotes /\ nonce' = nonce /\ given' = given
    BY DEF callVars
  <1>2. Types'
    <2>1. all' \in BOOLEAN
      BY <1>1 DEF IInv, Types
    <2> QED
      BY <1>1, <2>1 DEF IInv, Types
  <1>3. CallInv' /\ MarkInv'
    BY <1>1 DEF IInv, CallInv, MarkInv
  <1>4. Fresh' <=> Fresh
    BY <1>1 DEF Fresh
  <1>5. \A n : ValidTo(n)' <=> ValidTo(n)
    BY <1>1 DEF ValidTo, Quoted20, Signed
  <1> QED
    BY <1>2, <1>3, <1>4, <1>5

\* validate20Quote marks the registers of a quote that is valid.
LEMMA Validate20Step ==
  ASSUME IInv, validate20Quote
  PROVE  IInv'
  <1> DEFINE q == quotes[next]
  <1>1. /\ pc = "verify" /\ next <= Len(quotes) /\ q.version = 20
        /\ UNCHANGED <<keyType, shown, callVars>>
    BY DEF validate20Quote, Verifying
  <1>2. /\ all' = all /\ quotes' = quotes /\ nonce' = nonce /\ given' = given
        /\ shown' = shown /\ keyType' = keyType
    BY <1>1 DEF callVars
  <1>3. /\ next \in Nat /\ next # 0 /\ next \in DOMAIN quotes /\ q \in Quotes
        /\ Len(quotes) \in Nat
    BY <1>1 DEF IInv, Types
  <1>4. CASE ~Quoted20(q, pcrs)
    <2>1. pcrs' = pcrs /\ pc' = "idle" /\ result' = "error" /\ next' = next
      BY <1>4 DEF validate20Quote, Rejected, Return
    <2>2. /\ Types' /\ CallInv' /\ MarkInv'
          /\ Fresh' <=> Fresh
          /\ \A n : ValidTo(n)' <=> ValidTo(n)
      BY <1>1, <1>3, <2>1, KeepsSlice
    <2>3. ASSUME Fresh PROVE ~ValidTo(Len(quotes))
      <3>1. SameData(pcrs, given) /\ pcrs \in Seq(PCRs)
        BY <1>1, <2>3 DEF IInv, DecideInv, Types
      <3>2. ~Quoted20(q, given)
        BY <1>4, <3>1, SameQuoted
      <3> QED
        BY <1>1, <1>3, <3>2 DEF ValidTo
    <2>4. DecideInv'
      <3> SUFFICES ASSUME Fresh PROVE ~ValidTo(Len(quotes))'
        BY <2>1, <2>2 DEF DecideInv
      <3>1. ~ValidTo(Len(quotes))
        BY <2>3
      <3> QED
        BY <1>2, <3>1 DEF ValidTo, Quoted20, Signed
    <2> QED
      BY <2>2, <2>4 DEF IInv
  <1>5. CASE Quoted20(q, pcrs)
    <2>1. /\ pcrs' = Mark20(q, pcrs) /\ next' = next + 1
          /\ all => pc' = pc /\ result' = result
          /\ ~all => pc' = "idle"
      BY <1>5 DEF validate20Quote, Accepted, Return
    <2>2. pcrs \in Seq(PCRs)
      BY DEF IInv, Types
    <2>3. /\ pcrs' \in Seq(PCRs) /\ SameData(pcrs', pcrs) /\ DOMAIN pcrs' = DOMAIN pcrs
          /\ \A k \in DOMAIN pcrs :
               pcrs'[k].quoteVerified <=> pcrs[k].quoteVerified \/ Over(q, pcrs[k])
      BY <2>1, <2>2, Mark20Does DEF SameData
    <2>4. Types'
      <3>1. all' \in BOOLEAN /\ pc' \in {"idle", "verify"} /\ next' \in Nat \ {0}
        BY <1>1, <1>2, <1>3, <2>1 DEF IInv, Types
      <3> QED
        BY <1>2, <2>3, <3>1 DEF IInv, Types
    <2>5. CallInv'
      BY <1>2, <2>3, SameDistinct DEF IInv, CallInv
    <2>6. MarkInv'
      <3> SUFFICES ASSUME Distinct(pcrs'), NEW k \in DOMAIN pcrs', pcrs'[k].quoteVerified
                   PROVE  \E r \in shown' : Vouches(r, pcrs'[k])
        BY DEF MarkInv
      <3>1. Distinct(pcrs) /\ k \in DOMAIN pcrs
        BY <2>3, SameDistinct
      <3>2. \E r \in shown : Vouches(r, pcrs[k])
        <4>1. CASE pcrs[k].quoteVerified
          BY <3>1, <4>1 DEF IInv, MarkInv
        <4>2. CASE Over(q, pcrs[k])
          <5>1. Vouches(q, pcrs[k])
            BY <1>3, <1>5, <2>2, <3>1, <4>2, Vouches20
          <5>2. q \in shown
            BY <1>3, <1>5 DEF IInv, CallInv, Quoted20, Signed
          <5> QED
            BY <5>1, <5>2
        <4> QED
          BY <2>3, <3>1, <4>1, <4>2
      <3> QED
        BY <1>2, <2>3, <3>1, <3>2, SameVouched
    <2>7. DecideInv'
      <3> SUFFICES ASSUME Fresh'
                   PROVE  /\ next' <= Len(quotes) + 1
                          /\ SameData(pcrs', given)
                          /\ ValidTo(next - 1)'
                          /\ \A k \in DOMAIN pcrs' :
                               pcrs'[k].quoteVerified <=>
                                 \E j \in 1 .. next' - 1 : Over(quotes[j], given[k])
        <4>1. Fresh' => pc' = "verify"
          BY <1>1, <1>2, <2>1 DEF Fresh
        <4> QED
          BY <1>2, <4>1 DEF DecideInv
      <3>1. Fresh
        BY <1>2 DEF Fresh
      <3>2. /\ SameData(pcrs, given) /\ ValidTo(next - 1)
            /\ \A k \in DOMAIN pcrs :
                 pcrs[k].quoteVerified <=> \E j \in 1 .. next - 1 : Over(quotes[j], given[k])
        BY <1>1, <3>1 DEF IInv, DecideInv
      <3>3. Quoted20(q, given)
        BY <1>5, <2>2, <3>2, SameQuoted
      <3>4. /\ next' - 1 = next /\ next' <= Len(quotes) + 1
            /\ \A j \in 1 .. next : j = next \/ j \in 1 .. next - 1
            /\ 1 .. next - 1 \subseteq 1 .. next /\ next \in 1 .. next
        BY <1>1, <1>3, <2>1
      <3>5. ValidTo(next)
        BY <3>2, <3>3, <3>4 DEF ValidTo
      <3>6. ValidTo(next - 1)'
        BY <1>2, <3>4, <3>5 DEF ValidTo, Quoted20, Signed
      <3>7. SameData(pcrs', given)
        BY <2>3, <3>2 DEF SameData
      <3>8. ASSUME NEW k \in DOMAIN pcrs
            PROVE  pcrs'[k].quoteVerified <=> \E j \in 1 .. next : Over(quotes[j], given[k])
        <4>1. Over(q, pcrs[k]) <=> Over(q, given[k])
          BY <3>2, SameVouched
        <4>2. pcrs'[k].quoteVerified <=>
                (\E j \in 1 .. next - 1 : Over(quotes[j], given[k])) \/ Over(quotes[next], given[k])
          BY <2>3, <3>2, <4>1
        <4> DEFINE Over1(j) == Over(quotes[j], given[k])
        <4>3. (\E j \in 1 .. next : Over1(j)) <=> (\E j \in 1 .. next - 1 : Over1(j)) \/ Over1(next)
          <5>1. next \in Nat /\ next # 0
            BY <1>3
          <5> HIDE DEF Over1
          <5> QED
            BY <5>1
        <4> QED
          BY <4>2, <4>3
      <3> QED
        BY <2>3, <3>4, <3>6, <3>7, <3>8
    <2> QED
      BY <2>4, <2>5, <2>6, <2>7 DEF IInv
  <1> QED
    BY <1>4, <1>5

\* validate12Quote sorts the slice, and marks it if the quote is valid.
LEMMA Validate12Step ==
  ASSUME IInv, validate12Quote
  PROVE  IInv'
  <1> DEFINE q == quotes[next]
  <1>1. /\ pc = "verify" /\ next <= Len(quotes) /\ q.version = 12
        /\ UNCHANGED <<keyType, shown, callVars>>
    BY DEF validate12Quote, Verifying
  <1>2. /\ all' = all /\ quotes' = quotes /\ nonce' = nonce /\ given' = given
        /\ shown' = shown /\ keyType' = keyType
    BY <1>1 DEF callVars
  <1>3. next \in Nat /\ next # 0 /\ next \in DOMAIN quotes /\ q \in Quotes
    BY <1>1 DEF IInv, Types
  <1>4. DecideInv'
    <2>1. ~Fresh'
      BY <1>1, <1>2, <1>3 DEF Fresh
    <2> QED
      BY <2>1 DEF DecideInv
  <1>5. pc' \in {"idle", "verify"} /\ next' \in Nat \ {0}
    BY <1>1, <1>3 DEF validate12Quote, Rejected, Accepted, Return
  <1>6. CASE pcrs' = pcrs
    BY <1>1, <1>4, <1>5, <1>6, KeepsSlice DEF IInv
  <1>7. ASSUME Signed(q), NEW s \in Sortings(pcrs),
               pcrs' = s \/ (Quoted12(q, s) /\ pcrs' = Mark12(s))
        PROVE  IInv'
    <2>1. pcrs \in Seq(PCRs)
      BY DEF IInv, Types
    <2>2. s \in Seq(PCRs) /\ DOMAIN s = DOMAIN pcrs
      BY <2>1, SortingDoes
    <2>3. pcrs' \in Seq(PCRs) /\ SameData(pcrs', s) /\ DOMAIN pcrs' = DOMAIN s
      <3>1. CASE pcrs' = s
        BY <2>2, <3>1 DEF SameData
      <3>2. CASE pcrs' = Mark12(s)
        BY <2>2, <3>2, Mark12Does DEF SameData
      <3> QED
        BY <1>7, <3>1, <3>2
    <2>4. Types'
      <3>1. all' \in BOOLEAN
        BY <1>2 DEF IInv, Types
      <3> QED
        BY <1>2, <1>5, <2>3, <3>1 DEF IInv, Types
    <2>5. Distinct(pcrs') <=> Distinct(pcrs)
      BY <2>1, <2>3, SameDistinct, SortingDistinct
    <2>6. CallInv'
      BY <1>2, <2>5 DEF IInv, CallInv
    <2>7. MarkInv'
      <3> SUFFICES ASSUME Distinct(pcrs'), NEW k \in DOMAIN pcrs', pcrs'[k].quoteVerified
                   PROVE  \E r \in shown : Vouches(r, pcrs'[k])
        BY <1>2 DEF MarkInv
      <3>1. CASE pcrs' = s
        <4>1. PICK f \in Bijection(DOMAIN pcrs, DOMAIN pcrs) :
                \A m \in DOMAIN pcrs : s[m] = pcrs[f[m]]
          BY <2>1, SortingDoes
        <4>2. f[k] \in DOMAIN pcrs /\ pcrs'[k] = pcrs[f[k]]
          BY <2>2, <2>3, <3>1, <4>1 DEF Bijection, Injection
        <4> QED
          BY <2>5, <4>2 DEF IInv, MarkInv
      <3>2. CASE Quoted12(q, s)
        <4>1. q.signer = "ak" /\ q.typ = "quote" /\ q.nonce = nonce
          BY <1>7 DEF Signed
        <4>2. k \in DOMAIN s
          BY <2>3
        <4>3. Vouches(q, s[k])
          BY <1>1, <1>3, <2>1, <3>2, <4>1, <4>2, Vouches12
        <4>4. Vouches(q, pcrs'[k])
          BY <2>3, <4>3, SameVouched
        <4>5. q \in shown
          BY <1>3, <4>1 DEF IInv, CallInv
        <4> QED
          BY <4>4, <4>5
      <3> QED
        BY <1>7, <3>1, <3>2
    <2> QED
      BY <1>4, <2>4, <2>6, <2>7 DEF IInv
  <1>8. \/ pcrs' = pcrs
        \/ Signed(q) /\ \E s \in Sortings(pcrs) :
             pcrs' = s \/ (Quoted12(q, s) /\ pcrs' = Mark12(s))
    BY DEF validate12Quote
  <1> QED
    BY <1>6, <1>7, <1>8

\* VerifyAll refuses no quotes, or no nonce.
LEMMA RefuseStep ==
  ASSUME IInv, Refuse
  PROVE  IInv'
  <1>1. /\ pc' = "idle" /\ result' = "error" /\ next' = next /\ quotes' = quotes
        /\ quotes = << >> \/ nonce = NoNonce
        /\ UNCHANGED <<keyType, pcrs, shown, callVars>>
    BY DEF Refuse, Return, callVars
  <1>2. next' \in Nat \ {0}
    BY <1>1 DEF IInv, Types
  <1>3. Types' /\ CallInv' /\ MarkInv' /\ (Fresh' <=> Fresh)
    BY <1>1, <1>2, KeepsSlice
  <1>4. DecideInv'
    BY <1>1, <1>3 DEF DecideInv, Fresh
  <1> QED
    BY <1>3, <1>4 DEF IInv

\* Verify returns an error for a version it does not know.
LEMMA UnknownStep ==
  ASSUME IInv, UnknownVersion
  PROVE  IInv'
  <1>1. /\ pc' = "idle" /\ next' = next /\ quotes' = quotes
        /\ next <= Len(quotes) /\ quotes[next].version # 20
        /\ UNCHANGED <<keyType, pcrs, shown, callVars>>
    BY DEF UnknownVersion, Verifying, Rejected, Return, callVars
  <1>2. next' \in Nat \ {0} /\ next \in DOMAIN quotes
    BY <1>1 DEF IInv, Types
  <1>3. Types' /\ CallInv' /\ MarkInv'
    BY <1>1, <1>2, KeepsSlice
  <1>4. ~Fresh'
    BY <1>1, <1>2 DEF Fresh
  <1> QED
    BY <1>3, <1>4 DEF IInv, DecideInv

\* VerifyAll looks for a register that no quote is over.
LEMMA CoveredStep ==
  ASSUME IInv, Covered
  PROVE  IInv'
  <1>1. /\ pc = "verify" /\ pc' = "idle" /\ next' = next
        /\ quotes # << >> /\ next > Len(quotes)
        /\ result' = IF \A k \in DOMAIN pcrs : pcrs[k].quoteVerified THEN "ok" ELSE "error"
        /\ UNCHANGED <<keyType, pcrs, shown, callVars>>
    BY DEF Covered, Return
  <1>2. next' \in Nat \ {0} /\ Len(quotes) \in Nat
    BY <1>1 DEF IInv, Types
  <1>3. /\ Types' /\ CallInv' /\ MarkInv' /\ (Fresh' <=> Fresh)
        /\ \A n : ValidTo(n)' <=> ValidTo(n)
    BY <1>1, <1>2, KeepsSlice
  <1>4. quotes' = quotes /\ given' = given /\ keyType' = keyType /\ nonce' = nonce
    BY <1>1 DEF callVars
  <1>5. ASSUME Fresh
        PROVE  /\ ValidTo(Len(quotes))
               /\ result' = "ok" <=>
                    \A k \in DOMAIN given : \E j \in 1 .. Len(quotes) : Over(quotes[j], given[k])
    <2>1. /\ next <= Len(quotes) + 1 /\ SameData(pcrs, given) /\ ValidTo(next - 1)
          /\ \A k \in DOMAIN pcrs :
               pcrs[k].quoteVerified <=> \E j \in 1 .. next - 1 : Over(quotes[j], given[k])
      BY <1>1, <1>5 DEF IInv, DecideInv
    <2>2. next - 1 = Len(quotes)
      BY <1>1, <1>2, <2>1
    <2> QED
      BY <1>1, <2>1, <2>2 DEF SameData
  <1>6. DecideInv'
    <2> SUFFICES ASSUME Fresh
                 PROVE  (result' = "ok" <=>
                           /\ quotes # << >>
                           /\ ValidTo(Len(quotes))'
                           /\ \A k \in DOMAIN given :
                                \E j \in 1 .. Len(quotes) : Over(quotes[j], given[k]))
      BY <1>1, <1>3, <1>4 DEF DecideInv
    <2>1. ValidTo(Len(quotes))'
      BY <1>4, <1>5 DEF ValidTo, Quoted20, Signed
    <2> QED
      BY <1>1, <1>5, <2>1
  <1> QED
    BY <1>3, <1>6 DEF IInv

\* The invariant holds for any sequence of calls.
THEOREM Invariance == Spec => []IInv
  <1>1. Init => IInv
    BY InitIInv
  <1>2. IInv /\ [Next]_vars => IInv'
    <2> SUFFICES ASSUME IInv, [Next]_vars PROVE IInv'
      OBVIOUS
    <2>1. ASSUME NEW q \in Quotes, NEW n \in Nonce, Verify(q, n)
          PROVE  IInv'
      <3>1. <<q>> \in Seq(Quotes) /\ FALSE \in BOOLEAN
        OBVIOUS
      <3> QED
        BY <2>1, <3>1, CallStep DEF Verify
    <2>2. ASSUME NEW m \in 0 .. MaxQuotes, NEW qs \in [1 .. m -> Quotes], NEW n \in Nonce,
                 VerifyAll(qs, n)
          PROVE  IInv'
      <3>1. qs \in Seq(Quotes) /\ TRUE \in BOOLEAN
        OBVIOUS
      <3> QED
        BY <2>2, <3>1, CallStep DEF VerifyAll
    <2>3. CASE UNCHANGED vars
      BY <2>3 DEF vars, callVars, IInv, Types, CallInv, MarkInv, DecideInv, Fresh, ValidTo,
                  Quoted20, Signed
    <2> QED
      BY <2>1, <2>2, <2>3, RefuseStep, Validate20Step, Validate12Step, UnknownStep, CoveredStep
         DEF Next
  <1> QED
    BY <1>1, <1>2, PTL DEF Spec

\* A call of VerifyAll without a nonce looks at no quote and returns an error.
RefusedInv ==
  all /\ nonce = NoNonce =>
    /\ pc = "verify" => next = 1
    /\ pc = "idle" => result \in {"none", "error"}

\* It is kept by every step.
LEMMA Refused == Spec => []RefusedInv
  <1>1. Init => RefusedInv
    BY DEF Init, RefusedInv
  <1>2. Types /\ RefusedInv /\ [Next]_vars => RefusedInv'
    <2> SUFFICES ASSUME Types, RefusedInv, [Next]_vars PROVE RefusedInv'
      OBVIOUS
    <2>1. ASSUME NEW isAll, NEW qs, NEW n, Call(isAll, qs, n) PROVE RefusedInv'
      BY <2>1 DEF Call, RefusedInv
    <2>2. CASE Refuse
      BY <2>2 DEF Refuse, Return, callVars, RefusedInv
    <2>3. CASE validate20Quote \/ validate12Quote \/ UnknownVersion
      <3>1. ~(all' /\ nonce' = NoNonce)
        BY <2>3 DEF validate20Quote, validate12Quote, UnknownVersion, Verifying, callVars
      <3> QED
        BY <3>1 DEF RefusedInv
    <2>4. CASE Covered
      <3>1. /\ all' = all /\ nonce' = nonce
            /\ pc = "verify" /\ quotes # << >> /\ next > Len(quotes)
        BY <2>4 DEF Covered, callVars
      <3>2. Len(quotes) \in Nat /\ Len(quotes) # 0
        BY <3>1 DEF Types
      <3>3. next # 1
        BY <3>1, <3>2
      <3> QED
        BY <3>1, <3>3 DEF RefusedInv
    <2>5. CASE UNCHANGED vars
      BY <2>5 DEF vars, callVars, RefusedInv
    <2> QED
      BY <2>1, <2>2, <2>3, <2>4, <2>5 DEF Next, Verify, VerifyAll
  <1>3. IInv => Types
    BY DEF IInv
  <1> QED
    BY <1>1, <1>2, <1>3, Invariance, PTL DEF Spec

(***************************************************************************)
(* What the invariant gives.                                               *)
(***************************************************************************)

\* Whatever calls were made, failed halfway or sorted the slice, a register with
\* QuoteVerified has the value that a quote of the AK shows, which a call got
\* together with its nonce.
THEOREM MarkedIsQuoted == Spec => []MarksAuthentic
  <1>1. IInv => MarksAuthentic
    BY DEF IInv, CallInv, MarkInv, MarksAuthentic, Vouches
  <1> QED
    BY <1>1, Invariance, PTL

\* A valid quote is what Verifier says it is, on the slice by bank.
LEMMA QuotedAsSpecified ==
  ASSUME NEW s \in Seq(PCRs), NEW q \in Quotes, q.version = 20
  PROVE  Quoted20(q, s) <=> Genuine(q) /\ V!Validate20Quote(q, Values(s), nonce)
  <1> DEFINE f(a) == pcrByIndex(s, a)
             A == {s[k].alg : k \in DOMAIN s}
  <1>1. A \subseteq {"sha1", "sha256"} /\ \A a \in A : cryptoHash(a) = a
    <2>1. A \subseteq {"sha1", "sha256"}
      BY SliceElements
    <2> QED
      BY <2>1, KnownHash
  <1>2. DOMAIN Values(s) = A /\ \A a \in A : Values(s)[a] = f(a)
    BY DEF Values
  <1>3. ASSUME Quoted20(q, s)
        PROVE  Genuine(q) /\ V!Validate20Quote(q, Values(s), nonce)
    <2>1. Genuine(q) /\ q.nonce = nonce
      BY <1>3 DEF Quoted20, Signed, Genuine
    <2>2. q.vals = f(cryptoHash(q.bank))
      BY <1>3, QuotedValues
    <2>3. PICK i : i \in DOMAIN q.vals
      BY QuoteElements
    <2>4. PICK k \in DOMAIN s : s[k].alg = cryptoHash(q.bank)
      BY <2>2, <2>3, ByIndexDomain
    <2>5. cryptoHash(q.bank) \in A
      BY <2>4
    <2>6. q.bank = cryptoHash(q.bank)
      BY <1>1, <2>1, <2>5, HashOfQuote DEF Genuine
    <2> HIDE DEF f, A
    <2>7. q.bank \in DOMAIN Values(s) /\ q.vals = Values(s)[q.bank]
      BY <1>2, <2>2, <2>5, <2>6
    <2> QED
      BY <2>1, <2>7 DEF V!Validate20Quote
  <1>4. ASSUME Genuine(q), V!Validate20Quote(q, Values(s), nonce)
        PROVE  Quoted20(q, s)
    <2>1. q.nonce = nonce /\ q.bank \in A /\ q.vals = f(q.bank)
      BY <1>2, <1>4 DEF V!Validate20Quote
    <2>2. cryptoHash(q.bank) = q.bank
      BY <1>1, <2>1
    <2>3. Signed(q)
      BY <1>4, <2>1 DEF Genuine, Signed
    <2> QED
      BY <2>1, <2>2, <2>3 DEF Quoted20
  <1> QED
    BY <1>3, <1>4

\* On a slice without marks VerifyAll accepts exactly the quotes that the
\* relation Attestation is built on accepts: made for the nonce, in agreement
\* with all the registers of their banks, and leaving out none.
THEOREM VerifyAllDecides == Spec => []DecidesAsSpecified
  <1>1. IInv /\ RefusedInv => DecidesAsSpecified
    <2> DEFINE Q == ToSet(quotes)
    <2> SUFFICES ASSUME Types, DecideInv, RefusedInv, pc = "idle", result # "none", all,
                        Distinct(given), Unmarked(given),
                        \A q \in Q : q.version = 20
                 PROVE  result = "ok" <=>
                          /\ \A q \in Q : Genuine(q)
                          /\ V!VerifyAll(Q, Values(given), nonce)
      BY DEF IInv, DecidesAsSpecified
    <2>0. CASE nonce = NoNonce
      BY <2>0 DEF RefusedInv, V!VerifyAll
    <2> SUFFICES ASSUME nonce # NoNonce
                 PROVE  result = "ok" <=>
                          /\ \A q \in Q : Genuine(q)
                          /\ V!VerifyAll(Q, Values(given), nonce)
      BY <2>0
    <2>1. /\ given \in Seq(PCRs) /\ Len(quotes) \in Nat /\ DOMAIN quotes = 1 .. Len(quotes)
          /\ \A j \in 1 .. Len(quotes) : quotes[j] \in Q /\ quotes[j] \in Quotes
          /\ \A q \in Q : \E j \in 1 .. Len(quotes) : q = quotes[j]
      <3>1. Len(quotes) \in Nat /\ DOMAIN quotes = 1 .. Len(quotes)
            /\ quotes \in [1 .. Len(quotes) -> Quotes] /\ given \in Seq(PCRs)
        BY LenProperties DEF Types
      <3>2. \A j \in 1 .. Len(quotes) : quotes[j] \in Q /\ quotes[j] \in Quotes
        BY <3>1 DEF ToSet
      <3>3. \A q \in Q : \E j \in 1 .. Len(quotes) : q = quotes[j]
        BY <3>1 DEF ToSet
      <3> QED
        BY <3>1, <3>2, <3>3
    <2>2. quotes # << >> <=> Q # {}
      BY <2>1 DEF Types
    <2>3. Fresh
      BY <2>1 DEF Fresh
    <2> HIDE DEF Q
    <2>4. result = "ok" <=>
            /\ Q # {}
            /\ ValidTo(Len(quotes))
            /\ \A k \in DOMAIN given : \E j \in 1 .. Len(quotes) : Over(quotes[j], given[k])
      BY <2>2, <2>3 DEF DecideInv
    <2>5. ValidTo(Len(quotes)) <=>
            \A q \in Q : Genuine(q) /\ V!Validate20Quote(q, Values(given), nonce)
      <3>1. \A j \in 1 .. Len(quotes) :
              Quoted20(quotes[j], given) <=>
                Genuine(quotes[j]) /\ V!Validate20Quote(quotes[j], Values(given), nonce)
        BY <2>1, QuotedAsSpecified
      <3> QED
        BY <2>1, <3>1 DEF ValidTo
    <2>6. ASSUME \A q \in Q : V!Validate20Quote(q, Values(given), nonce)
          PROVE  (\A k \in DOMAIN given : \E j \in 1 .. Len(quotes) : Over(quotes[j], given[k]))
                   <=> (\A b \in DOMAIN Values(given) : \E q \in Q : q.bank = b)
      <3>1. /\ \A k \in DOMAIN given : given[k].alg \in DOMAIN Values(given)
            /\ \A b \in DOMAIN Values(given) : \E k \in DOMAIN given : given[k].alg = b
            /\ \A b \in DOMAIN Values(given) : Values(given)[b] = pcrByIndex(given, b)
        BY DEF Values
      <3>2. \A k \in DOMAIN given : given[k].alg \in {"sha1", "sha256"}
        BY <2>1, SliceElements
      <3>3. \A k \in DOMAIN given : cryptoHash(given[k].alg) = given[k].alg
        BY <3>2, KnownHash
      <3>4. ASSUME \A b \in DOMAIN Values(given) : \E q \in Q : q.bank = b,
                   NEW k \in DOMAIN given
            PROVE  \E j \in 1 .. Len(quotes) : Over(quotes[j], given[k])
        <4>1. PICK q \in Q : q.bank = given[k].alg
          BY <3>1, <3>4
        <4>2. q.vals = pcrByIndex(given, given[k].alg)
          BY <2>6, <3>1, <4>1 DEF V!Validate20Quote
        <4>3. given[k].index \in DOMAIN q.vals
          BY <4>2, ByIndexDomain
        <4>4. Over(q, given[k])
          BY <3>3, <4>1, <4>3 DEF Over
        <4> QED
          BY <2>1, <4>4
      <3>5. ASSUME \A k \in DOMAIN given :
                     \E j \in 1 .. Len(quotes) : Over(quotes[j], given[k]),
                   NEW b \in DOMAIN Values(given)
            PROVE  \E q \in Q : q.bank = b
        <4>1. PICK k \in DOMAIN given : given[k].alg = b
          BY <3>1
        <4>2. PICK j \in 1 .. Len(quotes) : Over(quotes[j], given[k])
          BY <3>5
        <4>3. quotes[j].bank = b
          <5>1. quotes[j].bank \in {"sha1", "sha256"}
            BY <2>1, <2>6, <3>1, <3>2 DEF V!Validate20Quote
          <5> QED
            BY <4>1, <4>2, <5>1, KnownHash DEF Over
        <4> QED
          BY <2>1, <4>3
      <3> QED
        BY <3>4, <3>5
    <2>7. V!VerifyAll(Q, Values(given), nonce) <=>
            /\ Q # {}
            /\ \A q \in Q : V!Validate20Quote(q, Values(given), nonce)
            /\ \A b \in DOMAIN Values(given) : \E q \in Q : q.bank = b
      BY DEF V!VerifyAll
    <2> QED
      BY <2>4, <2>5, <2>6, <2>7
  <1> QED
    BY <1>1, Invariance, Refused, PTL
=============================================================================
