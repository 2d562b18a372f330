--------------------------- MODULE Algorithms_proofs ---------------------------
(***************************************************************************)
(* Proofs about the functions of TextWindows and AnalysisGraphs, for every *)
(* input, any targets, budgets and retries and any similarity of contents, *)
(* and what they say of the runs of MCAlgorithms.                          *)
(*                                                                         *)
(* What a recursive function computes is shown by a least argument for     *)
(* which it would not.                                                     *)
(***************************************************************************)
EXTENDS MCAlgorithms, SequenceTheorems, FiniteSetTheorems, WellFoundedInduction, TLAPS

-------------------------------------------------------------------------------
(* Numbers.                                                                *)

LEMMA LeastNumber ==
  ASSUME NEW S, \A k \in S : k \in Nat, S # {}
  PROVE  \E m \in S : \A k \in S : m <= k
<1> DEFINE Less == {p \in Nat \X Nat : p[1] < p[2]}
<1>1. Less = OpToRel(<, Nat)
  BY DEF OpToRel
<1>2. IsWellFoundedOn(Less, Nat)
  BY <1>1, NatLessThanWellFounded
<1>3. PICK m \in S : \A k \in S : ~(<<k, m>> \in Less)
  <2> HIDE DEF Less
  <2> QED
    BY <1>2, WFMin
<1>4. ASSUME NEW k \in S PROVE m <= k
  <2>1. k \in Nat /\ m \in Nat
    OBVIOUS
  <2>2. ~(k < m)
    BY <1>3, <2>1
  <2> QED
    BY <2>1, <2>2
<1> QED
  BY <1>4

LEMMA GreatestNumber ==
  ASSUME NEW n \in Nat, NEW S, \A k \in S : k \in 0..n, S # {}
  PROVE  \E m \in S : \A k \in S : k <= m
<1> DEFINE R == {i \in 0..n : n - i \in S}
<1>1. PICK j \in R : \A i \in R : j <= i
  <2>1. \A k \in S : k \in 0..n /\ n - k \in 0..n /\ n - (n - k) = k
    OBVIOUS
  <2>2. \A k \in S : n - k \in R
    BY <2>1
  <2>3. (\A i \in R : i \in Nat) /\ R # {}
    BY <2>2
  <2> HIDE DEF R
  <2> QED
    BY <2>3, LeastNumber
<1>2. n - j \in S
  OBVIOUS
<1>3. ASSUME NEW k \in S PROVE k <= n - j
  <2>1. k \in 0..n /\ n - k \in 0..n /\ n - (n - k) = k
    OBVIOUS
  <2>2. j \in 0..n /\ j <= n - k
    BY <1>1, <2>1
  <2> QED
    BY <2>1, <2>2
<1> QED
  BY <1>2, <1>3

(* Induction up to n, over the set of the numbers for which a fact holds.  *)
LEMMA Induction ==
  ASSUME NEW n \in Nat, NEW G, 0 \in G,
         \A i \in 1..n : i - 1 \in G => i \in G
  PROVE  \A i \in 0..n : i \in G
<1> DEFINE Bad == {i \in 0..n : i \notin G}
<1> SUFFICES ASSUME Bad # {} PROVE FALSE
  OBVIOUS
<1>1. PICK m \in Bad : \A k \in Bad : m <= k
  <2>1. \A k \in Bad : k \in Nat
    OBVIOUS
  <2> HIDE DEF Bad
  <2> QED
    BY <2>1, LeastNumber
<1>2. m \in 1..n /\ m - 1 \in 0..n /\ m - 1 \notin Bad
  BY <1>1
<1> QED
  BY <1>1, <1>2

LEMMA StrongInduction ==
  ASSUME NEW n \in Nat, NEW G,
         \A i \in 0..n : (\A k \in 0..i - 1 : k \in G) => i \in G
  PROVE  \A i \in 0..n : i \in G
<1> DEFINE Bad == {i \in 0..n : i \notin G}
<1> SUFFICES ASSUME Bad # {} PROVE FALSE
  OBVIOUS
<1>1. PICK m \in Bad : \A k \in Bad : m <= k
  <2>1. \A k \in Bad : k \in Nat
    OBVIOUS
  <2> HIDE DEF Bad
  <2> QED
    BY <2>1, LeastNumber
<1>2. \A k \in 0..m - 1 : k \in G
  BY <1>1
<1> QED
  BY <1>1, <1>2

LEMMA DownwardInduction ==
  ASSUME NEW n \in Nat, NEW G,
         \A i \in 0..n : (\A k \in i + 1..n : k \in G) => i \in G
  PROVE  \A i \in 0..n : i \in G
<1> DEFINE Bad == {i \in 0..n : i \notin G}
<1> SUFFICES ASSUME Bad # {} PROVE FALSE
  OBVIOUS
<1>1. PICK m \in Bad : \A k \in Bad : k <= m
  <2>1. \A k \in Bad : k \in 0..n
    OBVIOUS
  <2> HIDE DEF Bad
  <2> QED
    BY <2>1, GreatestNumber
<1>2. \A k \in m + 1..n : k \in G
  BY <1>1
<1> QED
  BY <1>1, <1>2

LEMMA MaxIs ==
  ASSUME NEW S, NEW m \in S, m \in Int, \A k \in S : k \in Int /\ k <= m
  PROVE  Max(S) = m
<1> DEFINE P(x) == x \in S /\ \A y \in S : x >= y
<1>1. P(m)
  OBVIOUS
<1>2. P(Max(S))
  <2>1. Max(S) = CHOOSE x : P(x)
    BY DEF Max
  <2> HIDE DEF P
  <2> QED
   BY <1>1, <2>1, Zenon
<1>3. Max(S) \in Int /\ m \in Int
  BY <1>2
<1>4. Max(S) >= m /\ Max(S) <= m
  BY <1>2
<1> QED
  BY <1>3, <1>4

LEMMA MinIs ==
  ASSUME NEW S, NEW m \in S, m \in Int, \A k \in S : k \in Int /\ m <= k
  PROVE  Min(S) = m
<1> DEFINE P(x) == x \in S /\ \A y \in S : x =< y
<1>1. P(m)
  OBVIOUS
<1>2. P(Min(S))
  <2>1. Min(S) = CHOOSE x : P(x)
    BY DEF Min
  <2> HIDE DEF P
  <2> QED
   BY <1>1, <2>1, Zenon
<1>3. Min(S) \in Int /\ m \in Int
  BY <1>2
<1>4. Min(S) >= m /\ Min(S) <= m
  BY <1>2
<1> QED
  BY <1>3, <1>4

LEMMA MaxOf ==
  ASSUME NEW n \in Nat, NEW S, \A k \in S : k \in 0..n, S # {}
  PROVE  Max(S) \in S /\ \A k \in S : k <= Max(S)
<1>1. PICK m \in S : \A k \in S : k <= m
  BY GreatestNumber
<1>2. m \in Int /\ \A k \in S : k \in Int
  OBVIOUS
<1>3. Max(S) = m
  BY <1>1, <1>2, MaxIs
<1> QED
  BY <1>1, <1>3

LEMMA MinOf ==
  ASSUME NEW S, \A k \in S : k \in Nat, S # {}
  PROVE  Min(S) \in S /\ \A k \in S : Min(S) <= k
<1>1. PICK m \in S : \A k \in S : m <= k
  BY LeastNumber
<1>2. m \in Int /\ \A k \in S : k \in Int
  OBVIOUS
<1>3. Min(S) = m
  BY <1>1, <1>2, MinIs
<1> QED
  BY <1>1, <1>3

-------------------------------------------------------------------------------
(* Sums of tokens.                                                         *)

LEMMA SumsRecursion ==
  ASSUME NEW p, Len(p) \in Nat
  PROVE  Sums(p) = [n \in 0..Len(p) |-> IF n = 0 THEN 0 ELSE Sums(p)[n - 1] + p[n]]
<1> DEFINE Sum(m, f) == f = [n \in 0..m |-> IF n = 0 THEN 0 ELSE f[n - 1] + p[n]]
           G == {m \in 0..Len(p) : \E f : Sum(m, f)}
<1>1. 0 \in G
  <2>1. Sum(0, [n \in 0..0 |-> 0])
    OBVIOUS
  <2>2. 0 \in 0..Len(p)
    OBVIOUS
  <2> HIDE DEF Sum
  <2> QED
    BY <2>1, <2>2
<1>2. ASSUME NEW m \in 1..Len(p), m - 1 \in G
      PROVE  m \in G
  <2>1. PICK f : Sum(m - 1, f)
    BY <1>2
  <2> DEFINE g == [n \in 0..m |-> IF n = m THEN f[m - 1] + p[m] ELSE f[n]]
  <2>2. Sum(m, g)
    BY <2>1
  <2>3. m \in 0..Len(p)
    OBVIOUS
  <2> HIDE DEF Sum
  <2> QED
    BY <2>2, <2>3
<1>3. \A m \in 0..Len(p) : m \in G
  <2> HIDE DEF G
  <2> QED
    BY <1>1, <1>2, Induction
<1>4. PICK f : Sum(Len(p), f)
  BY <1>3
<1> QED
  BY <1>4 DEF Sums

LEMMA SumsType ==
  ASSUME NEW p \in Seq(Nat)
  PROVE  /\ Len(p) \in Nat
         /\ \A n \in 1..Len(p) : p[n] \in Nat
         /\ \A n \in 0..Len(p) : Sums(p)[n] \in Nat
         /\ Sums(p)[0] = 0
         /\ \A n \in 1..Len(p) : Sums(p)[n] = Sums(p)[n - 1] + p[n]
<1>1. Len(p) \in Nat /\ \A n \in 1..Len(p) : p[n] \in Nat
  OBVIOUS
<1>2. /\ Sums(p)[0] = 0
      /\ \A n \in 1..Len(p) : Sums(p)[n] = Sums(p)[n - 1] + p[n]
  BY <1>1, SumsRecursion
<1> DEFINE G == {n \in 0..Len(p) : Sums(p)[n] \in Nat}
<1>3. 0 \in G /\ \A n \in 1..Len(p) : n - 1 \in G => n \in G
  <2>1. 0 \in G
    BY <1>1, <1>2
  <2>2. ASSUME NEW n \in 1..Len(p), n - 1 \in G PROVE n \in G
    <3>1. n \in 0..Len(p) /\ p[n] \in Nat
      BY <1>1
    <3>2. Sums(p)[n - 1] \in Nat
      BY <2>2
    <3>3. Sums(p)[n] = Sums(p)[n - 1] + p[n]
      BY <1>2
    <3> QED
      BY <3>1, <3>2, <3>3
  <2> QED
    BY <2>1, <2>2
<1>4. \A n \in 0..Len(p) : n \in G
  <2> HIDE DEF G
  <2> QED
    BY <1>1, <1>3, Induction
<1> QED
  BY <1>1, <1>2, <1>4

(* Sums do not fall.                                                       *)
LEMMA SumsRise ==
  ASSUME NEW p \in Seq(Nat), NEW i \in 0..Len(p)
  PROVE  \A j \in i..Len(p) : Sums(p)[i] <= Sums(p)[j]
<1> DEFINE s == Sums(p)
           G == {n \in 0..Len(p) : n >= i => s[i] <= s[n]}
<1>1. /\ Len(p) \in Nat
      /\ \A n \in 0..Len(p) : s[n] \in Nat
      /\ \A n \in 1..Len(p) : p[n] \in Nat /\ s[n] = s[n - 1] + p[n]
  BY SumsType
<1> HIDE DEF s
<1>2. 0 \in G
  BY <1>1
<1>3. ASSUME NEW n \in 1..Len(p), n - 1 \in G PROVE n \in G
  <2>1. s[n - 1] \in Nat /\ s[n] \in Nat /\ s[n] = s[n - 1] + p[n] /\ p[n] \in Nat /\ s[i] \in Nat
    BY <1>1
  <2>2. CASE n = i
    BY <2>1, <2>2
  <2>3. CASE n # i /\ n >= i
    <3>1. s[i] <= s[n - 1]
      BY <1>3, <2>3
    <3> QED
      BY <2>1, <3>1, SMTT(30)
  <2> QED
    BY <1>1, <2>2, <2>3
<1>4. \A n \in 0..Len(p) : n \in G
  <2> HIDE DEF G
  <2> QED
    BY <1>1, <1>2, <1>3, Induction
<1> QED
  BY <1>1, <1>4 DEF s

(* What tokens add up to, from any piece to any other.                     *)
LEMMA TokensAdd ==
  ASSUME NEW p \in Seq(Nat)
  PROVE  /\ Len(p) \in Nat
         /\ \A i \in 1..Len(p) : p[i] \in Nat
         /\ \A i \in 1..Len(p) + 1 : \A j \in i - 1..Len(p) : Tokens(p, i, j) \in Nat
         /\ \A i \in 1..Len(p) + 1 : Tokens(p, i, i - 1) = 0
         /\ \A i \in 1..Len(p) : Tokens(p, i, i) = p[i]
         /\ \A i, k \in 1..Len(p) + 1 : \A j \in 0..Len(p) :
              i <= k => Tokens(p, i, j) = Tokens(p, i, k - 1) + Tokens(p, k, j)
<1> DEFINE s == Sums(p)
<1>1. /\ Len(p) \in Nat
      /\ \A n \in 0..Len(p) : s[n] \in Nat
      /\ \A n \in 1..Len(p) : p[n] \in Nat /\ s[n] = s[n - 1] + p[n]
  BY SumsType
<1>2. \A i \in 0..Len(p) : \A j \in i..Len(p) : s[i] <= s[j]
  BY SumsRise
<1> HIDE DEF s
<1>3. \A i, j : Tokens(p, i, j) = s[j] - s[i - 1]
  BY DEF Tokens, s
<1>4. \A i \in 1..Len(p) + 1 : i - 1 \in 0..Len(p) /\ s[i - 1] \in Nat
  BY <1>1
<1>5. ASSUME NEW i \in 1..Len(p) + 1, NEW j \in i - 1..Len(p) PROVE Tokens(p, i, j) \in Nat
  <2>1. i - 1 \in 0..Len(p) /\ j \in 0..Len(p)
    BY <1>1
  <2>2. s[j] \in Nat /\ s[i - 1] \in Nat /\ s[i - 1] <= s[j]
    BY <1>1, <1>2, <2>1
  <2> QED
    BY <1>3, <2>2
<1>6. ASSUME NEW i \in 1..Len(p) + 1 PROVE Tokens(p, i, i - 1) = 0
  BY <1>3, <1>4
<1>7. ASSUME NEW i, NEW k \in 1..Len(p) + 1, NEW j \in 0..Len(p), i \in 1..Len(p) + 1
      PROVE  Tokens(p, i, j) = Tokens(p, i, k - 1) + Tokens(p, k, j)
  <2>1. s[j] \in Nat /\ s[i - 1] \in Nat /\ s[k - 1] \in Nat
    BY <1>1, <1>4, <1>7
  <2> QED
    BY <1>3, <2>1
<1>8. ASSUME NEW i \in 1..Len(p) PROVE Tokens(p, i, i) = p[i]
  <2>1. s[i] \in Nat /\ s[i - 1] \in Nat /\ p[i] \in Nat /\ s[i] = s[i - 1] + p[i]
    BY <1>1
  <2> QED
    BY <1>3, <2>1
<1> QED
  BY <1>1, <1>5, <1>6, <1>7, <1>8

-------------------------------------------------------------------------------
(* Sequences.                                                              *)

LEMMA AppendIs ==
  ASSUME NEW S, NEW c \in Seq(S), NEW x \in S
  PROVE  /\ Append(c, x) \in Seq(S)
         /\ Len(c) \in Nat
         /\ Len(Append(c, x)) = Len(c) + 1
         /\ \A k \in 1..Len(c) : Append(c, x)[k] = c[k]
         /\ Append(c, x)[Len(c) + 1] = x
  OBVIOUS

-------------------------------------------------------------------------------
(* The chunks of a document.                                               *)

Spans == [first : Nat, last : Nat]

LEMMA ChunkIs ==
  ASSUME NEW i \in Nat, NEW j \in Nat
  PROVE  Chunk(i, j) \in Spans /\ Chunk(i, j).first = i /\ Chunk(i, j).last = j
BY DEF Chunk, Spans

(* What a chunk repeats of the one before.                                 *)
Shared(atoms, chunks, k) ==
  IF k = 1 THEN 0 ELSE Tokens(atoms, chunks[k].first, chunks[k - 1].last)

Follows(c, d) == c.last < d.last /\ c.first <= d.first /\ d.first <= c.last + 1

(* A chunk is within the target, or what it repeats and an atom.           *)
ChunkFits(atoms, chunk, shared) ==
  /\ shared <= OverlapMax
  /\ Size(atoms, chunk) > TargetMax => Size(atoms, chunk) = shared + atoms[chunk.last]

(* Chunks that were packed, and the one that may come next.                *)
Packs(atoms, chunks) ==
  /\ chunks \in Seq(Spans)
  /\ Len(chunks) > 0 => chunks[1].first = 1
  /\ \A k \in 1..Len(chunks) : 1 <= chunks[k].first /\ chunks[k].first <= chunks[k].last
  /\ \A k \in 2..Len(chunks) : Follows(chunks[k - 1], chunks[k])
  /\ \A k \in 1..Len(chunks) : ChunkFits(atoms, chunks[k], Shared(atoms, chunks, k))

MayFollow(atoms, chunks, chunk) ==
  /\ chunk \in Spans /\ 1 <= chunk.first /\ chunk.first <= chunk.last
  /\ Len(chunks) = 0 => chunk.first = 1 /\ ChunkFits(atoms, chunk, 0)
  /\ Len(chunks) > 0 => LET last == chunks[Len(chunks)] IN
       /\ Follows(last, chunk)
       /\ ChunkFits(atoms, chunk, Tokens(atoms, chunk.first, last.last))

LEMMA PacksAppend ==
  ASSUME NEW atoms, NEW c, NEW x, Packs(atoms, c), MayFollow(atoms, c, x)
  PROVE  Packs(atoms, Append(c, x))
<1> DEFINE d == Append(c, x)
<1>1. c \in Seq(Spans) /\ x \in Spans
  BY DEF Packs, MayFollow
<1>2. /\ d \in Seq(Spans)
      /\ Len(c) \in Nat
      /\ Len(d) = Len(c) + 1
      /\ \A k \in 1..Len(c) : d[k] = c[k]
      /\ d[Len(c) + 1] = x
  BY <1>1, AppendIs
<1> HIDE DEF d
<1>3. d[1].first = 1
  <2>1. CASE Len(c) = 0
    BY <1>2, <2>1 DEF MayFollow
  <2>2. CASE Len(c) > 0
    BY <1>2, <2>2 DEF Packs
  <2> QED
    BY <1>2, <2>1, <2>2
<1>4. ASSUME NEW k \in 1..Len(d)
      PROVE  1 <= d[k].first /\ d[k].first <= d[k].last
  <2>1. CASE k \in 1..Len(c)
    BY <1>2, <2>1 DEF Packs
  <2>2. CASE k = Len(c) + 1
    BY <1>2, <2>2 DEF MayFollow
  <2> QED
    BY <1>2, <2>1, <2>2
<1>5. ASSUME NEW k \in 2..Len(d) PROVE Follows(d[k - 1], d[k])
  <2>1. CASE k \in 2..Len(c)
    BY <1>2, <2>1 DEF Packs
  <2>2. CASE k = Len(c) + 1
    <3>1. Len(c) > 0 /\ k - 1 = Len(c) /\ Len(c) \in 1..Len(c)
      BY <1>2, <2>2
    <3>2. d[k - 1] = c[Len(c)] /\ d[k] = x
      BY <1>2, <2>2, <3>1
    <3> QED
      BY <3>1, <3>2 DEF MayFollow
  <2> QED
    BY <1>2, <2>1, <2>2
<1>6. ASSUME NEW k \in 1..Len(d) PROVE ChunkFits(atoms, d[k], Shared(atoms, d, k))
  <2>1. CASE k \in 1..Len(c)
    <3>1. d[k] = c[k] /\ (k # 1 => d[k - 1] = c[k - 1])
      BY <1>2, <2>1
    <3>2. Shared(atoms, d, k) = Shared(atoms, c, k)
      BY <3>1 DEF Shared
    <3> QED
      BY <2>1, <3>1, <3>2 DEF Packs
  <2>2. CASE k = Len(c) + 1
    <3>1. d[k] = x
      BY <1>2, <2>2
    <3>2. CASE Len(c) = 0
      <4>1. Shared(atoms, d, k) = 0
        BY <2>2, <3>2 DEF Shared
      <4> QED
        BY <3>1, <3>2, <4>1 DEF MayFollow
    <3>3. CASE Len(c) > 0
      <4>1. k # 1 /\ k - 1 = Len(c) /\ Len(c) \in 1..Len(c)
        BY <1>2, <2>2, <3>3
      <4>2. Shared(atoms, d, k) = Tokens(atoms, x.first, c[Len(c)].last)
        BY <1>2, <3>1, <4>1 DEF Shared
      <4> QED
        BY <3>1, <3>3, <4>2 DEF MayFollow
    <3> QED
      BY <1>2, <3>2, <3>3
  <2> QED
    BY <1>2, <2>1, <2>2
<1> QED
  BY <1>2, <1>3, <1>4, <1>5, <1>6 DEF Packs, d

LEMMA PackedRecursion ==
  ASSUME NEW p, Len(p) \in Nat
  PROVE  Packed(p) = [n \in 0..Len(p) |-> IF n = 0 THEN [chunks |-> <<>>, first |-> 1]
                                          ELSE PackAtom(p, Packed(p)[n - 1], n)]
<1> DEFINE Pack(m, f) == f = [n \in 0..m |-> IF n = 0 THEN [chunks |-> <<>>, first |-> 1]
                                              ELSE PackAtom(p, f[n - 1], n)]
           G == {m \in 0..Len(p) : \E f : Pack(m, f)}
<1>1. 0 \in G
  <2>1. Pack(0, [n \in 0..0 |-> [chunks |-> <<>>, first |-> 1]])
    OBVIOUS
  <2>2. 0 \in 0..Len(p)
    OBVIOUS
  <2> HIDE DEF Pack
  <2> QED
    BY <2>1, <2>2
<1>2. ASSUME NEW m \in 1..Len(p), m - 1 \in G
      PROVE  m \in G
  <2>1. PICK f : Pack(m - 1, f)
    BY <1>2
  <2> DEFINE g == [n \in 0..m |-> IF n = m THEN PackAtom(p, f[m - 1], m) ELSE f[n]]
  <2>2. Pack(m, g)
    BY <2>1
  <2>3. m \in 0..Len(p)
    OBVIOUS
  <2> HIDE DEF Pack
  <2> QED
    BY <2>2, <2>3
<1>3. \A m \in 0..Len(p) : m \in G
  <2> HIDE DEF G
  <2> QED
    BY <1>1, <1>2, Induction
<1>4. PICK f : Pack(Len(p), f)
  BY <1>3
<1> QED
  BY <1>4 DEF Packed

(* The overlap is what its name says: atoms at the end, within the bound.  *)
LEMMA TrailingOverlapIs ==
  ASSUME NEW p \in Seq(Nat), NEW i \in 1..Len(p), NEW j \in i..Len(p)
  PROVE  /\ TrailingOverlap(p, i, j) \in i..j + 1
         /\ Tokens(p, TrailingOverlap(p, i, j), j) <= OverlapMax
<1> DEFINE R == {k \in i..j + 1 : Tokens(p, k, j) <= OverlapMax}
           T(k) == /\ k \in i..j + 1
                   /\ Tokens(p, k, j) <= OverlapMax
                   /\ k > i => Tokens(p, k - 1, j) > OverlapMax
<1>0. OverlapMax \in Nat
  BY TextWindowsAssumption DEF TextWindowsAssumption
<1>1. PICK m \in R : \A k \in R : m <= k
  <2>1. Tokens(p, j + 1, j) = 0
    <3>1. j + 1 \in 1..Len(p) + 1 /\ j + 1 - 1 = j
      OBVIOUS
    <3>2. Tokens(p, j + 1, j + 1 - 1) = 0
      BY <3>1, TokensAdd
    <3> QED
      BY <3>1, <3>2
  <2>2. j + 1 \in R
    BY <1>0, <2>1
  <2>3. \A k \in R : k \in Nat
    OBVIOUS
  <2> HIDE DEF R
  <2> QED
    BY <2>2, <2>3, LeastNumber
<1>2. m \in i..j + 1 /\ Tokens(p, m, j) <= OverlapMax
  BY <1>1
<1>3. ASSUME m > i PROVE Tokens(p, m - 1, j) > OverlapMax
  <2>1. m - 1 \in i..j + 1 /\ m - 1 \notin R
    BY <1>1, <1>2, <1>3
  <2>2. m - 1 \in 1..Len(p) + 1 /\ j \in (m - 1) - 1..Len(p)
    BY <1>2, <2>1
  <2>3. Tokens(p, m - 1, j) \in Nat
    BY <2>2, TokensAdd
  <2> QED
    BY <1>0, <2>1, <2>3
<1>4. T(m)
  BY <1>2, <1>3
<1>5. T(TrailingOverlap(p, i, j))
  <2>1. TrailingOverlap(p, i, j) = CHOOSE k : T(k)
    BY DEF TrailingOverlap
  <2> HIDE DEF T
  <2> QED
    BY <1>4, <2>1, Zenon
<1> QED
  BY <1>5
(* A window that an atom joins or leaves: what may be flushed after it.    *)
LEMMA PackAtomKeeps ==
  ASSUME NEW p \in Seq(Nat), NEW n \in 2..Len(p), NEW s,
         s.first \in 1..n - 1, Packs(p, s.chunks),
         MayFollow(p, s.chunks, Chunk(s.first, n - 1))
  PROVE  LET t == PackAtom(p, s, n) IN
         t.first \in 1..n /\ Packs(p, t.chunks) /\ MayFollow(p, t.chunks, Chunk(t.first, n))
<1> DEFINE old == Chunk(s.first, n - 1)
           new == Chunk(s.first, n)
<1>0. Len(p) \in Nat /\ n - 1 \in 1..Len(p) /\ n \in Nat /\ s.first \in Nat /\ n - 1 \in Nat
  OBVIOUS
<1>1. old \in Spans /\ old.first = s.first /\ old.last = n - 1
  BY <1>0, ChunkIs
<1>2. new \in Spans /\ new.first = s.first /\ new.last = n
  BY <1>0, ChunkIs
<1>3. CASE Tokens(p, s.first, n) > TargetMax
  <2> DEFINE f == TrailingOverlap(p, s.first, n - 1)
  <2>1. f \in s.first..n /\ Tokens(p, f, n - 1) <= OverlapMax
    <3>1. s.first \in 1..Len(p) /\ n - 1 \in s.first..Len(p)
      BY <1>0
    <3>2. f \in s.first..(n - 1) + 1 /\ Tokens(p, f, n - 1) <= OverlapMax
      BY <3>1, TrailingOverlapIs
    <3> QED
      BY <1>0, <3>2
  <2> HIDE DEF f
  <2> DEFINE c == Append(s.chunks, old)
             x == Chunk(f, n)
  <2>2. Packs(p, c)
    BY PacksAppend
  <2>3. f \in Nat /\ x \in Spans /\ x.first = f /\ x.last = n
    BY <1>0, <2>1, ChunkIs
  <2>4. Len(c) > 0 /\ c[Len(c)] = old
    <3>1. s.chunks \in Seq(Spans)
      BY DEF Packs
    <3> QED
      BY <1>1, <3>1, AppendIs, SMTT(30)
  <2>5. Follows(old, x)
    BY <1>0, <1>1, <2>1, <2>3 DEF Follows
  <2>6. Tokens(p, f, n) = Tokens(p, f, n - 1) + p[n]
    <3>1. f \in 1..Len(p) + 1 /\ n \in 1..Len(p) + 1 /\ n \in 0..Len(p) /\ f <= n /\ n \in 1..Len(p)
      BY <1>0, <2>1
    <3>2. Tokens(p, f, n) = Tokens(p, f, n - 1) + Tokens(p, n, n) /\ Tokens(p, n, n) = p[n]
      BY <3>1, TokensAdd
    <3> QED
      BY <3>2
  <2>7. ChunkFits(p, x, Tokens(p, x.first, old.last))
    BY <1>1, <2>1, <2>3, <2>6 DEF ChunkFits, Size
  <2>8. MayFollow(p, c, x)
    <3> HIDE DEF c, x, old
    <3>1. 1 <= x.first /\ x.first <= x.last
      BY <1>0, <2>1, <2>3
    <3>2. Len(c) # 0
      BY <2>4
    <3> QED
      BY <2>3, <2>4, <2>5, <2>7, <3>1, <3>2 DEF MayFollow
  <2>9. PackAtom(p, s, n) = [chunks |-> c, first |-> f]
    BY <1>0, <1>3 DEF PackAtom, f
  <2>10. f \in 1..n
    BY <1>0, <2>1
  <2> QED
    BY <2>2, <2>8, <2>9, <2>10
<1>4. CASE ~(Tokens(p, s.first, n) > TargetMax)
  <2>1. PackAtom(p, s, n) = s
    BY <1>4 DEF PackAtom
  <2>2. \A shared : shared <= OverlapMax => ChunkFits(p, new, shared)
    BY <1>2, <1>4 DEF ChunkFits, Size
  <2>3. \A c : Follows(c, old) /\ c.last \in Nat => Follows(c, new)
    BY <1>0, <1>1, <1>2 DEF Follows
  <2>4. MayFollow(p, s.chunks, new)
    <3>1. CASE Len(s.chunks) = 0
      <4>1. new.first = 1 /\ ChunkFits(p, new, 0)
        BY <1>1, <1>2, <2>2, <3>1 DEF MayFollow, ChunkFits
      <4> QED
        BY <1>0, <1>2, <3>1, <4>1 DEF MayFollow
    <3>2. CASE Len(s.chunks) # 0
      <4> DEFINE last == s.chunks[Len(s.chunks)]
      <4>1. s.chunks \in Seq(Spans) /\ Len(s.chunks) > 0
        BY <3>2 DEF Packs
      <4>2. last.last \in Nat
        <5>1. last \in Spans
          BY <4>1
        <5> QED
          BY <5>1 DEF Spans
      <4>3. Follows(last, new) /\ Tokens(p, new.first, last.last) <= OverlapMax
        BY <1>1, <1>2, <2>3, <4>1, <4>2 DEF MayFollow, ChunkFits
      <4> HIDE DEF new
      <4> QED
        BY <1>0, <1>2, <2>2, <3>2, <4>1, <4>3 DEF MayFollow
    <3> QED
      BY <3>1, <3>2
  <2> QED
    BY <1>0, <2>1, <2>4
<1> QED
  BY <1>3, <1>4
LEMMA PackedKeeps ==
  ASSUME NEW p \in Seq(Nat), NEW n \in 1..Len(p)
  PROVE  LET s == Packed(p)[n] IN
         s.first \in 1..n /\ Packs(p, s.chunks) /\ MayFollow(p, s.chunks, Chunk(s.first, n))
<1> DEFINE Kept(i) == /\ Packed(p)[i].first \in 1..i
                      /\ Packs(p, Packed(p)[i].chunks)
                      /\ MayFollow(p, Packed(p)[i].chunks, Chunk(Packed(p)[i].first, i))
           G == {i \in 0..Len(p) : i > 0 => Kept(i)}
<1>0. Len(p) \in Nat
  OBVIOUS
<1>1. /\ Packed(p)[0] = [chunks |-> <<>>, first |-> 1]
      /\ \A i \in 1..Len(p) : Packed(p)[i] = PackAtom(p, Packed(p)[i - 1], i)
  BY <1>0, PackedRecursion
<1>2. 0 \in G
  BY <1>0
<1>3. ASSUME NEW i \in 1..Len(p), i - 1 \in G PROVE i \in G
  <2>1. CASE i = 1
    <3>1. Packed(p)[1] = [chunks |-> <<>>, first |-> 1]
      <4>1. Packed(p)[1] = PackAtom(p, Packed(p)[0], 1)
        BY <1>1, <2>1
      <4>2. ~([chunks |-> <<>>, first |-> 1].first < 1)
        OBVIOUS
      <4> QED
        BY <1>1, <4>1, <4>2 DEF PackAtom
    <3>2. Packs(p, <<>>)
      <4>1. <<>> \in Seq(Spans) /\ Len(<<>>) = 0
        BY EmptySeq
      <4> QED
        BY <4>1 DEF Packs
    <3>3. Chunk(1, 1) \in Spans /\ Chunk(1, 1).first = 1 /\ Chunk(1, 1).last = 1
      BY ChunkIs
    <3>4. ChunkFits(p, Chunk(1, 1), 0)
      <4>1. 1 \in 1..Len(p)
        BY <2>1
      <4>2. Tokens(p, 1, 1) = p[1] /\ p[1] \in Nat
        BY <4>1, TokensAdd
      <4>3. OverlapMax \in Nat
        BY TextWindowsAssumption DEF TextWindowsAssumption
      <4> QED
        BY <3>3, <4>2, <4>3 DEF ChunkFits, Size
    <3>5. MayFollow(p, <<>>, Chunk(1, 1))
      BY <3>3, <3>4 DEF MayFollow
    <3>6. Kept(1)
      BY <3>1, <3>2, <3>5
    <3> HIDE DEF Kept
    <3> QED
      BY <1>0, <2>1, <3>6
  <2>2. CASE i # 1
    <3>1. i \in 2..Len(p) /\ i - 1 > 0
      BY <1>0, <2>2
    <3>2. Kept(i - 1)
      <4> HIDE DEF Kept
      <4> QED
        BY <1>3, <3>1
    <3>3. Packed(p)[i] = PackAtom(p, Packed(p)[i - 1], i)
      BY <1>1
    <3>4. Kept(i)
      BY <3>1, <3>2, <3>3, PackAtomKeeps
    <3> HIDE DEF Kept
    <3> QED
      BY <1>0, <3>4
  <2> QED
    BY <2>1, <2>2
<1>4. \A i \in 0..Len(p) : i \in G
  <2> HIDE DEF G
  <2> QED
    BY <1>0, <1>2, <1>3, Induction
<1>5. Kept(n)
  <2>1. n \in G /\ n > 0
    BY <1>0, <1>4
  <2> HIDE DEF Kept
  <2> QED
    BY <2>1
<1> QED
  BY <1>5

LEMMA PackAtomsPacks ==
  ASSUME NEW p \in Seq(Nat)
  PROVE  LET chunks == PackAtoms(p) IN
         /\ Packs(p, chunks)
         /\ Len(p) = 0 => chunks = <<>>
         /\ Len(p) > 0 => Len(chunks) > 0 /\ chunks[Len(chunks)].last = Len(p)
<1>0. Len(p) \in Nat
  OBVIOUS
<1>1. CASE Len(p) = 0
  <2>1. Packed(p)[0] = [chunks |-> <<>>, first |-> 1]
    BY <1>0, PackedRecursion
  <2>2. PackAtoms(p) = <<>>
    BY <1>1, <2>1 DEF PackAtoms
  <2>3. <<>> \in Seq(Spans) /\ Len(<<>>) = 0
    BY EmptySeq
  <2>4. Packs(p, <<>>)
    BY <2>3 DEF Packs
  <2> QED
    BY <1>1, <2>2, <2>4
<1>2. CASE Len(p) # 0
  <2> DEFINE s == Packed(p)[Len(p)]
             x == Chunk(s.first, Len(p))
  <2>1. s.first \in 1..Len(p) /\ Packs(p, s.chunks) /\ MayFollow(p, s.chunks, x)
    <3>1. Len(p) \in 1..Len(p)
      BY <1>0, <1>2
    <3> QED
      BY <3>1, PackedKeeps
  <2>2. PackAtoms(p) = Append(s.chunks, x)
    BY <1>0, <2>1 DEF PackAtoms
  <2>3. Packs(p, Append(s.chunks, x))
    BY <2>1, PacksAppend
  <2>4. x \in Spans /\ x.last = Len(p)
    BY <1>0, <2>1, ChunkIs
  <2>5. s.chunks \in Seq(Spans)
    BY <2>1 DEF Packs
  <2>6. LET d == Append(s.chunks, x) IN Len(d) > 0 /\ d[Len(d)] = x
    BY <2>4, <2>5, AppendIs
  <2> HIDE DEF s, x
  <2> QED
    BY <1>2, <2>2, <2>3, <2>4, <2>6
<1> QED
  BY <1>1, <1>2

(* No atom of a document is lost between its chunks, which follow each     *)
(* other in the order of the text, each ending with an atom that the one   *)
(* before does not have (_pack_atoms).                                     *)
THEOREM AtomsAreCovered == \A atoms \in Seq(Nat) : ChunksCover(atoms)
<1> SUFFICES ASSUME NEW p \in Seq(Nat) PROVE ChunksCover(p)
  OBVIOUS
<1> DEFINE chunks == PackAtoms(p)
<1>1. /\ Packs(p, chunks)
      /\ Len(p) = 0 => chunks = <<>>
      /\ Len(p) > 0 => Len(chunks) > 0 /\ chunks[Len(chunks)].last = Len(p)
  BY PackAtomsPacks
<1> HIDE DEF chunks
<1>2. /\ Len(chunks) \in Nat /\ Len(p) \in Nat
      /\ DOMAIN chunks = 1..Len(chunks) /\ DOMAIN p = 1..Len(p)
      /\ \A k \in 1..Len(chunks) : chunks[k].first \in Nat /\ chunks[k].last \in Nat
  <2>1. chunks \in Seq(Spans)
    BY <1>1 DEF Packs
  <2>2. \A k \in 1..Len(chunks) : chunks[k] \in Spans
    BY <2>1
  <2> QED
    BY <2>1, <2>2 DEF Spans
<1>3. ASSUME NEW i \in 1..Len(p) PROVE \E k \in 1..Len(chunks) : Holds(chunks[k], i)
  <2> DEFINE R == {k \in 1..Len(chunks) : i <= chunks[k].last}
  <2>1. PICK k \in R : \A j \in R : k <= j
    <3>1. Len(chunks) \in R
      BY <1>1, <1>2
    <3>2. \A j \in R : j \in Nat
      BY <1>2
    <3> HIDE DEF R
    <3> QED
      BY <3>1, <3>2, LeastNumber
  <2>2. k \in 1..Len(chunks) /\ i <= chunks[k].last
    BY <2>1
  <2>3. chunks[k].first <= i
    <3>1. CASE k = 1
      BY <1>1, <1>2, <3>1 DEF Packs
    <3>2. CASE k # 1
      <4>1. k \in 2..Len(chunks) /\ k - 1 \in 1..Len(chunks)
        BY <1>2, <2>2, <3>2
      <4>2. k - 1 \notin R
        BY <2>1, <4>1
      <4>3. chunks[k - 1].last < i
        BY <1>2, <4>1, <4>2
      <4>4. chunks[k].first <= chunks[k - 1].last + 1
        BY <1>1, <4>1 DEF Packs, Follows
      <4>5. chunks[k - 1].last \in Nat /\ chunks[k].first \in Nat /\ i \in Nat
        BY <1>2, <4>1
      <4>6. chunks[k].first <= chunks[k - 1].last + 1 /\ chunks[k - 1].last + 1 <= i
        BY <4>3, <4>4, <4>5
      <4> QED
        BY <4>5, <4>6, SMTT(30)
    <3> QED
      BY <3>1, <3>2
  <2> QED
    BY <2>2, <2>3 DEF Holds
<1>4. ASSUME NEW k \in 1..Len(chunks) - 1
      PROVE  chunks[k].last < chunks[k + 1].last /\ chunks[k].first <= chunks[k + 1].first
  <2>1. k + 1 \in 2..Len(chunks) /\ (k + 1) - 1 = k
    BY <1>2
  <2> QED
    BY <1>1, <2>1 DEF Packs, Follows
<1> QED
  BY <1>2, <1>3, <1>4 DEF ChunksCover, chunks

(* What a chunk repeats of the one before is at most the overlap, and it   *)
(* is over the target only as that and a single atom (_pack_atoms,         *)
(* _trailing_overlap).                                                     *)
THEOREM ChunksFitTheTarget == \A atoms \in Seq(Nat) : ChunksFit(atoms)
<1> SUFFICES ASSUME NEW p \in Seq(Nat) PROVE ChunksFit(p)
  OBVIOUS
<1> DEFINE chunks == PackAtoms(p)
<1>1. Packs(p, chunks)
  BY PackAtomsPacks
<1> HIDE DEF chunks
<1>2. DOMAIN chunks = 1..Len(chunks)
  BY <1>1 DEF Packs
<1>3. \A k \in DOMAIN chunks : ChunkFits(p, chunks[k], Shared(p, chunks, k))
  BY <1>1, <1>2 DEF Packs
<1> QED
  BY <1>3 DEF ChunksFit, ChunkFits, Shared, chunks
-------------------------------------------------------------------------------
(* The rows of a table.                                                    *)

LEMMA GroupedRecursion ==
  ASSUME NEW h, NEW p, Len(p) \in Nat
  PROVE  Grouped(h, p) = [n \in 0..Len(p) |->
           IF n = 0 THEN [chunks |-> <<>>, first |-> 1, tokens |-> h]
           ELSE PackRow(h, p, Grouped(h, p)[n - 1], n)]
<1> DEFINE None == [chunks |-> <<>>, first |-> 1, tokens |-> h]
           Group(m, f) == f = [n \in 0..m |-> IF n = 0 THEN None ELSE PackRow(h, p, f[n - 1], n)]
           G == {m \in 0..Len(p) : \E f : Group(m, f)}
<1>1. 0 \in G
  <2>1. Group(0, [n \in 0..0 |-> None])
    OBVIOUS
  <2>2. 0 \in 0..Len(p)
    OBVIOUS
  <2> HIDE DEF Group
  <2> QED
    BY <2>1, <2>2
<1>2. ASSUME NEW m \in 1..Len(p), m - 1 \in G
      PROVE  m \in G
  <2>1. PICK f : Group(m - 1, f)
    BY <1>2
  <2> DEFINE g == [n \in 0..m |-> IF n = m THEN PackRow(h, p, f[m - 1], m) ELSE f[n]]
  <2>2. Group(m, g)
    BY <2>1
  <2>3. m \in 0..Len(p)
    OBVIOUS
  <2> HIDE DEF Group
  <2> QED
    BY <2>2, <2>3
<1>3. \A m \in 0..Len(p) : m \in G
  <2> HIDE DEF G
  <2> QED
    BY <1>1, <1>2, Induction
<1>4. PICK f : Group(Len(p), f)
  BY <1>3
<1> QED
  BY <1>4 DEF Grouped

(* A group is closed when the next row would not fit.                      *)
GroupCloses(h, p, group) == h + Tokens(p, group.first, group.last) + p[group.last + 1] > TargetMax

GroupFits(h, p, group) ==
  h + Tokens(p, group.first, group.last) <= TargetMax \/ group.first = group.last

(* The groups that were closed before the row "first".                     *)
RowGroups(h, p, groups, first) ==
  /\ groups \in Seq(Spans)
  /\ first = IF Len(groups) = 0 THEN 1 ELSE groups[Len(groups)].last + 1
  /\ Len(groups) > 0 => groups[1].first = 1
  /\ \A k \in 1..Len(groups) : /\ 1 <= groups[k].first /\ groups[k].first <= groups[k].last
                                 /\ GroupFits(h, p, groups[k]) /\ GroupCloses(h, p, groups[k])
  /\ \A k \in 2..Len(groups) : groups[k].first = groups[k - 1].last + 1

LEMMA GroupsAppend ==
  ASSUME NEW h, NEW p, NEW c, NEW i \in Nat, NEW j \in Nat, RowGroups(h, p, c, i), 1 <= i, i <= j,
         GroupFits(h, p, Chunk(i, j)), GroupCloses(h, p, Chunk(i, j))
  PROVE  RowGroups(h, p, Append(c, Chunk(i, j)), j + 1)
<1> DEFINE x == Chunk(i, j)
           d == Append(c, x)
<1>1. c \in Seq(Spans) /\ x \in Spans /\ x.first = i /\ x.last = j
  BY ChunkIs DEF RowGroups
<1> HIDE DEF x
<1>2. /\ d \in Seq(Spans)
      /\ Len(c) \in Nat
      /\ Len(d) = Len(c) + 1
      /\ \A k \in 1..Len(c) : d[k] = c[k]
      /\ d[Len(c) + 1] = x
  BY <1>1, AppendIs
<1> HIDE DEF d
<1>3. d[1].first = 1 /\ j + 1 = d[Len(d)].last + 1
  <2>1. CASE Len(c) = 0
    BY <1>1, <1>2, <2>1 DEF RowGroups
  <2>2. CASE Len(c) > 0
    BY <1>1, <1>2, <2>2 DEF RowGroups
  <2> QED
    BY <1>2, <2>1, <2>2
<1>4. ASSUME NEW k \in 1..Len(d)
      PROVE  /\ 1 <= d[k].first /\ d[k].first <= d[k].last
             /\ GroupFits(h, p, d[k]) /\ GroupCloses(h, p, d[k])
  <2>1. CASE k \in 1..Len(c)
    BY <1>2, <2>1 DEF RowGroups
  <2>2. CASE k = Len(c) + 1
    BY <1>1, <1>2, <2>2 DEF x
  <2> QED
    BY <1>2, <2>1, <2>2
<1>5. ASSUME NEW k \in 2..Len(d) PROVE d[k].first = d[k - 1].last + 1
  <2>1. CASE k \in 2..Len(c)
    BY <1>2, <2>1, SMTT(30) DEF RowGroups
  <2>2. CASE k = Len(c) + 1
    <3>1. Len(c) > 0 /\ k - 1 = Len(c) /\ Len(c) \in 1..Len(c)
      BY <1>2, <2>2
    <3>2. d[k - 1] = c[Len(c)] /\ d[k] = x
      BY <1>2, <2>2, <3>1
    <3> QED
      BY <1>1, <3>1, <3>2 DEF RowGroups
  <2> QED
    BY <1>2, <2>1, <2>2
<1>6. Len(d) # 0
  BY <1>2
<1> QED
  BY <1>2, <1>3, <1>4, <1>5, <1>6 DEF RowGroups, d, x

(* The group that is being filled when n rows have entered.                *)
Filling(h, p, s, n) ==
  /\ s.first \in 1..n
  /\ s.tokens = h + Tokens(p, s.first, n)
  /\ RowGroups(h, p, s.chunks, s.first)
  /\ GroupFits(h, p, Chunk(s.first, n))

LEMMA PackRowKeeps ==
  ASSUME NEW h \in Nat, NEW p \in Seq(Nat), NEW n \in 2..Len(p),
         NEW s \in [chunks : Seq(Spans), first : Nat, tokens : Nat], Filling(h, p, s, n - 1)
  PROVE  LET t == PackRow(h, p, s, n) IN
         Filling(h, p, t, n) /\ t \in [chunks : Seq(Spans), first : Nat, tokens : Nat]
<1>0. /\ Len(p) \in Nat /\ n \in Nat /\ n - 1 \in Nat /\ p[n] \in Nat
      /\ s.first \in 1..n - 1 /\ s.tokens \in Nat /\ TargetMax \in Nat
      /\ s.first < n
  BY TextWindowsAssumption, SMTT(30) DEF TextWindowsAssumption, Filling
<1>1. Tokens(p, s.first, n) = Tokens(p, s.first, n - 1) + p[n] /\ Tokens(p, n, n) = p[n]
  <2>1. s.first \in 1..Len(p) + 1 /\ n \in 1..Len(p) + 1 /\ n \in 0..Len(p) /\ s.first <= n /\ n \in 1..Len(p)
    BY <1>0
  <2>2. Tokens(p, s.first, n) = Tokens(p, s.first, n - 1) + Tokens(p, n, n) /\ Tokens(p, n, n) = p[n]
    BY <2>1, TokensAdd
  <2> QED
    BY <2>2
<1>2. s.tokens = h + Tokens(p, s.first, n - 1) /\ Tokens(p, s.first, n - 1) \in Nat
  <2>1. s.first \in 1..Len(p) + 1 /\ n - 1 \in s.first - 1..Len(p)
    BY <1>0, SMTT(30)
  <2> QED
    BY <2>1, TokensAdd DEF Filling
<1>3. CASE s.tokens + p[n] > TargetMax
  <2> DEFINE x == Chunk(s.first, n - 1)
             c == Append(s.chunks, x)
  <2>1. PackRow(h, p, s, n) = [chunks |-> c, first |-> n, tokens |-> h + p[n]]
    BY <1>0, <1>3 DEF PackRow
  <2>2. x \in Spans /\ x.first = s.first /\ x.last = n - 1 /\ n - 1 + 1 = n
    BY <1>0, ChunkIs, SMTT(30)
  <2>3. GroupCloses(h, p, x)
    BY <1>0, <1>2, <1>3, <2>2 DEF GroupCloses
  <2>4. RowGroups(h, p, c, n - 1 + 1)
    BY <1>0, <2>3, GroupsAppend, SMTT(30) DEF Filling
  <2>5. RowGroups(h, p, c, n) /\ c \in Seq(Spans)
    <3>1. RowGroups(h, p, c, n)
      BY <2>2, <2>4
    <3> QED
      BY <3>1 DEF RowGroups
  <2>6. GroupFits(h, p, Chunk(n, n))
    BY <1>0, ChunkIs DEF GroupFits
  <2>7. n \in 1..n /\ h + p[n] = h + Tokens(p, n, n) /\ h + p[n] \in Nat
    BY <1>0, <1>1, SMTT(30)
  <2> HIDE DEF c
  <2> QED
    BY <1>0, <2>1, <2>5, <2>6, <2>7 DEF Filling
<1>4. CASE ~(s.tokens + p[n] > TargetMax)
  <2> DEFINE t == [s EXCEPT !.tokens = s.tokens + p[n]]
  <2>1. PackRow(h, p, s, n) = t
    BY <1>4 DEF PackRow
  <2>2. /\ t.first = s.first /\ t.chunks = s.chunks /\ t.tokens = s.tokens + p[n]
        /\ t \in [chunks : Seq(Spans), first : Nat, tokens : Nat]
    <3>1. s.tokens + p[n] \in Nat
      BY <1>0, SMTT(30)
    <3> QED
      BY <3>1
  <2>3. Chunk(s.first, n).first = s.first /\ Chunk(s.first, n).last = n
    BY <1>0, ChunkIs
  <2>4. s.tokens + p[n] = h + Tokens(p, s.first, n)
    BY <1>0, <1>1, <1>2
  <2>5. GroupFits(h, p, Chunk(s.first, n))
    BY <1>0, <1>4, <2>3, <2>4 DEF GroupFits
  <2>6. s.first \in 1..n
    BY <1>0
  <2> HIDE DEF t
  <2> QED
    BY <2>1, <2>2, <2>4, <2>5, <2>6 DEF Filling
<1> QED
  BY <1>3, <1>4
LEMMA GroupedKeeps ==
  ASSUME NEW h \in Nat, NEW p \in Seq(Nat), NEW n \in 1..Len(p)
  PROVE  Filling(h, p, Grouped(h, p)[n], n)
<1> DEFINE Kept(i) == /\ Filling(h, p, Grouped(h, p)[i], i)
                      /\ Grouped(h, p)[i] \in [chunks : Seq(Spans), first : Nat, tokens : Nat]
           G == {i \in 0..Len(p) : i > 0 => Kept(i)}
           none == [chunks |-> <<>>, first |-> 1, tokens |-> h]
<1>0. Len(p) \in Nat
  OBVIOUS
<1>1. /\ Grouped(h, p)[0] = none
      /\ \A i \in 1..Len(p) : Grouped(h, p)[i] = PackRow(h, p, Grouped(h, p)[i - 1], i)
  BY <1>0, GroupedRecursion
<1>2. 0 \in G
  BY <1>0
<1>3. ASSUME NEW i \in 1..Len(p), i - 1 \in G PROVE i \in G
  <2>1. CASE i = 1
    <3> DEFINE t == [none EXCEPT !.tokens = h + p[1]]
    <3>1. p[1] \in Nat /\ 1 \in 1..Len(p) /\ Tokens(p, 1, 1) = p[1]
      BY <2>1, TokensAdd
    <3>2. Grouped(h, p)[1] = t
      <4>1. Grouped(h, p)[1] = PackRow(h, p, none, 1)
        BY <1>1, <2>1
      <4>2. ~(1 > none.first) /\ none.tokens = h
        OBVIOUS
      <4> HIDE DEF none
      <4> QED
        BY <4>1, <4>2 DEF PackRow
    <3>3. <<>> \in Seq(Spans) /\ Len(<<>>) = 0
      BY EmptySeq
    <3>4. /\ t.first = 1 /\ t.chunks = <<>> /\ t.tokens = h + p[1]
          /\ t \in [chunks : Seq(Spans), first : Nat, tokens : Nat]
      <4>1. h + p[1] \in Nat
        BY <3>1
      <4> QED
        BY <3>3, <4>1
    <3>5. GroupFits(h, p, Chunk(1, 1))
      BY ChunkIs DEF GroupFits
    <3>6. RowGroups(h, p, <<>>, 1)
      BY <3>3 DEF RowGroups
    <3> HIDE DEF t
    <3>7. Kept(1)
      BY <3>1, <3>2, <3>4, <3>5, <3>6 DEF Filling
    <3> HIDE DEF Kept
    <3> QED
      BY <1>0, <2>1, <3>7
  <2>2. CASE i # 1
    <3>1. i \in 2..Len(p) /\ i - 1 > 0
      BY <1>0, <2>2
    <3>2. Kept(i - 1)
      <4> HIDE DEF Kept
      <4> QED
        BY <1>3, <3>1
    <3>3. Grouped(h, p)[i] = PackRow(h, p, Grouped(h, p)[i - 1], i)
      BY <1>1
    <3>4. Kept(i)
      BY <3>1, <3>2, <3>3, PackRowKeeps
    <3> HIDE DEF Kept
    <3> QED
      BY <1>0, <3>4
  <2> QED
    BY <2>1, <2>2
<1>4. \A i \in 0..Len(p) : i \in G
  <2> HIDE DEF G
  <2> QED
    BY <1>0, <1>2, <1>3, Induction
<1>5. Kept(n)
  <2>1. n \in G /\ n > 0
    BY <1>0, <1>4
  <2> HIDE DEF Kept
  <2> QED
    BY <2>1
<1> QED
  BY <1>5

(* The rows of a table are all in its groups, whole, once and in order; a  *)
(* group is over the target only when it is a single row, and none could   *)
(* take the row that follows it (chunk_csv_rows).                          *)
THEOREM RowsAreGrouped == \A header \in Nat : \A rows \in Seq(Nat) : RowGroupsFit(header, rows)
<1> SUFFICES ASSUME NEW h \in Nat, NEW p \in Seq(Nat) PROVE RowGroupsFit(h, p)
  OBVIOUS
<1>0. Len(p) \in Nat
  OBVIOUS
<1>1. CASE Len(p) = 0
  <2>1. p = <<>>
    BY <1>1, EmptySeq
  <2>2. ChunkCsvRows(h, p) = <<>>
    BY <2>1 DEF ChunkCsvRows
  <2>3. Len(<<>>) = 0 /\ DOMAIN <<>> = {}
    BY EmptySeq
  <2> QED
    BY <1>1, <2>2, <2>3 DEF RowGroupsFit, Partitions
<1>2. CASE Len(p) # 0
  <2> DEFINE s == Grouped(h, p)[Len(p)]
             x == Chunk(s.first, Len(p))
             d == Append(s.chunks, x)
  <2>1. s.first \in 1..Len(p) /\ RowGroups(h, p, s.chunks, s.first) /\ GroupFits(h, p, x)
    <3>1. Len(p) \in 1..Len(p)
      BY <1>0, <1>2
    <3> QED
      BY <3>1, GroupedKeeps DEF Filling
  <2>2. ChunkCsvRows(h, p) = d
    <3>1. p # <<>>
      BY <1>2
    <3> QED
      BY <3>1 DEF ChunkCsvRows
  <2>3. x \in Spans /\ x.first = s.first /\ x.last = Len(p)
    BY <1>0, <2>1, ChunkIs
  <2> DEFINE c == s.chunks
             first == s.first
  <2>4. c \in Seq(Spans) /\ RowGroups(h, p, c, first) /\ first \in 1..Len(p)
    BY <2>1 DEF RowGroups
  <2> HIDE DEF x, c, first
  <2>5. /\ d \in Seq(Spans)
        /\ Len(c) \in Nat
        /\ Len(d) = Len(c) + 1
        /\ \A k \in 1..Len(c) : d[k] = c[k]
        /\ d[Len(c) + 1] = x
    <3>1. d = Append(c, x)
      BY DEF c
    <3> QED
      BY <2>3, <2>4, <3>1, AppendIs
  <2>6. x.first = first
    BY <2>3 DEF first
  <2> HIDE DEF d
  <2>7. d # <<>> /\ d[Len(d)].last = Len(p) /\ DOMAIN d = 1..Len(d)
    BY <2>3, <2>5
  <2>8. d[1].first = 1
    <3>1. CASE Len(c) = 0
      BY <2>4, <2>5, <2>6, <3>1 DEF RowGroups
    <3>2. CASE Len(c) > 0
      BY <2>4, <2>5, <3>2 DEF RowGroups
    <3> QED
      BY <2>5, <3>1, <3>2
  <2>9. ASSUME NEW k \in 1..Len(d) PROVE d[k].first <= d[k].last /\ GroupFits(h, p, d[k])
    <3>1. CASE k \in 1..Len(c)
      BY <2>4, <2>5, <3>1 DEF RowGroups
    <3>2. CASE k = Len(c) + 1
      BY <2>1, <2>3, <2>5, <3>2 DEF x
    <3> QED
      BY <2>5, <3>1, <3>2
  <2>10. ASSUME NEW k \in 1..Len(d), k < Len(d)
         PROVE  GroupCloses(h, p, d[k]) /\ d[k + 1].first = d[k].last + 1
    <3>1. k \in 1..Len(c) /\ d[k] = c[k]
      BY <2>5, <2>10
    <3>2. CASE k = Len(c)
      BY <2>4, <2>5, <2>6, <3>1, <3>2 DEF RowGroups
    <3>3. CASE k # Len(c)
      <4>1. k + 1 \in 2..Len(c) /\ k + 1 \in 1..Len(c) /\ k + 1 - 1 = k
        BY <2>5, <3>1, <3>3
      <4> QED
        BY <2>4, <2>5, <3>1, <4>1 DEF RowGroups
    <3> QED
      BY <3>2, <3>3
  <2>11. Partitions(d, Len(p))
    <3>1. \A k \in 1..Len(d) - 1 : k \in 1..Len(d) /\ k < Len(d)
      BY <2>5
    <3> QED
      BY <2>7, <2>8, <2>9, <2>10, <3>1 DEF Partitions, Last
  <2> QED
    BY <2>2, <2>7, <2>9, <2>10, <2>11 DEF RowGroupsFit, GroupFits, GroupCloses, Size
<1> QED
  BY <1>1, <1>2
-------------------------------------------------------------------------------
(* Pages.                                                                  *)

(* An offset is on the page of the last break before or at it              *)
(* (_page_number_at).                                                      *)
THEOREM PagesAreFound ==
  \A offset \in Nat : \A breaks \in Seq(Nat) : Ascending(breaks) => PageOfOffset(offset, breaks)
<1> SUFFICES ASSUME NEW offset \in Nat, NEW breaks \in Seq(Nat), Ascending(breaks)
             PROVE  PageOfOffset(offset, breaks)
  OBVIOUS
<1> DEFINE later == {k \in DOMAIN breaks : offset < breaks[k]}
           before == {k \in DOMAIN breaks : breaks[k] <= offset}
<1>0. Len(breaks) \in Nat /\ DOMAIN breaks = 1..Len(breaks) /\ \A k \in 1..Len(breaks) : breaks[k] \in Nat
  OBVIOUS
<1>1. CASE later = {}
  <2>1. PageNumberAt(offset, breaks) = Len(breaks) + 1
    BY <1>1 DEF PageNumberAt
  <2>2. before = 1..Len(breaks)
    <3>1. ASSUME NEW k \in 1..Len(breaks) PROVE breaks[k] <= offset
      <4>1. ~(offset < breaks[k])
        BY <1>0, <1>1
      <4> QED
        BY <1>0, <4>1
    <3> QED
      BY <1>0, <3>1
  <2>3. Cardinality(1..Len(breaks)) = Len(breaks)
    <3>1. Len(breaks) \in Nat /\ Len(breaks) \in Int /\ 1 \in Int
      BY <1>0
    <3>2. Cardinality(1..Len(breaks)) = IF 1 > Len(breaks) THEN 0 ELSE Len(breaks) - 1 + 1
      BY <3>1, FS_Interval
    <3> QED
      BY <3>1, <3>2
  <2> QED
    BY <2>1, <2>2, <2>3 DEF PageOfOffset
<1>2. CASE later # {}
  <2> DEFINE m == Min(later)
  <2>1. m \in later /\ \A k \in later : m <= k
    <3>1. \A k \in later : k \in Nat
      BY <1>0
    <3> HIDE DEF later
    <3> QED
      BY <1>2, <3>1, MinOf
  <2>2. PageNumberAt(offset, breaks) = m
    BY <1>2 DEF PageNumberAt
  <2> HIDE DEF m
  <2>3. m \in 1..Len(breaks) /\ offset < breaks[m]
    BY <1>0, <2>1
  <2>4. before = 1..m - 1
    <3>1. ASSUME NEW k \in 1..Len(breaks), k <= m - 1 PROVE breaks[k] <= offset
      <4>1. k \notin later
        <5>1. k \in Nat /\ m \in Nat /\ ~(m <= k)
          BY <1>0, <2>3, <3>1
        <5> QED
          BY <2>1, <5>1
      <4>2. ~(offset < breaks[k])
        BY <1>0, <4>1
      <4> QED
        BY <1>0, <4>2
    <3>2. ASSUME NEW k \in 1..Len(breaks), ~(k <= m - 1) PROVE ~(breaks[k] <= offset)
      <4>1. breaks[k] \in Nat /\ breaks[m] \in Nat
        BY <1>0, <2>3
      <4>2. CASE k = m
        BY <2>3, <4>1, <4>2
      <4>3. CASE m < k
        <5>1. breaks[m] < breaks[k]
          BY <1>0, <2>3, <4>3 DEF Ascending
        <5> QED
          BY <2>3, <4>1, <5>1
      <4> QED
        BY <1>0, <2>3, <3>2, <4>2, <4>3
    <3> QED
      BY <1>0, <2>3, <3>1, <3>2
  <2>5. Cardinality(1..m - 1) = m - 1
    <3>1. m - 1 \in Nat
      BY <1>0, <2>3
    <3> QED
      BY <3>1, FS_Interval
  <2>6. m = m - 1 + 1
    BY <1>0, <2>3
  <2> HIDE DEF before
  <2>7. Cardinality(before) + 1 = m
    BY <2>4, <2>5, <2>6
  <2> QED
    BY <2>2, <2>7 DEF PageOfOffset, before
<1> QED
  BY <1>1, <1>2

-------------------------------------------------------------------------------
(* A sentence that is cut.                                                 *)

LEMMA MaxWithOne == ASSUME NEW n \in Nat PROVE Max({1, n}) = IF n > 1 THEN n ELSE 1
<1>1. CASE n > 1
  BY <1>1, MaxIs
<1>2. CASE ~(n > 1)
  BY <1>2, MaxIs
<1> QED
  BY <1>1, <1>2

LEMMA MinOfTwo == ASSUME NEW m \in Nat, NEW n \in Nat PROVE Min({m, n}) = IF m <= n THEN m ELSE n
<1>1. CASE m <= n
  BY <1>1, MinIs
<1>2. CASE ~(m <= n)
  BY <1>2, MinIs
<1> QED
  BY <1>1, <1>2

(* A shorter guess.                                                        *)
Shorter(start, e) == e - Max({1, (e - start) \div 10})

LEMMA ShorterIs ==
  ASSUME NEW start \in Nat, NEW e \in Nat, e > start + 1
  PROVE  Shorter(start, e) \in start + 1..e - 1
<1>1. (e - start) \div 10 \in Nat /\ (e - start) \div 10 < e - start
  OBVIOUS
<1>2. Max({1, (e - start) \div 10}) \in 1..e - start - 1
  BY <1>1, MaxWithOne
<1> QED
  BY <1>2 DEF Shorter

(* The shrunk ends of the guesses up to m.                                 *)
Shrunk(p, start, m, f) ==
  f = [e \in start + 1..m |->
         IF e > start + 1 /\ Tokens(p, start + 1, e) > TargetMax
         THEN f[e - Max({1, (e - start) \div 10})] ELSE e]

LEMMA ShrinkRecursion ==
  ASSUME NEW p, NEW start \in Nat, NEW end \in Nat, start < end
  PROVE  \E f : Shrunk(p, start, end, f) /\ Shrink(p, start, end) = f[end]
<1> DEFINE n == end - start - 1
           G == {m \in 0..n : \E f : Shrunk(p, start, m + start + 1, f)}
<1>1. n \in Nat /\ n + start + 1 = end
  OBVIOUS
<1> HIDE DEF n
<1>2. 0 \in G
  <2> DEFINE f == [e \in start + 1..start + 1 |-> e]
  <2>1. Shrunk(p, start, start + 1, f)
    BY DEF Shrunk
  <2>2. 0 + start + 1 = start + 1 /\ 0 \in 0..n
    BY <1>1
  <2> HIDE DEF f
  <2> QED
    BY <2>1, <2>2
<1>3. ASSUME NEW m \in 1..n, m - 1 \in G
      PROVE  m \in G
  <2> DEFINE e == m + start + 1
  <2>0. m - 1 + start + 1 = e - 1 /\ e \in Nat /\ e > start + 1 /\ m \in 0..n
    BY <1>1
  <2>1. PICK f : Shrunk(p, start, e - 1, f)
    BY <1>3, <2>0
  <2> HIDE DEF e
  <2> DEFINE last == IF e > start + 1 /\ Tokens(p, start + 1, e) > TargetMax
                     THEN f[Shorter(start, e)] ELSE e
             g == [i \in start + 1..e |-> IF i = e THEN last ELSE f[i]]
  <2>2. Shrunk(p, start, e, g)
    <3>1. \A i \in start + 1..e : i \in Nat
      BY <2>0
    <3>2. \A i \in start + 1..e : i > start + 1 => Shorter(start, i) \in start + 1..i - 1
      BY <3>1, ShorterIs
    <3>3. ASSUME NEW i \in start + 1..e
          PROVE  g[i] = IF i > start + 1 /\ Tokens(p, start + 1, i) > TargetMax
                        THEN g[Shorter(start, i)] ELSE i
      <4>1. CASE i = e
        <5>1. g[i] = last
          BY <2>0, <4>1
        <5>2. Shorter(start, e) \in start + 1..e /\ Shorter(start, e) # e
          BY <2>0, <3>2, <4>1
        <5>3. g[Shorter(start, e)] = f[Shorter(start, e)]
          BY <5>2
        <5> HIDE DEF g
        <5> QED
          BY <4>1, <5>1, <5>3
      <4>2. CASE i # e
        <5>1. i \in start + 1..e - 1
          BY <2>0, <4>2
        <5>2. g[i] = f[i]
          BY <4>2
        <5>3. f[i] = IF i > start + 1 /\ Tokens(p, start + 1, i) > TargetMax
                     THEN f[Shorter(start, i)] ELSE i
          BY <2>1, <5>1 DEF Shrunk, Shorter
        <5>4. ASSUME i > start + 1 PROVE g[Shorter(start, i)] = f[Shorter(start, i)]
          <6>1. Shorter(start, i) \in start + 1..i - 1
            BY <3>2, <5>4
          <6>2. Shorter(start, i) \in start + 1..e /\ Shorter(start, i) # e
            BY <2>0, <5>1, <6>1
          <6> QED
            BY <6>2
        <5> HIDE DEF g
        <5> QED
          BY <5>2, <5>3, <5>4
      <4> QED
        BY <4>1, <4>2
    <3>4. g = [i \in start + 1..e |-> g[i]]
      OBVIOUS
    <3> HIDE DEF g
    <3>5. g = [i \in start + 1..e |->
                 IF i > start + 1 /\ Tokens(p, start + 1, i) > TargetMax
                 THEN g[Shorter(start, i)] ELSE i]
      BY <3>3, <3>4, Zenon
    <3> QED
      BY <3>5 DEF Shrunk, Shorter
  <2> HIDE DEF g
  <2> QED
    BY <2>0, <2>2 DEF e
<1>4. \A m \in 0..n : m \in G
  <2> HIDE DEF G
  <2> QED
    BY <1>1, <1>2, <1>3, Induction
<1>5. \E f : Shrunk(p, start, end, f)
  <2>1. n \in G
    BY <1>1, <1>4
  <2> QED
    BY <1>1, <2>1
<1> DEFINE shrink == CHOOSE f : Shrunk(p, start, end, f)
<1>6. Shrunk(p, start, end, shrink)
  BY <1>5, Zenon
<1>7. Shrink(p, start, end) = shrink[end]
  BY DEF Shrink, Shrunk
<1> QED
  BY <1>6, <1>7
(* What the guess shrinks to: it fits, or is a single character.           *)
LEMMA ShrinkIs ==
  ASSUME NEW p \in Seq(Nat), NEW start \in Nat, NEW end \in Nat, start < end
  PROVE  /\ Shrink(p, start, end) \in start + 1..end
         /\ Shrink(p, start, end) = start + 1
              \/ ~(Tokens(p, start + 1, Shrink(p, start, end)) > TargetMax)
<1>1. PICK f : Shrunk(p, start, end, f) /\ Shrink(p, start, end) = f[end]
  BY ShrinkRecursion
<1> DEFINE Fit(e) == /\ f[e] \in start + 1..e
                     /\ f[e] = start + 1 \/ ~(Tokens(p, start + 1, f[e]) > TargetMax)
           n == end - start - 1
           G == {m \in 0..n : Fit(m + start + 1)}
<1>2. n \in Nat /\ n + start + 1 = end
  OBVIOUS
<1> HIDE DEF n
<1>3. ASSUME NEW m \in 0..n, \A k \in 0..m - 1 : k \in G PROVE m \in G
  <2> DEFINE e == m + start + 1
  <2>1. e \in start + 1..end /\ e \in Nat
    BY <1>2
  <2>2. f[e] = IF e > start + 1 /\ Tokens(p, start + 1, e) > TargetMax THEN f[Shorter(start, e)] ELSE e
    BY <1>1, <2>1 DEF Shrunk, Shorter
  <2>3. CASE e > start + 1 /\ Tokens(p, start + 1, e) > TargetMax
    <3>1. Shorter(start, e) \in start + 1..e - 1
      BY <2>1, <2>3, ShorterIs
    <3> DEFINE k == Shorter(start, e) - start - 1
    <3>2. k \in 0..m - 1 /\ k + start + 1 = Shorter(start, e)
      BY <3>1
    <3>3. k \in G
      BY <1>3, <3>2
    <3>4. Fit(Shorter(start, e))
      BY <3>2, <3>3
    <3>5. Fit(e)
      BY <2>1, <2>2, <2>3, <3>1, <3>4
    <3> HIDE DEF Fit
    <3> QED
      BY <1>3, <3>5
  <2>4. CASE ~(e > start + 1 /\ Tokens(p, start + 1, e) > TargetMax)
    <3>1. f[e] = e /\ (e = start + 1 \/ ~(Tokens(p, start + 1, e) > TargetMax))
      BY <2>1, <2>2, <2>4
    <3>2. Fit(e)
      BY <2>1, <3>1
    <3> HIDE DEF Fit
    <3> QED
      BY <1>3, <3>2
  <2> QED
    BY <2>3, <2>4
<1>4. \A m \in 0..n : m \in G
  <2> HIDE DEF G
  <2> QED
    BY <1>2, <1>3, StrongInduction
<1>5. Fit(end)
  <2>1. n \in G
    BY <1>2, <1>4
  <2> HIDE DEF Fit
  <2> QED
    BY <1>2, <2>1
<1> QED
  BY <1>1, <1>5

(* Where the span that begins after start ends.                            *)
Cut(p, start) == Shrink(p, start, Min({start + TargetMax * CharsPerToken, Len(p)}))

LEMMA CutIs ==
  ASSUME NEW p \in Seq(Nat), NEW start \in 0..Len(p), start # Len(p)
  PROVE  /\ Cut(p, start) \in start + 1..Len(p)
         /\ Cut(p, start) = start + 1 \/ ~(Tokens(p, start + 1, Cut(p, start)) > TargetMax)
<1> DEFINE guess == TargetMax * CharsPerToken
           end == Min({start + guess, Len(p)})
<1>1. guess \in Nat /\ guess >= 1
  <2>1. TargetMax \in Nat /\ TargetMax >= 1 /\ CharsPerToken \in Nat /\ CharsPerToken >= 1
    BY TextWindowsAssumption DEF TextWindowsAssumption
  <2> QED
    BY <2>1
<1>2. Len(p) \in Nat /\ start \in Nat /\ start < Len(p)
  OBVIOUS
<1> HIDE DEF guess
<1>3. end \in Nat /\ start < end /\ end <= Len(p)
  <2>1. start + guess \in Nat
    BY <1>1, <1>2
  <2>2. end = IF start + guess <= Len(p) THEN start + guess ELSE Len(p)
    BY <1>2, <2>1, MinOfTwo
  <2> HIDE DEF end
  <2> QED
    BY <1>1, <1>2, <2>1, <2>2
<1> HIDE DEF end
<1>4. Cut(p, start) = Shrink(p, start, end)
  BY DEF Cut, end, guess
<1>5. /\ Shrink(p, start, end) \in start + 1..end
      /\ Shrink(p, start, end) = start + 1
           \/ ~(Tokens(p, start + 1, Shrink(p, start, end)) > TargetMax)
  BY <1>2, <1>3, ShrinkIs
<1> QED
  BY <1>2, <1>3, <1>4, <1>5

(* The spans after m and those that begin later.                           *)
Split(p, m, f) ==
  f = [start \in m..Len(p) |->
         IF start = Len(p) THEN <<>> ELSE <<Chunk(start + 1, Cut(p, start))>> \o f[Cut(p, start)]]

LEMMA SplitRecursion ==
  ASSUME NEW p \in Seq(Nat)
  PROVE  \E f : Split(p, 0, f) /\ HardSplit(p) = f[0]
<1> DEFINE n == Len(p)
           G == {m \in 0..n : \E f : Split(p, n - m, f)}
<1>1. n \in Nat
  OBVIOUS
<1>2. 0 \in G
  <2> DEFINE f == [start \in n..n |-> <<>>]
  <2>1. Split(p, n, f)
    BY <1>1 DEF Split
  <2>2. n - 0 = n /\ 0 \in 0..n
    BY <1>1
  <2> HIDE DEF f, n
  <2> QED
    BY <2>1, <2>2
<1>3. ASSUME NEW m \in 1..n, m - 1 \in G
      PROVE  m \in G
  <2> DEFINE s == n - m
  <2>0. n - (m - 1) = s + 1 /\ s \in 0..n /\ s # n /\ m \in 0..n
    BY <1>1
  <2>1. PICK f : Split(p, s + 1, f)
    BY <1>3, <2>0
  <2> HIDE DEF s
  <2> DEFINE first == <<Chunk(s + 1, Cut(p, s))>> \o f[Cut(p, s)]
             g == [i \in s..n |-> IF i = s THEN first ELSE f[i]]
  <2>2. Split(p, s, g)
    <3>1. \A i \in 0..n : i # n => Cut(p, i) \in i + 1..n
      BY CutIs
    <3>2. ASSUME NEW i \in s..n
          PROVE  g[i] = IF i = n THEN <<>> ELSE <<Chunk(i + 1, Cut(p, i))>> \o g[Cut(p, i)]
      <4>1. CASE i = s
        <5>1. g[i] = first
          BY <4>1
        <5>2. Cut(p, s) \in s..n /\ Cut(p, s) # s
          BY <1>1, <2>0, <3>1
        <5>3. g[Cut(p, s)] = f[Cut(p, s)]
          BY <5>2
        <5> HIDE DEF g
        <5> QED
          BY <2>0, <4>1, <5>1, <5>3
      <4>2. CASE i # s
        <5>1. i \in s + 1..n /\ i \in 0..n
          BY <1>1, <2>0, <4>2
        <5>2. g[i] = f[i]
          BY <4>2
        <5>3. f[i] = IF i = n THEN <<>> ELSE <<Chunk(i + 1, Cut(p, i))>> \o f[Cut(p, i)]
          BY <2>1, <5>1 DEF Split
        <5>4. ASSUME i # n PROVE g[Cut(p, i)] = f[Cut(p, i)]
          <6>1. Cut(p, i) \in i + 1..n
            BY <3>1, <5>1, <5>4
          <6>2. Cut(p, i) \in s..n /\ Cut(p, i) # s
            BY <1>1, <2>0, <5>1, <6>1
          <6> QED
            BY <6>2
        <5> HIDE DEF g
        <5> QED
          BY <5>2, <5>3, <5>4
      <4> QED
        BY <4>1, <4>2
    <3>3. g = [i \in s..n |-> g[i]]
      OBVIOUS
    <3> HIDE DEF g
    <3>4. g = [i \in s..n |-> IF i = n THEN <<>> ELSE <<Chunk(i + 1, Cut(p, i))>> \o g[Cut(p, i)]]
      BY <3>2, <3>3, Zenon
    <3> QED
      BY <3>4 DEF Split
  <2> HIDE DEF g
  <2> QED
    BY <2>0, <2>2 DEF s
<1>4. \A m \in 0..n : m \in G
  <2> HIDE DEF G
  <2> QED
    BY <1>1, <1>2, <1>3, Induction
<1>5. \E f : Split(p, 0, f)
  <2>1. n \in G /\ n - n = 0
    BY <1>1, <1>4
  <2> QED
    BY <2>1
<1> DEFINE split == CHOOSE f : Split(p, 0, f)
<1>6. Split(p, 0, split)
  BY <1>5, Zenon
<1>7. HardSplit(p) = split[0]
  BY DEF HardSplit, Split, Cut
<1> QED
  BY <1>6, <1>7
LEMMA PrependIs ==
  ASSUME NEW S, NEW c \in Seq(S), NEW x \in S
  PROVE  /\ <<x>> \o c \in Seq(S)
         /\ Len(c) \in Nat
         /\ Len(<<x>> \o c) = Len(c) + 1
         /\ (<<x>> \o c)[1] = x
         /\ \A k \in 2..Len(c) + 1 : (<<x>> \o c)[k] = c[k - 1]
<1>1. <<x>> \in Seq(S) /\ Len(<<x>>) = 1 /\ <<x>>[1] = x /\ Len(c) \in Nat
  OBVIOUS
<1>2. /\ <<x>> \o c \in Seq(S)
      /\ Len(<<x>> \o c) = 1 + Len(c)
      /\ \A i \in 1..1 + Len(c) : (<<x>> \o c)[i] = IF i <= 1 THEN <<x>>[i] ELSE c[i - 1]
  BY <1>1, ConcatProperties
<1> QED
  BY <1>1, <1>2

SpanFits(p, span) ==
  ~(Tokens(p, span.first, span.last) > TargetMax) \/ span.first = span.last

(* The characters after start, cut.                                        *)
Spanned(p, start, spans) ==
  /\ spans \in Seq(Spans)
  /\ start = Len(p) => spans = <<>>
  /\ start # Len(p) => Len(spans) > 0 /\ spans[1].first = start + 1 /\ spans[Len(spans)].last = Len(p)
  /\ \A k \in 1..Len(spans) : /\ 1 <= spans[k].first /\ spans[k].first <= spans[k].last
                                /\ spans[k].last <= Len(p) /\ SpanFits(p, spans[k])
  /\ \A k \in 2..Len(spans) : spans[k].first = spans[k - 1].last + 1

LEMMA SpannedKeeps ==
  ASSUME NEW p \in Seq(Nat), NEW start \in 0..Len(p), start # Len(p),
         NEW spans, Spanned(p, Cut(p, start), spans)
  PROVE  Spanned(p, start, <<Chunk(start + 1, Cut(p, start))>> \o spans)
<1> DEFINE end == Cut(p, start)
           x == Chunk(start + 1, end)
           d == <<x>> \o spans
<1>1. end \in start + 1..Len(p) /\ (end = start + 1 \/ ~(Tokens(p, start + 1, end) > TargetMax))
  BY CutIs
<1>2. Len(p) \in Nat /\ start \in Nat /\ end \in Nat /\ start + 1 \in Nat
  BY <1>1
<1> HIDE DEF end
<1>3. x \in Spans /\ x.first = start + 1 /\ x.last = end
  BY <1>2, ChunkIs
<1>4. SpanFits(p, x)
  BY <1>1, <1>3 DEF SpanFits
<1>5. spans \in Seq(Spans) /\ Spanned(p, end, spans)
  BY DEF Spanned, end
<1> HIDE DEF x
<1>6. /\ d \in Seq(Spans)
      /\ Len(spans) \in Nat
      /\ Len(d) = Len(spans) + 1
      /\ d[1] = x
      /\ \A k \in 2..Len(d) : d[k] = spans[k - 1]
  BY <1>3, <1>5, PrependIs
<1> HIDE DEF d
<1>7. d[Len(d)].last = Len(p)
  <2>1. CASE end = Len(p)
    <3>1. Len(spans) = 0
      BY <1>5, <2>1, EmptySeq DEF Spanned
    <3> QED
      BY <1>3, <1>6, <2>1, <3>1
  <2>2. CASE end # Len(p)
    <3>1. Len(spans) > 0 /\ spans[Len(spans)].last = Len(p)
      BY <1>5, <2>2 DEF Spanned
    <3>2. Len(d) \in 2..Len(d) /\ Len(d) - 1 = Len(spans)
      BY <1>6, <3>1
    <3> QED
      BY <1>6, <3>1, <3>2
  <2> QED
    BY <2>1, <2>2
<1>8. ASSUME NEW k \in 1..Len(d)
      PROVE  /\ 1 <= d[k].first /\ d[k].first <= d[k].last
             /\ d[k].last <= Len(p) /\ SpanFits(p, d[k])
  <2>1. CASE k = 1
    BY <1>1, <1>2, <1>3, <1>4, <1>6, <2>1
  <2>2. CASE k # 1
    <3>1. k \in 2..Len(d) /\ k - 1 \in 1..Len(spans)
      BY <1>6, <2>2
    <3> QED
      BY <1>5, <1>6, <3>1 DEF Spanned
  <2> QED
    BY <2>1, <2>2
<1>9. ASSUME NEW k \in 2..Len(d) PROVE d[k].first = d[k - 1].last + 1
  <2>1. d[k] = spans[k - 1] /\ k - 1 \in 1..Len(spans)
    BY <1>6
  <2>2. CASE k = 2
    <3>1. end # Len(p)
      <4>1. ASSUME end = Len(p) PROVE FALSE
        <5>1. Len(spans) = 0
          BY <1>5, <4>1, EmptySeq DEF Spanned
        <5> QED
          BY <2>1, <5>1
      <4> QED
        BY <4>1
    <3>2. spans[1].first = end + 1
      BY <1>5, <3>1 DEF Spanned
    <3> QED
      BY <1>3, <1>6, <2>1, <2>2, <3>2
  <2>3. CASE k # 2
    <3>1. k - 1 \in 2..Len(spans) /\ k - 1 \in 2..Len(d)
      BY <1>6, <2>1, <2>3
    <3>2. d[k - 1] = spans[k - 1 - 1]
      BY <1>6, <3>1
    <3>3. spans[k - 1].first = spans[k - 1 - 1].last + 1
      BY <1>5, <3>1 DEF Spanned
    <3> QED
      BY <2>1, <3>2, <3>3
  <2> QED
    BY <2>2, <2>3
<1>10. Len(d) > 0 /\ d[1].first = start + 1
  BY <1>3, <1>6
<1>11. Spanned(p, start, d)
  BY <1>6, <1>7, <1>8, <1>9, <1>10 DEF Spanned
<1> QED
  BY <1>11 DEF d, x, end

LEMMA HardSplitSpans ==
  ASSUME NEW p \in Seq(Nat)
  PROVE  Spanned(p, 0, HardSplit(p))
<1>1. PICK f : Split(p, 0, f) /\ HardSplit(p) = f[0]
  BY SplitRecursion
<1> DEFINE n == Len(p)
           G == {m \in 0..n : Spanned(p, m, f[m])}
<1>2. n \in Nat
  OBVIOUS
<1>3. ASSUME NEW m \in 0..n, \A k \in m + 1..n : k \in G PROVE m \in G
  <2>1. f[m] = IF m = n THEN <<>> ELSE <<Chunk(m + 1, Cut(p, m))>> \o f[Cut(p, m)]
    BY <1>1 DEF Split
  <2>2. CASE m = n
    <3>1. <<>> \in Seq(Spans) /\ Len(<<>>) = 0
      BY EmptySeq
    <3>2. Spanned(p, m, <<>>)
      BY <2>2, <3>1 DEF Spanned
    <3> QED
      BY <2>1, <2>2, <3>2
  <2>3. CASE m # n
    <3>1. Cut(p, m) \in m + 1..n
      BY <2>3, CutIs
    <3>2. Spanned(p, Cut(p, m), f[Cut(p, m)])
      BY <1>3, <3>1
    <3>3. Spanned(p, m, f[m])
      BY <2>1, <2>3, <3>2, SpannedKeeps
    <3> QED
      BY <3>3
  <2> QED
    BY <2>2, <2>3
<1>4. \A m \in 0..n : m \in G
  <2> HIDE DEF G
  <2> QED
    BY <1>2, <1>3, DownwardInduction
<1>5. 0 \in G
  BY <1>2, <1>4
<1> QED
  BY <1>1, <1>5

(* A sentence that is cut is all there, span after span, and a span is     *)
(* over the target only when it is a single character (_hard_split).       *)
THEOREM SentencesAreCut == \A chars \in Seq(Nat) : SpansFit(chars)
<1> SUFFICES ASSUME NEW p \in Seq(Nat) PROVE SpansFit(p)
  OBVIOUS
<1> DEFINE spans == HardSplit(p)
<1>0. Len(p) \in Nat /\ TargetMax \in Nat
  BY TextWindowsAssumption DEF TextWindowsAssumption
<1>1. Spanned(p, 0, spans)
  BY HardSplitSpans
<1> HIDE DEF spans
<1>2. spans \in Seq(Spans) /\ Len(spans) \in Nat /\ DOMAIN spans = 1..Len(spans)
  <2>1. spans \in Seq(Spans)
    BY <1>1 DEF Spanned
  <2> QED
    BY <2>1
<1>3. Partitions(spans, Len(p))
  <2>1. ASSUME Len(p) > 0
        PROVE  spans # <<>> /\ spans[1].first = 1 /\ Last(spans).last = Len(p)
    <3>1. Len(spans) > 0 /\ spans[1].first = 0 + 1 /\ spans[Len(spans)].last = Len(p)
      BY <1>0, <1>1, <2>1 DEF Spanned
    <3> QED
      BY <3>1 DEF Last
  <2>2. ASSUME NEW k \in 1..Len(spans) - 1 PROVE spans[k + 1].first = spans[k].last + 1
    <3>1. k + 1 \in 2..Len(spans) /\ k + 1 - 1 = k
      BY <1>2
    <3> QED
      BY <1>1, <3>1 DEF Spanned
  <2>3. \A k \in DOMAIN spans : spans[k].first <= spans[k].last
    BY <1>1, <1>2 DEF Spanned
  <2> QED
    BY <2>1, <2>2, <2>3 DEF Partitions
<1>4. ASSUME NEW k \in DOMAIN spans
      PROVE  Size(p, spans[k]) <= TargetMax \/ spans[k].first = spans[k].last
  <2>1. /\ spans[k] \in Spans /\ 1 <= spans[k].first /\ spans[k].first <= spans[k].last
        /\ spans[k].last <= Len(p) /\ SpanFits(p, spans[k])
    BY <1>1, <1>2 DEF Spanned
  <2>2. spans[k].first \in Nat /\ spans[k].last \in Nat
    BY <2>1 DEF Spans
  <2>3. spans[k].first \in 1..Len(p) + 1 /\ spans[k].last \in spans[k].first - 1..Len(p)
    BY <1>0, <2>1, <2>2
  <2>4. Tokens(p, spans[k].first, spans[k].last) \in Nat
    BY <2>3, TokensAdd
  <2> QED
    BY <1>0, <2>1, <2>4 DEF SpanFits, Size
<1> QED
  BY <1>3, <1>4 DEF SpansFit, spans
-------------------------------------------------------------------------------
(* The atoms of a document.                                                *)

Total(p) == Tokens(p, 1, Len(p))

LEMMA TotalIs ==
  ASSUME NEW p \in Seq(Nat)
  PROVE  Total(p) = Sums(p)[Len(p)] /\ Total(p) \in Nat
<1>1. /\ Len(p) \in Nat
      /\ \A n \in 0..Len(p) : Sums(p)[n] \in Nat
      /\ Sums(p)[0] = 0
  BY SumsType
<1>2. Total(p) = Sums(p)[Len(p)] - Sums(p)[0]
  BY DEF Total, Tokens
<1> QED
  BY <1>1, <1>2

(* Sums of a beginning.                                                    *)
LEMMA PrefixSums ==
  ASSUME NEW p \in Seq(Nat), NEW q \in Seq(Nat), NEW n \in Nat, n <= Len(p), n <= Len(q),
         \A i \in 1..n : p[i] = q[i]
  PROVE  \A i \in 0..n : Sums(p)[i] = Sums(q)[i]
<1> DEFINE G == {i \in 0..n : Sums(p)[i] = Sums(q)[i]}
<1>1. /\ Len(p) \in Nat /\ Sums(p)[0] = 0
      /\ \A i \in 1..Len(p) : Sums(p)[i] = Sums(p)[i - 1] + p[i]
  BY SumsType
<1>2. /\ Len(q) \in Nat /\ Sums(q)[0] = 0
      /\ \A i \in 1..Len(q) : Sums(q)[i] = Sums(q)[i - 1] + q[i]
  BY SumsType
<1>3. 0 \in G
  BY <1>1, <1>2
<1>4. ASSUME NEW i \in 1..n, i - 1 \in G PROVE i \in G
  <2>1. i \in 1..Len(p) /\ i \in 1..Len(q) /\ p[i] = q[i] /\ i \in 0..n
    BY <1>1, <1>2
  <2>2. Sums(p)[i - 1] = Sums(q)[i - 1]
    BY <1>4
  <2> QED
    BY <1>1, <1>2, <2>1, <2>2
<1>5. \A i \in 0..n : i \in G
  <2> HIDE DEF G
  <2> QED
    BY <1>3, <1>4, Induction
<1> QED
  BY <1>5

LEMMA ConcatTotal ==
  ASSUME NEW a \in Seq(Nat), NEW b \in Seq(Nat)
  PROVE  Total(a \o b) = Total(a) + Total(b)
<1> DEFINE c == a \o b
           G == {i \in 0..Len(b) : Sums(c)[Len(a) + i] = Sums(a)[Len(a)] + Sums(b)[i]}
<1>1. /\ c \in Seq(Nat) /\ Len(c) = Len(a) + Len(b) /\ Len(a) \in Nat /\ Len(b) \in Nat
      /\ \A i \in 1..Len(a) + Len(b) : c[i] = IF i <= Len(a) THEN a[i] ELSE b[i - Len(a)]
  BY ConcatProperties
<1> HIDE DEF c
<1>2. /\ \A i \in 1..Len(c) : Sums(c)[i] = Sums(c)[i - 1] + c[i]
      /\ \A i \in 0..Len(c) : Sums(c)[i] \in Nat
  BY <1>1, SumsType
<1>3. /\ Sums(b)[0] = 0
      /\ \A i \in 1..Len(b) : Sums(b)[i] = Sums(b)[i - 1] + b[i] /\ b[i] \in Nat
      /\ \A i \in 0..Len(b) : Sums(b)[i] \in Nat
  BY SumsType
<1>4. Sums(a)[Len(a)] \in Nat
  BY <1>1, SumsType
<1>5. 0 \in G
  <2>1. \A i \in 1..Len(a) : c[i] = a[i]
    BY <1>1
  <2>2. Len(a) <= Len(c) /\ Len(a) <= Len(a) /\ Len(a) \in 0..Len(a)
    BY <1>1
  <2>3. \A i \in 0..Len(a) : Sums(c)[i] = Sums(a)[i]
    BY <1>1, <2>1, <2>2, PrefixSums
  <2> QED
    BY <1>1, <1>3, <1>4, <2>2, <2>3
<1>6. ASSUME NEW i \in 1..Len(b), i - 1 \in G PROVE i \in G
  <2> DEFINE j == Len(a) + i
  <2>1. j \in 1..Len(c) /\ j - 1 = Len(a) + (i - 1) /\ c[j] = b[i]
    <3>1. j \in 1..Len(a) + Len(b) /\ ~(j <= Len(a)) /\ j - Len(a) = i
      BY <1>1
    <3> QED
      BY <1>1, <3>1, SMTT(30)
  <2>2. Sums(c)[j] = Sums(c)[j - 1] + c[j]
    BY <1>2, <2>1
  <2>3. Sums(c)[j - 1] = Sums(a)[Len(a)] + Sums(b)[i - 1]
    BY <1>6, <2>1
  <2>4. i - 1 \in 0..Len(b) /\ Sums(b)[i - 1] \in Nat /\ b[i] \in Nat /\ Sums(b)[i] = Sums(b)[i - 1] + b[i]
    BY <1>3
  <2> HIDE DEF j
  <2>5. Sums(c)[j] = Sums(a)[Len(a)] + Sums(b)[i]
    <3>1. Sums(c)[j] = (Sums(a)[Len(a)] + Sums(b)[i - 1]) + b[i]
      BY <2>1, <2>2, <2>3
    <3> QED
      BY <1>4, <2>4, <3>1
  <2>6. i \in 0..Len(b)
    BY <1>1
  <2> QED
    BY <2>5, <2>6 DEF j
<1>7. \A i \in 0..Len(b) : i \in G
  <2> HIDE DEF G
  <2> QED
    BY <1>1, <1>5, <1>6, Induction
<1>8. Sums(c)[Len(c)] = Sums(a)[Len(a)] + Sums(b)[Len(b)]
  <2>1. Len(b) \in G
    BY <1>1, <1>7
  <2> QED
    BY <1>1, <2>1
<1> QED
  BY <1>1, <1>8, TotalIs DEF c

LEMMA FlattenRecursion ==
  ASSUME NEW ss, Len(ss) \in Nat, Len(ss) # 0
  PROVE  \E f : /\ f = [i \in 1..Len(ss) |-> IF i = 1 THEN ss[i] ELSE f[i - 1] \o ss[i]]
                /\ FlattenSeq(ss) = f[Len(ss)]
<1> DEFINE Flat(m, f) == f = [i \in 1..m |-> IF i = 1 THEN ss[i] ELSE f[i - 1] \o ss[i]]
           G == {m \in 0..Len(ss) : \E f : Flat(m, f)}
<1>1. 0 \in G
  <2> DEFINE f == [i \in 1..0 |-> 0]
  <2>1. Flat(0, f)
    <3>1. \A i : i \notin 1..0
      OBVIOUS
    <3>2. f = [i \in 1..0 |-> IF i = 1 THEN ss[i] ELSE f[i - 1] \o ss[i]]
      BY <3>1
    <3> QED
      BY <3>2
  <2>2. 0 \in 0..Len(ss)
    OBVIOUS
  <2> HIDE DEF Flat, f
  <2> QED
    BY <2>1, <2>2
<1>2. ASSUME NEW m \in 1..Len(ss), m - 1 \in G
      PROVE  m \in G
  <2>1. PICK f : Flat(m - 1, f)
    BY <1>2
  <2> DEFINE g == [i \in 1..m |-> IF i = m THEN (IF m = 1 THEN ss[m] ELSE f[m - 1] \o ss[m]) ELSE f[i]]
  <2>2. Flat(m, g)
    <3>1. ASSUME NEW i \in 1..m PROVE g[i] = IF i = 1 THEN ss[i] ELSE g[i - 1] \o ss[i]
      <4>1. i # 1 => i - 1 \in 1..m /\ i - 1 # m /\ g[i - 1] = f[i - 1]
        OBVIOUS
      <4>2. CASE i = m
        BY <4>1, <4>2
      <4>3. CASE i # m
        <5>1. i \in 1..m - 1 /\ g[i] = f[i]
          BY <4>3
        <5>2. f[i] = IF i = 1 THEN ss[i] ELSE f[i - 1] \o ss[i]
          BY <2>1, <5>1
        <5> QED
          BY <4>1, <5>1, <5>2
      <4> QED
        BY <4>2, <4>3
    <3>2. g = [i \in 1..m |-> g[i]]
      OBVIOUS
    <3> HIDE DEF g
    <3> QED
      BY <3>1, <3>2, Zenon
  <2>3. m \in 0..Len(ss)
    OBVIOUS
  <2> HIDE DEF Flat, g
  <2> QED
    BY <2>2, <2>3
<1>3. \A m \in 0..Len(ss) : m \in G
  <2> HIDE DEF G
  <2> QED
    BY <1>1, <1>2, Induction
<1>4. \E f : Flat(Len(ss), f)
  <2>1. Len(ss) \in G
    <3>1. Len(ss) \in 0..Len(ss)
      OBVIOUS
    <3> HIDE DEF G
    <3> QED
      BY <1>3, <3>1
  <2> HIDE DEF Flat
  <2> QED
    BY <2>1
<1> DEFINE flatten == CHOOSE f : Flat(Len(ss), f)
<1>5. Flat(Len(ss), flatten)
  <2> HIDE DEF Flat
  <2> QED
    BY <1>4, Zenon
<1>6. FlattenSeq(ss) = flatten[Len(ss)]
  BY DEF FlattenSeq
<1> QED
  BY <1>5, <1>6

(* What is flattened adds up to the totals of its parts.                   *)
LEMMA FlattenIs ==
  ASSUME NEW S, S \subseteq Nat, NEW ss \in Seq(Seq(S))
  PROVE  /\ FlattenSeq(ss) \in Seq(S)
         /\ [k \in DOMAIN ss |-> Total(ss[k])] \in Seq(Nat)
         /\ Total(FlattenSeq(ss)) = Total([k \in DOMAIN ss |-> Total(ss[k])])
<1> DEFINE T == [k \in DOMAIN ss |-> Total(ss[k])]
<1>0. Len(ss) \in Nat /\ DOMAIN ss = 1..Len(ss) /\ \A i \in 1..Len(ss) : ss[i] \in Seq(S)
  OBVIOUS
<1>1. \A q \in Seq(S) : q \in Seq(Nat)
  BY SeqMonotonic
<1>2. \A i \in 1..Len(ss) : Total(ss[i]) \in Nat
  BY <1>0, <1>1, TotalIs
<1>3. T \in Seq(Nat) /\ Len(T) = Len(ss) /\ \A i \in 1..Len(ss) : T[i] = Total(ss[i])
  <2>1. T \in [1..Len(ss) -> Nat]
    BY <1>0, <1>2
  <2> QED
    BY <1>0, <2>1
<1> HIDE DEF T
<1>4. CASE Len(ss) = 0
  <2>1. ss = <<>> /\ T = <<>> /\ <<>> \in Seq(S) /\ Len(<<>>) = 0
    BY <1>3, <1>4, EmptySeq
  <2>2. FlattenSeq(ss) = <<>>
    BY <1>4, <2>1 DEF FlattenSeq
  <2> QED
    BY <1>3, <2>1, <2>2 DEF T
<1>5. CASE Len(ss) # 0
  <2>1. PICK f : /\ f = [i \in 1..Len(ss) |-> IF i = 1 THEN ss[i] ELSE f[i - 1] \o ss[i]]
                 /\ FlattenSeq(ss) = f[Len(ss)]
    BY <1>0, <1>5, FlattenRecursion
  <2>2. /\ f[1] = ss[1]
        /\ \A i \in 2..Len(ss) : f[i] = f[i - 1] \o ss[i]
    <3>1. \A i \in 1..Len(ss) : f[i] = IF i = 1 THEN ss[i] ELSE f[i - 1] \o ss[i]
      BY <2>1
    <3>2. 1 \in 1..Len(ss) /\ \A i \in 2..Len(ss) : i \in 1..Len(ss) /\ i # 1
      BY <1>0, <1>5
    <3> QED
      BY <3>1, <3>2
  <2>3. /\ Sums(T)[0] = 0
        /\ \A i \in 1..Len(ss) : Sums(T)[i] = Sums(T)[i - 1] + Total(ss[i])
    BY <1>3, SumsType
  <2> DEFINE Flat(i) == f[i] \in Seq(S) /\ Total(f[i]) = Sums(T)[i]
             G == {i \in 0..Len(ss) : i > 0 => Flat(i)}
  <2>4. 0 \in G
    BY <1>0
  <2>5. ASSUME NEW i \in 1..Len(ss), i - 1 \in G PROVE i \in G
    <3>1. CASE i = 1
      <4>1. Flat(1)
        BY <1>0, <1>2, <2>2, <2>3, <3>1
      <4> HIDE DEF Flat
      <4> QED
        BY <1>0, <3>1, <4>1
    <3>2. CASE i # 1
      <4>1. i \in 2..Len(ss) /\ i - 1 > 0
        BY <1>0, <3>2
      <4>2. Flat(i - 1)
        <5> HIDE DEF Flat
        <5> QED
          BY <2>5, <4>1
      <4>3. f[i] = f[i - 1] \o ss[i] /\ ss[i] \in Seq(S)
        BY <1>0, <2>2, <4>1
      <4>4. f[i] \in Seq(S)
        BY <4>2, <4>3, ConcatProperties
      <4>5. Total(f[i]) = Total(f[i - 1]) + Total(ss[i])
        BY <1>1, <4>2, <4>3, ConcatTotal
      <4>6. Flat(i)
        BY <2>3, <4>2, <4>4, <4>5
      <4> HIDE DEF Flat
      <4> QED
        BY <1>0, <4>6
    <3> QED
      BY <3>1, <3>2
  <2>6. \A i \in 0..Len(ss) : i \in G
    <3> HIDE DEF G
    <3> QED
      BY <1>0, <2>4, <2>5, Induction
  <2>7. Flat(Len(ss))
    <3>1. Len(ss) \in G /\ Len(ss) > 0
      BY <1>0, <1>5, <2>6
    <3> HIDE DEF Flat
    <3> QED
      BY <3>1
  <2>8. Total(T) = Sums(T)[Len(ss)]
    BY <1>3, TotalIs
  <2> QED
    BY <1>3, <2>1, <2>7, <2>8 DEF T
<1> QED
  BY <1>4, <1>5
(* Counting in steps of c.                                                 *)
LEMMA ModStep ==
  ASSUME NEW c \in Nat, c >= 1, NEW n \in Nat, n >= 1
  PROVE  n % c = IF (n - 1) % c = c - 1 THEN 0 ELSE ((n - 1) % c) + 1
<1> DEFINE q == n \div c
           r == n % c
           q1 == (n - 1) \div c
           r1 == (n - 1) % c
<1>1. q \in Int /\ r \in 0..c - 1 /\ n = c * q + r
  OBVIOUS
<1>2. q1 \in Int /\ r1 \in 0..c - 1 /\ n - 1 = c * q1 + r1
  OBVIOUS
<1> HIDE DEF q, r, q1, r1
<1>3. c * (q - q1) = r1 + 1 - r
  BY <1>1, <1>2
<1>4. r1 + 1 - r \in -c + 2..c
  BY <1>1, <1>2
<1> DEFINE k == q - q1
<1>5. k \in Int /\ c * k = r1 + 1 - r
  BY <1>1, <1>2, <1>3
<1> HIDE DEF k
<1>6. k = 0 \/ k = 1
  <2>1. ASSUME k >= 2 PROVE FALSE
    <3>1. c * k >= c * 2
      BY <1>5, <2>1
    <3> QED
      BY <1>4, <1>5, <3>1
  <2>2. ASSUME k <= -1 PROVE FALSE
    <3>1. c * k <= c * (-1)
      BY <1>5, <2>2
    <3> QED
      BY <1>4, <1>5, <3>1
  <2> QED
    BY <1>5, <2>1, <2>2
<1>7. r = r1 + 1 \/ (r = 0 /\ r1 = c - 1)
  <2>1. CASE k = 0
    BY <1>1, <1>2, <1>5, <2>1
  <2>2. CASE k = 1
    BY <1>1, <1>2, <1>5, <2>2
  <2> QED
    BY <1>6, <2>1, <2>2
<1> QED
  BY <1>1, <1>2, <1>7 DEF r, r1
CharsOf(tokens) ==
  [i \in 1..tokens * CharsPerToken |-> IF i % CharsPerToken = 0 THEN 1 ELSE 0]

(* The characters of a sentence of so many tokens.                         *)
LEMMA CharsAre ==
  ASSUME NEW t \in Nat
  PROVE  /\ CharsOf(t) \in Seq(Nat)
         /\ \A i \in 1..Len(CharsOf(t)) : CharsOf(t)[i] <= 1
         /\ Total(CharsOf(t)) = t
<1> DEFINE c == CharsPerToken
           n == t * c
           p == CharsOf(t)
           G == {i \in 0..n : i = c * Sums(p)[i] + (i % c)}
<1>1. c \in Nat /\ c >= 1
  BY TextWindowsAssumption DEF TextWindowsAssumption
<1>2. n \in Nat
  BY <1>1
<1>3. p = [i \in 1..n |-> IF i % c = 0 THEN 1 ELSE 0]
  BY DEF CharsOf
<1> HIDE DEF n, p, c
<1>4. p \in Seq(Nat) /\ Len(p) = n /\ \A i \in 1..n : p[i] = IF i % c = 0 THEN 1 ELSE 0
  <2>1. p \in [1..n -> Nat]
    BY <1>3
  <2> QED
    BY <1>2, <1>3, <2>1
<1>5. /\ Sums(p)[0] = 0
      /\ \A i \in 0..n : Sums(p)[i] \in Nat
      /\ \A i \in 1..n : Sums(p)[i] = Sums(p)[i - 1] + p[i]
  BY <1>4, SumsType
<1>6. 0 \in G
  <2>1. 0 % c = 0 /\ c * 0 = 0
    BY <1>1
  <2> QED
    BY <1>2, <1>5, <2>1
<1>7. ASSUME NEW i \in 1..n, i - 1 \in G PROVE i \in G
  <2> DEFINE s == Sums(p)[i - 1]
  <2>1. i \in Nat /\ i >= 1 /\ i - 1 \in 0..n /\ i \in 0..n
    BY <1>2
  <2>2. s \in Nat /\ Sums(p)[i] = s + p[i]
    BY <1>5, <2>1
  <2>3. i - 1 = c * s + ((i - 1) % c)
    BY <1>7
  <2> HIDE DEF s
  <2>4. i % c = IF (i - 1) % c = c - 1 THEN 0 ELSE ((i - 1) % c) + 1
    BY <1>1, <2>1, ModStep
  <2>5. (i - 1) % c \in 0..c - 1
    BY <1>1, <2>1
  <2>6. CASE (i - 1) % c = c - 1
    <3>1. i % c = 0 /\ p[i] = 1
      BY <1>4, <2>4, <2>6
    <3>2. c * (s + 1) = c * s + c
      BY <1>1, <2>2
    <3>3. i = c * (s + 1) + 0
      <4> DEFINE cs == c * s
      <4>1. cs \in Int
        BY <1>1, <2>2
      <4>2. i - 1 = cs + (c - 1) /\ c * (s + 1) = cs + c
        BY <2>3, <2>6, <3>2
      <4> HIDE DEF cs
      <4> QED
        BY <1>1, <2>1, <4>1, <4>2
    <3> QED
      BY <2>1, <2>2, <3>1, <3>3
  <2>7. CASE (i - 1) % c # c - 1
    <3>1. i % c = ((i - 1) % c) + 1 /\ i % c # 0 /\ p[i] = 0
      BY <1>4, <2>4, <2>5, <2>7
    <3>2. Sums(p)[i] = s
      BY <2>2, <3>1
    <3>3. i = c * s + (i % c)
      <4> DEFINE cs == c * s
      <4>1. cs \in Int
        BY <1>1, <2>2
      <4>2. i - 1 = cs + ((i - 1) % c)
        BY <2>3
      <4> HIDE DEF cs
      <4>3. i = cs + (i % c)
        BY <1>1, <2>1, <2>5, <3>1, <4>1, <4>2
      <4> QED
        BY <4>3 DEF cs
    <3> QED
      BY <2>1, <3>2, <3>3
  <2> QED
    BY <2>6, <2>7
<1>8. \A i \in 0..n : i \in G
  <2> HIDE DEF G
  <2> QED
    BY <1>2, <1>6, <1>7, Induction
<1>9. Sums(p)[n] = t
  <2> DEFINE s == Sums(p)[n]
  <2>1. s \in Nat /\ n = c * s + (n % c) /\ n % c \in 0..c - 1
    <3>1. n \in 0..n
      BY <1>2
    <3>2. n \in G
      BY <1>8, <3>1
    <3>3. n % c \in 0..c - 1
      BY <1>1, <1>2
    <3> QED
      BY <1>5, <3>1, <3>2, <3>3
  <2> HIDE DEF s
  <2> DEFINE k == t - s
  <2>2. k \in Int /\ c * k = n % c
    <3>1. c * k = t * c - c * s
      BY <1>1, <2>1
    <3> DEFINE cs == c * s
    <3>2. cs \in Int /\ n = cs + (n % c) /\ c * k = n - cs
      BY <1>1, <2>1, <3>1 DEF n
    <3> HIDE DEF cs, k
    <3>3. c * k = n % c
      BY <1>2, <2>1, <3>2
    <3> QED
      BY <2>1, <3>3 DEF k
  <2> HIDE DEF k
  <2>3. k = 0
    <3>1. ASSUME k >= 1 PROVE FALSE
      <4>1. c * k >= c
        BY <1>1, <2>2, <3>1
      <4> QED
        BY <1>1, <2>1, <2>2, <4>1
    <3>2. ASSUME k <= -1 PROVE FALSE
      <4>1. c * k <= -c
        BY <1>1, <2>2, <3>2
      <4> QED
        BY <1>1, <2>1, <2>2, <4>1
    <3> QED
      BY <2>2, <3>1, <3>2
  <2> QED
    BY <2>1, <2>3 DEF k, s
<1>10. Total(p) = t
  BY <1>4, <1>9, TotalIs
<1>11. \A i \in 1..Len(p) : p[i] <= 1
  BY <1>4
<1> QED
  BY <1>4, <1>10, <1>11 DEF p
Fits == 0..TargetMax

(* What a sentence is cut into has its tokens, and is within the target.   *)
LEMMA CutSentenceIs ==
  ASSUME NEW t \in Nat
  PROVE  CutSentence(t) \in Seq(Fits) /\ Total(CutSentence(t)) = t
<1> DEFINE p == CharsOf(t)
           spans == HardSplit(p)
           sizes == [k \in DOMAIN spans |-> Size(p, spans[k])]
<1>1. p \in Seq(Nat) /\ Total(p) = t /\ \A i \in 1..Len(p) : p[i] <= 1
  BY CharsAre
<1>2. CutSentence(t) = sizes
  BY DEF CutSentence, CharsOf
<1> HIDE DEF p
<1>3. Spanned(p, 0, spans)
  BY <1>1, HardSplitSpans
<1> HIDE DEF spans
<1>4. spans \in Seq(Spans) /\ Len(spans) \in Nat /\ DOMAIN spans = 1..Len(spans) /\ Len(p) \in Nat
  <2>1. spans \in Seq(Spans)
    BY <1>3 DEF Spanned
  <2> QED
    BY <1>1, <2>1
<1>5. TargetMax \in Nat /\ TargetMax >= 1
  BY TextWindowsAssumption DEF TextWindowsAssumption
<1>6. ASSUME NEW k \in 1..Len(spans)
      PROVE  /\ Size(p, spans[k]) \in Nat /\ Size(p, spans[k]) <= TargetMax
             /\ spans[k].first \in 1..Len(p) /\ spans[k].last \in spans[k].first..Len(p)
  <2> DEFINE i == spans[k].first
             j == spans[k].last
  <2>1. spans[k] \in Spans /\ 1 <= i /\ i <= j /\ j <= Len(p) /\ SpanFits(p, spans[k])
    BY <1>3, <1>4 DEF Spanned
  <2>2. i \in Nat /\ j \in Nat
    BY <2>1 DEF Spans
  <2> HIDE DEF i, j
  <2>3. i \in 1..Len(p) /\ j \in i..Len(p) /\ i \in 1..Len(p) + 1 /\ j \in i - 1..Len(p)
    BY <1>4, <2>1, <2>2
  <2>4. Tokens(p, i, j) \in Nat
    BY <1>1, <2>3, TokensAdd
  <2>5. Tokens(p, i, j) <= TargetMax
    <3>1. CASE i = j
      <4>1. Tokens(p, i, i) = p[i] /\ p[i] \in Nat
        BY <1>1, <2>3, TokensAdd
      <4> QED
        BY <1>1, <1>5, <2>3, <3>1, <4>1
    <3>2. CASE i # j
      <4>1. ~(Tokens(p, i, j) > TargetMax)
        BY <2>1, <3>2 DEF SpanFits, i, j
      <4> QED
        BY <1>5, <2>4, <4>1
    <3> QED
      BY <3>1, <3>2
  <2>6. Size(p, spans[k]) = Tokens(p, i, j)
    BY DEF Size, i, j
  <2> QED
    BY <2>3, <2>4, <2>5, <2>6 DEF i, j
<1>7. sizes \in Seq(Nat) /\ sizes \in Seq(Fits) /\ Len(sizes) = Len(spans)
      /\ \A k \in 1..Len(spans) : sizes[k] = Size(p, spans[k])
  <2>1. \A k \in 1..Len(spans) : Size(p, spans[k]) \in Fits
    BY <1>5, <1>6 DEF Fits
  <2>2. sizes \in [1..Len(spans) -> Nat] /\ sizes \in [1..Len(spans) -> Fits]
    BY <1>4, <1>6, <2>1
  <2> QED
    BY <1>4, <2>2
<1> HIDE DEF sizes
<1>8. Total(sizes) = Total(p)
  <2> DEFINE G == {k \in 0..Len(spans) : k > 0 => Sums(sizes)[k] = Tokens(p, 1, spans[k].last)}
  <2>1. /\ Sums(sizes)[0] = 0
        /\ \A k \in 1..Len(spans) : Sums(sizes)[k] = Sums(sizes)[k - 1] + Size(p, spans[k])
    BY <1>7, SumsType
  <2>2. 0 \in G
    BY <1>4
  <2>3. ASSUME NEW k \in 1..Len(spans), k - 1 \in G PROVE k \in G
    <3>1. Sums(sizes)[k] = Sums(sizes)[k - 1] + Tokens(p, spans[k].first, spans[k].last)
      BY <2>1 DEF Size
    <3>2. Tokens(p, spans[k].first, spans[k].last) \in Nat
      BY <1>6 DEF Size
    <3>3. CASE k = 1
      <4>1. Len(p) # 0
        BY <1>3, <1>4, EmptySeq DEF Spanned
      <4>2. spans[1].first = 1
        BY <1>3, <1>4, <4>1 DEF Spanned
      <4>3. Sums(sizes)[1] = Tokens(p, 1, spans[1].last)
        BY <2>1, <3>1, <3>2, <3>3, <4>2
      <4> QED
        BY <1>4, <3>3, <4>3
    <3>4. CASE k # 1
      <4> DEFINE i == spans[k].first
                 j == spans[k].last
      <4>1. k - 1 \in 1..Len(spans) /\ k \in 2..Len(spans) /\ k - 1 > 0
        BY <1>4, <3>4
      <4>2. i = spans[k - 1].last + 1
        BY <1>3, <4>1 DEF Spanned
      <4>3. Sums(sizes)[k - 1] = Tokens(p, 1, spans[k - 1].last)
        BY <2>3, <4>1
      <4>4. i \in 1..Len(p) /\ j \in i..Len(p)
        BY <1>6
      <4>5. spans[k - 1].last = i - 1
        <5>1. spans[k - 1].last \in Int
          BY <1>4, <1>6, <4>1
        <5> HIDE DEF i
        <5> QED
          BY <4>2, <5>1
      <4> HIDE DEF i, j
      <4>6. 1 \in 1..Len(p) + 1 /\ i \in 1..Len(p) + 1 /\ j \in 0..Len(p) /\ 1 <= i
        BY <1>4, <4>4
      <4>7. Tokens(p, 1, j) = Tokens(p, 1, i - 1) + Tokens(p, i, j)
        BY <1>1, <4>6, TokensAdd
      <4>8. Sums(sizes)[k] = Tokens(p, 1, j)
        BY <3>1, <4>3, <4>5, <4>7 DEF i, j
      <4> QED
        BY <1>4, <4>8 DEF j
    <3> QED
      BY <3>3, <3>4
  <2>4. \A k \in 0..Len(spans) : k \in G
    <3> HIDE DEF G
    <3> QED
      BY <1>4, <2>2, <2>3, Induction
  <2>5. Total(sizes) = Sums(sizes)[Len(spans)]
    BY <1>7, TotalIs
  <2>6. CASE Len(p) = 0
    <3>1. Len(spans) = 0
      BY <1>3, <2>6, EmptySeq DEF Spanned
    <3>2. Total(p) = 0
      BY <1>1, <2>6, TotalIs, SumsType
    <3> QED
      BY <2>1, <2>5, <3>1, <3>2
  <2>7. CASE Len(p) # 0
    <3>1. Len(spans) > 0 /\ spans[Len(spans)].last = Len(p)
      BY <1>3, <1>4, <2>7 DEF Spanned
    <3>2. Len(spans) \in G
      BY <1>4, <2>4
    <3> QED
      BY <2>5, <3>1, <3>2 DEF Total
  <2> QED
    BY <2>6, <2>7
<1> QED
  BY <1>1, <1>2, <1>7, <1>8

(* Two texts whose parts have the same totals have the same total.         *)
LEMMA SameTotals ==
  ASSUME NEW ps \in Seq(Seq(Nat)), NEW qs \in Seq(Seq(Fits)), Len(ps) = Len(qs),
         \A k \in 1..Len(ps) : Total(ps[k]) = Total(qs[k])
  PROVE  FlattenSeq(qs) \in Seq(Fits) /\ Total(FlattenSeq(qs)) = Total(FlattenSeq(ps))
<1>1. Fits \subseteq Nat
  BY TextWindowsAssumption DEF TextWindowsAssumption, Fits
<1>2. DOMAIN ps = 1..Len(ps) /\ DOMAIN qs = 1..Len(ps)
  OBVIOUS
<1>3. [k \in DOMAIN ps |-> Total(ps[k])] = [k \in DOMAIN qs |-> Total(qs[k])]
  BY <1>2
<1>4. Total(FlattenSeq(ps)) = Total([k \in DOMAIN ps |-> Total(ps[k])])
  BY FlattenIs
<1>5. /\ FlattenSeq(qs) \in Seq(Fits)
      /\ Total(FlattenSeq(qs)) = Total([k \in DOMAIN qs |-> Total(qs[k])])
  BY <1>1, FlattenIs
<1> QED
  BY <1>3, <1>4, <1>5
LEMMA SingleTotal ==
  ASSUME NEW n \in Fits
  PROVE  <<n>> \in Seq(Fits) /\ Total(<<n>>) = n
<1>1. n \in Nat /\ <<n>> \in Seq(Nat) /\ Len(<<n>>) = 1 /\ <<n>>[1] = n
  BY TextWindowsAssumption DEF TextWindowsAssumption, Fits
<1>2. Tokens(<<n>>, 1, 1) = n
  <2>1. 1 \in 1..Len(<<n>>)
    BY <1>1
  <2> QED
    BY <1>1, <2>1, TokensAdd
<1> QED
  BY <1>1, <1>2 DEF Total

(* The atoms of a paragraph that does not fit.                             *)
SentencesOf(p) ==
  [i \in DOMAIN p |-> IF p[i] <= TargetMax THEN <<p[i]>> ELSE CutSentence(p[i])]

LEMMA SentencesAre ==
  ASSUME NEW p \in Seq(Nat)
  PROVE  FlattenSeq(SentencesOf(p)) \in Seq(Fits) /\ Total(FlattenSeq(SentencesOf(p))) = Total(p)
<1> DEFINE ss == SentencesOf(p)
<1>0. Len(p) \in Nat /\ DOMAIN p = 1..Len(p) /\ \A i \in 1..Len(p) : p[i] \in Nat
  OBVIOUS
<1>1. Fits \subseteq Nat /\ TargetMax \in Nat
  BY TextWindowsAssumption DEF TextWindowsAssumption, Fits
<1>2. ASSUME NEW i \in 1..Len(p)
      PROVE  ss[i] \in Seq(Fits) /\ Total(ss[i]) = p[i]
  <2>1. ss[i] = IF p[i] <= TargetMax THEN <<p[i]>> ELSE CutSentence(p[i])
    BY <1>0 DEF SentencesOf
  <2>2. CASE p[i] <= TargetMax
    <3>1. p[i] \in Fits
      BY <1>0, <1>1, <2>2 DEF Fits
    <3> QED
      BY <2>1, <2>2, <3>1, SingleTotal
  <2>3. CASE ~(p[i] <= TargetMax)
    BY <1>0, <2>1, <2>3, CutSentenceIs
  <2> QED
    BY <2>2, <2>3
<1>3. ss \in Seq(Seq(Fits)) /\ DOMAIN ss = DOMAIN p
  <2>1. ss = [i \in 1..Len(p) |-> ss[i]]
    BY <1>0 DEF SentencesOf
  <2> HIDE DEF ss
  <2>2. ss \in [1..Len(p) -> Seq(Fits)]
    BY <1>2, <2>1
  <2> QED
    BY <1>0, <2>2
<1> HIDE DEF ss
<1>4. [i \in DOMAIN ss |-> Total(ss[i])] = p
  <2>1. [i \in DOMAIN ss |-> Total(ss[i])] = [i \in 1..Len(p) |-> p[i]]
    BY <1>0, <1>2, <1>3
  <2>2. p = [i \in 1..Len(p) |-> p[i]]
    OBVIOUS
  <2> QED
    BY <2>1, <2>2
<1>5. FlattenSeq(ss) \in Seq(Fits) /\ Total(FlattenSeq(ss)) = Total([i \in DOMAIN ss |-> Total(ss[i])])
  BY <1>1, <1>3, FlattenIs
<1> QED
  BY <1>4, <1>5 DEF ss

(* All the sentences of a document are in its atoms, and no atom is over   *)
(* the target, however its sentences were cut (_flatten_to_atoms).         *)
THEOREM ParagraphsAreFlattened == \A paragraphs \in Seq(Seq(Nat)) : AtomsFit(paragraphs)
<1> SUFFICES ASSUME NEW ps \in Seq(Seq(Nat)) PROVE AtomsFit(ps)
  OBVIOUS
<1> DEFINE Part(p) == IF Total(p) <= TargetMax THEN <<Total(p)>> ELSE FlattenSeq(SentencesOf(p))
           qs == [k \in DOMAIN ps |-> Part(ps[k])]
           atoms == FlattenSeq(qs)
<1>0. Len(ps) \in Nat /\ DOMAIN ps = 1..Len(ps) /\ \A k \in 1..Len(ps) : ps[k] \in Seq(Nat)
  OBVIOUS
<1>1. FlattenToAtoms(ps) = atoms
  BY DEF FlattenToAtoms, SentencesOf, Total
<1>2. ASSUME NEW p \in Seq(Nat) PROVE Part(p) \in Seq(Fits) /\ Total(Part(p)) = Total(p)
  <2>1. CASE Total(p) <= TargetMax
    <3>1. Total(p) \in Fits
      BY <2>1, TotalIs, TextWindowsAssumption DEF Fits, TextWindowsAssumption
    <3> QED
      BY <2>1, <3>1, SingleTotal
  <2>2. CASE ~(Total(p) <= TargetMax)
    BY <2>2, SentencesAre
  <2> QED
    BY <2>1, <2>2
<1> HIDE DEF Part
<1>3. /\ qs \in Seq(Seq(Fits)) /\ Len(qs) = Len(ps)
      /\ \A k \in 1..Len(ps) : qs[k] = Part(ps[k])
  <2>1. qs \in [1..Len(ps) -> Seq(Fits)]
    BY <1>0, <1>2
  <2> QED
    BY <1>0, <2>1
<1> HIDE DEF qs
<1>4. \A k \in 1..Len(ps) : Total(ps[k]) = Total(qs[k])
  BY <1>0, <1>2, <1>3
<1>5. atoms \in Seq(Fits) /\ Total(atoms) = Total(FlattenSeq(ps))
  BY <1>3, <1>4, SameTotals
<1> HIDE DEF atoms
<1>6. \A i \in DOMAIN atoms : atoms[i] <= TargetMax
  <2>1. \A i \in DOMAIN atoms : atoms[i] \in Fits
    BY <1>5
  <2> QED
    BY <2>1, TextWindowsAssumption DEF Fits, TextWindowsAssumption
<1> QED
  BY <1>1, <1>5, <1>6 DEF AtomsFit, Total, atoms
-------------------------------------------------------------------------------
(* The context of an answer.                                               *)

LEMMA DedupeRecursion ==
  ASSUME NEW count \in Nat, NEW near
  PROVE  Dedupe(count, near) =
           [n \in 0..count |-> IF n = 0 THEN <<>> ELSE KeepResult(near, Dedupe(count, near)[n - 1], n)]
<1> DEFINE Keep(m, f) == f = [n \in 0..m |-> IF n = 0 THEN <<>> ELSE KeepResult(near, f[n - 1], n)]
           G == {m \in 0..count : \E f : Keep(m, f)}
<1>1. 0 \in G
  <2>1. Keep(0, [n \in 0..0 |-> <<>>])
    OBVIOUS
  <2>2. 0 \in 0..count
    OBVIOUS
  <2> HIDE DEF Keep
  <2> QED
    BY <2>1, <2>2
<1>2. ASSUME NEW m \in 1..count, m - 1 \in G
      PROVE  m \in G
  <2>1. PICK f : Keep(m - 1, f)
    BY <1>2
  <2> DEFINE g == [n \in 0..m |-> IF n = m THEN KeepResult(near, f[m - 1], m) ELSE f[n]]
  <2>2. Keep(m, g)
    BY <2>1
  <2>3. m \in 0..count
    OBVIOUS
  <2> HIDE DEF Keep
  <2> QED
    BY <2>2, <2>3
<1>3. \A m \in 0..count : m \in G
  <2> HIDE DEF G
  <2> QED
    BY <1>1, <1>2, Induction
<1>4. PICK f : Keep(count, f)
  BY <1>3
<1> QED
  BY <1>4 DEF Dedupe

(* What is kept of the first n results.                                    *)
Kept(near, kept, n) ==
  /\ kept \in Seq(Nat)
  /\ n > 0 => Len(kept) > 0
  /\ \A k \in 1..Len(kept) : kept[k] \in 1..n
  /\ \A j, k \in 1..Len(kept) : j < k => kept[j] < kept[k]
  /\ \A j, k \in 1..Len(kept) : {kept[j], kept[k]} \notin near
  /\ \A r \in 1..n : \/ \E k \in 1..Len(kept) : kept[k] = r
                     \/ \E k \in 1..Len(kept) : kept[k] < r /\ {kept[k], r} \in near

LEMMA KeepResultKeeps ==
  ASSUME NEW near, \A r : {r} \notin near, NEW n \in Nat, n >= 1, NEW kept, Kept(near, kept, n - 1)
  PROVE  Kept(near, KeepResult(near, kept, n), n)
<1>1. /\ kept \in Seq(Nat) /\ Len(kept) \in Nat /\ DOMAIN kept = 1..Len(kept)
      /\ \A k \in 1..Len(kept) : kept[k] \in Nat /\ kept[k] \in 1..n - 1
  <2>1. kept \in Seq(Nat)
    BY DEF Kept
  <2> QED
    BY <2>1 DEF Kept
<1>2. CASE \E k \in DOMAIN kept : {kept[k], n} \in near
  <2>1. KeepResult(near, kept, n) = kept
    BY <1>2 DEF KeepResult
  <2>2. PICK k \in 1..Len(kept) : {kept[k], n} \in near
    BY <1>1, <1>2
  <2>3. kept[k] < n /\ Len(kept) > 0
    BY <1>1
  <2>4. \A i \in 1..Len(kept) : kept[i] \in 1..n
    BY <1>1
  <2>5. ASSUME NEW r \in 1..n
        PROVE  \/ \E i \in 1..Len(kept) : kept[i] = r
               \/ \E i \in 1..Len(kept) : kept[i] < r /\ {kept[i], r} \in near
    <3>1. CASE r = n
      BY <2>2, <2>3, <3>1
    <3>2. CASE r # n
      <4>1. r \in 1..n - 1
        BY <3>2
      <4> QED
        BY <4>1 DEF Kept
    <3> QED
      BY <3>1, <3>2
  <2>6. /\ \A i, j \in 1..Len(kept) : i < j => kept[i] < kept[j]
        /\ \A i, j \in 1..Len(kept) : {kept[i], kept[j]} \notin near
    BY DEF Kept
  <2>7. Kept(near, kept, n)
    BY <1>1, <2>3, <2>4, <2>5, <2>6 DEF Kept
  <2> QED
    BY <2>1, <2>7
<1>3. CASE ~(\E k \in DOMAIN kept : {kept[k], n} \in near)
  <2> DEFINE d == Append(kept, n)
  <2>1. KeepResult(near, kept, n) = d
    BY <1>3 DEF KeepResult
  <2>2. /\ d \in Seq(Nat)
        /\ Len(d) = Len(kept) + 1
        /\ \A k \in 1..Len(kept) : d[k] = kept[k]
        /\ d[Len(kept) + 1] = n
    BY <1>1, AppendIs
  <2> HIDE DEF d
  <2>3. \A k \in 1..Len(d) : k \in 1..Len(kept) \/ k = Len(kept) + 1
    BY <1>1, <2>2
  <2>4. \A k \in 1..Len(kept) : k \in 1..Len(d) /\ d[k] = kept[k] /\ d[k] \in 1..n - 1
    BY <1>1, <2>2
  <2>5. \A k \in 1..Len(d) : d[k] \in 1..n
    BY <2>2, <2>3, <2>4
  <2>6. ASSUME NEW j \in 1..Len(d), NEW k \in 1..Len(d), j < k PROVE d[j] < d[k]
    <3>1. j \in 1..Len(kept) /\ d[j] \in 1..n - 1
      <4>1. j # Len(kept) + 1
        BY <1>1, <2>2, <2>6
      <4> QED
        BY <2>3, <2>4, <4>1
    <3>2. CASE k \in 1..Len(kept)
      BY <2>4, <2>6, <3>1, <3>2 DEF Kept
    <3>3. CASE k = Len(kept) + 1
      BY <2>2, <3>1, <3>3
    <3> QED
      BY <2>3, <3>2, <3>3
  <2>7. ASSUME NEW j \in 1..Len(d), NEW k \in 1..Len(d) PROVE {d[j], d[k]} \notin near
    <3>1. CASE j \in 1..Len(kept) /\ k \in 1..Len(kept)
      <4>1. {kept[j], kept[k]} \notin near
        BY <3>1 DEF Kept
      <4> QED
        BY <2>4, <3>1, <4>1
    <3>2. CASE j \in 1..Len(kept) /\ k = Len(kept) + 1
      <4>1. {kept[j], n} \notin near
        BY <1>1, <1>3, <3>2
      <4> QED
        BY <2>2, <2>4, <3>2, <4>1
    <3>3. CASE k \in 1..Len(kept) /\ j = Len(kept) + 1
      <4>1. {kept[k], n} \notin near
        BY <1>1, <1>3, <3>3
      <4>2. {d[j], d[k]} = {kept[k], n}
        BY <2>2, <2>4, <3>3
      <4> QED
        BY <4>1, <4>2
    <3>4. CASE j = Len(kept) + 1 /\ k = Len(kept) + 1
      <4>1. {d[j], d[k]} = {n}
        BY <2>2, <3>4
      <4> QED
        BY <4>1
    <3> QED
      BY <2>3, <3>1, <3>2, <3>3, <3>4
  <2>8. ASSUME NEW r \in 1..n
        PROVE  \/ \E k \in 1..Len(d) : d[k] = r
               \/ \E k \in 1..Len(d) : d[k] < r /\ {d[k], r} \in near
    <3>1. CASE r = n
      <4>1. Len(kept) + 1 \in 1..Len(d)
        BY <1>1, <2>2
      <4> QED
        BY <2>2, <3>1, <4>1
    <3>2. CASE r # n
      <4>1. r \in 1..n - 1
        BY <3>2
      <4>2. \/ \E k \in 1..Len(kept) : kept[k] = r
            \/ \E k \in 1..Len(kept) : kept[k] < r /\ {kept[k], r} \in near
        BY <4>1 DEF Kept
      <4> QED
        BY <2>4, <4>2
    <3> QED
      BY <3>1, <3>2
  <2>9. Kept(near, d, n)
    <3>1. d \in Seq(Nat) /\ (n > 0 => Len(d) > 0)
      BY <1>1, <2>2
    <3>2. \A j, k \in 1..Len(d) : j < k => d[j] < d[k]
      BY <2>6
    <3>3. \A j, k \in 1..Len(d) : {d[j], d[k]} \notin near
      BY <2>7
    <3> QED
      BY <2>5, <2>8, <3>1, <3>2, <3>3 DEF Kept
  <2> QED
    BY <2>1, <2>9
<1> QED
  BY <1>2, <1>3

LEMMA DedupeKeeps ==
  ASSUME NEW count \in Nat, NEW near, \A r : {r} \notin near
  PROVE  Kept(near, Dedupe(count, near)[count], count)
<1> DEFINE f == Dedupe(count, near)
           G == {n \in 0..count : Kept(near, f[n], n)}
<1>1. f[0] = <<>> /\ \A n \in 1..count : f[n] = KeepResult(near, f[n - 1], n)
  BY DedupeRecursion
<1> HIDE DEF f
<1>2. 0 \in G
  <2>1. <<>> \in Seq(Nat) /\ Len(<<>>) = 0
    BY EmptySeq
  <2>2. Kept(near, <<>>, 0)
    BY <2>1 DEF Kept
  <2> QED
    BY <1>1, <2>2
<1>3. ASSUME NEW n \in 1..count, n - 1 \in G PROVE n \in G
  <2>1. Kept(near, f[n - 1], n - 1) /\ n \in Nat /\ n >= 1 /\ n \in 0..count
    BY <1>3
  <2>2. Kept(near, f[n], n)
    BY <1>1, <2>1, KeepResultKeeps
  <2> QED
    BY <2>1, <2>2
<1>4. \A n \in 0..count : n \in G
  <2> HIDE DEF G
  <2> QED
    BY <1>2, <1>3, Induction
<1>5. count \in G
  <2> HIDE DEF G
  <2> QED
    BY <1>4
<1> QED
  BY <1>5 DEF f

(* How many fit: one in any case, and more only within the budget.         *)
LEMMA FittingIs ==
  ASSUME NEW p \in Seq(Nat)
  PROVE  /\ Fitting(p) \in 0..Len(p)
         /\ Len(p) > 0 => Fitting(p) > 0
         /\ Fitting(p) > 1 => Tokens(p, 1, Fitting(p)) <= TokenBudget
<1> DEFINE Fit(n) == n = 1 \/ Tokens(p, 1, n) <= TokenBudget
           S == {n \in 0..Len(p) : \A k \in 1..n : Fit(k)}
<1>1. Fitting(p) = Max(S)
  BY DEF Fitting
<1>2. Len(p) \in Nat
  OBVIOUS
<1> HIDE DEF Fit
<1>3. 0 \in S
  BY <1>2
<1>4. Max(S) \in S /\ \A k \in S : k <= Max(S)
  <2>1. \A k \in S : k \in 0..Len(p)
    OBVIOUS
  <2> HIDE DEF S
  <2> QED
    BY <1>2, <1>3, <2>1, MaxOf
<1> DEFINE m == Max(S)
<1>5. m \in 0..Len(p) /\ \A k \in 1..m : Fit(k)
  BY <1>4
<1>6. ASSUME Len(p) > 0 PROVE m > 0
  <2>1. Fit(1)
    BY DEF Fit
  <2>2. 1 \in 0..Len(p) /\ \A k \in 1..1 : k = 1
    BY <1>2, <1>6
  <2>3. 1 \in S
    BY <2>1, <2>2
  <2>4. 1 <= m
    BY <1>4, <2>3
  <2> HIDE DEF m
  <2> QED
    BY <1>5, <2>4
<1>7. ASSUME m > 1 PROVE Tokens(p, 1, m) <= TokenBudget
  <2> HIDE DEF m
  <2>1. m \in 1..m /\ m # 1
    BY <1>5, <1>7
  <2>2. Fit(m)
    BY <1>5, <2>1
  <2> QED
    BY <2>1, <2>2 DEF Fit
<1> QED
  BY <1>1, <1>5, <1>6, <1>7
(* A context has no two results that say the same, leaves out before its   *)
(* last only what is near a more similar result, and fits the budget       *)
(* unless it is a single result (retrieve, _dedupe, _trim_to_budget).      *)
THEOREM ContextsFitTheBudget ==
  \A tokens \in Seq(Nat) : \A near \in SUBSET {p \in SUBSET (DOMAIN tokens) : Cardinality(p) = 2} :
    ContextFits(tokens, near)
<1> SUFFICES ASSUME NEW tokens \in Seq(Nat),
                    NEW near \in SUBSET {p \in SUBSET (DOMAIN tokens) : Cardinality(p) = 2}
             PROVE  ContextFits(tokens, near)
  OBVIOUS
<1> DEFINE count == Len(tokens)
           kept == Dedupe(count, near)[count]
           costs == [k \in DOMAIN kept |-> tokens[kept[k]]]
           m == Fitting(costs)
           context == Retrieve(tokens, near)
           taken == {context[k] : k \in DOMAIN context}
<1>1. count \in Nat /\ DOMAIN tokens = 1..count /\ \A i \in 1..count : tokens[i] \in Nat
  OBVIOUS
<1>2. \A r : {r} \notin near
  <2>1. \A r : Cardinality({r}) = 1
    BY FS_Singleton
  <2> QED
    BY <2>1
<1>3. context = SubSeq(kept, 1, m)
  BY DEF Retrieve
<1> HIDE DEF count, context
<1>4. Kept(near, kept, count)
  BY <1>1, <1>2, DedupeKeeps
<1> HIDE DEF kept
<1>5. /\ kept \in Seq(Nat) /\ Len(kept) \in Nat /\ DOMAIN kept = 1..Len(kept)
      /\ count > 0 => Len(kept) > 0
      /\ \A k \in 1..Len(kept) : kept[k] \in 1..count /\ kept[k] \in Nat
  <2>1. kept \in Seq(Nat)
    BY <1>4 DEF Kept
  <2> QED
    BY <1>4, <2>1 DEF Kept
<1>6. /\ costs \in Seq(Nat) /\ Len(costs) = Len(kept)
      /\ \A k \in 1..Len(kept) : costs[k] = tokens[kept[k]]
  <2>1. costs \in [1..Len(kept) -> Nat]
    BY <1>1, <1>5
  <2> QED
    BY <1>5, <2>1
<1> HIDE DEF costs
<1>7. /\ m \in 0..Len(kept)
      /\ Len(kept) > 0 => m > 0
      /\ m > 1 => Tokens(costs, 1, m) <= TokenBudget
  BY <1>6, FittingIs
<1> HIDE DEF m
<1>8. /\ context \in Seq(Nat) /\ Len(context) = m /\ DOMAIN context = 1..m
      /\ \A k \in 1..m : context[k] = kept[k] /\ k \in 1..Len(kept)
  <2>1. 1 \in Int /\ m \in Int /\ m \in Nat /\ \A k \in 1..m : k \in 1..Len(kept)
    BY <1>5, <1>7
  <2>2. \A k \in 1..m : kept[k] \in Nat
    BY <1>5, <2>1
  <2>3. /\ context \in Seq(Nat)
        /\ Len(context) = IF 1 <= m THEN m - 1 + 1 ELSE 0
        /\ \A k \in 1..m - 1 + 1 : context[k] = kept[1 + k - 1]
    BY <1>3, <2>1, <2>2, SubSeqProperties
  <2>4. Len(context) = m
    BY <2>1, <2>3
  <2>5. \A k \in 1..m : context[k] = kept[k]
    BY <2>1, <2>3
  <2> QED
    BY <2>1, <2>3, <2>4, <2>5
<1>9. taken = {kept[k] : k \in 1..m}
  BY <1>8
<1>10. ASSUME count > 0 PROVE context # <<>>
  <2>1. Len(context) > 0
    BY <1>5, <1>7, <1>8, <1>10
  <2> QED
    BY <2>1, EmptySeq
<1>11. ASSUME NEW r \in taken, NEW s \in taken PROVE {r, s} \notin near
  <2>1. PICK j \in 1..m, k \in 1..m : r = kept[j] /\ s = kept[k]
    BY <1>9
  <2> QED
    BY <1>4, <1>8, <2>1 DEF Kept
<1>12. ASSUME NEW r \in (1..count) \ taken, NEW s \in taken, r < s
       PROVE  \E t \in taken : t < r /\ {t, r} \in near
  <2>1. PICK k \in 1..m : s = kept[k]
    BY <1>9
  <2>2. k \in 1..Len(kept) /\ k \in Nat /\ s \in Nat /\ r \in Nat /\ m \in Nat
    BY <1>1, <1>5, <1>7, <1>8, <2>1
  <2>3. ASSUME NEW j \in 1..Len(kept), kept[j] < s PROVE j \in 1..m
    <3>1. CASE j <= k
      BY <1>5, <2>2, <3>1
    <3>2. CASE k < j
      <4>1. kept[k] < kept[j]
        BY <1>4, <2>2, <3>2 DEF Kept
      <4> QED
        BY <1>5, <2>1, <2>2, <2>3, <4>1
    <3> QED
      BY <1>5, <2>2, <3>1, <3>2
  <2>4. ASSUME NEW j \in 1..Len(kept), kept[j] = r PROVE FALSE
    BY <1>9, <1>12, <2>3, <2>4
  <2>5. PICK j \in 1..Len(kept) : kept[j] < r /\ {kept[j], r} \in near
    BY <1>4, <2>4 DEF Kept
  <2>6. kept[j] < s
    BY <1>5, <1>12, <2>2, <2>5
  <2>7. kept[j] \in taken
    BY <1>9, <2>3, <2>6
  <2> QED
    BY <2>5, <2>7
<1> DEFINE cost == [k \in DOMAIN context |-> tokens[context[k]]]
<1>13. Len(context) = 1 \/ Tokens(cost, 1, Len(context)) <= TokenBudget
  <2>1. /\ cost \in Seq(Nat) /\ Len(cost) = m
        /\ \A k \in 1..m : cost[k] = costs[k]
    <3>1. \A k \in 1..m : tokens[context[k]] = costs[k] /\ tokens[context[k]] \in Nat
      BY <1>1, <1>5, <1>6, <1>8
    <3>2. cost \in [1..m -> Nat] /\ m \in Nat
      BY <1>7, <1>8, <3>1
    <3>3. cost \in Seq(Nat) /\ Len(cost) = m
      BY <3>2
    <3>4. \A k \in 1..m : cost[k] = tokens[context[k]]
      BY <1>8
    <3> HIDE DEF cost
    <3> QED
      BY <3>1, <3>3, <3>4
  <2> HIDE DEF cost
  <2>2. m \in Nat /\ m <= Len(cost) /\ m <= Len(costs) /\ TokenBudget \in Nat
    BY <1>5, <1>6, <1>7, <2>1, TextWindowsAssumption DEF TextWindowsAssumption
  <2>3. \A k \in 0..m : Sums(cost)[k] = Sums(costs)[k]
    BY <1>6, <2>1, <2>2, PrefixSums
  <2>4. Tokens(cost, 1, m) = Tokens(costs, 1, m)
    BY <2>2, <2>3 DEF Tokens
  <2>5. CASE m = 0
    <3>1. Tokens(cost, 1, 1 - 1) = 0
      <4>1. 1 \in 1..Len(cost) + 1
        BY <2>1, <2>2
      <4> QED
        BY <2>1, <4>1, TokensAdd
    <3> QED
      BY <1>8, <2>2, <2>5, <3>1
  <2>6. CASE m = 1
    BY <1>8, <2>6
  <2>7. CASE m > 1
    BY <1>7, <1>8, <2>4, <2>7
  <2> QED
    BY <2>2, <2>5, <2>6, <2>7
<1> HIDE DEF taken
<1>14. /\ Len(tokens) > 0 => context # <<>>
       /\ \A r, s \in taken : {r, s} \notin near
       /\ \A r \in DOMAIN tokens \ taken :
            (\E s \in taken : r < s) => \E s \in taken : s < r /\ {s, r} \in near
  BY <1>1, <1>10, <1>11, <1>12 DEF count
<1> HIDE DEF cost
<1> QED
  BY <1>13, <1>14 DEF ContextFits, taken, cost, context
-------------------------------------------------------------------------------
(* The history of a conversation.                                          *)

Messages == [role : {"user", "assistant", "system"}, tokens : Nat]

(* The tokens of the messages of S.                                        *)
Weights(messages, n, S) == [i \in 1..n |-> IF i \in S THEN messages[i].tokens ELSE 0]

Cost(messages, n, S) == Tokens(Weights(messages, n, S), 1, n)

LEMMA WeightsAre ==
  ASSUME NEW messages \in Seq(Messages), NEW n \in 0..Len(messages), NEW S
  PROVE  LET w == Weights(messages, n, S) IN
         /\ w \in Seq(Nat) /\ Len(w) = n
         /\ \A i \in 1..n : w[i] \in Nat /\ w[i] = IF i \in S THEN messages[i].tokens ELSE 0
         /\ Cost(messages, n, S) = Sums(w)[n]
         /\ Sums(w)[0] = 0
         /\ \A i \in 1..n : Sums(w)[i] = Sums(w)[i - 1] + w[i]
         /\ \A i \in 0..n : Sums(w)[i] \in Nat
<1> DEFINE w == Weights(messages, n, S)
<1>0. n \in Nat /\ \A i \in 1..n : messages[i].tokens \in Nat
  <2>1. Len(messages) \in Nat /\ \A i \in 1..Len(messages) : messages[i] \in Messages
    OBVIOUS
  <2> QED
    BY <2>1 DEF Messages
<1>1. w \in [1..n -> Nat] /\ \A i \in 1..n : w[i] = IF i \in S THEN messages[i].tokens ELSE 0
  BY <1>0 DEF Weights
<1> HIDE DEF w
<1>2. w \in Seq(Nat) /\ Len(w) = n
  BY <1>0, <1>1
<1>3. Total(w) = Sums(w)[n] /\ Total(w) = Cost(messages, n, S)
  BY <1>2, TotalIs DEF Total, Cost, w
<1>4. /\ Sums(w)[0] = 0
      /\ \A i \in 1..n : Sums(w)[i] = Sums(w)[i - 1] + w[i]
      /\ \A i \in 0..n : Sums(w)[i] \in Nat
  BY <1>2, SumsType
<1> QED
  BY <1>1, <1>2, <1>3, <1>4 DEF w

LEMMA CostOfNone ==
  ASSUME NEW messages \in Seq(Messages), NEW n \in 0..Len(messages)
  PROVE  Cost(messages, n, {}) = 0
<1> DEFINE w == Weights(messages, n, {})
           G == {i \in 0..n : Sums(w)[i] = 0}
<1>1. /\ \A i \in 1..n : w[i] = 0
      /\ Cost(messages, n, {}) = Sums(w)[n]
      /\ Sums(w)[0] = 0
      /\ \A i \in 1..n : Sums(w)[i] = Sums(w)[i - 1] + w[i]
      /\ n \in Nat
  BY WeightsAre
<1> HIDE DEF w
<1>2. 0 \in G /\ \A i \in 1..n : i - 1 \in G => i \in G
  BY <1>1
<1>3. \A i \in 0..n : i \in G
  <2> HIDE DEF G
  <2> QED
    BY <1>1, <1>2, Induction
<1>4. n \in 0..n
  BY <1>1
<1> QED
  BY <1>1, <1>3, <1>4

(* One message more costs its tokens.                                      *)
LEMMA CostOfOneMore ==
  ASSUME NEW messages \in Seq(Messages), NEW n \in 0..Len(messages), NEW S, NEW m \in 1..n, m \notin S
  PROVE  /\ Cost(messages, n, S) \in Nat
         /\ Cost(messages, n, S \cup {m}) = Cost(messages, n, S) + messages[m].tokens
<1> DEFINE v == Weights(messages, n, S)
           w == Weights(messages, n, S \cup {m})
           t == messages[m].tokens
           G == {i \in 0..n : Sums(w)[i] = Sums(v)[i] + (IF i < m THEN 0 ELSE t)}
<1>0. n \in Nat /\ m \in Nat /\ t \in Nat
  <2>1. Len(messages) \in Nat /\ messages[m] \in Messages
    OBVIOUS
  <2> QED
    BY <2>1 DEF Messages
<1>1. /\ v \in Seq(Nat) /\ Len(v) = n
      /\ \A i \in 1..n : v[i] = IF i \in S THEN messages[i].tokens ELSE 0
      /\ Cost(messages, n, S) = Sums(v)[n]
      /\ Sums(v)[0] = 0
      /\ \A i \in 1..n : Sums(v)[i] = Sums(v)[i - 1] + v[i] /\ v[i] \in Nat
      /\ \A i \in 0..n : Sums(v)[i] \in Nat
  BY WeightsAre
<1>2. /\ \A i \in 1..n : w[i] = IF i \in S \cup {m} THEN messages[i].tokens ELSE 0
      /\ Cost(messages, n, S \cup {m}) = Sums(w)[n]
      /\ Sums(w)[0] = 0
      /\ \A i \in 1..n : Sums(w)[i] = Sums(w)[i - 1] + w[i]
  BY WeightsAre
<1> HIDE DEF v, w
<1>3. v[m] = 0 /\ w[m] = t /\ \A i \in 1..n : i # m => w[i] = v[i]
  BY <1>1, <1>2
<1> HIDE DEF t
<1>4. 0 \in G
  BY <1>0, <1>1, <1>2
<1>5. ASSUME NEW i \in 1..n, i - 1 \in G PROVE i \in G
  <2>1. /\ i \in 0..n /\ i - 1 \in 0..n /\ i \in Nat
        /\ Sums(v)[i - 1] \in Nat /\ v[i] \in Nat
        /\ Sums(v)[i] = Sums(v)[i - 1] + v[i]
        /\ Sums(w)[i] = Sums(w)[i - 1] + w[i]
        /\ Sums(w)[i - 1] = Sums(v)[i - 1] + (IF i - 1 < m THEN 0 ELSE t)
    BY <1>0, <1>1, <1>2, <1>5
  <2>2. CASE i < m
    <3>1. w[i] = v[i] /\ i - 1 < m
      BY <1>0, <1>3, <2>2
    <3> QED
      BY <1>0, <2>1, <2>2, <3>1
  <2>3. CASE i = m
    BY <1>0, <1>3, <2>1, <2>3
  <2>4. CASE i > m
    <3>1. w[i] = v[i] /\ ~(i - 1 < m)
      BY <1>0, <1>3, <2>1, <2>4
    <3> QED
      BY <1>0, <2>1, <2>4, <3>1
  <2> QED
    BY <1>0, <2>1, <2>2, <2>3, <2>4
<1>6. \A i \in 0..n : i \in G
  <2> HIDE DEF G
  <2> QED
    BY <1>0, <1>4, <1>5, Induction
<1>7. n \in 0..n /\ ~(n < m)
  BY <1>0
<1>8. Sums(w)[n] = Sums(v)[n] + t
  BY <1>6, <1>7
<1> QED
  BY <1>1, <1>2, <1>7, <1>8 DEF t

LEMMA AssembledRecursion ==
  ASSUME NEW messages, NEW before, NEW count \in Nat, count = before - 1
  PROVE  Assembled(messages, before) =
           [n \in 0..count |-> IF n = 0 THEN [history |-> <<>>, tokens |-> 0, full |-> FALSE]
                               ELSE TakeMessage(messages, Assembled(messages, before)[n - 1], before - n)]
<1> DEFINE none == [history |-> <<>>, tokens |-> 0, full |-> FALSE]
           Assemble(m, f) == f = [n \in 0..m |-> IF n = 0 THEN none
                                                 ELSE TakeMessage(messages, f[n - 1], before - n)]
           G == {m \in 0..count : \E f : Assemble(m, f)}
<1>1. 0 \in G
  <2>1. Assemble(0, [n \in 0..0 |-> none])
    OBVIOUS
  <2>2. 0 \in 0..count
    OBVIOUS
  <2> HIDE DEF Assemble
  <2> QED
    BY <2>1, <2>2
<1>2. ASSUME NEW m \in 1..count, m - 1 \in G
      PROVE  m \in G
  <2>1. PICK f : Assemble(m - 1, f)
    BY <1>2
  <2> DEFINE g == [n \in 0..m |-> IF n = m THEN TakeMessage(messages, f[m - 1], before - m) ELSE f[n]]
  <2>2. Assemble(m, g)
    <3>1. ASSUME NEW i \in 0..m
          PROVE  g[i] = IF i = 0 THEN none ELSE TakeMessage(messages, g[i - 1], before - i)
      <4>1. i # 0 => i - 1 \in 0..m /\ i - 1 # m /\ g[i - 1] = f[i - 1]
        OBVIOUS
      <4>2. CASE i = m
        BY <4>1, <4>2
      <4>3. CASE i # m
        <5>1. i \in 0..m - 1 /\ g[i] = f[i]
          BY <4>3
        <5>2. f[i] = IF i = 0 THEN none ELSE TakeMessage(messages, f[i - 1], before - i)
          BY <2>1, <5>1
        <5> QED
          BY <4>1, <5>1, <5>2
      <4> QED
        BY <4>2, <4>3
    <3>2. g = [i \in 0..m |-> g[i]]
      OBVIOUS
    <3> HIDE DEF g
    <3> QED
      BY <3>1, <3>2, Zenon
  <2>3. m \in 0..count
    OBVIOUS
  <2> HIDE DEF Assemble, g
  <2> QED
    BY <2>2, <2>3
<1>3. \A m \in 0..count : m \in G
  <2> HIDE DEF G
  <2> QED
    BY <1>1, <1>2, Induction
<1>4. PICK f : Assemble(count, f)
  BY <1>3
<1> QED
  BY <1>4 DEF Assembled
Said(messages, i) == messages[i].role \in {"user", "assistant"}

Taken(history) == {history[k] : k \in 1..Len(history)}

HistoryState == [history : Seq(Nat), tokens : Nat, full : BOOLEAN]

(* What has been taken when the messages from i on have been seen.         *)
TakenFrom(messages, before, s, i) ==
  LET history == s.history
      Cheap(j) == s.tokens + messages[j].tokens <= TokenBudget
  IN  /\ s \in HistoryState
      /\ \A k \in 1..Len(history) : history[k] \in i..before - 1 /\ Said(messages, history[k])
      /\ \A j, k \in 1..Len(history) : j < k => history[j] < history[k]
      /\ s.tokens = Cost(messages, before - 1, Taken(history))
      /\ Len(history) > 1 => s.tokens <= TokenBudget
      /\ ~s.full => \A j \in i..before - 1 : Said(messages, j) => j \in Taken(history)
      /\ s.full =>
           /\ Len(history) > 0
           /\ \E m \in i..before - 1 :
                /\ Said(messages, m) /\ ~Cheap(m)
                /\ \A k \in 1..Len(history) : m < history[k]
                /\ \A j \in m + 1..before - 1 : Said(messages, j) => j \in Taken(history)

LEMMA TakeMessageKeeps ==
  ASSUME NEW messages \in Seq(Messages), NEW before \in 1..Len(messages) + 1,
         NEW i \in 1..before - 1, NEW s, TakenFrom(messages, before, s, i + 1)
  PROVE  TakenFrom(messages, before, TakeMessage(messages, s, i), i)
<1> DEFINE h == s.history
           t == messages[i].tokens
           b == before - 1
<1>0. /\ i \in Nat /\ b \in Nat /\ i <= b /\ b \in 0..Len(messages) /\ i \in 1..b
      /\ t \in Nat /\ TokenBudget \in Nat /\ TokenBudget >= 1
  <2>1. Len(messages) \in Nat /\ i \in 1..Len(messages)
    OBVIOUS
  <2>2. messages[i] \in Messages
    BY <2>1
  <2> QED
    BY <2>1, <2>2, TextWindowsAssumption DEF Messages, TextWindowsAssumption
<1> HIDE DEF b, t
<1>1. /\ s \in HistoryState
      /\ \A k \in 1..Len(h) : h[k] \in i + 1..b /\ Said(messages, h[k])
      /\ \A j, k \in 1..Len(h) : j < k => h[j] < h[k]
      /\ s.tokens = Cost(messages, b, Taken(h))
      /\ Len(h) > 1 => s.tokens <= TokenBudget
  BY DEF TakenFrom, b
<1>2. ~s.full => \A j \in i + 1..b : Said(messages, j) => j \in Taken(h)
  BY DEF TakenFrom, b
<1>3. s.full => /\ Len(h) > 0
                /\ \E m \in i + 1..b :
                     /\ Said(messages, m) /\ ~(s.tokens + messages[m].tokens <= TokenBudget)
                     /\ \A k \in 1..Len(h) : m < h[k]
                     /\ \A j \in m + 1..b : Said(messages, j) => j \in Taken(h)
  BY DEF TakenFrom, b
<1>4. /\ h \in Seq(Nat) /\ Len(h) \in Nat /\ s.tokens \in Nat /\ s.full \in BOOLEAN
      /\ \A k \in 1..Len(h) : h[k] \in i..b /\ h[k] # i /\ i < h[k]
  <2>1. h \in Seq(Nat) /\ s.tokens \in Nat /\ s.full \in BOOLEAN
    BY <1>1 DEF HistoryState
  <2>2. \A k \in 1..Len(h) : h[k] \in i..b /\ h[k] # i /\ i < h[k]
    BY <1>0, <1>1
  <2> QED
    BY <2>1, <2>2
<1>5. CASE s.full \/ ~Said(messages, i)
  <2>1. TakeMessage(messages, s, i) = s
    BY <1>5 DEF TakeMessage, Said
  <2>2. ~s.full => \A j \in i..b : Said(messages, j) => j \in Taken(h)
    <3> SUFFICES ASSUME ~s.full, NEW j \in i..b, Said(messages, j) PROVE j \in Taken(h)
      OBVIOUS
    <3>1. j # i
      BY <1>5
    <3>2. j \in i + 1..b
      BY <1>0, <3>1
    <3> QED
      BY <1>2, <3>2
  <2>3. s.full => /\ Len(h) > 0
                  /\ \E m \in i..b :
                       /\ Said(messages, m) /\ ~(s.tokens + messages[m].tokens <= TokenBudget)
                       /\ \A k \in 1..Len(h) : m < h[k]
                       /\ \A j \in m + 1..b : Said(messages, j) => j \in Taken(h)
    <3>1. \A m \in i + 1..b : m \in i..b
      BY <1>0
    <3> QED
      BY <1>3, <3>1
  <2>4. TakenFrom(messages, before, s, i)
    BY <1>1, <1>4, <2>2, <2>3 DEF TakenFrom, b
  <2> QED
    BY <2>1, <2>4
<1>6. CASE ~s.full /\ Said(messages, i) /\ h # <<>> /\ s.tokens + t > TokenBudget
  <2> DEFINE u == [s EXCEPT !.full = TRUE]
  <2>1. TakeMessage(messages, s, i) = u
    BY <1>6 DEF TakeMessage, Said, t
  <2>2. u \in HistoryState /\ u.history = h /\ u.tokens = s.tokens /\ u.full = TRUE
    BY <1>1 DEF HistoryState
  <2> HIDE DEF u
  <2>3. Len(h) > 0
    BY <1>4, <1>6, EmptySeq
  <2>4. i \in i..b /\ ~(s.tokens + t <= TokenBudget) /\ \A k \in 1..Len(h) : i < h[k]
    <3>1. s.tokens + t \in Nat
      BY <1>0, <1>4
    <3>2. ~(s.tokens + t <= TokenBudget)
      BY <1>0, <1>6, <3>1
    <3>3. i \in i..b
      BY <1>0
    <3> QED
      BY <1>4, <3>2, <3>3
  <2>5. \E m \in i..b :
          /\ Said(messages, m) /\ ~(s.tokens + messages[m].tokens <= TokenBudget)
          /\ \A k \in 1..Len(h) : m < h[k]
          /\ \A j \in m + 1..b : Said(messages, j) => j \in Taken(h)
    BY <1>2, <1>6, <2>4 DEF t
  <2>6. TakenFrom(messages, before, u, i)
    BY <1>1, <1>4, <2>2, <2>3, <2>5 DEF TakenFrom, b
  <2> QED
    BY <2>1, <2>6
<1>7. CASE ~s.full /\ Said(messages, i) /\ ~(h # <<>> /\ s.tokens + t > TokenBudget)
  <2> DEFINE d == <<i>> \o h
             u == [s EXCEPT !.history = d, !.tokens = s.tokens + t]
  <2>1. TakeMessage(messages, s, i) = u
    BY <1>7 DEF TakeMessage, Said, t
  <2>2. /\ d \in Seq(Nat)
        /\ Len(d) = Len(h) + 1
        /\ d[1] = i
        /\ \A k \in 2..Len(h) + 1 : d[k] = h[k - 1]
    BY <1>0, <1>4, PrependIs, SMTT(30)
  <2> HIDE DEF d
  <2>3. u \in HistoryState /\ u.history = d /\ u.tokens = s.tokens + t /\ u.full = FALSE
    <3>1. s.tokens + t \in Nat
      BY <1>0, <1>4
    <3> QED
      BY <1>1, <1>7, <2>2, <3>1 DEF HistoryState
  <2> HIDE DEF u
  <2>4. \A k \in 1..Len(d) : k = 1 \/ (k \in 2..Len(h) + 1 /\ k - 1 \in 1..Len(h))
    BY <1>4, <2>2
  <2>5. \A k \in 1..Len(h) : k + 1 \in 1..Len(d) /\ k + 1 \in 2..Len(h) + 1 /\ d[k + 1] = h[k]
    <3>1. \A k \in 1..Len(h) : k + 1 \in 1..Len(d) /\ k + 1 \in 2..Len(h) + 1 /\ k + 1 - 1 = k
      BY <1>4, <2>2
    <3> QED
      BY <2>2, <3>1
  <2>6. ASSUME NEW k \in 1..Len(d) PROVE d[k] \in i..b /\ Said(messages, d[k])
    <3>1. CASE k = 1
      <4>1. i \in i..b /\ d[k] = i
        BY <1>0, <2>2, <3>1
      <4> QED
        BY <1>7, <4>1
    <3>2. CASE k # 1
      BY <1>1, <1>4, <2>2, <2>4, <3>2
    <3> QED
      BY <3>1, <3>2
  <2>7. ASSUME NEW j \in 1..Len(d), NEW k \in 1..Len(d), j < k PROVE d[j] < d[k]
    <3>1. k \in 2..Len(h) + 1 /\ k - 1 \in 1..Len(h) /\ d[k] = h[k - 1]
      <4>1. k # 1
        BY <1>4, <2>2, <2>7
      <4> QED
        BY <2>2, <2>4, <4>1
    <3>2. CASE j = 1
      BY <1>4, <2>2, <3>1, <3>2
    <3>3. CASE j # 1
      <4>1. j - 1 \in 1..Len(h) /\ d[j] = h[j - 1] /\ j - 1 < k - 1
        BY <2>2, <2>4, <2>7, <3>3
      <4> QED
        BY <1>1, <3>1, <4>1
    <3> QED
      BY <3>2, <3>3
  <2>8. Taken(d) = Taken(h) \cup {i} /\ i \notin Taken(h)
    <3>1. ASSUME NEW x \in Taken(d) PROVE x \in Taken(h) \cup {i}
      <4>1. PICK k \in 1..Len(d) : x = d[k]
        BY DEF Taken
      <4>2. k = 1 \/ (k - 1 \in 1..Len(h) /\ d[k] = h[k - 1])
        BY <2>2, <2>4
      <4> QED
        BY <2>2, <4>1, <4>2 DEF Taken
    <3>2. ASSUME NEW x \in Taken(h) PROVE x \in Taken(d) /\ x # i
      <4>1. PICK k \in 1..Len(h) : x = h[k]
        BY DEF Taken
      <4> QED
        BY <1>4, <2>5, <4>1 DEF Taken
    <3>3. i \in Taken(d)
      <4>1. 1 \in 1..Len(d)
        BY <1>4, <2>2
      <4> QED
        BY <2>2, <4>1 DEF Taken
    <3> QED
      BY <3>1, <3>2, <3>3
  <2>9. u.tokens = Cost(messages, b, Taken(d))
    <3>1. Cost(messages, b, Taken(h) \cup {i}) = Cost(messages, b, Taken(h)) + t
      BY <1>0, <2>8, CostOfOneMore DEF t
    <3> QED
      BY <1>1, <2>3, <2>8, <3>1
  <2>10. Len(d) > 1 => u.tokens <= TokenBudget
    <3> SUFFICES ASSUME Len(d) > 1 PROVE s.tokens + t <= TokenBudget
      BY <2>3
    <3>1. Len(h) > 0
      BY <1>4, <2>2
    <3>2. h # <<>>
      BY <3>1, EmptySeq
    <3> QED
      BY <1>0, <1>4, <1>7, <3>2
  <2>11. \A j \in i..b : Said(messages, j) => j \in Taken(d)
    <3> SUFFICES ASSUME NEW j \in i..b, Said(messages, j) PROVE j \in Taken(d)
      OBVIOUS
    <3>1. CASE j = i
      BY <2>8, <3>1
    <3>2. CASE j # i
      <4>1. j \in i + 1..b
        BY <1>0, <3>2
      <4> QED
        BY <1>2, <1>7, <2>8, <4>1
    <3> QED
      BY <3>1, <3>2
  <2>12. TakenFrom(messages, before, u, i)
    BY <2>3, <2>6, <2>7, <2>9, <2>10, <2>11 DEF TakenFrom, b
  <2> QED
    BY <2>1, <2>12
<1> QED
  BY <1>4, <1>5, <1>6, <1>7
LEMMA AssembledKeeps ==
  ASSUME NEW messages \in Seq(Messages), NEW before \in 1..Len(messages) + 1
  PROVE  TakenFrom(messages, before, Assembled(messages, before)[before - 1], 1)
<1> DEFINE b == before - 1
           f == Assembled(messages, before)
           G == {n \in 0..b : TakenFrom(messages, before, f[n], before - n)}
<1>0. b \in Nat /\ before \in Nat /\ b \in 0..Len(messages) /\ b = before - 1 /\ before - b = 1
  <2>1. Len(messages) \in Nat
    OBVIOUS
  <2> QED
    BY <2>1
<1> HIDE DEF b
<1>1. /\ f[0] = [history |-> <<>>, tokens |-> 0, full |-> FALSE]
      /\ \A n \in 1..b : f[n] = TakeMessage(messages, f[n - 1], before - n)
  <2>1. f = [n \in 0..b |-> IF n = 0 THEN [history |-> <<>>, tokens |-> 0, full |-> FALSE]
                            ELSE TakeMessage(messages, f[n - 1], before - n)]
    BY <1>0, AssembledRecursion
  <2>2. 0 \in 0..b /\ \A n \in 1..b : n \in 0..b /\ n # 0
    BY <1>0
  <2> HIDE DEF f
  <2> QED
    BY <2>1, <2>2
<1> HIDE DEF f
<1>2. 0 \in G
  <2> DEFINE none == [history |-> <<>>, tokens |-> 0, full |-> FALSE]
  <2>1. <<>> \in Seq(Nat) /\ Len(<<>>) = 0 /\ Taken(<<>>) = {}
    BY EmptySeq DEF Taken
  <2>2. none \in HistoryState /\ none.history = <<>> /\ none.tokens = 0 /\ none.full = FALSE
    BY <2>1 DEF HistoryState
  <2>3. Cost(messages, before - 1, {}) = 0
    BY <1>0, CostOfNone
  <2> HIDE DEF none
  <2>4. \A j : j \notin before..before - 1
    BY <1>0
  <2>5. TakenFrom(messages, before, none, before)
    <3>1. \A k : k \notin 1..Len(none.history)
      BY <2>1, <2>2
    <3>2. none.tokens = Cost(messages, before - 1, Taken(none.history))
      BY <2>1, <2>2, <2>3
    <3>3. ~(Len(none.history) > 1) /\ ~none.full
      BY <2>1, <2>2
    <3> QED
      BY <2>2, <2>4, <3>1, <3>2, <3>3 DEF TakenFrom
  <2>6. before - 0 = before /\ 0 \in 0..b
    BY <1>0
  <2> QED
    BY <1>1, <2>5, <2>6 DEF none
<1>3. ASSUME NEW n \in 1..b, n - 1 \in G PROVE n \in G
  <2> DEFINE i == before - n
  <2>1. before - (n - 1) = i + 1 /\ i \in 1..before - 1 /\ n \in 0..b
    BY <1>0
  <2>2. TakenFrom(messages, before, f[n - 1], i + 1)
    BY <1>3, <2>1
  <2>3. f[n] = TakeMessage(messages, f[n - 1], i)
    BY <1>1
  <2> HIDE DEF i
  <2>4. TakenFrom(messages, before, f[n], i)
    BY <2>1, <2>2, <2>3, TakeMessageKeeps
  <2> QED
    BY <2>1, <2>4 DEF i
<1>4. \A n \in 0..b : n \in G
  <2> HIDE DEF G
  <2> QED
    BY <1>0, <1>2, <1>3, Induction
<1>5. b \in G
  <2>1. b \in 0..b
    BY <1>0
  <2> HIDE DEF G
  <2> QED
    BY <1>4, <2>1
<1> QED
  BY <1>0, <1>5 DEF f

(* A history is the newest of what was said before the question, in its    *)
(* order and without a gap: as much as fits, and one message in any case   *)
(* (_assemble_history).                                                    *)
THEOREM HistoriesFitTheBudget ==
  \A messages \in Seq(Messages) : \A before \in 1..Len(messages) + 1 : HistoryFits(messages, before)
<1> SUFFICES ASSUME NEW messages \in Seq(Messages), NEW before \in 1..Len(messages) + 1
             PROVE  HistoryFits(messages, before)
  OBVIOUS
<1> DEFINE b == before - 1
           s == Assembled(messages, before)[before - 1]
           history == AssembleHistory(messages, before)
           said == {i \in 1..before - 1 : messages[i].role \in {"user", "assistant"}}
           taken == {history[k] : k \in DOMAIN history}
           C(S) == Tokens([i \in 1..before - 1 |-> IF i \in S THEN messages[i].tokens ELSE 0], 1, before - 1)
<1>1. TakenFrom(messages, before, s, 1)
  BY AssembledKeeps
<1>2. history = s.history
  BY DEF AssembleHistory
<1>3. \A S : C(S) = Cost(messages, before - 1, S)
  BY DEF Cost, Weights
<1> HIDE DEF s, history, C
<1>4. history \in Seq(Nat) /\ DOMAIN history = 1..Len(history) /\ Len(history) \in Nat
  <2>1. history \in Seq(Nat)
    BY <1>1, <1>2 DEF TakenFrom, HistoryState
  <2> QED
    BY <2>1
<1>5. taken = Taken(s.history)
  BY <1>2, <1>4 DEF Taken
<1>6. s.tokens = C(taken) /\ b \in Nat /\ b = before - 1
  <2>1. s.tokens = Cost(messages, before - 1, Taken(s.history))
    BY <1>1 DEF TakenFrom
  <2>2. Len(messages) \in Nat
    OBVIOUS
  <2>3. s.tokens = C(taken)
    BY <1>3, <1>5, <2>1
  <2> HIDE DEF taken
  <2> QED
    BY <2>2, <2>3
<1> HIDE DEF b
<1>7. \A i : i \in said <=> i \in 1..b /\ Said(messages, i)
  BY <1>6 DEF Said
<1>8. /\ \A k \in 1..Len(history) : history[k] \in 1..b /\ Said(messages, history[k])
      /\ \A j, k \in 1..Len(history) : j < k => history[j] < history[k]
      /\ Len(history) > 1 => s.tokens <= TokenBudget
      /\ ~s.full => \A j \in 1..b : Said(messages, j) => j \in taken
      /\ s.full => /\ Len(history) > 0
                   /\ \E m \in 1..b :
                        /\ Said(messages, m) /\ ~(s.tokens + messages[m].tokens <= TokenBudget)
                        /\ \A k \in 1..Len(history) : m < history[k]
                        /\ \A j \in m + 1..b : Said(messages, j) => j \in taken
  BY <1>1, <1>2, <1>5, <1>6 DEF TakenFrom
<1>9. taken \subseteq said
  BY <1>4, <1>7, <1>8
<1>10. ASSUME NEW i \in taken, NEW j \in said, i < j PROVE j \in taken
  <2>1. i \in 1..b /\ j \in 1..b /\ Said(messages, j)
    BY <1>7, <1>9
  <2>2. CASE ~s.full
    BY <1>8, <2>1, <2>2
  <2>3. CASE s.full
    <3>1. PICK m \in 1..b : /\ \A k \in 1..Len(history) : m < history[k]
                            /\ \A k \in m + 1..b : Said(messages, k) => k \in taken
      BY <1>8, <2>3
    <3>2. m < i
      BY <1>4, <3>1
    <3>3. j \in m + 1..b
      BY <1>6, <1>10, <2>1, <3>2
    <3> QED
      BY <2>1, <3>1, <3>3
  <2> QED
    BY <2>2, <2>3
<1>11. ASSUME said # {} PROVE history # <<>>
  <2>1. PICK j : j \in said
    BY <1>11
  <2>2. CASE s.full
    BY <1>8, <2>2, EmptySeq
  <2>3. CASE ~s.full
    <3>1. j \in taken
      BY <1>7, <1>8, <2>1, <2>3
    <3>2. PICK k \in DOMAIN history : TRUE
      BY <3>1
    <3> QED
      BY <1>4, <3>2, EmptySeq
  <2> QED
    BY <2>2, <2>3
<1>12. ASSUME said # taken PROVE C(taken) + messages[Max(said \ taken)].tokens > TokenBudget
  <2>1. s.full
    BY <1>7, <1>8, <1>9, <1>12
  <2>2. PICK m \in 1..b : /\ Said(messages, m) /\ ~(s.tokens + messages[m].tokens <= TokenBudget)
                          /\ \A k \in 1..Len(history) : m < history[k]
                          /\ \A j \in m + 1..b : Said(messages, j) => j \in taken
    BY <1>8, <2>1
  <2> DEFINE left == said \ taken
  <2>3. m \in left
    <3>1. m \in said
      BY <1>7, <2>2
    <3>2. ASSUME NEW k \in 1..Len(history), history[k] = m PROVE FALSE
      BY <1>4, <1>6, <2>2, <3>2
    <3> QED
      BY <1>4, <3>1, <3>2
  <2>4. ASSUME NEW j \in left PROVE j \in Int /\ j <= m
    <3>1. j \in 1..b /\ Said(messages, j) /\ j \notin taken
      BY <1>7
    <3>2. j \notin m + 1..b
      BY <2>2, <3>1
    <3> QED
      BY <1>6, <3>1, <3>2
  <2>5. Max(left) = m
    <3> HIDE DEF left
    <3>1. m \in Int
      BY <1>6
    <3> QED
      BY <2>3, <2>4, <3>1, MaxIs
  <2>6. s.tokens \in Nat /\ messages[m].tokens \in Nat /\ TokenBudget \in Nat
    <3>1. m \in 1..Len(messages)
      <4>1. Len(messages) \in Nat
        OBVIOUS
      <4> QED
        BY <1>6, <4>1
    <3>2. messages[m] \in Messages /\ s \in HistoryState
      BY <1>1, <3>1 DEF TakenFrom
    <3> QED
      BY <3>2, TextWindowsAssumption DEF Messages, HistoryState, TextWindowsAssumption
  <2>7. s.tokens + messages[m].tokens > TokenBudget
    BY <2>2, <2>6
  <2> QED
    BY <1>6, <2>5, <2>7
<1>13. /\ taken \subseteq said
       /\ \A j, k \in DOMAIN history : j < k => history[j] < history[k]
       /\ \A i \in taken, j \in said : i < j => j \in taken
       /\ said # {} => history # <<>>
       /\ Len(history) > 1 => C(taken) <= TokenBudget
       /\ said # taken => C(taken) + messages[Max(said \ taken)].tokens > TokenBudget
  <2> HIDE DEF said, taken
  <2> QED
    BY <1>4, <1>6, <1>8, <1>9, <1>10, <1>11, <1>12
<1> QED
  BY <1>13 DEF HistoryFits, history, C
-------------------------------------------------------------------------------
(* The inputs of MCAlgorithms.                                             *)

LEMMA SeqsAreSequences ==
  ASSUME NEW S, NEW n, NEW q \in SeqsUpTo(S, n)
  PROVE  q \in Seq(S)
<1>1. PICK k \in 0..n : q \in [1..k -> S]
  BY DEF SeqsUpTo
<1>2. k \in Nat
  BY <1>1
<1> QED
  BY <1>1, <1>2

LEMMA SizesAre == Sizes \subseteq Nat /\ Sentences \subseteq Nat
  BY TextWindowsAssumption DEF TextWindowsAssumption, Sizes, Sentences

LEMMA SentenceIs == Sentence => input.kind = "sentence" /\ input.chars \in Seq(Nat)
<1> SUFFICES ASSUME Sentence PROVE input.kind = "sentence" /\ input.chars \in Seq(Nat)
  OBVIOUS
<1>1. PICK n \in {1, 7, 23, 24, 25, 30}, a \in {0, 1, 3, 7}, b \in {0, 1, 3, 7}, k \in {0, 4, 12} :
        input = [kind |-> "sentence", chars |-> [i \in 1..n |-> IF i <= k THEN a ELSE b]]
  BY DEF Sentence
<1>2. n \in Nat /\ [i \in 1..n |-> IF i <= k THEN a ELSE b] \in [1..n -> Nat]
  OBVIOUS
<1> QED
  BY <1>1, <1>2

LEMMA AtomsAre == Atoms => input.kind = "atoms" /\ input.atoms \in Seq(Nat)
<1> SUFFICES ASSUME Atoms PROVE input.kind = "atoms" /\ input.atoms \in Seq(Nat)
  OBVIOUS
<1>1. PICK atoms \in SeqsUpTo(Sizes, MaxAtoms) : input = [kind |-> "atoms", atoms |-> atoms]
  BY DEF Atoms
<1>2. atoms \in Seq(Sizes)
  BY SeqsAreSequences
<1>3. atoms \in Seq(Nat)
  BY <1>2, SizesAre, SeqMonotonic
<1> QED
  BY <1>1, <1>3

LEMMA ParagraphsAre == Paragraphs => input.kind = "paragraphs" /\ input.paragraphs \in Seq(Seq(Nat))
<1> SUFFICES ASSUME Paragraphs PROVE input.kind = "paragraphs" /\ input.paragraphs \in Seq(Seq(Nat))
  OBVIOUS
<1>1. PICK paragraphs \in SeqsUpTo(SeqsUpTo(Sentences, MaxParagraph), MaxParagraph) :
        input = [kind |-> "paragraphs", paragraphs |-> paragraphs]
  BY DEF Paragraphs
<1>2. paragraphs \in Seq(SeqsUpTo(Sentences, MaxParagraph))
  BY SeqsAreSequences
<1>3. \A q \in SeqsUpTo(Sentences, MaxParagraph) : q \in Seq(Sentences)
  BY SeqsAreSequences
<1>4. \A q \in Seq(Sentences) : q \in Seq(Nat)
  BY SizesAre, SeqMonotonic
<1>5. SeqsUpTo(Sentences, MaxParagraph) \subseteq Seq(Nat)
  BY <1>3, <1>4
<1>6. paragraphs \in Seq(Seq(Nat))
  BY <1>2, <1>5, SeqMonotonic
<1> QED
  BY <1>1, <1>6

LEMMA PagesAre ==
  Pages => /\ input.kind = "pages" /\ input.offset \in Nat /\ input.breaks \in Seq(Nat)
           /\ Ascending(input.breaks)
<1> SUFFICES ASSUME Pages
             PROVE  /\ input.kind = "pages" /\ input.offset \in Nat /\ input.breaks \in Seq(Nat)
                    /\ Ascending(input.breaks)
  OBVIOUS
<1>1. PICK offset \in 0..4, breaks \in SeqsUpTo(1..4, 4) :
        /\ Ascending(breaks)
        /\ input = [kind |-> "pages", offset |-> offset, breaks |-> breaks]
  BY DEF Pages
<1>2. breaks \in Seq(1..4) /\ 1..4 \subseteq Nat
  BY SeqsAreSequences
<1>3. breaks \in Seq(Nat)
  BY <1>2, SeqMonotonic
<1>4. input.kind = "pages" /\ input.offset = offset /\ input.breaks = breaks
  BY <1>1
<1> QED
  BY <1>1, <1>3, <1>4

LEMMA RowsAre == Rows => input.kind = "rows" /\ input.header \in Nat /\ input.rows \in Seq(Nat)
<1> SUFFICES ASSUME Rows PROVE input.kind = "rows" /\ input.header \in Nat /\ input.rows \in Seq(Nat)
  OBVIOUS
<1>1. PICK header \in Sizes, rows \in SeqsUpTo(Sizes, MaxAtoms) :
        input = [kind |-> "rows", header |-> header, rows |-> rows]
  BY DEF Rows
<1>2. rows \in Seq(Sizes) /\ header \in Nat
  BY SeqsAreSequences, SizesAre
<1>3. rows \in Seq(Nat)
  BY <1>2, SizesAre, SeqMonotonic
<1> QED
  BY <1>1, <1>2, <1>3

LEMMA ResultsAre ==
  Results => /\ input.kind = "results" /\ input.tokens \in Seq(Nat)
             /\ input.near \in SUBSET {p \in SUBSET (DOMAIN input.tokens) : Cardinality(p) = 2}
<1> SUFFICES ASSUME Results
             PROVE  /\ input.kind = "results" /\ input.tokens \in Seq(Nat)
                    /\ input.near \in SUBSET {p \in SUBSET (DOMAIN input.tokens) : Cardinality(p) = 2}
  OBVIOUS
<1>1. PICK tokens \in SeqsUpTo({1, 2, TokenBudget + 1}, MaxResults) :
      \E near \in SUBSET {p \in SUBSET DOMAIN tokens : Cardinality(p) = 2} :
        input = [kind |-> "results", tokens |-> tokens, near |-> near]
  BY DEF Results
<1>2. PICK near \in SUBSET {p \in SUBSET DOMAIN tokens : Cardinality(p) = 2} :
        input = [kind |-> "results", tokens |-> tokens, near |-> near]
  BY <1>1
<1>3. {1, 2, TokenBudget + 1} \subseteq Nat
  BY TextWindowsAssumption DEF TextWindowsAssumption
<1>4. tokens \in Seq({1, 2, TokenBudget + 1})
  BY SeqsAreSequences
<1>5. tokens \in Seq(Nat)
  BY <1>3, <1>4, SeqMonotonic
<1>6. input.kind = "results" /\ input.tokens = tokens /\ input.near = near
  BY <1>2
<1> QED
  BY <1>5, <1>6

LEMMA ConversationIs ==
  Conversation => /\ input.kind = "conversation" /\ input.messages \in Seq(Messages)
                  /\ input.before \in 1..Len(input.messages) + 1
<1> SUFFICES ASSUME Conversation
             PROVE  /\ input.kind = "conversation" /\ input.messages \in Seq(Messages)
                    /\ input.before \in 1..Len(input.messages) + 1
  OBVIOUS
<1>1. PICK messages \in SeqsUpTo(Message, MaxResults) : \E before \in 1..Len(messages) + 1 :
        input = [kind |-> "conversation", messages |-> messages, before |-> before]
  BY DEF Conversation
<1>2. PICK before \in 1..Len(messages) + 1 :
        input = [kind |-> "conversation", messages |-> messages, before |-> before]
  BY <1>1
<1>3. Message \subseteq Messages
  <2>1. TokenBudget + 1 \in Nat
    BY TextWindowsAssumption DEF TextWindowsAssumption
  <2> SUFFICES ASSUME NEW m \in Message PROVE m \in Messages
    OBVIOUS
  <2>2. \/ m = [role |-> "user", tokens |-> 1] \/ m = [role |-> "user", tokens |-> 3]
        \/ m = [role |-> "assistant", tokens |-> 2] \/ m = [role |-> "system", tokens |-> 1]
        \/ m = [role |-> "assistant", tokens |-> TokenBudget + 1]
    BY DEF Message
  <2> QED
    BY <2>1, <2>2 DEF Messages
<1>4. messages \in Seq(Message)
  BY SeqsAreSequences
<1>5. messages \in Seq(Messages)
  BY <1>3, <1>4, SeqMonotonic
<1>6. input.kind = "conversation" /\ input.messages = messages /\ input.before = before
  BY <1>2
<1> QED
  BY <1>5, <1>6

(* The inputs of the other modules.                                        *)
LEMMA OthersAre ==
  ASSUME PdfPages \/ Table \/ Matches \/ Excerpt \/ Documents \/ Summary \/ Schema \/ Extraction
  PROVE  input.kind \in {"pdf", "table", "matches", "excerpt", "documents", "summary", "schema", "extraction"}
<1>1. ASSUME PdfPages PROVE input.kind = "pdf"
  <2>1. \E atoms, pages : input = [kind |-> "pdf", atoms |-> atoms, pages |-> pages]
    BY <1>1, Zenon DEF PdfPages
  <2> QED
    BY <2>1
<1>2. ASSUME Table PROVE input.kind = "table"
  BY <1>2 DEF Table
<1>3. ASSUME Matches PROVE input.kind = "matches"
  BY <1>3 DEF Matches
<1>4. ASSUME Excerpt PROVE input.kind = "excerpt"
  <2>1. \E length, match : input = [kind |-> "excerpt", length |-> length, match |-> match]
    BY <1>4, Zenon DEF Excerpt
  <2> QED
    BY <2>1
<1>5. ASSUME Documents PROVE input.kind = "documents"
  BY <1>5 DEF Documents
<1>6. ASSUME Summary PROVE input.kind = "summary"
  <2>1. \E parts, verdicts : input = [kind |-> "summary", parts |-> parts, verdicts |-> verdicts]
    BY <1>6, Zenon DEF Summary
  <2> QED
    BY <2>1
<1>7. ASSUME Schema PROVE input.kind = "schema"
  BY <1>7 DEF Schema
<1>8. ASSUME Extraction PROVE input.kind = "extraction"
  BY <1>8 DEF Extraction
<1> QED
  BY <1>1, <1>2, <1>3, <1>4, <1>5, <1>6, <1>7, <1>8

LEMMA InputIs ==
  ASSUME Init
  PROVE  \/ input.kind = "sentence" /\ input.chars \in Seq(Nat)
         \/ input.kind = "atoms" /\ input.atoms \in Seq(Nat)
         \/ input.kind = "paragraphs" /\ input.paragraphs \in Seq(Seq(Nat))
         \/ /\ input.kind = "pages" /\ input.offset \in Nat /\ input.breaks \in Seq(Nat)
            /\ Ascending(input.breaks)
         \/ input.kind = "rows" /\ input.header \in Nat /\ input.rows \in Seq(Nat)
         \/ /\ input.kind = "results" /\ input.tokens \in Seq(Nat)
            /\ input.near \in SUBSET {p \in SUBSET (DOMAIN input.tokens) : Cardinality(p) = 2}
         \/ /\ input.kind = "conversation" /\ input.messages \in Seq(Messages)
            /\ input.before \in 1..Len(input.messages) + 1
         \/ input.kind \in {"pdf", "table", "matches", "excerpt", "documents", "summary", "schema", "extraction"}
<1>1. \/ Sentence \/ Atoms \/ Paragraphs \/ Pages \/ Rows \/ Results \/ Conversation
      \/ PdfPages \/ Table \/ Matches \/ Excerpt \/ Documents \/ Summary \/ Schema \/ Extraction
  BY DEF Init
<1> QED
  BY <1>1, SentenceIs, AtomsAre, ParagraphsAre, PagesAre, RowsAre, ResultsAre, ConversationIs,
     OthersAre, Zenon

(* Whatever the targets, no input of MCAlgorithms is cut into chunks that  *)
(* lose or repeat what they should not (chunking.py).                      *)
THEOREM ChunksAreSoundCorrect == Spec => []ChunksAreSound
<1>1. ASSUME Init PROVE ChunksAreSound
  <2>1. CASE input.kind = "sentence" /\ input.chars \in Seq(Nat)
    BY <2>1, SentencesAreCut DEF ChunksAreSound
  <2>2. CASE input.kind = "atoms" /\ input.atoms \in Seq(Nat)
    BY <2>2, AtomsAreCovered, ChunksFitTheTarget DEF ChunksAreSound
  <2>3. CASE input.kind = "paragraphs" /\ input.paragraphs \in Seq(Seq(Nat))
    BY <2>3, ParagraphsAreFlattened DEF ChunksAreSound
  <2>4. CASE /\ input.kind = "pages" /\ input.offset \in Nat /\ input.breaks \in Seq(Nat)
             /\ Ascending(input.breaks)
    BY <2>4, PagesAreFound DEF ChunksAreSound
  <2>5. CASE input.kind = "rows" /\ input.header \in Nat /\ input.rows \in Seq(Nat)
    BY <2>5, RowsAreGrouped DEF ChunksAreSound
  <2>6. CASE input.kind \in {"results", "conversation", "pdf", "table", "matches", "excerpt",
                             "documents", "summary", "schema", "extraction"}
    BY <2>6 DEF ChunksAreSound
  <2> QED
    BY <1>1, <2>1, <2>2, <2>3, <2>4, <2>5, <2>6, InputIs
<1>2. ASSUME ChunksAreSound, [Next]_input PROVE ChunksAreSound'
  BY <1>2 DEF Next, ChunksAreSound
<1> QED
  BY <1>1, <1>2, PTL DEF Spec

(* Whatever the budget, what goes to the model from an input of            *)
(* MCAlgorithms fits it, says nothing twice and has no gap                 *)
(* (retrieval_service.py, chat_service.py).                                *)
THEOREM ContextsAreSoundCorrect == Spec => []ContextsAreSound
<1>1. ASSUME Init PROVE ContextsAreSound
  <2>1. CASE /\ input.kind = "results" /\ input.tokens \in Seq(Nat)
             /\ input.near \in SUBSET {p \in SUBSET (DOMAIN input.tokens) : Cardinality(p) = 2}
    BY <2>1, ContextsFitTheBudget DEF ContextsAreSound
  <2>2. CASE /\ input.kind = "conversation" /\ input.messages \in Seq(Messages)
             /\ input.before \in 1..Len(input.messages) + 1
    BY <2>2, HistoriesFitTheBudget DEF ContextsAreSound
  <2>3. CASE input.kind \in {"sentence", "atoms", "paragraphs", "pages", "rows", "pdf", "table",
                             "matches", "excerpt", "documents", "summary", "schema", "extraction"}
    BY <2>3 DEF ContextsAreSound
  <2> QED
    BY <1>1, <2>1, <2>2, <2>3, InputIs
<1>2. ASSUME ContextsAreSound, [Next]_input PROVE ContextsAreSound'
  BY <1>2 DEF Next, ContextsAreSound
<1> QED
  BY <1>1, <1>2, PTL DEF Spec

-------------------------------------------------------------------------------
(* Selections.                                                             *)

LEMMA SelectedRecursion ==
  ASSUME NEW s, Len(s) \in Nat, NEW indices
  PROVE  Selected(s, indices) =
           [n \in 0..Len(s) |->
             IF n = 0 THEN <<>>
             ELSE IF n \in indices THEN Append(Selected(s, indices)[n - 1], s[n])
                  ELSE Selected(s, indices)[n - 1]]
<1> DEFINE Next1(f, n) == IF n \in indices THEN Append(f[n - 1], s[n]) ELSE f[n - 1]
           Select1(m, f) == f = [n \in 0..m |-> IF n = 0 THEN <<>> ELSE Next1(f, n)]
           G == {m \in 0..Len(s) : \E f : Select1(m, f)}
<1>1. 0 \in G
  <2>1. Select1(0, [n \in 0..0 |-> <<>>])
    OBVIOUS
  <2>2. 0 \in 0..Len(s)
    OBVIOUS
  <2> HIDE DEF Select1
  <2> QED
    BY <2>1, <2>2
<1>2. ASSUME NEW m \in 1..Len(s), m - 1 \in G
      PROVE  m \in G
  <2>1. PICK f : Select1(m - 1, f)
    BY <1>2
  <2> DEFINE g == [n \in 0..m |-> IF n = m THEN Next1(f, m) ELSE f[n]]
  <2>2. Select1(m, g)
    <3>1. f = [n \in 0..m - 1 |-> IF n = 0 THEN <<>> ELSE Next1(f, n)]
      BY <2>1
    <3>2. ASSUME NEW n \in 0..m PROVE g[n] = IF n = 0 THEN <<>> ELSE Next1(g, n)
      <4>1. CASE n = m
        <5>1. g[m] = Next1(f, m) /\ m # 0 /\ g[m - 1] = f[m - 1]
          OBVIOUS
        <5> QED
          BY <4>1, <5>1
      <4>2. CASE n # m /\ n # 0
        <5>1. n \in 0..m - 1 /\ n - 1 \in 0..m /\ n - 1 # m
          BY <4>2
        <5>2. g[n] = f[n] /\ g[n - 1] = f[n - 1]
          BY <4>2, <5>1
        <5>3. f[n] = Next1(f, n)
          BY <3>1, <4>2, <5>1
        <5> QED
          BY <4>2, <5>2, <5>3
      <4>3. CASE n # m /\ n = 0
        <5>1. n \in 0..m - 1
          BY <4>3
        <5>2. f[n] = <<>>
          BY <3>1, <4>3, <5>1
        <5> QED
          BY <4>3, <5>2
      <4> QED
        BY <4>1, <4>2, <4>3
    <3>3. g = [n \in 0..m |-> g[n]]
      OBVIOUS
    <3> HIDE DEF g, Next1
    <3> QED
      BY <3>2, <3>3
  <2>3. m \in 0..Len(s)
    OBVIOUS
  <2> HIDE DEF Select1
  <2> QED
    BY <2>2, <2>3
<1>3. \A m \in 0..Len(s) : m \in G
  <2> HIDE DEF G
  <2> QED
    BY <1>1, <1>2, Induction
<1>4. PICK f : Select1(Len(s), f)
  BY <1>3
<1> QED
  BY <1>4 DEF Selected

(* The first n elements of s, as far as they are selected, are r, and f    *)
(* says where they come from.                                              *)
Picks(s, indices, n, r, f) ==
  /\ f \in [1..Len(r) -> 1..n]
  /\ \A k \in 1..Len(r) : f[k] \in indices /\ r[k] = s[f[k]]
  /\ \A j, k \in 1..Len(r) : f[j] = f[k] => j = k
  /\ \A i \in 1..n : i \in indices => \E k \in 1..Len(r) : f[k] = i

LEMMA PicksOneMore ==
  ASSUME NEW S, NEW s \in Seq(S), NEW indices, NEW n \in 1..Len(s), NEW r \in Seq(S), NEW f,
         Picks(s, indices, n - 1, r, f)
  PROVE  IF n \in indices THEN \E g : Picks(s, indices, n, Append(r, s[n]), g)
         ELSE Picks(s, indices, n, r, f)
<1>0. n \in Nat /\ n >= 1 /\ Len(r) \in Nat /\ s[n] \in S /\ n \in 1..n
  OBVIOUS
<1>1. /\ f \in [1..Len(r) -> 1..n - 1]
      /\ \A k \in 1..Len(r) : f[k] \in indices /\ r[k] = s[f[k]]
      /\ \A j, k \in 1..Len(r) : f[j] = f[k] => j = k
      /\ \A i \in 1..n - 1 : i \in indices => \E k \in 1..Len(r) : f[k] = i
  BY DEF Picks
<1>2. \A k \in 1..Len(r) : f[k] \in 1..n - 1 /\ f[k] \in 1..n /\ f[k] # n
  BY <1>0, <1>1
<1>3. \A i \in 1..n : i = n \/ i \in 1..n - 1
  BY <1>0
<1>4. CASE n \in indices
  <2> DEFINE q == Append(r, s[n])
             g == [k \in 1..Len(q) |-> IF k \in 1..Len(r) THEN f[k] ELSE n]
  <2>1. /\ Len(q) = Len(r) + 1 /\ q[Len(r) + 1] = s[n]
        /\ \A k \in 1..Len(r) : q[k] = r[k]
    BY <1>0, AppendIs
  <2> HIDE DEF q
  <2>2. \A k \in 1..Len(q) : k \in 1..Len(r) \/ (k = Len(r) + 1 /\ k \notin 1..Len(r))
    BY <1>0, <2>1
  <2>3. (\A k \in 1..Len(r) : k \in 1..Len(q)) /\ Len(r) + 1 \in 1..Len(q) /\ Len(r) + 1 \notin 1..Len(r)
    BY <1>0, <2>1
  <2>4. (\A k \in 1..Len(r) : g[k] = f[k]) /\ g[Len(r) + 1] = n
    BY <2>3
  <2>5. g \in [1..Len(q) -> 1..n]
    BY <1>0, <1>2
  <2> HIDE DEF g
  <2>6. \A k \in 1..Len(q) : g[k] \in indices /\ q[k] = s[g[k]]
    BY <1>1, <1>4, <2>1, <2>2, <2>4
  <2>7. ASSUME NEW j \in 1..Len(q), NEW k \in 1..Len(q), g[j] = g[k] PROVE j = k
    <3>1. CASE j \in 1..Len(r) /\ k \in 1..Len(r)
      BY <1>1, <2>4, <2>7, <3>1
    <3>2. CASE j \notin 1..Len(r) /\ k \notin 1..Len(r)
      BY <2>2, <3>2
    <3>3. CASE j \in 1..Len(r) /\ k \notin 1..Len(r)
      BY <1>2, <2>2, <2>4, <2>7, <3>3
    <3>4. CASE j \notin 1..Len(r) /\ k \in 1..Len(r)
      BY <1>2, <2>2, <2>4, <2>7, <3>4
    <3> QED
      BY <3>1, <3>2, <3>3, <3>4
  <2>8. ASSUME NEW i \in 1..n, i \in indices PROVE \E k \in 1..Len(q) : g[k] = i
    <3>1. CASE i = n
      BY <2>3, <2>4, <3>1
    <3>2. CASE i # n
      <4>1. PICK k \in 1..Len(r) : f[k] = i
        BY <1>1, <1>3, <2>8, <3>2
      <4> QED
        BY <2>3, <2>4, <4>1
    <3> QED
      BY <3>1, <3>2
  <2>9. Picks(s, indices, n, q, g)
    BY <2>5, <2>6, <2>7, <2>8 DEF Picks
  <2> QED
    BY <1>4, <2>9 DEF q
<1>5. CASE n \notin indices
  <2>1. f \in [1..Len(r) -> 1..n]
    <3>1. f = [k \in 1..Len(r) |-> f[k]]
      BY <1>1
    <3> QED
      BY <1>2, <3>1
  <2>2. \A i \in 1..n : i \in indices => \E k \in 1..Len(r) : f[k] = i
    BY <1>1, <1>3, <1>5
  <2>3. Picks(s, indices, n, r, f)
    BY <1>1, <2>1, <2>2 DEF Picks
  <2> QED
    BY <1>5, <2>3
<1> QED
  BY <1>4, <1>5

(* A selection has the elements of s at these indices, and each only once. *)
LEMMA SelectIs ==
  ASSUME NEW S, NEW s \in Seq(S), NEW indices
  PROVE  /\ Select(s, indices) \in Seq(S)
         /\ \E f : Picks(s, indices, Len(s), Select(s, indices), f)
<1> DEFINE c == Selected(s, indices)
           Good(n) == c[n] \in Seq(S) /\ \E f : Picks(s, indices, n, c[n], f)
           G == {n \in 0..Len(s) : Good(n)}
<1>0. Len(s) \in Nat
  OBVIOUS
<1>1. /\ c[0] = <<>>
      /\ \A n \in 1..Len(s) : c[n] = IF n \in indices THEN Append(c[n - 1], s[n]) ELSE c[n - 1]
  <2>1. c = [n \in 0..Len(s) |-> IF n = 0 THEN <<>>
                                 ELSE IF n \in indices THEN Append(c[n - 1], s[n]) ELSE c[n - 1]]
    BY <1>0, SelectedRecursion
  <2> HIDE DEF c
  <2>2. 0 \in 0..Len(s) /\ \A n \in 1..Len(s) : n \in 0..Len(s) /\ n # 0
    BY <1>0
  <2> QED
    BY <2>1, <2>2
<1> HIDE DEF c
<1>2. 0 \in G
  <2> DEFINE f == [k \in 1..0 |-> k]
  <2>1. c[0] \in Seq(S) /\ Len(c[0]) = 0
    BY <1>1, EmptySeq
  <2>2. f \in [1..Len(c[0]) -> 1..0] /\ \A k \in 1..0 : FALSE
    BY <2>1
  <2> HIDE DEF f
  <2>3. Picks(s, indices, 0, c[0], f)
    BY <2>1, <2>2 DEF Picks
  <2>4. 0 \in 0..Len(s)
    BY <1>0
  <2> QED
    BY <2>1, <2>3, <2>4
<1>3. ASSUME NEW n \in 1..Len(s), n - 1 \in G PROVE n \in G
  <2>1. n \in 0..Len(s) /\ n - 1 \in 0..Len(s) /\ s[n] \in S
    BY <1>0
  <2>2. c[n - 1] \in Seq(S)
    BY <1>3
  <2>3. PICK f : Picks(s, indices, n - 1, c[n - 1], f)
    BY <1>3
  <2>4. IF n \in indices THEN \E g : Picks(s, indices, n, Append(c[n - 1], s[n]), g)
        ELSE Picks(s, indices, n, c[n - 1], f)
    BY <2>2, <2>3, PicksOneMore
  <2>5. CASE n \in indices
    <3>1. c[n] = Append(c[n - 1], s[n])
      BY <1>1, <2>5
    <3>2. c[n] \in Seq(S)
      BY <2>1, <2>2, <3>1, AppendIs
    <3> QED
      BY <2>1, <2>4, <2>5, <3>1, <3>2
  <2>6. CASE n \notin indices
    <3>1. c[n] = c[n - 1]
      BY <1>1, <2>6
    <3> QED
      BY <2>1, <2>2, <2>4, <2>6, <3>1
  <2> QED
    BY <2>5, <2>6
<1>4. \A n \in 0..Len(s) : n \in G
  <2> HIDE DEF G
  <2> QED
    BY <1>0, <1>2, <1>3, Induction
<1>5. Good(Len(s))
  <2>1. Len(s) \in 0..Len(s)
    BY <1>0
  <2> HIDE DEF Good
  <2> QED
    BY <1>4, <2>1
<1> QED
  BY <1>5 DEF c, Select

(* One element of s, or none, is in T.                                     *)
Once(s, T) == \E k \in 1..Len(s) : \A j \in 1..Len(s) : s[j] \in T <=> j = k

Never(s, T) == \A j \in 1..Len(s) : s[j] \notin T

LEMMA SelectOnce ==
  ASSUME NEW S, NEW s \in Seq(S), NEW indices, NEW T, NEW k \in 1..Len(s),
         \A j \in 1..Len(s) : s[j] \in T <=> j = k
  PROVE  IF k \in indices THEN Once(Select(s, indices), T) ELSE Never(Select(s, indices), T)
<1> DEFINE r == Select(s, indices)
<1>1. PICK f : Picks(s, indices, Len(s), r, f)
  BY SelectIs
<1>2. /\ \A i \in 1..Len(r) : f[i] \in 1..Len(s) /\ f[i] \in indices /\ r[i] = s[f[i]]
      /\ \A i, j \in 1..Len(r) : f[i] = f[j] => i = j
      /\ \A i \in 1..Len(s) : i \in indices => \E j \in 1..Len(r) : f[j] = i
  BY <1>1 DEF Picks
<1> HIDE DEF r
<1>3. \A i \in 1..Len(r) : r[i] \in T <=> f[i] = k
  BY <1>2
<1>4. CASE k \in indices
  <2>1. PICK i \in 1..Len(r) : f[i] = k
    BY <1>2, <1>4
  <2>2. \A j \in 1..Len(r) : r[j] \in T <=> j = i
    BY <1>2, <1>3, <2>1
  <2> QED
    BY <1>4, <2>2 DEF Once, r
<1>5. CASE k \notin indices
  BY <1>2, <1>3, <1>5 DEF Never, r
<1> QED
  BY <1>4, <1>5

LEMMA SelectNever ==
  ASSUME NEW S, NEW s \in Seq(S), NEW indices, NEW T, Never(s, T)
  PROVE  Never(Select(s, indices), T)
<1> DEFINE r == Select(s, indices)
<1>1. PICK f : Picks(s, indices, Len(s), r, f)
  BY SelectIs
<1>2. \A i \in 1..Len(r) : f[i] \in 1..Len(s) /\ r[i] = s[f[i]]
  BY <1>1 DEF Picks
<1> HIDE DEF r
<1> QED
  BY <1>2 DEF Never, r

LEMMA SelectNone ==
  ASSUME NEW S, NEW s \in Seq(S), NEW indices, \A i \in 1..Len(s) : i \notin indices
  PROVE  Select(s, indices) = <<>>
<1> DEFINE r == Select(s, indices)
<1>1. r \in Seq(S) /\ \E f : Picks(s, indices, Len(s), r, f)
  BY SelectIs
<1> HIDE DEF r
<1>2. PICK f : Picks(s, indices, Len(s), r, f)
  BY <1>1
<1>3. \A i \in 1..Len(r) : f[i] \in 1..Len(s) /\ f[i] \in indices
  BY <1>2 DEF Picks
<1>4. Len(r) \in Nat /\ ~(1 \in 1..Len(r))
  BY <1>1, <1>3
<1>5. Len(r) = 0
  BY <1>4
<1>6. r = <<>>
  BY <1>1, <1>5, EmptySeq
<1> QED
  BY <1>6 DEF r

LEMMA ConcatIs ==
  ASSUME NEW S, NEW c \in Seq(S), NEW d \in Seq(S)
  PROVE  /\ c \o d \in Seq(S)
         /\ Len(c) \in Nat /\ Len(d) \in Nat /\ Len(c \o d) = Len(c) + Len(d)
         /\ \A k \in 1..Len(c) : k \in 1..Len(c \o d) /\ (c \o d)[k] = c[k]
         /\ \A k \in 1..Len(d) : Len(c) + k \in 1..Len(c \o d) /\ (c \o d)[Len(c) + k] = d[k]
         /\ \A k \in 1..Len(c \o d) : k \in 1..Len(c) \/ \E j \in 1..Len(d) : k = Len(c) + j
<1>1. /\ c \o d \in Seq(S) /\ Len(c) \in Nat /\ Len(d) \in Nat /\ Len(c \o d) = Len(c) + Len(d)
      /\ \A k \in 1..Len(c) + Len(d) : (c \o d)[k] = IF k <= Len(c) THEN c[k] ELSE d[k - Len(c)]
  BY ConcatProperties
<1>2. ASSUME NEW k \in 1..Len(c) PROVE k \in 1..Len(c \o d) /\ (c \o d)[k] = c[k]
  <2>1. k \in 1..Len(c) + Len(d) /\ k <= Len(c)
    BY <1>1
  <2> QED
    BY <1>1, <2>1
<1>3. ASSUME NEW k \in 1..Len(d)
      PROVE  Len(c) + k \in 1..Len(c \o d) /\ (c \o d)[Len(c) + k] = d[k]
  <2>1. Len(c) + k \in 1..Len(c) + Len(d) /\ ~(Len(c) + k <= Len(c)) /\ Len(c) + k - Len(c) = k
    BY <1>1
  <2> QED
    BY <1>1, <2>1
<1>4. ASSUME NEW k \in 1..Len(c \o d), k \notin 1..Len(c)
      PROVE  \E j \in 1..Len(d) : k = Len(c) + j
  <2>1. k - Len(c) \in 1..Len(d) /\ k = Len(c) + (k - Len(c))
    BY <1>1, <1>4
  <2> QED
    BY <2>1
<1> QED
  BY <1>1, <1>2, <1>3, <1>4

LEMMA ConcatOnce ==
  ASSUME NEW S, NEW c \in Seq(S), NEW d \in Seq(S), NEW T
  PROVE  /\ Once(c, T) /\ Never(d, T) => Once(c \o d, T)
         /\ Never(c, T) /\ Once(d, T) => Once(c \o d, T)
         /\ Never(c, T) /\ Never(d, T) => Never(c \o d, T)
<1> DEFINE e == c \o d
<1>1. /\ e \in Seq(S)
      /\ Len(c) \in Nat /\ Len(d) \in Nat /\ Len(e) = Len(c) + Len(d)
      /\ \A k \in 1..Len(c) : k \in 1..Len(e) /\ e[k] = c[k]
      /\ \A k \in 1..Len(d) : Len(c) + k \in 1..Len(e) /\ e[Len(c) + k] = d[k]
      /\ \A k \in 1..Len(e) : k \in 1..Len(c) \/ \E j \in 1..Len(d) : k = Len(c) + j
  BY ConcatIs
<1> HIDE DEF e
<1>2. ASSUME Once(c, T), Never(d, T) PROVE Once(e, T)
  <2>1. PICK k \in 1..Len(c) : \A j \in 1..Len(c) : c[j] \in T <=> j = k
    BY <1>2 DEF Once
  <2>2. ASSUME NEW j \in 1..Len(e) PROVE e[j] \in T <=> j = k
    <3>1. CASE j \in 1..Len(c)
      BY <1>1, <2>1, <3>1
    <3>2. CASE j \notin 1..Len(c)
      <4>1. PICK i \in 1..Len(d) : j = Len(c) + i
        BY <1>1, <3>2
      <4>2. e[j] = d[i] /\ d[i] \notin T
        BY <1>1, <1>2, <4>1 DEF Never
      <4> QED
        BY <2>1, <3>2, <4>2
    <3> QED
      BY <3>1, <3>2
  <2> QED
    BY <1>1, <2>2 DEF Once
<1>3. ASSUME Never(c, T), Once(d, T) PROVE Once(e, T)
  <2>1. PICK k \in 1..Len(d) : \A j \in 1..Len(d) : d[j] \in T <=> j = k
    BY <1>3 DEF Once
  <2>2. ASSUME NEW j \in 1..Len(e) PROVE e[j] \in T <=> j = Len(c) + k
    <3>1. CASE j \in 1..Len(c)
      <4>1. e[j] \notin T
        BY <1>1, <1>3, <3>1 DEF Never
      <4>2. j # Len(c) + k
        BY <1>1, <3>1
      <4> QED
        BY <4>1, <4>2
    <3>2. CASE j \notin 1..Len(c)
      <4>1. PICK i \in 1..Len(d) : j = Len(c) + i
        BY <1>1, <3>2
      <4>2. j = Len(c) + k <=> i = k
        <5>1. i \in Nat /\ k \in Nat /\ Len(c) \in Nat
          BY <1>1
        <5> QED
          BY <4>1, <5>1
      <4> QED
        BY <1>1, <2>1, <4>1, <4>2
    <3> QED
      BY <3>1, <3>2
  <2> QED
    BY <1>1, <2>2 DEF Once
<1>4. ASSUME Never(c, T), Never(d, T) PROVE Never(e, T)
  BY <1>1, <1>4 DEF Never
<1> QED
  BY <1>2, <1>3, <1>4 DEF e

LEMMA CountOnce ==
  ASSUME NEW S, NEW s \in Seq(S), NEW T
  PROVE  /\ Once(s, T) => Cardinality({k \in DOMAIN s : s[k] \in T}) = 1
         /\ Never(s, T) => Cardinality({k \in DOMAIN s : s[k] \in T}) = 0
<1> DEFINE D == {k \in DOMAIN s : s[k] \in T}
<1>0. DOMAIN s = 1..Len(s)
  OBVIOUS
<1>1. ASSUME Once(s, T) PROVE Cardinality(D) = 1
  <2>1. PICK k \in 1..Len(s) : \A j \in 1..Len(s) : s[j] \in T <=> j = k
    BY <1>1 DEF Once
  <2>2. D = {k}
    BY <1>0, <2>1
  <2> QED
    BY <2>2, FS_Singleton
<1>2. ASSUME Never(s, T) PROVE Cardinality(D) = 0
  <2>1. D = {}
    BY <1>0, <1>2 DEF Never
  <2> QED
    BY <2>1, FS_EmptySet
<1> QED
  BY <1>1, <1>2

-------------------------------------------------------------------------------
(* The report of a comparison.                                             *)

Pairs == [a : Nat, b : Nat]

Types == {"addition", "deletion", "modification"}

Changes == [type : Types, a : Nat, b : Nat, category : {"wording"}]

(* The changes that are about the pairs in T.                              *)
About(T) == {c \in Changes : [a |-> c.a, b |-> c.b] \in T}

LEMMA ChangesAre ==
  ASSUME NEW a, NEW b, NEW pairs \in Seq(Pairs)
  PROVE  LET different == Select(pairs, {k \in DOMAIN pairs : Differs(a, b, pairs[k])})
             changes == Classify(Differences(a, b, pairs), <<>>)
         IN  /\ different \in Seq(Pairs) /\ changes \in Seq(Changes)
             /\ Len(changes) = Len(different)
             /\ \A k \in 1..Len(changes) :
                  /\ changes[k].type = TypeOf(different[k])
                  /\ changes[k].a = different[k].a /\ changes[k].b = different[k].b
<1> DEFINE different == Select(pairs, {k \in DOMAIN pairs : Differs(a, b, pairs[k])})
           change(p) == [type |-> TypeOf(p), a |-> p.a, b |-> p.b, category |-> "wording"]
           changes == Classify(Differences(a, b, pairs), <<>>)
<1>1. different \in Seq(Pairs)
  BY SelectIs
<1>2. changes = [k \in 1..Len(different) |-> change(different[k])]
  <2> DEFINE d == Differences(a, b, pairs)
  <2>1. d = [k \in DOMAIN different |-> [type |-> TypeOf(different[k]), a |-> different[k].a,
                                         b |-> different[k].b]]
    BY DEF Differences
  <2> HIDE DEF different, d
  <2>2. DOMAIN different = 1..Len(different) /\ DOMAIN d = 1..Len(different)
    BY <1>1, <2>1
  <2>3. \A k : k \notin DOMAIN <<>>
    OBVIOUS
  <2>4. changes = [k \in DOMAIN d |-> [type |-> d[k].type, a |-> d[k].a, b |-> d[k].b,
                                       category |-> "wording"]]
    BY <2>3 DEF Classify, d
  <2>5. \A k \in 1..Len(different) : d[k].type = TypeOf(different[k]) /\ d[k].a = different[k].a
                                     /\ d[k].b = different[k].b
    BY <2>1, <2>2
  <2> QED
    BY <2>2, <2>4, <2>5
<1> HIDE DEF different, changes
<1>3. \A p \in Pairs : change(p) \in Changes
  BY DEF Pairs, Changes, Types, TypeOf
<1>4. Len(different) \in Nat /\ \A k \in 1..Len(different) : different[k] \in Pairs
  BY <1>1
<1>5. changes \in [1..Len(different) -> Changes]
  <2> HIDE DEF change
  <2> QED
    BY <1>2, <1>3, <1>4
<1>6. changes \in Seq(Changes) /\ Len(changes) = Len(different)
  BY <1>2, <1>4, <1>5
<1>7. \A k \in 1..Len(changes) : /\ changes[k].type = TypeOf(different[k])
                                  /\ changes[k].a = different[k].a /\ changes[k].b = different[k].b
  BY <1>2, <1>6
<1>8. /\ different \in Seq(Pairs) /\ changes \in Seq(Changes) /\ Len(changes) = Len(different)
      /\ \A k \in 1..Len(changes) : /\ changes[k].type = TypeOf(different[k])
                                     /\ changes[k].a = different[k].a /\ changes[k].b = different[k].b
  BY <1>1, <1>6, <1>7
<1> QED
  BY <1>8 DEF different, changes

(* A pair that is the only one in T is in the report once, or its segments *)
(* do not differ.                                                          *)
LEMMA PairIsAccountedFor ==
  ASSUME NEW a, NEW b, NEW pairs \in Seq(Pairs), NEW T, Once(pairs, T)
  PROVE  LET report == ToResultJson(Classify(Differences(a, b, pairs), <<>>))
             changes == report.additions \o report.deletions \o report.modifications
         IN  /\ changes \in Seq(Changes)
             /\ Cardinality({k \in DOMAIN changes : changes[k] \in About(T)})
                + Cardinality({k \in DOMAIN pairs : pairs[k] \in T /\ ~Differs(a, b, pairs[k])}) = 1
<1> DEFINE D == {k \in DOMAIN pairs : Differs(a, b, pairs[k])}
           different == Select(pairs, D)
           found == Classify(Differences(a, b, pairs), <<>>)
           Of(type) == Select(found, {k \in DOMAIN found : found[k].type = type})
           changes == Of("addition") \o Of("deletion") \o Of("modification")
           same == {k \in DOMAIN pairs : pairs[k] \in T /\ ~Differs(a, b, pairs[k])}
<1>1. PICK k \in 1..Len(pairs) : \A j \in 1..Len(pairs) : pairs[j] \in T <=> j = k
  BY DEF Once
<1>2. /\ different \in Seq(Pairs) /\ found \in Seq(Changes) /\ Len(found) = Len(different)
      /\ \A j \in 1..Len(found) : /\ found[j].type = TypeOf(different[j])
                                  /\ found[j].a = different[j].a /\ found[j].b = different[j].b
  BY ChangesAre
<1>3. IF k \in D THEN Once(different, T) ELSE Never(different, T)
  BY <1>1, SelectOnce
<1>4. DOMAIN pairs = 1..Len(pairs)
  OBVIOUS
<1> DEFINE report == ToResultJson(found)
<1>5. /\ report.additions = Of("addition") /\ report.deletions = Of("deletion")
      /\ report.modifications = Of("modification")
  BY DEF ToResultJson
<1> SUFFICES /\ changes \in Seq(Changes)
             /\ Cardinality({j \in DOMAIN changes : changes[j] \in About(T)}) + Cardinality(same) = 1
  <2> HIDE DEF different, found, report, Of
  <2> QED
    BY <1>5 DEF found, report
<1> HIDE DEF different, found, report
<1>6. /\ \A type : Of(type) \in Seq(Changes)
      /\ Of("addition") \o Of("deletion") \in Seq(Changes) /\ changes \in Seq(Changes)
  <2>1. ASSUME NEW type PROVE Of(type) \in Seq(Changes)
    BY <1>2, SelectIs
  <2> HIDE DEF Of
  <2>2. Of("addition") \o Of("deletion") \in Seq(Changes)
    BY <2>1, ConcatIs
  <2> QED
    BY <2>1, <2>2, ConcatIs
<1>7. \A j \in 1..Len(found) : found[j] \in About(T) <=> different[j] \in T
  <2> SUFFICES ASSUME NEW j \in 1..Len(found) PROVE found[j] \in About(T) <=> different[j] \in T
    OBVIOUS
  <2>1. found[j] \in Changes /\ different[j] \in Pairs
    BY <1>2
  <2>2. [a |-> found[j].a, b |-> found[j].b] = different[j]
    BY <1>2, <2>1 DEF Pairs
  <2> QED
    BY <2>1, <2>2 DEF About
<1>8. CASE k \in D
  <2>1. PICK m \in 1..Len(different) : \A j \in 1..Len(different) : different[j] \in T <=> j = m
    BY <1>3, <1>8 DEF Once
  <2>2. m \in 1..Len(found) /\ \A j \in 1..Len(found) : found[j] \in About(T) <=> j = m
    BY <1>2, <1>7, <2>1
  <2>3. m \in DOMAIN found /\ found[m].type \in Types
    <3>1. found[m] \in Changes
      BY <1>2, <2>2
    <3> QED
      BY <1>2, <2>2, <3>1 DEF Changes
  <2>4. ASSUME NEW type PROVE IF type = found[m].type THEN Once(Of(type), About(T))
                              ELSE Never(Of(type), About(T))
    <3> DEFINE I == {j \in DOMAIN found : found[j].type = type}
    <3>1. IF m \in I THEN Once(Select(found, I), About(T)) ELSE Never(Select(found, I), About(T))
      BY <1>2, <2>2, SelectOnce
    <3>2. m \in I <=> type = found[m].type
      BY <2>3
    <3> QED
      BY <3>1, <3>2
  <2>5. Once(changes, About(T))
    <3>1. CASE found[m].type = "addition"
      <4>1. /\ Once(Of("addition"), About(T)) /\ Never(Of("deletion"), About(T))
            /\ Never(Of("modification"), About(T))
        <5> HIDE DEF Of
        <5> QED
          BY <2>4, <3>1
      <4> HIDE DEF Of
      <4>2. Once(Of("addition") \o Of("deletion"), About(T))
        BY <1>6, <4>1, ConcatOnce
      <4> QED
        BY <1>6, <4>1, <4>2, ConcatOnce
    <3>2. CASE found[m].type = "deletion"
      <4>1. /\ Never(Of("addition"), About(T)) /\ Once(Of("deletion"), About(T))
            /\ Never(Of("modification"), About(T))
        <5> HIDE DEF Of
        <5> QED
          BY <2>4, <3>2
      <4> HIDE DEF Of
      <4>2. Once(Of("addition") \o Of("deletion"), About(T))
        BY <1>6, <4>1, ConcatOnce
      <4> QED
        BY <1>6, <4>1, <4>2, ConcatOnce
    <3>3. CASE found[m].type = "modification"
      <4>1. /\ Never(Of("addition"), About(T)) /\ Never(Of("deletion"), About(T))
            /\ Once(Of("modification"), About(T))
        <5> HIDE DEF Of
        <5> QED
          BY <2>4, <3>3
      <4> HIDE DEF Of
      <4>2. Never(Of("addition") \o Of("deletion"), About(T))
        BY <1>6, <4>1, ConcatOnce
      <4> QED
        BY <1>6, <4>1, <4>2, ConcatOnce
    <3> QED
      BY <2>3, <3>1, <3>2, <3>3 DEF Types
  <2> HIDE DEF changes
  <2>6. Cardinality({j \in DOMAIN changes : changes[j] \in About(T)}) = 1
    BY <1>6, <2>5, CountOnce
  <2>7. same = {}
    BY <1>1, <1>4, <1>8
  <2>8. Cardinality(same) = 0
    BY <2>7, FS_EmptySet
  <2> HIDE DEF same
  <2>9. 1 + 0 = 1
    OBVIOUS
  <2> QED
    BY <1>6, <2>6, <2>8, <2>9 DEF changes, same
<1>9. CASE k \notin D
  <2>1. Never(found, About(T))
    BY <1>2, <1>3, <1>7, <1>9 DEF Never
  <2>2. ASSUME NEW type PROVE Never(Of(type), About(T))
    BY <1>2, <2>1, SelectNever
  <2>3. Never(changes, About(T))
    <3> HIDE DEF Of
    <3>1. Never(Of("addition") \o Of("deletion"), About(T))
      BY <1>6, <2>2, ConcatOnce
    <3> QED
      BY <1>6, <2>2, <3>1, ConcatOnce
  <2> HIDE DEF changes
  <2>4. Cardinality({j \in DOMAIN changes : changes[j] \in About(T)}) = 0
    BY <1>6, <2>3, CountOnce
  <2>5. same = {k}
    BY <1>1, <1>4, <1>9
  <2>6. Cardinality(same) = 1
    BY <2>5, FS_Singleton
  <2> HIDE DEF same
  <2>7. 0 + 1 = 1
    OBVIOUS
  <2> QED
    BY <1>6, <2>4, <2>6, <2>7 DEF changes, same
<1> QED
  BY <1>8, <1>9

-------------------------------------------------------------------------------
(* The alignment of two documents.                                         *)

(* Similarities of contents, as a cosine has them.                         *)
Cosines(Texts) == \A x, y \in Texts : Similarity(x, y) \in -100..100

Best(a, b, i, free, j) ==
  /\ j \in free
  /\ \A k \in free : \/ Similarity(a[i], b[j]) > Similarity(a[i], b[k])
                     \/ Similarity(a[i], b[j]) = Similarity(a[i], b[k]) /\ j <= k

LEMMA BestExists ==
  ASSUME NEW a, NEW b, NEW i, NEW free, free # {},
         \A j \in free : j \in Nat /\ Similarity(a[i], b[j]) \in -100..100
  PROVE  \E j : Best(a, b, i, free, j)
<1> DEFINE v(j) == 100 - Similarity(a[i], b[j])
           V == {v(j) : j \in free}
<1>1. \A j \in free : v(j) \in Nat
  OBVIOUS
<1>2. PICK m \in V : \A n \in V : m <= n
  <2>1. V # {} /\ \A n \in V : n \in Nat
    BY <1>1
  <2> HIDE DEF V
  <2> QED
    BY <2>1, LeastNumber
<1> DEFINE M == {j \in free : v(j) = m}
<1>3. PICK j \in M : \A k \in M : j <= k
  <2>1. M # {} /\ \A k \in M : k \in Nat
    BY <1>2
  <2> HIDE DEF M
  <2> QED
    BY <2>1, LeastNumber
<1>4. ASSUME NEW k \in free
      PROVE  \/ Similarity(a[i], b[j]) > Similarity(a[i], b[k])
             \/ Similarity(a[i], b[j]) = Similarity(a[i], b[k]) /\ j <= k
  <2>1. v(j) <= v(k)
    BY <1>2, <1>3
  <2>2. Similarity(a[i], b[j]) \in Int /\ Similarity(a[i], b[k]) \in Int
    BY <1>3
  <2>3. v(j) = v(k) => j <= k
    BY <1>3
  <2> QED
    BY <2>1, <2>2, <2>3
<1> QED
  BY <1>3, <1>4 DEF Best

(* The segments of b that the i-th of a may be matched with.               *)
FreeFor(a, b, s, i) == {j \in DOMAIN b \ s.used : Similarity(a[i], b[j]) > -100}

(* One step of the loop takes s to t.                                      *)
Aligns(a, b, s, i, t) ==
  LET free == FreeFor(a, b, s, i) IN
  IF free = {} THEN /\ t.pairs = Append(s.pairs, [a |-> i, b |-> 0])
                    /\ t.used = s.used /\ t.total = s.total
  ELSE \E j : /\ Best(a, b, i, free, j)
              /\ t.pairs = Append(s.pairs, [a |-> i, b |-> j])
              /\ t.used = s.used \cup {j}
              /\ t.total = s.total + Similarity(a[i], b[j])

IsMatching(s) == s = [pairs |-> s.pairs, used |-> s.used, total |-> s.total]

LEMMA AlignSegmentIs ==
  ASSUME NEW Texts, Cosines(Texts), NEW a \in Seq(Texts), NEW b \in Seq(Texts),
         NEW i \in 1..Len(a), NEW s, IsMatching(s)
  PROVE  Aligns(a, b, s, i, AlignSegment(a, b, s, i))
<1> DEFINE free == FreeFor(a, b, s, i)
           t == AlignSegment(a, b, s, i)
           best == CHOOSE j \in free : \A k \in free :
                     \/ Similarity(a[i], b[j]) > Similarity(a[i], b[k])
                     \/ Similarity(a[i], b[j]) = Similarity(a[i], b[k]) /\ j <= k
<1>1. t = IF free = {} THEN [s EXCEPT !.pairs = Append(@, [a |-> i, b |-> 0])]
          ELSE [pairs |-> Append(s.pairs, [a |-> i, b |-> best]), used |-> s.used \cup {best},
                total |-> s.total + Similarity(a[i], b[best])]
  BY DEF AlignSegment, FreeFor
<1>2. CASE free = {}
  <2> HIDE DEF free, best, t
  <2>1. t = [s EXCEPT !.pairs = Append(@, [a |-> i, b |-> 0])]
    BY <1>1, <1>2
  <2>2. /\ t.pairs = Append(s.pairs, [a |-> i, b |-> 0]) /\ t.used = s.used /\ t.total = s.total
    BY <2>1 DEF IsMatching
  <2> QED
    BY <1>2, <2>2 DEF free, t, Aligns
<1>3. CASE free # {}
  <2>1. \A j \in free : j \in Nat /\ Similarity(a[i], b[j]) \in -100..100
    <3> SUFFICES ASSUME NEW j \in free PROVE j \in Nat /\ Similarity(a[i], b[j]) \in -100..100
      OBVIOUS
    <3>1. j \in 1..Len(b) /\ a[i] \in Texts /\ b[j] \in Texts
      BY DEF FreeFor
    <3>2. Similarity(a[i], b[j]) \in -100..100
      BY <3>1 DEF Cosines
    <3>3. j \in Nat
      BY <3>1
    <3> QED
      BY <3>2, <3>3
  <2>2. \E j : Best(a, b, i, free, j)
    <3> HIDE DEF free
    <3> QED
      BY <1>3, <2>1, BestExists
  <2>3. best = CHOOSE j : Best(a, b, i, free, j)
    <3> HIDE DEF free
    <3> QED
      BY Zenon DEF Best
  <2> HIDE DEF free, best, t
  <2>4. Best(a, b, i, free, best)
    <3>1. best = CHOOSE j : Best(a, b, i, free, j)
      BY <2>3
    <3> QED
      BY <2>2, <3>1, Zenon
  <2>5. t = [pairs |-> Append(s.pairs, [a |-> i, b |-> best]), used |-> s.used \cup {best},
             total |-> s.total + Similarity(a[i], b[best])]
    BY <1>1, <1>3
  <2>6. /\ t.pairs = Append(s.pairs, [a |-> i, b |-> best]) /\ t.used = s.used \cup {best}
        /\ t.total = s.total + Similarity(a[i], b[best])
    BY <2>5
  <2>7. \E j : /\ Best(a, b, i, free, j)
               /\ t.pairs = Append(s.pairs, [a |-> i, b |-> j])
               /\ t.used = s.used \cup {j}
               /\ t.total = s.total + Similarity(a[i], b[j])
    BY <2>4, <2>6
  <2> QED
    BY <1>3, <2>7 DEF free, t, Aligns
<1> QED
  BY <1>2, <1>3

LEMMA AlignSegmentIsMatching ==
  ASSUME NEW a, NEW b, NEW i, NEW s, IsMatching(s)
  PROVE  IsMatching(AlignSegment(a, b, s, i))
<1> DEFINE t == AlignSegment(a, b, s, i)
<1>1. \E p, u, n : t = [pairs |-> p, used |-> u, total |-> n]
  <2> DEFINE free == {j \in DOMAIN b \ s.used : Similarity(a[i], b[j]) > -100}
             best == CHOOSE j \in free : \A k \in free :
                       \/ Similarity(a[i], b[j]) > Similarity(a[i], b[k])
                       \/ Similarity(a[i], b[j]) = Similarity(a[i], b[k]) /\ j <= k
             x == Append(s.pairs, [a |-> i, b |-> 0])
  <2>1. t = IF free = {} THEN [s EXCEPT !.pairs = x]
            ELSE [pairs |-> Append(s.pairs, [a |-> i, b |-> best]), used |-> s.used \cup {best},
                  total |-> s.total + Similarity(a[i], b[best])]
    BY DEF AlignSegment
  <2> HIDE DEF free, best, t, x
  <2>2. [s EXCEPT !.pairs = x] = [pairs |-> x, used |-> s.used, total |-> s.total]
    BY DEF IsMatching
  <2> QED
    BY <2>1, <2>2
<1> HIDE DEF t
<1>2. IsMatching(t)
  BY <1>1 DEF IsMatching
<1> QED
  BY <1>2 DEF t

LEMMA MatchedRecursion ==
  ASSUME NEW a, Len(a) \in Nat, NEW b
  PROVE  Matched(a, b) =
           [i \in 0..Len(a) |->
             IF i = 0 THEN [pairs |-> <<>>, used |-> {}, total |-> 0]
             ELSE AlignSegment(a, b, Matched(a, b)[i - 1], i)]
<1> DEFINE None1 == [pairs |-> <<>>, used |-> {}, total |-> 0]
           Match(m, f) == f = [i \in 0..m |-> IF i = 0 THEN None1 ELSE AlignSegment(a, b, f[i - 1], i)]
           G == {m \in 0..Len(a) : \E f : Match(m, f)}
<1>1. 0 \in G
  <2>1. Match(0, [i \in 0..0 |-> None1])
    <3> HIDE DEF None1
    <3> QED
      OBVIOUS
  <2>2. 0 \in 0..Len(a)
    OBVIOUS
  <2> HIDE DEF Match
  <2> QED
    BY <2>1, <2>2
<1>2. ASSUME NEW m \in 1..Len(a), m - 1 \in G
      PROVE  m \in G
  <2>1. PICK f : Match(m - 1, f)
    BY <1>2
  <2> DEFINE g == [i \in 0..m |-> IF i = m THEN AlignSegment(a, b, f[m - 1], m) ELSE f[i]]
  <2>2. Match(m, g)
    <3> HIDE DEF None1
    <3>1. f = [i \in 0..m - 1 |-> IF i = 0 THEN None1 ELSE AlignSegment(a, b, f[i - 1], i)]
      BY <2>1
    <3>2. ASSUME NEW i \in 0..m PROVE g[i] = IF i = 0 THEN None1 ELSE AlignSegment(a, b, g[i - 1], i)
      <4>1. CASE i = m
        <5>1. g[m] = AlignSegment(a, b, f[m - 1], m) /\ m # 0 /\ g[m - 1] = f[m - 1]
          OBVIOUS
        <5> QED
          BY <4>1, <5>1
      <4>2. CASE i # m /\ i # 0
        <5>1. i \in 0..m - 1 /\ i - 1 \in 0..m /\ i - 1 # m
          BY <4>2
        <5>2. g[i] = f[i] /\ g[i - 1] = f[i - 1]
          BY <4>2, <5>1
        <5>3. f[i] = AlignSegment(a, b, f[i - 1], i)
          BY <3>1, <4>2, <5>1
        <5> QED
          BY <4>2, <5>2, <5>3
      <4>3. CASE i # m /\ i = 0
        <5>1. i \in 0..m - 1
          BY <4>3
        <5>2. f[i] = None1
          BY <3>1, <4>3, <5>1
        <5> QED
          BY <4>3, <5>2
      <4> QED
        BY <4>1, <4>2, <4>3
    <3>3. g = [i \in 0..m |-> g[i]]
      OBVIOUS
    <3> HIDE DEF g
    <3> QED
      BY <3>2, <3>3
  <2>3. m \in 0..Len(a)
    OBVIOUS
  <2> HIDE DEF Match
  <2> QED
    BY <2>2, <2>3
<1>3. \A m \in 0..Len(a) : m \in G
  <2> HIDE DEF G
  <2> QED
    BY <1>1, <1>2, Induction
<1>4. PICK f : Match(Len(a), f)
  <2>1. Len(a) \in G
    <3> HIDE DEF G
    <3> QED
      BY <1>3
  <2> HIDE DEF Match
  <2> QED
    BY <2>1
<1> QED
  BY <1>4 DEF Matched

(* What is matched after the first i segments of a.                        *)
Matching(a, b, s, i) ==
  /\ s = [pairs |-> s.pairs, used |-> s.used, total |-> s.total]
  /\ s.pairs \in Seq(Pairs) /\ Len(s.pairs) = i
  /\ \A j \in s.used : j \in 1..Len(b)
  /\ \A k \in 1..i : s.pairs[k].a = k /\ (s.pairs[k].b = 0 \/ s.pairs[k].b \in s.used)
  /\ \A j \in s.used : \E k \in 1..i : s.pairs[k].b = j
  /\ \A j, k \in 1..i : s.pairs[j].b = s.pairs[k].b /\ s.pairs[j].b # 0 => j = k
  /\ \A k \in 1..i : s.pairs[k].b = 0 =>
       \A j \in 1..Len(b) : j \notin s.used => ~(Similarity(a[k], b[j]) > -100)

LEMMA AlignSegmentKeeps ==
  ASSUME NEW Texts, Cosines(Texts), NEW a \in Seq(Texts), NEW b \in Seq(Texts),
         NEW i \in 1..Len(a), NEW s, Matching(a, b, s, i - 1)
  PROVE  Matching(a, b, AlignSegment(a, b, s, i), i)
<1> DEFINE t == AlignSegment(a, b, s, i)
           free == FreeFor(a, b, s, i)
<1>0. /\ i \in Nat /\ i >= 1 /\ i \in 1..i /\ Len(b) \in Nat /\ DOMAIN b = 1..Len(b)
      /\ \A k \in 1..i : k = i \/ k \in 1..i - 1
      /\ \A k \in 1..i - 1 : k \in 1..i /\ k # i
  OBVIOUS
<1>1. /\ s = [pairs |-> s.pairs, used |-> s.used, total |-> s.total]
      /\ s.pairs \in Seq(Pairs) /\ Len(s.pairs) = i - 1
      /\ \A j \in s.used : j \in 1..Len(b)
      /\ \A k \in 1..i - 1 : s.pairs[k].a = k /\ (s.pairs[k].b = 0 \/ s.pairs[k].b \in s.used)
      /\ \A j \in s.used : \E k \in 1..i - 1 : s.pairs[k].b = j
      /\ \A j, k \in 1..i - 1 : s.pairs[j].b = s.pairs[k].b /\ s.pairs[j].b # 0 => j = k
      /\ \A k \in 1..i - 1 : s.pairs[k].b = 0 =>
           \A j \in 1..Len(b) : j \notin s.used => ~(Similarity(a[k], b[j]) > -100)
  BY DEF Matching
<1>2. IF free = {} THEN /\ t.pairs = Append(s.pairs, [a |-> i, b |-> 0])
                        /\ t.used = s.used /\ t.total = s.total
      ELSE \E j : /\ Best(a, b, i, free, j)
                  /\ t.pairs = Append(s.pairs, [a |-> i, b |-> j])
                  /\ t.used = s.used \cup {j}
                  /\ t.total = s.total + Similarity(a[i], b[j])
  <2>1. IsMatching(s)
    BY <1>1 DEF IsMatching
  <2>2. Aligns(a, b, s, i, t)
    BY <2>1, AlignSegmentIs
  <2> QED
    BY <2>2 DEF Aligns
<1>3. t = [pairs |-> t.pairs, used |-> t.used, total |-> t.total]
  <2>1. IsMatching(t)
    <3>1. IsMatching(s)
      BY <1>1 DEF IsMatching
    <3> QED
      BY <3>1, AlignSegmentIsMatching
  <2> QED
    BY <2>1 DEF IsMatching
<1> HIDE DEF t, free
<1>4. CASE free = {}
  <2> DEFINE p == [a |-> i, b |-> 0]
  <2>1. t.pairs = Append(s.pairs, p) /\ t.used = s.used
    BY <1>2, <1>4
  <2>2. p \in Pairs /\ p.a = i /\ p.b = 0
    BY <1>0 DEF Pairs
  <2> HIDE DEF p
  <2>3. /\ t.pairs \in Seq(Pairs) /\ Len(t.pairs) = i /\ t.pairs[i] = p
        /\ \A k \in 1..i - 1 : t.pairs[k] = s.pairs[k]
    <3>1. /\ Append(s.pairs, p) \in Seq(Pairs)
          /\ Len(Append(s.pairs, p)) = Len(s.pairs) + 1
          /\ \A k \in 1..Len(s.pairs) : Append(s.pairs, p)[k] = s.pairs[k]
          /\ Append(s.pairs, p)[Len(s.pairs) + 1] = p
      BY <1>1, <2>2, AppendIs
    <3>2. Len(s.pairs) + 1 = i
      BY <1>0, <1>1
    <3> QED
      BY <1>1, <2>1, <3>1, <3>2
  <2>4. \A k \in 1..i : t.pairs[k].a = k /\ (t.pairs[k].b = 0 \/ t.pairs[k].b \in t.used)
    BY <1>0, <1>1, <2>1, <2>2, <2>3
  <2>5. \A j \in t.used : \E k \in 1..i : t.pairs[k].b = j
    BY <1>0, <1>1, <2>1, <2>3
  <2>6. ASSUME NEW j \in 1..i, NEW k \in 1..i, t.pairs[j].b = t.pairs[k].b, t.pairs[j].b # 0
        PROVE  j = k
    <3>1. j \in 1..i - 1 /\ k \in 1..i - 1
      BY <1>0, <2>2, <2>3, <2>6
    <3> QED
      BY <1>1, <2>3, <2>6, <3>1
  <2>7. ASSUME NEW k \in 1..i, t.pairs[k].b = 0, NEW j \in 1..Len(b), j \notin t.used
        PROVE  ~(Similarity(a[k], b[j]) > -100)
    <3>1. CASE k = i
      BY <1>0, <1>4, <2>1, <2>7, <3>1 DEF free, FreeFor
    <3>2. CASE k # i
      BY <1>0, <1>1, <2>1, <2>3, <2>7, <3>2
    <3> QED
      BY <3>1, <3>2
  <2>8. Matching(a, b, t, i)
    BY <1>1, <1>3, <2>1, <2>3, <2>4, <2>5, <2>6, <2>7 DEF Matching
  <2> QED
    BY <2>8 DEF t
<1>5. CASE free # {}
  <2>0. PICK best : /\ Best(a, b, i, free, best)
                    /\ t.pairs = Append(s.pairs, [a |-> i, b |-> best])
                    /\ t.used = s.used \cup {best}
    BY <1>2, <1>5
  <2> DEFINE p == [a |-> i, b |-> best]
  <2>1. best \in 1..Len(b) /\ best \notin s.used /\ best \in Nat /\ best # 0
    <3>1. best \in free
      BY <2>0 DEF Best
    <3> QED
      BY <1>0, <3>1 DEF free, FreeFor
  <2>2. p \in Pairs /\ p.a = i /\ p.b = best
    BY <1>0, <2>1 DEF Pairs
  <2> HIDE DEF p
  <2>3. /\ t.pairs \in Seq(Pairs) /\ Len(t.pairs) = i /\ t.pairs[i] = p
        /\ \A k \in 1..i - 1 : t.pairs[k] = s.pairs[k]
    <3>1. /\ Append(s.pairs, p) \in Seq(Pairs)
          /\ Len(Append(s.pairs, p)) = Len(s.pairs) + 1
          /\ \A k \in 1..Len(s.pairs) : Append(s.pairs, p)[k] = s.pairs[k]
          /\ Append(s.pairs, p)[Len(s.pairs) + 1] = p
      BY <1>1, <2>2, AppendIs
    <3>2. Len(s.pairs) + 1 = i
      BY <1>0, <1>1
    <3> QED
      BY <1>1, <2>0, <3>1, <3>2 DEF p
  <2>4. \A k \in 1..i : t.pairs[k].a = k /\ (t.pairs[k].b = 0 \/ t.pairs[k].b \in t.used)
    BY <1>0, <1>1, <2>0, <2>2, <2>3
  <2>5. \A j \in t.used : \E k \in 1..i : t.pairs[k].b = j
    BY <1>0, <1>1, <2>0, <2>2, <2>3
  <2>6. ASSUME NEW j \in 1..i, NEW k \in 1..i, t.pairs[j].b = t.pairs[k].b, t.pairs[j].b # 0
        PROVE  j = k
    <3>1. \A m \in 1..i - 1 : t.pairs[m].b # best
      BY <1>1, <2>1, <2>3, SMTT(30)
    <3>2. t.pairs[i].b = best
      BY <2>2, <2>3
    <3>3. CASE j = i
      BY <1>0, <2>6, <3>1, <3>2, <3>3
    <3>4. CASE k = i
      BY <1>0, <2>6, <3>1, <3>2, <3>4
    <3>5. CASE j # i /\ k # i
      BY <1>0, <1>1, <2>3, <2>6, <3>5, SMTT(30)
    <3> QED
      BY <3>3, <3>4, <3>5
  <2>7. ASSUME NEW k \in 1..i, t.pairs[k].b = 0, NEW j \in 1..Len(b), j \notin t.used
        PROVE  ~(Similarity(a[k], b[j]) > -100)
    <3>1. k # i
      BY <2>1, <2>2, <2>3, <2>7
    <3> QED
      BY <1>0, <1>1, <2>0, <2>3, <2>7, <3>1
  <2>8. \A j \in t.used : j \in 1..Len(b)
    BY <1>1, <2>0, <2>1
  <2>9. Matching(a, b, t, i)
    BY <1>3, <2>3, <2>4, <2>5, <2>6, <2>7, <2>8 DEF Matching
  <2> QED
    BY <2>9 DEF t
<1> QED
  BY <1>4, <1>5

LEMMA MatchedSteps ==
  ASSUME NEW a, Len(a) \in Nat, NEW b
  PROVE  /\ Matched(a, b)[0] = [pairs |-> <<>>, used |-> {}, total |-> 0]
         /\ \A i \in 1..Len(a) : Matched(a, b)[i] = AlignSegment(a, b, Matched(a, b)[i - 1], i)
<1> DEFINE c == Matched(a, b)
           none == [pairs |-> <<>>, used |-> {}, total |-> 0]
<1>1. c = [i \in 0..Len(a) |-> IF i = 0 THEN none ELSE AlignSegment(a, b, c[i - 1], i)]
  BY MatchedRecursion
<1> HIDE DEF c, none
<1>2. 0 \in 0..Len(a) /\ \A i \in 1..Len(a) : i \in 0..Len(a) /\ i # 0
  OBVIOUS
<1>3. c[0] = none /\ \A i \in 1..Len(a) : c[i] = AlignSegment(a, b, c[i - 1], i)
  BY <1>1, <1>2
<1> QED
  BY <1>3 DEF c, none

LEMMA MatchedKeeps ==
  ASSUME NEW Texts, Cosines(Texts), NEW a \in Seq(Texts), NEW b \in Seq(Texts)
  PROVE  Matching(a, b, Matched(a, b)[Len(a)], Len(a))
<1> DEFINE c == Matched(a, b)
           G == {i \in 0..Len(a) : Matching(a, b, c[i], i)}
<1>0. Len(a) \in Nat
  OBVIOUS
<1>1. /\ c[0] = [pairs |-> <<>>, used |-> {}, total |-> 0]
      /\ \A i \in 1..Len(a) : c[i] = AlignSegment(a, b, c[i - 1], i)
  BY <1>0, MatchedSteps
<1> HIDE DEF c
<1>2. 0 \in G
  <2>1. /\ c[0].pairs = <<>> /\ c[0].used = {} /\ c[0].total = 0
        /\ c[0] = [pairs |-> c[0].pairs, used |-> c[0].used, total |-> c[0].total]
    BY <1>1
  <2>2. c[0].pairs \in Seq(Pairs) /\ Len(c[0].pairs) = 0
    BY <2>1, EmptySeq
  <2>3. (\A k \in 1..0 : FALSE) /\ 0 \in 0..Len(a)
    BY <1>0
  <2>4. Matching(a, b, c[0], 0)
    BY <2>1, <2>2, <2>3 DEF Matching
  <2> QED
    BY <2>3, <2>4
<1>3. ASSUME NEW i \in 1..Len(a), i - 1 \in G PROVE i \in G
  <2>1. Matching(a, b, c[i - 1], i - 1)
    BY <1>3
  <2>2. Matching(a, b, AlignSegment(a, b, c[i - 1], i), i)
    BY <2>1, AlignSegmentKeeps
  <2>3. i \in 0..Len(a)
    BY <1>0
  <2> QED
    BY <1>1, <2>2, <2>3
<1>4. \A i \in 0..Len(a) : i \in G
  <2> HIDE DEF G
  <2> QED
    BY <1>0, <1>2, <1>3, Induction
<1> QED
  BY <1>0, <1>4 DEF c

(* Every segment is in one pair, and what is left alone on one side is     *)
(* similar to nothing that is left alone on the other.                     *)
LEMMA AlignIs ==
  ASSUME NEW Texts, Cosines(Texts), NEW a \in Seq(Texts), NEW b \in Seq(Texts)
  PROVE  LET pairs == Align(a, b).pairs
         IN  /\ pairs \in Seq(Pairs)
             /\ \A i \in 1..Len(a) : Once(pairs, {p \in Pairs : p.a = i})
             /\ \A j \in 1..Len(b) : Once(pairs, {p \in Pairs : p.b = j})
             /\ \A k, m \in 1..Len(pairs) :
                  pairs[k].b = 0 /\ pairs[m].a = 0
                    => /\ pairs[k].a \in 1..Len(a) /\ pairs[m].b \in 1..Len(b)
                       /\ ~(Similarity(a[pairs[k].a], b[pairs[m].b]) > -100)
<1> DEFINE s == Matched(a, b)[Len(a)]
           ids == [j \in DOMAIN b |-> j]
           unused == DOMAIN b \ s.used
           added == Select(ids, unused)
           alone == [k \in DOMAIN added |-> [a |-> 0, b |-> added[k]]]
           pairs == Align(a, b).pairs
<1>0. Len(a) \in Nat /\ Len(b) \in Nat /\ DOMAIN b = 1..Len(b)
  OBVIOUS
<1>1. pairs = s.pairs \o alone
  BY DEF Align
<1>2. Matching(a, b, s, Len(a))
  BY MatchedKeeps
<1> HIDE DEF s
<1>3. /\ s.pairs \in Seq(Pairs) /\ Len(s.pairs) = Len(a)
      /\ \A j \in s.used : j \in 1..Len(b)
      /\ \A k \in 1..Len(a) : s.pairs[k].a = k /\ (s.pairs[k].b = 0 \/ s.pairs[k].b \in s.used)
      /\ \A j \in s.used : \E k \in 1..Len(a) : s.pairs[k].b = j
      /\ \A j, k \in 1..Len(a) : s.pairs[j].b = s.pairs[k].b /\ s.pairs[j].b # 0 => j = k
      /\ \A k \in 1..Len(a) : s.pairs[k].b = 0 =>
           \A j \in 1..Len(b) : j \notin s.used => ~(Similarity(a[k], b[j]) > -100)
  BY <1>2 DEF Matching
<1>4. ids \in Seq(1..Len(b)) /\ Len(ids) = Len(b) /\ \A j \in 1..Len(ids) : ids[j] = j
  <2>1. ids \in [1..Len(b) -> 1..Len(b)]
    BY <1>0
  <2> QED
    BY <1>0, <2>1
<1> HIDE DEF ids
<1>5. /\ added \in Seq(1..Len(b))
      /\ \A k \in 1..Len(added) : added[k] \in 1..Len(b) /\ added[k] \notin s.used
  <2>1. added \in Seq(1..Len(b)) /\ \E f : Picks(ids, unused, Len(ids), added, f)
    BY <1>4, SelectIs
  <2> HIDE DEF added
  <2>2. PICK f : Picks(ids, unused, Len(ids), added, f)
    BY <2>1
  <2>3. \A k \in 1..Len(added) : f[k] \in 1..Len(ids) /\ f[k] \in unused /\ added[k] = ids[f[k]]
    BY <2>2 DEF Picks
  <2> QED
    BY <1>4, <2>1, <2>3
<1>6. \A j \in 1..Len(b) : j \notin s.used => Once(added, {j})
  <2> SUFFICES ASSUME NEW j \in 1..Len(b), j \notin s.used PROVE Once(added, {j})
    OBVIOUS
  <2>1. j \in 1..Len(ids) /\ \A k \in 1..Len(ids) : ids[k] \in {j} <=> k = j
    BY <1>4
  <2>2. j \in unused
    BY <1>0
  <2> HIDE DEF unused
  <2> QED
    BY <1>4, <2>1, <2>2, SelectOnce
<1> HIDE DEF added
<1>7. /\ alone \in Seq(Pairs) /\ Len(alone) = Len(added)
      /\ \A k \in 1..Len(alone) : alone[k].a = 0 /\ alone[k].b = added[k]
  <2>1. DOMAIN added = 1..Len(added) /\ Len(added) \in Nat
    BY <1>5
  <2>2. \A k \in 1..Len(added) : [a |-> 0, b |-> added[k]] \in Pairs
    BY <1>5 DEF Pairs
  <2>3. alone \in [1..Len(added) -> Pairs]
    BY <2>1, <2>2
  <2> QED
    BY <2>1, <2>3
<1> HIDE DEF alone, pairs
<1>8. pairs \in Seq(Pairs)
  BY <1>1, <1>3, <1>7, ConcatIs
<1>9. /\ \A k \in 1..Len(s.pairs) : k \in 1..Len(pairs) /\ pairs[k] = s.pairs[k]
      /\ \A k \in 1..Len(pairs) : k \in 1..Len(s.pairs) \/ \E m \in 1..Len(alone) : pairs[k] = alone[m]
  <2> DEFINE c == s.pairs
  <2>1. c \in Seq(Pairs) /\ alone \in Seq(Pairs) /\ pairs = c \o alone
    BY <1>1, <1>3, <1>7
  <2> HIDE DEF c
  <2>2. /\ \A k \in 1..Len(c) : k \in 1..Len(pairs) /\ pairs[k] = c[k]
        /\ \A k \in 1..Len(alone) : pairs[Len(c) + k] = alone[k]
        /\ \A k \in 1..Len(pairs) : k \in 1..Len(c) \/ \E m \in 1..Len(alone) : k = Len(c) + m
    BY <2>1, ConcatIs
  <2>3. \A k \in 1..Len(pairs) : k \in 1..Len(c) \/ \E m \in 1..Len(alone) : pairs[k] = alone[m]
    BY <2>2
  <2> QED
    BY <2>2, <2>3 DEF c
<1>10. \A k \in 1..Len(s.pairs) : s.pairs[k] \in Pairs
  BY <1>3
<1>11. ASSUME NEW i \in 1..Len(a) PROVE Once(pairs, {p \in Pairs : p.a = i})
  <2> DEFINE T == {p \in Pairs : p.a = i}
  <2>1. \A k \in 1..Len(s.pairs) : s.pairs[k] \in T <=> k = i
    BY <1>3, <1>10
  <2>2. Once(s.pairs, T)
    <3> HIDE DEF T
    <3> QED
      BY <1>3, <2>1 DEF Once
  <2>3. Never(alone, T)
    BY <1>0, <1>7 DEF Never
  <2> HIDE DEF T
  <2>4. Once(pairs, T)
    BY <1>1, <1>3, <1>7, <2>2, <2>3, ConcatOnce
  <2> QED
    BY <2>4 DEF T
<1>12. ASSUME NEW j \in 1..Len(b) PROVE Once(pairs, {p \in Pairs : p.b = j})
  <2> DEFINE T == {p \in Pairs : p.b = j}
  <2>0. \A k \in 1..Len(s.pairs) : s.pairs[k] \in T <=> s.pairs[k].b = j
    BY <1>10
  <2>00. \A k \in 1..Len(alone) : alone[k] \in T <=> added[k] = j
    BY <1>7
  <2> HIDE DEF T
  <2>1. CASE j \in s.used
    <3>1. PICK k \in 1..Len(a) : s.pairs[k].b = j
      BY <1>3, <2>1
    <3>2. \A m \in 1..Len(s.pairs) : s.pairs[m] \in T <=> m = k
      BY <1>0, <1>3, <2>0, <3>1
    <3>3. Once(s.pairs, T)
      BY <1>3, <3>2 DEF Once
    <3>4. Never(alone, T)
      BY <1>5, <1>7, <2>00, <2>1 DEF Never
    <3> QED
      BY <1>1, <1>3, <1>7, <3>3, <3>4, ConcatOnce DEF T
  <2>2. CASE j \notin s.used
    <3>1. Never(s.pairs, T)
      BY <1>0, <1>3, <2>0, <2>2 DEF Never
    <3>2. PICK k \in 1..Len(added) : \A m \in 1..Len(added) : added[m] \in {j} <=> m = k
      BY <1>6, <2>2 DEF Once
    <3>3. Once(alone, T)
      BY <1>7, <2>00, <3>2 DEF Once
    <3> QED
      BY <1>1, <1>3, <1>7, <3>1, <3>3, ConcatOnce DEF T
  <2> QED
    BY <2>1, <2>2
<1>13. ASSUME NEW k \in 1..Len(pairs), NEW m \in 1..Len(pairs), pairs[k].b = 0, pairs[m].a = 0
       PROVE  /\ pairs[k].a \in 1..Len(a) /\ pairs[m].b \in 1..Len(b)
              /\ ~(Similarity(a[pairs[k].a], b[pairs[m].b]) > -100)
  <2>1. k \in 1..Len(a) /\ pairs[k] = s.pairs[k]
    <3>1. ASSUME NEW i \in 1..Len(alone), pairs[k] = alone[i] PROVE FALSE
      <4>1. added[i] \in 1..Len(b) /\ alone[i].b = added[i]
        BY <1>5, <1>7
      <4> QED
        BY <1>0, <1>13, <3>1, <4>1
    <3> QED
      BY <1>3, <1>9, <3>1
  <2>2. PICK i \in 1..Len(alone) : pairs[m] = alone[i]
    <3>1. ASSUME m \in 1..Len(s.pairs) PROVE FALSE
      <4>1. pairs[m].a = m /\ m # 0
        BY <1>0, <1>3, <1>9, <3>1
      <4> QED
        BY <1>13, <4>1
    <3> QED
      BY <1>9, <3>1
  <2>3. pairs[k].a = k /\ s.pairs[k].b = 0
    BY <1>3, <1>13, <2>1
  <2>4. pairs[m].b \in 1..Len(b) /\ pairs[m].b \notin s.used
    BY <1>5, <1>7, <2>2
  <2> QED
    BY <1>3, <2>1, <2>3, <2>4
<1> QED
  BY <1>8, <1>11, <1>12, <1>13 DEF pairs

(* Every segment of both documents is in the report once or matched with   *)
(* one of the same content, however the greedy alignment goes, and what    *)
(* is reported as added is similar to nothing that is reported as removed  *)
(* (semantic_alignment_node, difference_detection_node).                   *)
THEOREM ComparisonsAreComplete ==
  ASSUME NEW Texts, Cosines(Texts)
  PROVE  \A a, b \in Seq(Texts) : SegmentsAreAccountedFor(a, b)
<1> SUFFICES ASSUME NEW a \in Seq(Texts), NEW b \in Seq(Texts) PROVE SegmentsAreAccountedFor(a, b)
  OBVIOUS
<1> DEFINE pairs == Align(a, b).pairs
           report == ToResultJson(Classify(Differences(a, b, pairs), <<>>))
           changes == report.additions \o report.deletions \o report.modifications
<1>1. /\ pairs \in Seq(Pairs)
      /\ \A i \in 1..Len(a) : Once(pairs, {p \in Pairs : p.a = i})
      /\ \A j \in 1..Len(b) : Once(pairs, {p \in Pairs : p.b = j})
      /\ \A k, m \in 1..Len(pairs) :
           pairs[k].b = 0 /\ pairs[m].a = 0
             => /\ pairs[k].a \in 1..Len(a) /\ pairs[m].b \in 1..Len(b)
                /\ ~(Similarity(a[pairs[k].a], b[pairs[m].b]) > -100)
  BY AlignIs
<1> HIDE DEF pairs
<1>2. ASSUME NEW T, Once(pairs, T)
      PROVE  /\ changes \in Seq(Changes)
             /\ Cardinality({k \in DOMAIN changes : changes[k] \in About(T)})
                + Cardinality({k \in DOMAIN pairs : pairs[k] \in T /\ ~Differs(a, b, pairs[k])}) = 1
  <2>1. pairs \in Seq(Pairs)
    BY <1>1
  <2> QED
    BY <1>2, <2>1, PairIsAccountedFor, ZenonT(30)
<1>3. DOMAIN a = 1..Len(a) /\ DOMAIN b = 1..Len(b) /\ \A k \in DOMAIN pairs : pairs[k] \in Pairs
  BY <1>1
<1>4. \A i \in DOMAIN a : Cardinality({k \in DOMAIN changes : changes[k].a = i})
        + Cardinality({k \in DOMAIN pairs : pairs[k].a = i /\ ~Differs(a, b, pairs[k])}) = 1
  <2> SUFFICES ASSUME NEW i \in DOMAIN a
               PROVE  Cardinality({k \in DOMAIN changes : changes[k].a = i})
                        + Cardinality({k \in DOMAIN pairs : pairs[k].a = i /\ ~Differs(a, b, pairs[k])}) = 1
    OBVIOUS
  <2> DEFINE T == {p \in Pairs : p.a = i}
  <2> HIDE DEF changes
  <2>1. changes \in Seq(Changes)
        /\ Cardinality({k \in DOMAIN changes : changes[k] \in About(T)})
           + Cardinality({k \in DOMAIN pairs : pairs[k] \in T /\ ~Differs(a, b, pairs[k])}) = 1
    <3>1. Once(pairs, T)
      BY <1>1, <1>3
    <3> HIDE DEF T
    <3> QED
      BY <1>2, <3>1
  <2>2. \A k \in DOMAIN changes : changes[k] \in About(T) <=> changes[k].a = i
    <3>1. \A k \in DOMAIN changes : changes[k] \in Changes
      BY <2>1
    <3> QED
      BY <3>1 DEF About, Changes, Pairs
  <2>3. {k \in DOMAIN changes : changes[k] \in About(T)} = {k \in DOMAIN changes : changes[k].a = i}
    <3> HIDE DEF T
    <3> QED
      BY <2>2
  <2>4. {k \in DOMAIN pairs : pairs[k] \in T /\ ~Differs(a, b, pairs[k])}
          = {k \in DOMAIN pairs : pairs[k].a = i /\ ~Differs(a, b, pairs[k])}
    BY <1>3
  <2> QED
    BY <2>1, <2>3, <2>4
<1>5. \A j \in DOMAIN b : Cardinality({k \in DOMAIN changes : changes[k].b = j})
        + Cardinality({k \in DOMAIN pairs : pairs[k].b = j /\ ~Differs(a, b, pairs[k])}) = 1
  <2> SUFFICES ASSUME NEW j \in DOMAIN b
               PROVE  Cardinality({k \in DOMAIN changes : changes[k].b = j})
                        + Cardinality({k \in DOMAIN pairs : pairs[k].b = j /\ ~Differs(a, b, pairs[k])}) = 1
    OBVIOUS
  <2> DEFINE T == {p \in Pairs : p.b = j}
  <2> HIDE DEF changes
  <2>1. changes \in Seq(Changes)
        /\ Cardinality({k \in DOMAIN changes : changes[k] \in About(T)})
           + Cardinality({k \in DOMAIN pairs : pairs[k] \in T /\ ~Differs(a, b, pairs[k])}) = 1
    <3>1. Once(pairs, T)
      BY <1>1, <1>3
    <3> HIDE DEF T
    <3> QED
      BY <1>2, <3>1
  <2>2. \A k \in DOMAIN changes : changes[k] \in About(T) <=> changes[k].b = j
    <3>1. \A k \in DOMAIN changes : changes[k] \in Changes
      BY <2>1
    <3> QED
      BY <3>1 DEF About, Changes, Pairs
  <2>3. {k \in DOMAIN changes : changes[k] \in About(T)} = {k \in DOMAIN changes : changes[k].b = j}
    <3> HIDE DEF T
    <3> QED
      BY <2>2
  <2>4. {k \in DOMAIN pairs : pairs[k] \in T /\ ~Differs(a, b, pairs[k])}
          = {k \in DOMAIN pairs : pairs[k].b = j /\ ~Differs(a, b, pairs[k])}
    BY <1>3
  <2> QED
    BY <2>1, <2>3, <2>4
<1>6. ASSUME NEW k \in DOMAIN report.additions, NEW i \in DOMAIN report.deletions
      PROVE  Similarity(a[report.deletions[i].a], b[report.additions[k].b]) = -100
  <2> DEFINE found == Classify(Differences(a, b, pairs), <<>>)
             different == Select(pairs, {m \in DOMAIN pairs : Differs(a, b, pairs[m])})
  <2>1. /\ different \in Seq(Pairs) /\ found \in Seq(Changes) /\ Len(found) = Len(different)
        /\ \A m \in 1..Len(found) : /\ found[m].type = TypeOf(different[m])
                                    /\ found[m].a = different[m].a /\ found[m].b = different[m].b
    BY <1>1, ChangesAre
  <2>2. /\ report.additions = Select(found, {m \in DOMAIN found : found[m].type = "addition"})
        /\ report.deletions = Select(found, {m \in DOMAIN found : found[m].type = "deletion"})
    BY DEF ToResultJson
  <2> HIDE DEF report, found
  <2>3. PICK m \in 1..Len(pairs) : TypeOf(pairs[m]) = "addition" /\ pairs[m].b = report.additions[k].b
    <3> DEFINE I == {m \in DOMAIN found : found[m].type = "addition"}
    <3>1. k \in 1..Len(report.additions) /\ \E f : Picks(found, I, Len(found), report.additions, f)
      <4>1. Select(found, I) \in Seq(Changes) /\ \E f : Picks(found, I, Len(found), Select(found, I), f)
        BY <2>1, SelectIs
      <4>2. report.additions = Select(found, I)
        BY <2>2
      <4> HIDE DEF I
      <4>3. report.additions \in Seq(Changes)
        BY <4>1, <4>2
      <4> QED
        BY <1>6, <4>1, <4>2, <4>3
    <3>2. PICK f : Picks(found, I, Len(found), report.additions, f)
      BY <3>1
    <3>3. /\ f[k] \in 1..Len(found) /\ found[f[k]].type = "addition"
          /\ report.additions[k] = found[f[k]]
      BY <3>1, <3>2 DEF Picks
    <3>4. \E g : Picks(pairs, {n \in DOMAIN pairs : Differs(a, b, pairs[n])}, Len(pairs), different, g)
      BY <1>1, SelectIs
    <3>5. PICK g : Picks(pairs, {n \in DOMAIN pairs : Differs(a, b, pairs[n])}, Len(pairs), different, g)
      BY <3>4
    <3> HIDE DEF different
    <3>6. f[k] \in 1..Len(different)
      BY <2>1, <3>3
    <3>7. g[f[k]] \in 1..Len(pairs) /\ different[f[k]] = pairs[g[f[k]]]
      BY <3>5, <3>6 DEF Picks
    <3> QED
      BY <2>1, <3>3, <3>7
  <2>4. PICK n \in 1..Len(pairs) : TypeOf(pairs[n]) = "deletion" /\ pairs[n].a = report.deletions[i].a
    <3> DEFINE I == {n \in DOMAIN found : found[n].type = "deletion"}
    <3>1. i \in 1..Len(report.deletions) /\ \E f : Picks(found, I, Len(found), report.deletions, f)
      <4>1. Select(found, I) \in Seq(Changes) /\ \E f : Picks(found, I, Len(found), Select(found, I), f)
        BY <2>1, SelectIs
      <4>2. report.deletions = Select(found, I)
        BY <2>2
      <4> HIDE DEF I
      <4>3. report.deletions \in Seq(Changes)
        BY <4>1, <4>2
      <4> QED
        BY <1>6, <4>1, <4>2, <4>3
    <3>2. PICK f : Picks(found, I, Len(found), report.deletions, f)
      BY <3>1
    <3>3. /\ f[i] \in 1..Len(found) /\ found[f[i]].type = "deletion"
          /\ report.deletions[i] = found[f[i]]
      BY <3>1, <3>2 DEF Picks
    <3>4. \E g : Picks(pairs, {n \in DOMAIN pairs : Differs(a, b, pairs[n])}, Len(pairs), different, g)
      BY <1>1, SelectIs
    <3>5. PICK g : Picks(pairs, {n \in DOMAIN pairs : Differs(a, b, pairs[n])}, Len(pairs), different, g)
      BY <3>4
    <3> HIDE DEF different
    <3>6. f[i] \in 1..Len(different)
      BY <2>1, <3>3
    <3>7. g[f[i]] \in 1..Len(pairs) /\ different[f[i]] = pairs[g[f[i]]]
      BY <3>5, <3>6 DEF Picks
    <3> QED
      BY <2>1, <3>3, <3>7
  <2>5. pairs[m].a = 0 /\ pairs[n].b = 0
    BY <2>3, <2>4 DEF TypeOf
  <2>6. /\ pairs[n].a \in 1..Len(a) /\ pairs[m].b \in 1..Len(b)
        /\ ~(Similarity(a[pairs[n].a], b[pairs[m].b]) > -100)
    BY <1>1, <2>5
  <2>7. a[pairs[n].a] \in Texts /\ b[pairs[m].b] \in Texts
    BY <2>6
  <2>8. Similarity(a[pairs[n].a], b[pairs[m].b]) \in -100..100
    BY <2>7 DEF Cosines
  <2>9. Similarity(a[pairs[n].a], b[pairs[m].b]) = -100
    <3> DEFINE v == Similarity(a[pairs[n].a], b[pairs[m].b])
    <3>1. v \in -100..100 /\ ~(v > -100)
      BY <2>6, <2>8
    <3> HIDE DEF v
    <3>2. v = -100
      BY <3>1
    <3> QED
      BY <3>2 DEF v
  <2> QED
    BY <2>3, <2>4, <2>9
<1> HIDE DEF report, changes
<1>7. SegmentsAreAccountedFor(a, b)
  <2> USE DEF pairs, report, changes
  <2> QED
    BY <1>4, <1>5, <1>6 DEF SegmentsAreAccountedFor
<1> QED
  BY <1>7

-------------------------------------------------------------------------------
(* A document that is compared with itself.                                *)

(* After the first i segments each of them is matched with itself.         *)
Itself(a, s, i) ==
  /\ IsMatching(s)
  /\ s.pairs \in Seq(Pairs) /\ Len(s.pairs) = i
  /\ s.used = 1..i /\ s.total = 100 * i
  /\ \A k \in 1..i : s.pairs[k] = [a |-> k, b |-> k]

LEMMA ItselfIsBest ==
  ASSUME NEW Texts, Cosines(Texts), \A x \in Texts : Similarity(x, x) = 100,
         NEW a \in Seq(Texts), NEW i \in 1..Len(a), NEW s, s.used = 1..i - 1
  PROVE  /\ FreeFor(a, a, s, i) # {}
         /\ \A j : Best(a, a, i, FreeFor(a, a, s, i), j) => j = i
<1> DEFINE free == FreeFor(a, a, s, i)
<1>0. i \in Nat /\ DOMAIN a = 1..Len(a) /\ a[i] \in Texts /\ Len(a) \in Nat
  OBVIOUS
<1>1. i \in free
  <2>1. Similarity(a[i], a[i]) > -100
    BY <1>0
  <2>2. i \notin 1..i - 1
    BY <1>0
  <2> QED
    BY <1>0, <2>1, <2>2 DEF FreeFor
<1>2. ASSUME NEW j, Best(a, a, i, free, j) PROVE j = i
  <2>1. j \in 1..Len(a) /\ j \notin 1..i - 1 /\ j \in free
    BY <1>0, <1>2 DEF Best, FreeFor
  <2>2. a[j] \in Texts
    BY <2>1
  <2>3. Similarity(a[i], a[j]) \in -100..100 /\ Similarity(a[i], a[i]) = 100
    BY <1>0, <2>2 DEF Cosines
  <2>4. \/ Similarity(a[i], a[j]) > Similarity(a[i], a[i])
        \/ Similarity(a[i], a[j]) = Similarity(a[i], a[i]) /\ j <= i
    <3> HIDE DEF free
    <3> QED
      BY <1>1, <1>2 DEF Best
  <2> DEFINE v == Similarity(a[i], a[j])
  <2>5. v \in -100..100 /\ (v > 100 \/ j <= i)
    BY <2>3, <2>4
  <2> HIDE DEF v
  <2>6. j <= i
    BY <2>5
  <2> QED
    BY <1>0, <2>1, <2>6
<1> QED
  BY <1>1, <1>2

LEMMA AlignItself ==
  ASSUME NEW Texts, Cosines(Texts), \A x \in Texts : Similarity(x, x) = 100,
         NEW a \in Seq(Texts), NEW i \in 1..Len(a), NEW s, Itself(a, s, i - 1)
  PROVE  Itself(a, AlignSegment(a, a, s, i), i)
<1> DEFINE t == AlignSegment(a, a, s, i)
           p == [a |-> i, b |-> i]
<1>0. i \in Nat /\ i >= 1 /\ a[i] \in Texts
  OBVIOUS
<1>1. /\ IsMatching(s) /\ s.pairs \in Seq(Pairs) /\ Len(s.pairs) = i - 1
      /\ s.used = 1..i - 1 /\ s.total = 100 * (i - 1)
      /\ \A k \in 1..i - 1 : s.pairs[k] = [a |-> k, b |-> k]
  BY DEF Itself
<1>2. /\ FreeFor(a, a, s, i) # {}
      /\ \A j : Best(a, a, i, FreeFor(a, a, s, i), j) => j = i
  BY <1>1, ItselfIsBest
<1>3. Aligns(a, a, s, i, t)
  BY <1>1, AlignSegmentIs
<1>4. IsMatching(t)
  BY <1>1, AlignSegmentIsMatching
<1> HIDE DEF t
<1>5. t.pairs = Append(s.pairs, p) /\ t.used = s.used \cup {i} /\ t.total = s.total + Similarity(a[i], a[i])
  BY <1>2, <1>3 DEF Aligns
<1>6. p \in Pairs
  BY <1>0 DEF Pairs
<1> HIDE DEF p
<1>7. /\ t.pairs \in Seq(Pairs) /\ Len(t.pairs) = i /\ t.pairs[i] = p
      /\ \A k \in 1..i - 1 : t.pairs[k] = s.pairs[k]
  <2>1. /\ Append(s.pairs, p) \in Seq(Pairs)
        /\ Len(Append(s.pairs, p)) = Len(s.pairs) + 1
        /\ \A k \in 1..Len(s.pairs) : Append(s.pairs, p)[k] = s.pairs[k]
        /\ Append(s.pairs, p)[Len(s.pairs) + 1] = p
    BY <1>1, <1>6, AppendIs
  <2>2. Len(s.pairs) + 1 = i
    BY <1>0, <1>1
  <2> QED
    BY <1>1, <1>5, <2>1, <2>2
<1>8. t.used = 1..i
  BY <1>0, <1>1, <1>5
<1>9. t.total = 100 * i
  BY <1>0, <1>1, <1>5
<1>10. \A k \in 1..i : t.pairs[k] = [a |-> k, b |-> k]
  <2> SUFFICES ASSUME NEW k \in 1..i PROVE t.pairs[k] = [a |-> k, b |-> k]
    OBVIOUS
  <2>1. CASE k = i
    BY <1>7, <2>1 DEF p
  <2>2. CASE k # i
    <3>1. k \in 1..i - 1
      BY <1>0, <2>2
    <3> QED
      BY <1>1, <1>7, <3>1
  <2> QED
    BY <2>1, <2>2
<1> QED
  BY <1>4, <1>7, <1>8, <1>9, <1>10 DEF Itself, t

LEMMA MatchedItself ==
  ASSUME NEW Texts, Cosines(Texts), \A x \in Texts : Similarity(x, x) = 100, NEW a \in Seq(Texts)
  PROVE  Itself(a, Matched(a, a)[Len(a)], Len(a))
<1> DEFINE c == Matched(a, a)
           G == {i \in 0..Len(a) : Itself(a, c[i], i)}
<1>0. Len(a) \in Nat
  OBVIOUS
<1>1. /\ c[0] = [pairs |-> <<>>, used |-> {}, total |-> 0]
      /\ \A i \in 1..Len(a) : c[i] = AlignSegment(a, a, c[i - 1], i)
  BY <1>0, MatchedSteps
<1> HIDE DEF c
<1>2. 0 \in G
  <2>1. c[0].pairs = <<>> /\ c[0].used = {} /\ c[0].total = 0 /\ IsMatching(c[0])
    BY <1>1 DEF IsMatching
  <2>2. c[0].pairs \in Seq(Pairs) /\ Len(c[0].pairs) = 0
    BY <2>1, EmptySeq
  <2>3. 1..0 = {} /\ 0 \in 0..Len(a) /\ 100 * 0 = 0
    BY <1>0
  <2>4. Itself(a, c[0], 0)
    BY <2>1, <2>2, <2>3 DEF Itself
  <2> QED
    BY <2>3, <2>4
<1>3. ASSUME NEW i \in 1..Len(a), i - 1 \in G PROVE i \in G
  <2>1. Itself(a, c[i - 1], i - 1)
    BY <1>3
  <2>2. Itself(a, AlignSegment(a, a, c[i - 1], i), i)
    BY <2>1, AlignItself
  <2>3. i \in 0..Len(a)
    BY <1>0
  <2> QED
    BY <1>1, <2>2, <2>3
<1>4. \A i \in 0..Len(a) : i \in G
  <2> HIDE DEF G
  <2> QED
    BY <1>0, <1>2, <1>3, Induction
<1> QED
  BY <1>0, <1>4 DEF c

LEMMA SelectOfNone == ASSUME NEW indices PROVE Select(<<>>, indices) = <<>>
<1>1. <<>> \in Seq(Nat) /\ Len(<<>>) = 0
  BY EmptySeq
<1>2. \A i \in 1..Len(<<>>) : i \notin indices
  BY <1>1
<1> QED
  BY <1>1, <1>2, SelectNone

(* The report on no differences.                                           *)
LEMMA NoDifferences ==
  ASSUME NEW categories
  PROVE  ToResultJson(Classify(<<>>, categories)) = NoReport
<1>1. Classify(<<>>, categories) = <<>>
  BY DEF Classify
<1>2. \A indices : Select(<<>>, indices) = <<>>
  BY SelectOfNone
<1> QED
  BY <1>1, <1>2 DEF ToResultJson, NoReport

LEMMA AlignedItself ==
  ASSUME NEW Texts, Cosines(Texts), \A x \in Texts : Similarity(x, x) = 100, NEW a \in Seq(Texts),
         Len(a) >= 1
  PROVE  /\ Align(a, a).confident
         /\ Differences(a, a, Align(a, a).pairs) = <<>>
<1> DEFINE s == Matched(a, a)[Len(a)]
           ids == [j \in DOMAIN a |-> j]
           added == Select(ids, DOMAIN a \ s.used)
           alone == [k \in DOMAIN added |-> [a |-> 0, b |-> added[k]]]
           n == Len(a)
<1>0. n \in Nat /\ n >= 1 /\ DOMAIN a = 1..n
  OBVIOUS
<1>1. /\ Align(a, a).pairs = s.pairs \o alone
      /\ Align(a, a).confident = IF s.used = {} THEN Threshold = 0
                                 ELSE s.total >= Threshold * Cardinality(s.used)
  BY DEF Align
<1>2. Itself(a, s, n)
  BY MatchedItself
<1> HIDE DEF s, n
<1>3. /\ s.pairs \in Seq(Pairs) /\ Len(s.pairs) = n /\ s.used = 1..n /\ s.total = 100 * n
      /\ \A k \in 1..n : s.pairs[k] = [a |-> k, b |-> k]
  BY <1>2 DEF Itself
<1>4. added = <<>>
  <2>1. ids \in [1..n -> Nat] /\ DOMAIN a \ s.used = {}
    BY <1>0, <1>3
  <2> HIDE DEF ids
  <2>2. ids \in Seq(Nat)
    BY <1>0, <2>1
  <2> QED
    BY <2>1, <2>2, SelectNone
<1> HIDE DEF added
<1>5. alone = <<>>
  BY <1>4
<1> HIDE DEF alone
<1>6. Align(a, a).pairs = s.pairs
  BY <1>1, <1>3, <1>5
<1>7. Align(a, a).confident
  <2>1. s.used # {} /\ Cardinality(s.used) = n
    <3>1. Cardinality(1..n) = n
      <4>1. 1 \in Int /\ n \in Int /\ ~(1 > n) /\ n - 1 + 1 = n
        BY <1>0
      <4> QED
        BY <4>1, FS_Interval
    <3>2. 1 \in 1..n
      BY <1>0
    <3> QED
      BY <1>3, <3>1, <3>2
  <2>2. Threshold \in 0..100
    BY AnalysisGraphsAssumption DEF AnalysisGraphsAssumption
  <2>3. 100 * n >= Threshold * n
    BY <1>0, <2>2
  <2> QED
    BY <1>1, <1>3, <2>1, <2>3
<1>8. Select(s.pairs, {k \in DOMAIN s.pairs : Differs(a, a, s.pairs[k])}) = <<>>
  <2>1. ASSUME NEW k \in 1..Len(s.pairs) PROVE ~Differs(a, a, s.pairs[k])
    <3>0. k \in 1..n /\ k # 0
      BY <1>0, <1>3
    <3>1. s.pairs[k] = [a |-> k, b |-> k]
      BY <1>3, <3>0
    <3>2. s.pairs[k].a = k /\ s.pairs[k].b = k
      BY <3>1
    <3> QED
      BY <3>0, <3>2 DEF Differs
  <2> DEFINE D == {k \in DOMAIN s.pairs : Differs(a, a, s.pairs[k])}
  <2>2. \A k \in 1..Len(s.pairs) : k \notin D
    BY <2>1
  <2> HIDE DEF D
  <2>3. Select(s.pairs, D) = <<>>
    BY <1>3, <2>2, SelectNone
  <2> QED
    BY <2>3 DEF D
<1>9. Differences(a, a, s.pairs) = <<>>
  <2> DEFINE different == Select(s.pairs, {k \in DOMAIN s.pairs : Differs(a, a, s.pairs[k])})
  <2>1. Differences(a, a, s.pairs) = [k \in DOMAIN different |->
                                       [type |-> TypeOf(different[k]), a |-> different[k].a,
                                        b |-> different[k].b]]
    BY DEF Differences
  <2>2. different = <<>>
    BY <1>8
  <2> HIDE DEF different
  <2> QED
    BY <2>1, <2>2
<1> QED
  BY <1>6, <1>7, <1>9

(* A document compared with itself has no changes, and asks no model       *)
(* (run_comparison).                                                       *)
THEOREM ItselfIsTheSame ==
  ASSUME NEW Texts, Cosines(Texts), \A x \in Texts : Similarity(x, x) = 100
  PROVE  \A a \in Seq(Texts) : ItselfIsUnchanged(a)
<1> SUFFICES ASSUME NEW a \in Seq(Texts), \E i \in DOMAIN a : a[i] # Blank
             PROVE  Compare(a, a, 0, [end |-> "error"])
                      = [end |-> "completed", report |-> NoReport, calls |-> <<>>]
  BY DEF ItselfIsUnchanged
<1> DEFINE alignment == Align(a, a)
           differences == Differences(a, a, alignment.pairs)
           asked == Cardinality({k \in DOMAIN differences : differences[k].type = "modification"})
           described == [k \in 1..(IF asked <= 0 THEN asked ELSE 0 + 1) |->
                           Call("generate", IF k <= 0 THEN "ok" ELSE "error")]
           classified == IF differences = <<>> THEN <<>> ELSE <<Call("structured", "error")>>
<1>1. Len(a) >= 1
  OBVIOUS
<1>2. alignment.confident /\ differences = <<>>
  BY <1>1, AlignedItself
<1>3. asked = 0
  <2>1. {k \in DOMAIN differences : differences[k].type = "modification"} = {}
    BY <1>2
  <2> QED
    BY <2>1, FS_EmptySet
<1>4. Compare(a, a, 0, [end |-> "error"]) =
        IF asked > 0 THEN [end |-> "raised", report |-> NoReport, calls |-> described]
        ELSE IF differences # <<>>
             THEN [end |-> "raised", report |-> NoReport, calls |-> described \o classified]
        ELSE [end |-> "completed", report |-> ToResultJson(Classify(differences, <<>>)),
              calls |-> described \o classified]
  BY <1>2 DEF Compare
<1> HIDE DEF asked, differences
<1>5. described = <<>> /\ classified = <<>>
  BY <1>2, <1>3
<1> HIDE DEF described, classified
<1>6. described \o classified = <<>>
  BY <1>5
<1>7. ToResultJson(Classify(differences, <<>>)) = NoReport
  BY <1>2, NoDifferences
<1> QED
  BY <1>2, <1>3, <1>4, <1>6, <1>7

-------------------------------------------------------------------------------
(* The calls of a comparison.                                              *)

Calls == [kind : {"generate", "structured"}, end : {"ok", "invalid", "error"}]

LEMMA CallIs ==
  ASSUME NEW kind \in {"generate", "structured"}, NEW end \in {"ok", "invalid", "error"}
  PROVE  /\ Call(kind, end) \in Calls
         /\ Call(kind, end).kind = kind /\ Call(kind, end).end = end
         /\ end # "error" => Recorded(Call(kind, end))
         /\ kind = "generate" => Recorded(Call(kind, end))
  BY DEF Call, Calls, Recorded

(* No call of these failed.                                                *)
Answered(calls) == \A k \in 1..Len(calls) : calls[k].end # "error" /\ Recorded(calls[k])

(* None but the last one.                                                  *)
AnsweredButLast(calls) ==
  \A k \in 1..Len(calls) : calls[k].end = "error" \/ ~Recorded(calls[k]) => k = Len(calls)

LEMMA AnsweredThen ==
  ASSUME NEW S, NEW c \in Seq(S), NEW d \in Seq(S), Answered(c)
  PROVE  /\ c \o d \in Seq(S) /\ Len(c \o d) = Len(c) + Len(d)
         /\ Answered(d) => Answered(c \o d)
         /\ AnsweredButLast(d) => AnsweredButLast(c \o d)
<1> DEFINE e == c \o d
<1>1. /\ e \in Seq(S) /\ Len(c) \in Nat /\ Len(d) \in Nat /\ Len(e) = Len(c) + Len(d)
      /\ \A k \in 1..Len(c) : e[k] = c[k]
      /\ \A k \in 1..Len(d) : e[Len(c) + k] = d[k]
      /\ \A k \in 1..Len(e) : k \in 1..Len(c) \/ \E j \in 1..Len(d) : k = Len(c) + j
  BY ConcatIs
<1> HIDE DEF e
<1>2. ASSUME NEW k \in 1..Len(e)
      PROVE  \/ e[k].end # "error" /\ Recorded(e[k])
             \/ \E j \in 1..Len(d) : k = Len(c) + j /\ e[k] = d[j]
  <2>1. CASE k \in 1..Len(c)
    BY <1>1, <2>1 DEF Answered
  <2>2. CASE k \notin 1..Len(c)
    BY <1>1, <2>2
  <2> QED
    BY <2>1, <2>2
<1>3. ASSUME Answered(d) PROVE Answered(e)
  BY <1>2, <1>3 DEF Answered
<1>4. ASSUME AnsweredButLast(d) PROVE AnsweredButLast(e)
  <2> SUFFICES ASSUME NEW k \in 1..Len(e), e[k].end = "error" \/ ~Recorded(e[k]) PROVE k = Len(e)
    BY DEF AnsweredButLast
  <2>1. PICK j \in 1..Len(d) : k = Len(c) + j /\ e[k] = d[j]
    BY <1>2
  <2>2. j = Len(d)
    BY <1>4, <2>1 DEF AnsweredButLast
  <2> QED
    BY <1>1, <2>1, <2>2
<1> QED
  BY <1>1, <1>3, <1>4 DEF e

LEMMA NoCalls == <<>> \in Seq(Calls) /\ Answered(<<>>) /\ AnsweredButLast(<<>>)
<1>1. <<>> \in Seq(Calls) /\ Len(<<>>) = 0
  BY EmptySeq
<1>2. \A k \in 1..0 : FALSE
  OBVIOUS
<1> QED
  BY <1>1, <1>2 DEF Answered, AnsweredButLast

LEMMA OneCall ==
  ASSUME NEW kind \in {"generate", "structured"}, NEW end \in {"ok", "invalid", "error"}
  PROVE  /\ <<Call(kind, end)>> \in Seq(Calls)
         /\ AnsweredButLast(<<Call(kind, end)>>)
         /\ end # "error" => Answered(<<Call(kind, end)>>)
<1> DEFINE call == Call(kind, end)
<1>1. call \in Calls /\ call.end = end /\ (end # "error" => Recorded(call))
  BY CallIs
<1> HIDE DEF call
<1>2. <<call>> \in Seq(Calls) /\ Len(<<call>>) = 1 /\ <<call>>[1] = call
  BY <1>1
<1>3. \A k \in 1..Len(<<call>>) : k = 1
  BY <1>2
<1> QED
  BY <1>1, <1>2, <1>3 DEF Answered, AnsweredButLast, call

LEMMA CallsLeaveRowsIf ==
  ASSUME NEW outcome, outcome.calls \in Seq(Calls),
         \/ Answered(outcome.calls)
         \/ AnsweredButLast(outcome.calls) /\ outcome.end = "raised"
  PROVE  CallsLeaveRows(outcome)
<1>1. DOMAIN outcome.calls = 1..Len(outcome.calls)
  OBVIOUS
<1> QED
  BY <1>1 DEF CallsLeaveRows, Answered, AnsweredButLast

LEMMA DifferencesAre ==
  ASSUME NEW a, NEW b, NEW pairs \in Seq(Pairs)
  PROVE  /\ DOMAIN Differences(a, b, pairs) = 1..Len(Differences(a, b, pairs))
         /\ Len(Differences(a, b, pairs)) \in Nat
<1> DEFINE different == Select(pairs, {k \in DOMAIN pairs : Differs(a, b, pairs[k])})
           d == Differences(a, b, pairs)
           difference(p) == [type |-> TypeOf(p), a |-> p.a, b |-> p.b]
<1>1. different \in Seq(Pairs)
  BY SelectIs
<1>2. d = [k \in DOMAIN different |-> difference(different[k])]
  BY DEF Differences
<1> HIDE DEF different, d, difference
<1>3. DOMAIN different = 1..Len(different) /\ Len(different) \in Nat
  BY <1>1
<1>4. DOMAIN d = 1..Len(different)
  BY <1>2, <1>3
<1>5. Len(d) = Len(different)
  BY <1>2, <1>3
<1> QED
  BY <1>3, <1>4, <1>5 DEF d

(* Whatever a comparison's calls answer, an error that escapes is that of  *)
(* its last one, and every other one has its row (run_comparison).         *)
THEOREM ComparisonsLeaveRows ==
  ASSUME NEW Texts, Cosines(Texts), NEW a \in Seq(Texts), NEW b \in Seq(Texts),
         NEW describing \in Nat, NEW labels, labels.end \in {"ok", "invalid", "error"}
  PROVE  CallsLeaveRows(Compare(a, b, describing, labels))
<1> DEFINE outcome == Compare(a, b, describing, labels)
           HasText(segments) == \E i \in DOMAIN segments : segments[i] # Blank
           alignment == Align(a, b)
           differences == Differences(a, b, alignment.pairs)
           asked == Cardinality({k \in DOMAIN differences : differences[k].type = "modification"})
           n == IF asked <= describing THEN asked ELSE describing + 1
           described == [k \in 1..n |-> Call("generate", IF k <= describing THEN "ok" ELSE "error")]
           classified == IF differences = <<>> THEN <<>> ELSE <<Call("structured", labels.end)>>
           categories == IF labels.end = "ok" THEN labels.categories ELSE <<>>
           result == ToResultJson(Classify(differences, categories))
<1>1. \/ outcome = [end |-> "failed", report |-> NoReport, calls |-> <<>>]
      \/ outcome = [end |-> "degraded", report |-> NoReport, calls |-> <<>>]
      \/ /\ asked > describing
         /\ outcome = [end |-> "raised", report |-> NoReport, calls |-> described]
      \/ /\ ~(asked > describing) /\ differences # <<>> /\ labels.end = "error"
         /\ outcome = [end |-> "raised", report |-> NoReport, calls |-> described \o classified]
      \/ /\ ~(asked > describing) /\ ~(differences # <<>> /\ labels.end = "error")
         /\ outcome = [end |-> "completed", report |-> result, calls |-> described \o classified]
  <2> DEFINE missing == ~HasText(a) \/ ~HasText(b)
  <2>1. outcome =
          IF missing THEN [end |-> "failed", report |-> NoReport, calls |-> <<>>]
          ELSE IF ~alignment.confident THEN [end |-> "degraded", report |-> NoReport, calls |-> <<>>]
          ELSE IF asked > describing THEN [end |-> "raised", report |-> NoReport, calls |-> described]
          ELSE IF differences # <<>> /\ labels.end = "error"
               THEN [end |-> "raised", report |-> NoReport, calls |-> described \o classified]
          ELSE [end |-> "completed", report |-> result, calls |-> described \o classified]
    BY DEF Compare
  <2> HIDE DEF outcome, missing, alignment, differences, asked, described, classified, result
  <2> QED
    BY <2>1
<1>2. asked \in Nat
  <2>1. alignment.pairs \in Seq(Pairs)
    BY AlignIs
  <2> HIDE DEF alignment
  <2>2. DOMAIN differences = 1..Len(differences) /\ Len(differences) \in Nat
    BY <2>1, DifferencesAre
  <2>3. IsFiniteSet(1..Len(differences))
    BY <2>2, FS_Interval
  <2> DEFINE M == {k \in DOMAIN differences : differences[k].type = "modification"}
  <2>4. M \subseteq 1..Len(differences)
    BY <2>2
  <2> HIDE DEF M, differences
  <2>5. IsFiniteSet(M)
    BY <2>3, <2>4, FS_Subset
  <2>6. Cardinality(M) \in Nat
    BY <2>5, FS_CardinalityType
  <2> QED
    BY <2>6 DEF M
<1> HIDE DEF outcome, asked, differences, result
<1>3. /\ described \in Seq(Calls) /\ AnsweredButLast(described)
      /\ ~(asked > describing) => Answered(described)
  <2> DEFINE call(k) == Call("generate", IF k <= describing THEN "ok" ELSE "error")
  <2>1. \A k : call(k) \in Calls /\ Recorded(call(k)) /\ call(k).end = IF k <= describing THEN "ok" ELSE "error"
    BY CallIs
  <2>2. n \in Nat /\ n <= describing + 1 /\ (~(asked > describing) => n <= describing)
    BY <1>2
  <2> HIDE DEF n
  <2>3. described = [k \in 1..n |-> call(k)]
    OBVIOUS
  <2> HIDE DEF call, described
  <2>4. described \in [1..n -> Calls]
    BY <2>1, <2>3
  <2>5. described \in Seq(Calls) /\ Len(described) = n
    BY <2>2, <2>3, <2>4
  <2>6. \A k \in 1..n : described[k] = call(k)
    BY <2>3
  <2>7. AnsweredButLast(described)
    <3> SUFFICES ASSUME NEW k \in 1..n, described[k].end = "error" \/ ~Recorded(described[k])
                 PROVE  k = n
      BY <2>5 DEF AnsweredButLast
    <3>1. ~(k <= describing)
      BY <2>1, <2>6
    <3> QED
      BY <2>2, <3>1
  <2>8. ASSUME ~(asked > describing) PROVE Answered(described)
    <3> SUFFICES ASSUME NEW k \in 1..n PROVE described[k].end # "error" /\ Recorded(described[k])
      BY <2>5 DEF Answered
    <3>1. k <= describing
      BY <2>2, <2>8
    <3> QED
      BY <2>1, <2>6, <3>1
  <2> QED
    BY <2>5, <2>7, <2>8
<1>4. /\ classified \in Seq(Calls) /\ AnsweredButLast(classified)
      /\ ~(differences # <<>> /\ labels.end = "error") => Answered(classified)
  <2>1. CASE differences = <<>>
    BY <2>1, NoCalls
  <2>2. CASE differences # <<>>
    <3>1. classified = <<Call("structured", labels.end)>>
      BY <2>2
    <3> HIDE DEF classified
    <3> QED
      BY <2>2, <3>1, OneCall
  <2> QED
    BY <2>1, <2>2
<1> HIDE DEF described, classified
<1>5. CASE outcome.calls = <<>>
  BY <1>5, NoCalls, CallsLeaveRowsIf DEF outcome
<1>6. CASE outcome.end = "raised" /\ outcome.calls = described
  BY <1>3, <1>6, CallsLeaveRowsIf DEF outcome
<1>7. CASE ~(asked > describing) /\ outcome.end = "raised" /\ outcome.calls = described \o classified
  <2>1. outcome.calls \in Seq(Calls) /\ AnsweredButLast(outcome.calls)
    BY <1>3, <1>4, <1>7, AnsweredThen
  <2> QED
    BY <1>7, <2>1, CallsLeaveRowsIf DEF outcome
<1>8. CASE /\ ~(asked > describing) /\ ~(differences # <<>> /\ labels.end = "error")
           /\ outcome.calls = described \o classified
  <2>1. outcome.calls \in Seq(Calls) /\ Answered(outcome.calls)
    BY <1>3, <1>4, <1>8, AnsweredThen
  <2> QED
    BY <2>1, CallsLeaveRowsIf DEF outcome
<1> QED
  <2>1. \/ outcome.calls = <<>>
        \/ outcome.end = "raised" /\ outcome.calls = described
        \/ ~(asked > describing) /\ outcome.end = "raised" /\ outcome.calls = described \o classified
        \/ /\ ~(asked > describing) /\ ~(differences # <<>> /\ labels.end = "error")
           /\ outcome.calls = described \o classified
    BY <1>1
  <2> QED
    BY <1>5, <1>6, <1>7, <1>8, <2>1

-------------------------------------------------------------------------------
(* The schema of an extraction, and its answers.                           *)

(* There are always fields to ask for, if no preset is empty, and a guess  *)
(* never overrules what the user asked for (schema_generator_node).        *)
THEOREM SchemasAreChosen ==
  ASSUME NEW requested, NEW picked, NEW guesses, NEW presets, NEW generic,
         generic # <<>>, \A key \in DOMAIN presets : presets[key] # <<>>
  PROVE  SchemaIsChosen(requested, picked, guesses, presets, generic)
  BY DEF SchemaIsChosen, ResolveSchema

Answers == {"ok", "invalid", "error"}

LEMMA AskingRecursion ==
  ASSUME NEW answers, Len(answers) \in Nat
  PROVE  \A r \in 0..Len(answers) :
           Asking(answers)[r] =
             IF r = Len(answers) THEN [end |-> "asking", asked |-> r]
             ELSE IF answers[r + 1] = "invalid" /\ r + 1 <= StructureRetries THEN Asking(answers)[r + 1]
             ELSE [end |-> EndsOn(answers[r + 1]), asked |-> r + 1]
<1> DEFINE L == Len(answers)
           Body(f, r) ==
             IF r = L THEN [end |-> "asking", asked |-> r]
             ELSE IF answers[r + 1] = "invalid" /\ r + 1 <= StructureRetries THEN f[r + 1]
             ELSE [end |-> EndsOn(answers[r + 1]), asked |-> r + 1]
           Solves(m, f) == f = [r \in L - m..L |-> Body(f, r)]
           G == {m \in 0..L : \E f : Solves(m, f)}
<1>0. \A f, g, r : r = L \/ f[r + 1] = g[r + 1] => Body(f, r) = Body(g, r)
  OBVIOUS
<1> HIDE DEF Body
<1>1. 0 \in G
  <2> DEFINE g == [r \in L - 0..L |-> Body(<<>>, r)]
  <2>1. \A r \in L - 0..L : r = L
    OBVIOUS
  <2>2. \A r \in L - 0..L : Body(<<>>, r) = Body(g, r)
    <3> HIDE DEF g
    <3> QED
      BY <1>0, <2>1
  <2>3. g = [r \in L - 0..L |-> g[r]] /\ \A r \in L - 0..L : g[r] = Body(<<>>, r)
    OBVIOUS
  <2> HIDE DEF g
  <2>4. Solves(0, g)
    BY <2>2, <2>3
  <2>5. 0 \in 0..L
    OBVIOUS
  <2> HIDE DEF Solves
  <2> QED
    BY <2>4, <2>5
<1>2. ASSUME NEW m \in 1..L, m - 1 \in G PROVE m \in G
  <2>1. PICK f : Solves(m - 1, f)
    BY <1>2
  <2> DEFINE g == [r \in L - m..L |-> IF r = L - m THEN Body(f, r) ELSE f[r]]
  <2>2. ASSUME NEW r \in L - m..L PROVE g[r] = Body(g, r)
    <3>1. r = L \/ (r + 1 \in L - m..L /\ r + 1 # L - m)
      OBVIOUS
    <3>2. r = L \/ f[r + 1] = g[r + 1]
      BY <3>1
    <3>3. Body(f, r) = Body(g, r)
      <4> HIDE DEF g
      <4> QED
        BY <1>0, <3>2
    <3>4. CASE r = L - m
      BY <3>3, <3>4
    <3>5. CASE r # L - m
      <4>1. r \in L - (m - 1)..L
        BY <3>5
      <4>2. f[r] = Body(f, r)
        BY <2>1, <4>1
      <4> QED
        BY <3>3, <3>5, <4>2
    <3> QED
      BY <3>4, <3>5
  <2>3. g = [r \in L - m..L |-> g[r]]
    OBVIOUS
  <2> HIDE DEF g
  <2>4. Solves(m, g)
    BY <2>2, <2>3
  <2>5. m \in 0..L
    OBVIOUS
  <2> HIDE DEF Solves
  <2> QED
    BY <2>4, <2>5
<1>3. L \in G
  <2>1. L \in Nat /\ L \in 0..L
    OBVIOUS
  <2> HIDE DEF G, L
  <2>2. \A m \in 0..L : m \in G
    BY <1>1, <1>2, <2>1, Induction
  <2> QED
    BY <2>1, <2>2
<1>4. \E f : f = [r \in 0..L |-> Body(f, r)]
  <2>1. PICK f : Solves(L, f)
    BY <1>3
  <2>2. L - L = 0
    OBVIOUS
  <2> QED
    BY <2>1, <2>2
<1>5. Asking(answers) = [r \in 0..L |-> Body(Asking(answers), r)]
  BY <1>4 DEF Asking, Body
<1>6. \A r \in 0..L : Asking(answers)[r] = Body(Asking(answers), r)
  BY <1>5
<1> QED
  BY <1>6 DEF Body

(* From r on, if r answers did not parse.                                  *)
LEMMA AskingIs ==
  ASSUME NEW answers \in Seq(Answers), NEW r \in 0..Len(answers), r <= StructureRetries,
         \A k \in 1..r : answers[k] = "invalid"
  PROVE  LET outcome == Asking(answers)[r]
         IN  /\ outcome.asked \in Nat /\ outcome.asked <= StructureRetries + 1
             /\ outcome.end = "completed" <=> outcome.asked > 0 /\ answers[outcome.asked] = "ok"
             /\ outcome.end = "failed" => \A k \in 1..StructureRetries + 1 : answers[k] = "invalid"
<1> DEFINE L == Len(answers)
           A == Asking(answers)
           Good(q) ==
             (q <= StructureRetries /\ \A k \in 1..q : answers[k] = "invalid") =>
               /\ A[q].asked \in Nat /\ A[q].asked <= StructureRetries + 1
               /\ A[q].end = "completed" <=> A[q].asked > 0 /\ answers[A[q].asked] = "ok"
               /\ A[q].end = "failed" => \A k \in 1..StructureRetries + 1 : answers[k] = "invalid"
           G == {q \in 0..L : Good(q)}
<1>0. L \in Nat /\ StructureRetries \in Nat
  BY AnalysisGraphsAssumption DEF AnalysisGraphsAssumption
<1>1. \A q \in 0..L :
        A[q] = IF q = L THEN [end |-> "asking", asked |-> q]
               ELSE IF answers[q + 1] = "invalid" /\ q + 1 <= StructureRetries THEN A[q + 1]
               ELSE [end |-> EndsOn(answers[q + 1]), asked |-> q + 1]
  BY <1>0, AskingRecursion
<1> HIDE DEF A
<1>2. ASSUME NEW q \in 0..L, \A k \in q + 1..L : k \in G PROVE q \in G
  <2> SUFFICES ASSUME q <= StructureRetries, \A k \in 1..q : answers[k] = "invalid"
               PROVE  /\ A[q].asked \in Nat /\ A[q].asked <= StructureRetries + 1
                      /\ A[q].end = "completed" <=> A[q].asked > 0 /\ answers[A[q].asked] = "ok"
                      /\ A[q].end = "failed" => \A k \in 1..StructureRetries + 1 : answers[k] = "invalid"
    OBVIOUS
  <2>0. q \in Nat
    BY <1>0
  <2>a. A[q] = IF q = L THEN [end |-> "asking", asked |-> q]
               ELSE IF answers[q + 1] = "invalid" /\ q + 1 <= StructureRetries THEN A[q + 1]
               ELSE [end |-> EndsOn(answers[q + 1]), asked |-> q + 1]
    BY <1>1, Zenon
  <2>1. CASE q = L
    <3>1. A[q].end = "asking" /\ A[q].asked = q /\ q \in Nat
      BY <2>0, <2>a, <2>1
    <3>2. q > 0 => answers[q] = "invalid"
      BY <3>1
    <3> QED
      BY <1>0, <3>1, <3>2
  <2>2. CASE q # L /\ answers[q + 1] = "ok"
    <3>1. A[q] = [end |-> EndsOn(answers[q + 1]), asked |-> q + 1]
      BY <2>a, <2>2
    <3>2. A[q].end = "completed" /\ A[q].asked = q + 1
      BY <2>2, <3>1 DEF EndsOn
    <3> QED
      BY <1>0, <2>0, <2>2, <3>2
  <2>3. CASE q # L /\ answers[q + 1] = "error"
    <3>1. A[q] = [end |-> EndsOn(answers[q + 1]), asked |-> q + 1]
      BY <2>a, <2>3
    <3>2. A[q].end = "raised" /\ A[q].asked = q + 1
      BY <2>3, <3>1 DEF EndsOn
    <3> QED
      BY <1>0, <2>0, <2>3, <3>2
  <2>4. CASE q # L /\ answers[q + 1] = "invalid" /\ q + 1 <= StructureRetries
    <3>1. A[q] = A[q + 1]
      BY <1>0, <1>1, <2>4
    <3>2. q + 1 \in q + 1..L
      BY <1>0, <2>4
    <3>3. Good(q + 1)
      BY <1>2, <3>2
    <3>4. \A k \in 1..q + 1 : answers[k] = "invalid"
      <4>1. \A k \in 1..q + 1 : k = q + 1 \/ k \in 1..q
        BY <1>0
      <4> QED
        BY <2>4, <4>1
    <3> QED
      BY <2>4, <3>1, <3>3, <3>4
  <2>5. CASE q # L /\ answers[q + 1] = "invalid" /\ ~(q + 1 <= StructureRetries)
    <3>0. A[q] = [end |-> EndsOn(answers[q + 1]), asked |-> q + 1]
      BY <2>a, <2>5
    <3>1. A[q].end = "failed" /\ A[q].asked = q + 1 /\ q = StructureRetries
      <4>1. A[q].end = "failed" /\ A[q].asked = q + 1
        BY <2>5, <3>0 DEF EndsOn
      <4>2. q = StructureRetries
        BY <1>0, <2>0, <2>5
      <4> QED
        BY <4>1, <4>2
    <3>2. \A k \in 1..StructureRetries + 1 : k = q + 1 \/ k \in 1..q
      BY <1>0, <3>1
    <3> QED
      BY <1>0, <2>5, <3>1, <3>2
  <2>6. q # L => answers[q + 1] \in Answers
    BY <1>0
  <2> QED
    BY <2>1, <2>2, <2>3, <2>4, <2>5, <2>6 DEF Answers
<1>3. \A q \in 0..L : q \in G
  <2> HIDE DEF G, L
  <2> QED
    BY <1>0, <1>2, DownwardInduction
<1>4. Good(r)
  BY <1>3
<1> QED
  BY <1>4 DEF A

(* However often the agent's answers do not parse, it is asked once more   *)
(* than it may retry, and an extraction completes on an answer that does   *)
(* (extraction_agent_node, _validation_router).                            *)
THEOREM ExtractionsAreBounded ==
  \A answers \in Seq(Answers), classified \in {"ok", "error"} : ExtractionIsBounded(classified, answers)
<1> SUFFICES ASSUME NEW answers \in Seq(Answers), NEW classified \in {"ok", "error"}
             PROVE  ExtractionIsBounded(classified, answers)
  OBVIOUS
<1> DEFINE outcome == Extract(classified, answers)
<1>0. StructureRetries \in Nat
  BY AnalysisGraphsAssumption DEF AnalysisGraphsAssumption
<1>1. CASE classified = "error"
  <2>1. outcome.end = "raised" /\ outcome.asked = 0
    BY <1>1 DEF Extract
  <2> HIDE DEF outcome
  <2>2. /\ outcome.asked <= StructureRetries + 1 /\ outcome.end # "completed" /\ outcome.end # "failed"
    BY <1>0, <2>1
  <2> QED
    BY <1>1, <2>2 DEF ExtractionIsBounded, outcome
<1>2. CASE classified # "error"
  <2>1. outcome = Asking(answers)[0]
    BY <1>2 DEF Extract
  <2>2. 0 \in 0..Len(answers) /\ 0 <= StructureRetries /\ \A k \in 1..0 : answers[k] = "invalid"
    BY <1>0
  <2>3. /\ Asking(answers)[0].asked <= StructureRetries + 1
        /\ Asking(answers)[0].end = "completed" <=>
             Asking(answers)[0].asked > 0 /\ answers[Asking(answers)[0].asked] = "ok"
        /\ Asking(answers)[0].end = "failed" => \A k \in 1..StructureRetries + 1 : answers[k] = "invalid"
    BY <2>2, AskingIs
  <2> HIDE DEF outcome
  <2>4. /\ outcome.asked <= StructureRetries + 1
        /\ outcome.end = "completed" <=> outcome.asked > 0 /\ answers[outcome.asked] = "ok"
        /\ outcome.end = "failed" => \A k \in 1..StructureRetries + 1 : answers[k] = "invalid"
    BY <2>1, <2>3
  <2> QED
    BY <1>2, <2>4 DEF ExtractionIsBounded, outcome
<1> QED
  BY <1>1, <1>2

-------------------------------------------------------------------------------
(* The drafts of a summary.                                                *)

Verdicts == {"passed", "rejected", "invalid", "error", "undrafted"}

Rejections == {"rejected", "invalid"}

(* What the calls for a draft and for the verdict on it come to, if the    *)
(* rest of the run is that after them.                                     *)
AfterDraft(parts, verdict, retries, after) ==
  LET calls == DraftCalls(parts, verdict)
      route == QualityRouter(verdict, retries)
  IN  IF verdict \in {"undrafted", "error"} THEN [end |-> "raised", calls |-> calls]
      ELSE IF route = "retry" THEN [end |-> after.end, calls |-> calls \o after.calls]
      ELSE [end |-> IF route = "pass" THEN "completed" ELSE "failed", calls |-> calls]

LEMMA DraftingRecursion ==
  ASSUME NEW parts, NEW verdicts, Len(verdicts) \in Nat
  PROVE  \A r \in 0..Len(verdicts) :
           Drafting(parts, verdicts)[r] =
             IF r = Len(verdicts) THEN [end |-> "asking", calls |-> <<>>]
             ELSE AfterDraft(parts, verdicts[r + 1], r + 1, Drafting(parts, verdicts)[r + 1])
<1> DEFINE L == Len(verdicts)
           Body(f, r) == IF r = L THEN [end |-> "asking", calls |-> <<>>]
                         ELSE AfterDraft(parts, verdicts[r + 1], r + 1, f[r + 1])
           Solves(m, f) == f = [r \in L - m..L |-> Body(f, r)]
           G == {m \in 0..L : \E f : Solves(m, f)}
<1>0. \A f, g, r : r = L \/ f[r + 1] = g[r + 1] => Body(f, r) = Body(g, r)
  OBVIOUS
<1> HIDE DEF Body
<1>1. 0 \in G
  <2> DEFINE g == [r \in L - 0..L |-> Body(<<>>, r)]
  <2>1. \A r \in L - 0..L : r = L
    OBVIOUS
  <2>2. \A r \in L - 0..L : Body(<<>>, r) = Body(g, r)
    <3> HIDE DEF g
    <3> QED
      BY <1>0, <2>1
  <2>3. g = [r \in L - 0..L |-> g[r]] /\ \A r \in L - 0..L : g[r] = Body(<<>>, r)
    OBVIOUS
  <2> HIDE DEF g
  <2>4. Solves(0, g)
    BY <2>2, <2>3
  <2>5. 0 \in 0..L
    OBVIOUS
  <2> HIDE DEF Solves
  <2> QED
    BY <2>4, <2>5
<1>2. ASSUME NEW m \in 1..L, m - 1 \in G PROVE m \in G
  <2>1. PICK f : Solves(m - 1, f)
    BY <1>2
  <2> DEFINE g == [r \in L - m..L |-> IF r = L - m THEN Body(f, r) ELSE f[r]]
  <2>2. ASSUME NEW r \in L - m..L PROVE g[r] = Body(g, r)
    <3>1. r = L \/ (r + 1 \in L - m..L /\ r + 1 # L - m)
      OBVIOUS
    <3>2. r = L \/ f[r + 1] = g[r + 1]
      BY <3>1
    <3>3. Body(f, r) = Body(g, r)
      <4> HIDE DEF g
      <4> QED
        BY <1>0, <3>2
    <3>4. CASE r = L - m
      BY <3>3, <3>4
    <3>5. CASE r # L - m
      <4>1. r \in L - (m - 1)..L
        BY <3>5
      <4>2. f[r] = Body(f, r)
        BY <2>1, <4>1
      <4> QED
        BY <3>3, <3>5, <4>2
    <3> QED
      BY <3>4, <3>5
  <2>3. g = [r \in L - m..L |-> g[r]]
    OBVIOUS
  <2> HIDE DEF g
  <2>4. Solves(m, g)
    BY <2>2, <2>3
  <2>5. m \in 0..L
    OBVIOUS
  <2> HIDE DEF Solves
  <2> QED
    BY <2>4, <2>5
<1>3. L \in G
  <2>1. L \in Nat /\ L \in 0..L
    OBVIOUS
  <2> HIDE DEF G, L
  <2>2. \A m \in 0..L : m \in G
    BY <1>1, <1>2, <2>1, Induction
  <2> QED
    BY <2>1, <2>2
<1>4. \E f : f = [r \in 0..L |-> Body(f, r)]
  <2>1. PICK f : Solves(L, f)
    BY <1>3
  <2>2. L - L = 0
    OBVIOUS
  <2> QED
    BY <2>1, <2>2
<1>5. Drafting(parts, verdicts) = [r \in 0..L |-> Body(Drafting(parts, verdicts), r)]
  BY <1>4 DEF Drafting, Body, AfterDraft
<1>6. \A r \in 0..L : Drafting(parts, verdicts)[r] = Body(Drafting(parts, verdicts), r)
  BY <1>5
<1> QED
  BY <1>6 DEF Body

LEMMA DraftCallsAre ==
  ASSUME NEW parts \in Nat, NEW verdict \in Verdicts
  PROVE  LET calls == DraftCalls(parts, verdict)
         IN  /\ calls \in Seq(Calls) /\ AnsweredButLast(calls)
             /\ Len(calls) = IF verdict = "undrafted" THEN parts + 1 ELSE parts + 2
             /\ verdict \notin {"undrafted", "error"} => Answered(calls)
<1> DEFINE n == IF verdict = "undrafted" THEN parts + 1 ELSE parts + 2
           end == IF verdict \in {"invalid", "error"} THEN verdict ELSE "ok"
           call(k) == IF k = parts + 1 /\ verdict = "undrafted" THEN Call("generate", "error")
                      ELSE IF k <= parts + 1 THEN Call("generate", "ok")
                      ELSE Call("structured", end)
           calls == DraftCalls(parts, verdict)
<1>1. calls = [k \in 1..n |-> call(k)]
  BY DEF DraftCalls
<1>2. end \in {"ok", "invalid", "error"} /\ (end = "error" <=> verdict = "error")
  BY DEF Verdicts
<1> HIDE DEF end
<1>3. /\ Call("generate", "error") \in Calls /\ Recorded(Call("generate", "error"))
      /\ Call("generate", "ok") \in Calls /\ Recorded(Call("generate", "ok"))
      /\ Call("generate", "ok").end = "ok"
      /\ Call("structured", end) \in Calls /\ Call("structured", end).end = end
      /\ end # "error" => Recorded(Call("structured", end))
  BY <1>2, CallIs
<1>4. n \in Nat
  OBVIOUS
<1>5. \A k \in 1..n : call(k) \in Calls
  BY <1>3
<1>6. \A k \in 1..n : \/ call(k).end # "error" /\ Recorded(call(k))
                      \/ verdict \in {"undrafted", "error"} /\ k = n
  <2> SUFFICES ASSUME NEW k \in 1..n
               PROVE  \/ call(k).end # "error" /\ Recorded(call(k))
                      \/ verdict \in {"undrafted", "error"} /\ k = n
    OBVIOUS
  <2>1. CASE k = parts + 1 /\ verdict = "undrafted"
    BY <2>1
  <2>2. CASE ~(k = parts + 1 /\ verdict = "undrafted") /\ k <= parts + 1
    <3>1. call(k) = Call("generate", "ok")
      BY <2>2
    <3> HIDE DEF call
    <3> QED
      BY <1>3, <3>1
  <2>3. CASE ~(k = parts + 1 /\ verdict = "undrafted") /\ ~(k <= parts + 1)
    <3>1. call(k) = Call("structured", end) /\ k = parts + 2 /\ n = parts + 2
      BY <2>3
    <3> HIDE DEF call, n
    <3> QED
      BY <1>2, <1>3, <3>1
  <2> QED
    BY <2>1, <2>2, <2>3
<1> HIDE DEF call, calls, n
<1>7. calls \in [1..n -> Calls]
  BY <1>1, <1>5
<1>8. calls \in Seq(Calls) /\ Len(calls) = n /\ \A k \in 1..n : calls[k] = call(k)
  BY <1>1, <1>4, <1>7
<1>9. AnsweredButLast(calls) /\ (verdict \notin {"undrafted", "error"} => Answered(calls))
  BY <1>6, <1>8 DEF AnsweredButLast, Answered
<1> QED
  BY <1>8, <1>9 DEF calls, n

(* A run that has d whole drafts behind it and has made e calls for one    *)
(* more, if q drafts were rejected before it.                              *)
Drafted(parts, verdicts, q, outcome, d) ==
  /\ \E e \in 0..parts + 1 : Len(outcome.calls) = d * (parts + 2) + e
  /\ q + d <= QualityRetries + 1 /\ q + d <= Len(verdicts)
  /\ outcome.end = "completed" => verdicts[q + d] = "passed"
  /\ outcome.end = "failed" => q + d = QualityRetries + 1
  /\ \A k \in 1..q + d - 1 : verdicts[k] \in Rejections

LEMMA DraftingIs ==
  ASSUME NEW parts \in Nat, NEW verdicts \in Seq(Verdicts), NEW r \in 0..Len(verdicts),
         r <= QualityRetries, \A k \in 1..r : verdicts[k] \in Rejections
  PROVE  LET outcome == Drafting(parts, verdicts)[r]
         IN  /\ outcome.calls \in Seq(Calls)
             /\ \/ Answered(outcome.calls)
                \/ AnsweredButLast(outcome.calls) /\ outcome.end = "raised"
             /\ \E d \in Nat : Drafted(parts, verdicts, r, outcome, d)
<1> DEFINE L == Len(verdicts)
           A == Drafting(parts, verdicts)
           Sound(q) == /\ A[q].calls \in Seq(Calls)
                       /\ \/ Answered(A[q].calls)
                          \/ AnsweredButLast(A[q].calls) /\ A[q].end = "raised"
                       /\ \E d \in Nat : Drafted(parts, verdicts, q, A[q], d)
           Good(q) == (q <= QualityRetries /\ \A k \in 1..q : verdicts[k] \in Rejections) => Sound(q)
           G == {q \in 0..L : Good(q)}
<1>0. L \in Nat /\ QualityRetries \in Nat
  BY AnalysisGraphsAssumption DEF AnalysisGraphsAssumption
<1>1. \A q \in 0..L :
        A[q] = IF q = L THEN [end |-> "asking", calls |-> <<>>]
               ELSE AfterDraft(parts, verdicts[q + 1], q + 1, A[q + 1])
  BY <1>0, DraftingRecursion
<1> HIDE DEF A
<1>2. ASSUME NEW q \in 0..L, \A k \in q + 1..L : k \in G PROVE q \in G
  <2> SUFFICES ASSUME q <= QualityRetries, \A k \in 1..q : verdicts[k] \in Rejections
               PROVE  Sound(q)
    OBVIOUS
  <2> DEFINE v == verdicts[q + 1]
             calls == DraftCalls(parts, v)
  <2>0. q \in Nat /\ q + 0 = q /\ (q # L => q + 1 \in 1..L)
    BY <1>0
  <2>1. CASE q = L
    <3>1. A[q] = [end |-> "asking", calls |-> <<>>]
      BY <1>1, <2>1
    <3>2. A[q].calls = <<>> /\ A[q].end = "asking" /\ Len(A[q].calls) = 0
      BY <3>1
    <3>3. Drafted(parts, verdicts, q, A[q], 0)
      <4>1. 0 = 0 * (parts + 2) + 0 /\ 0 \in 0..parts + 1
        OBVIOUS
      <4>2. q + 0 <= QualityRetries + 1 /\ q + 0 <= L
        BY <1>0, <2>0
      <4>3. \A k \in 1..q + 0 - 1 : k \in 1..q
        BY <2>0
      <4> QED
        BY <3>2, <4>1, <4>2, <4>3 DEF Drafted
    <3> QED
      BY <3>2, <3>3, NoCalls
  <2>2. ASSUME q # L PROVE Sound(q)
    <3>0. v \in Verdicts
      BY <2>0, <2>2
    <3>1. /\ calls \in Seq(Calls) /\ AnsweredButLast(calls)
          /\ Len(calls) = IF v = "undrafted" THEN parts + 1 ELSE parts + 2
          /\ v \notin {"undrafted", "error"} => Answered(calls)
      BY <3>0, DraftCallsAre
    <3>2. A[q] = AfterDraft(parts, v, q + 1, A[q + 1])
      BY <1>1, <2>2
    <3> HIDE DEF calls, v
    <3>3. A[q] = IF v \in {"undrafted", "error"} THEN [end |-> "raised", calls |-> calls]
                 ELSE IF QualityRouter(v, q + 1) = "retry"
                 THEN [end |-> A[q + 1].end, calls |-> calls \o A[q + 1].calls]
                 ELSE [end |-> IF QualityRouter(v, q + 1) = "pass" THEN "completed" ELSE "failed",
                       calls |-> calls]
      BY <3>2 DEF AfterDraft, calls
    <3>4. q + 1 <= QualityRetries + 1 /\ q + 1 <= L /\ \A k \in 1..q + 1 - 1 : verdicts[k] \in Rejections
      BY <1>0, <2>0, <2>2
    <3>5. ASSUME Len(calls) = parts + 2, A[q].calls = calls,
                 A[q].end = "completed" => v = "passed",
                 A[q].end = "failed" => q + 1 = QualityRetries + 1
          PROVE  Drafted(parts, verdicts, q, A[q], 1)
      <4>1. parts + 2 = 1 * (parts + 2) + 0 /\ 0 \in 0..parts + 1
        OBVIOUS
      <4> QED
        BY <3>4, <3>5, <4>1 DEF Drafted, v
    <3>6. CASE v = "undrafted"
      <4>1. A[q] = [end |-> "raised", calls |-> calls]
        BY <3>3, <3>6
      <4>2. A[q].end = "raised" /\ A[q].calls = calls
        BY <4>1
      <4>3. Len(calls) = parts + 1 /\ parts + 1 = 0 * (parts + 2) + (parts + 1) /\ parts + 1 \in 0..parts + 1
        BY <3>1, <3>6
      <4>4. q + 0 <= QualityRetries + 1 /\ q + 0 <= L /\ \A k \in 1..q + 0 - 1 : k \in 1..q
        BY <1>0, <2>0
      <4>5. Drafted(parts, verdicts, q, A[q], 0)
        BY <4>2, <4>3, <4>4 DEF Drafted
      <4> QED
        BY <3>1, <4>2, <4>5
    <3>7. CASE v = "error"
      <4>1. A[q] = [end |-> "raised", calls |-> calls]
        BY <3>3, <3>7
      <4>2. A[q].end = "raised" /\ A[q].calls = calls /\ Len(calls) = parts + 2
        BY <3>1, <3>7, <4>1
      <4>3. Drafted(parts, verdicts, q, A[q], 1)
        BY <3>5, <4>2
      <4> QED
        BY <3>1, <4>2, <4>3
    <3>8. CASE v = "passed"
      <4>1. QualityRouter(v, q + 1) = "pass"
        BY <3>8 DEF QualityRouter
      <4>2. A[q] = [end |-> "completed", calls |-> calls]
        BY <3>3, <3>8, <4>1
      <4>3. A[q].end = "completed" /\ A[q].calls = calls /\ Len(calls) = parts + 2 /\ Answered(calls)
        BY <3>1, <3>8, <4>2
      <4>4. Drafted(parts, verdicts, q, A[q], 1)
        BY <3>5, <3>8, <4>3
      <4> QED
        BY <3>1, <4>3, <4>4
    <3>9. CASE v \in Rejections /\ ~(q + 1 <= QualityRetries)
      <4>1. QualityRouter(v, q + 1) = "fail" /\ v \notin {"undrafted", "error"} /\ v # "passed"
        BY <3>9 DEF QualityRouter, Rejections
      <4>2. A[q] = [end |-> "failed", calls |-> calls]
        BY <3>3, <4>1
      <4>3. A[q].end = "failed" /\ A[q].calls = calls /\ Len(calls) = parts + 2 /\ Answered(calls)
        BY <3>1, <4>1, <4>2
      <4>4. q + 1 = QualityRetries + 1
        BY <1>0, <2>0, <3>9
      <4>5. Drafted(parts, verdicts, q, A[q], 1)
        BY <3>5, <4>3, <4>4
      <4> QED
        BY <3>1, <4>3, <4>5
    <3>10. CASE v \in Rejections /\ q + 1 <= QualityRetries
      <4>1. QualityRouter(v, q + 1) = "retry" /\ v \notin {"undrafted", "error"}
        BY <3>10 DEF QualityRouter, Rejections
      <4>2. A[q] = [end |-> A[q + 1].end, calls |-> calls \o A[q + 1].calls]
        BY <3>3, <4>1
      <4>3. A[q].end = A[q + 1].end /\ A[q].calls = calls \o A[q + 1].calls
            /\ Answered(calls) /\ Len(calls) = parts + 2
        BY <3>1, <4>1, <4>2
      <4>4. Sound(q + 1)
        <5>1. q + 1 \in q + 1..L
          BY <1>0, <2>0, <2>2
        <5>2. Good(q + 1)
          <6> HIDE DEF Good
          <6> QED
            BY <1>2, <5>1
        <5>3. \A k \in 1..q + 1 : verdicts[k] \in Rejections
          <6>1. \A k \in 1..q + 1 : k = q + 1 \/ k \in 1..q
            BY <2>0
          <6> QED
            BY <3>10, <6>1 DEF v
        <5> HIDE DEF Sound
        <5> QED
          BY <3>10, <5>2, <5>3
      <4>5. /\ A[q + 1].calls \in Seq(Calls)
            /\ \/ Answered(A[q + 1].calls)
               \/ AnsweredButLast(A[q + 1].calls) /\ A[q + 1].end = "raised"
        BY <4>4
      <4>6. PICK d \in Nat : Drafted(parts, verdicts, q + 1, A[q + 1], d)
        BY <4>4
      <4> DEFINE rest == A[q + 1].calls
      <4>7. /\ A[q].calls \in Seq(Calls)
            /\ \/ Answered(A[q].calls)
               \/ AnsweredButLast(A[q].calls) /\ A[q].end = "raised"
        <5>1. /\ calls \o rest \in Seq(Calls)
              /\ Answered(rest) => Answered(calls \o rest)
              /\ AnsweredButLast(rest) => AnsweredButLast(calls \o rest)
          BY <3>1, <4>3, <4>5, AnsweredThen
        <5> HIDE DEF rest
        <5>2. A[q].calls = calls \o rest
          BY <4>3 DEF rest
        <5>3. Answered(rest) \/ (AnsweredButLast(rest) /\ A[q].end = "raised")
          BY <4>3, <4>5 DEF rest
        <5>4. A[q].calls \in Seq(Calls)
          BY <5>1, <5>2
        <5>5. Answered(A[q].calls) \/ (AnsweredButLast(A[q].calls) /\ A[q].end = "raised")
          BY <5>1, <5>2, <5>3
        <5> QED
          BY <5>4, <5>5
      <4>8. Drafted(parts, verdicts, q, A[q], d + 1)
        <5>1. PICK e \in 0..parts + 1 : Len(rest) = d * (parts + 2) + e
          BY <4>6 DEF Drafted
        <5>2. Len(A[q].calls) = (parts + 2) + Len(rest)
          <6>1. Len(calls \o rest) = Len(calls) + Len(rest)
            BY <3>1, <4>3, <4>5, AnsweredThen
          <6> QED
            BY <4>3, <6>1
        <5>3. (parts + 2) + (d * (parts + 2) + e) = (d + 1) * (parts + 2) + e
          OBVIOUS
        <5>4. Len(A[q].calls) = (d + 1) * (parts + 2) + e
          <6> HIDE DEF rest
          <6> QED
            BY <5>1, <5>2, <5>3
        <5>5. q + (d + 1) = q + 1 + d /\ q + (d + 1) - 1 = q + 1 + d - 1
          BY <2>0
        <5> QED
          BY <4>3, <4>6, <5>4, <5>5 DEF Drafted
      <4>9. d + 1 \in Nat
        OBVIOUS
      <4> QED
        BY <4>7, <4>8, <4>9
    <3> QED
      BY <3>0, <3>6, <3>7, <3>8, <3>9, <3>10 DEF Verdicts, Rejections
  <2> QED
    BY <2>1, <2>2
<1>3. \A q \in 0..L : q \in G
  <2> HIDE DEF G, L
  <2> QED
    BY <1>0, <1>2, DownwardInduction
<1>4. Good(r)
  BY <1>3
<1> QED
  BY <1>4 DEF A

LEMMA DivIs ==
  ASSUME NEW d \in Nat, NEW p \in Nat, p > 0, NEW e \in 0..p - 1
  PROVE  (d * p + e) \div p = d
  OBVIOUS

(* However its drafts are judged, a summary completes on one that passed,  *)
(* fails after one rejection more than there are retries, makes no draft   *)
(* after, and leaves its rows (_quality_router, run_summarization).        *)
THEOREM SummariesAreBounded ==
  \A parts \in Nat : \A verdicts \in Seq(Verdicts) :
    SummaryIsBounded(parts, verdicts) /\ CallsLeaveRows(Summarize(parts, verdicts))
<1> SUFFICES ASSUME NEW parts \in Nat, NEW verdicts \in Seq(Verdicts)
             PROVE  SummaryIsBounded(parts, verdicts) /\ CallsLeaveRows(Summarize(parts, verdicts))
  OBVIOUS
<1> DEFINE outcome == Summarize(parts, verdicts)
<1>0. QualityRetries \in Nat
  BY AnalysisGraphsAssumption DEF AnalysisGraphsAssumption
<1>1. /\ outcome.calls \in Seq(Calls)
      /\ \/ Answered(outcome.calls)
         \/ AnsweredButLast(outcome.calls) /\ outcome.end = "raised"
      /\ \E d \in Nat : Drafted(parts, verdicts, 0, outcome, d)
  <2>1. 0 \in 0..Len(verdicts) /\ 0 <= QualityRetries /\ \A k \in 1..0 : verdicts[k] \in Rejections
    BY <1>0
  <2>2. outcome = Drafting(parts, verdicts)[0]
    BY DEF Summarize
  <2> HIDE DEF outcome
  <2> QED
    BY <2>1, <2>2, DraftingIs
<1> HIDE DEF outcome
<1>2. CallsLeaveRows(outcome)
  BY <1>1, CallsLeaveRowsIf
<1>3. PICK d \in Nat : Drafted(parts, verdicts, 0, outcome, d)
  BY <1>1
<1>4. PICK e \in 0..parts + 1 : Len(outcome.calls) = d * (parts + 2) + e
  BY <1>3 DEF Drafted
<1>5. Len(outcome.calls) \div (parts + 2) = d
  <2>1. parts + 2 \in Nat /\ parts + 2 > 0 /\ e \in 0..(parts + 2) - 1
    OBVIOUS
  <2> DEFINE p == parts + 2
  <2> HIDE DEF p
  <2>2. (d * p + e) \div p = d
    BY <2>1, DivIs DEF p
  <2> QED
    BY <1>4, <2>2 DEF p
<1>6. /\ d <= QualityRetries + 1 /\ d <= Len(verdicts)
      /\ outcome.end = "completed" => verdicts[d] = "passed"
      /\ outcome.end = "failed" => d = QualityRetries + 1
      /\ \A k \in 1..d - 1 : verdicts[k] \in Rejections
  <2>1. 0 + d = d
    OBVIOUS
  <2> QED
    BY <1>3, <2>1 DEF Drafted
<1>7. 1..d - 1 \subseteq {k \in DOMAIN verdicts : verdicts[k] \in {"rejected", "invalid"}}
  <2>1. \A k \in 1..d - 1 : k \in 1..Len(verdicts)
    BY <1>6
  <2> QED
    BY <1>6, <2>1 DEF Rejections
<1>8. SummaryIsBounded(parts, verdicts)
  <2>1. SummaryIsBounded(parts, verdicts) =
          LET drafts == Len(outcome.calls) \div (parts + 2)
              rejected == {k \in DOMAIN verdicts : verdicts[k] \in {"rejected", "invalid"}}
          IN  /\ drafts <= QualityRetries + 1
              /\ outcome.end = "completed" => verdicts[drafts] = "passed"
              /\ outcome.end = "failed" => drafts = QualityRetries + 1
              /\ outcome.end \in {"completed", "failed", "raised"} => 1..drafts - 1 \subseteq rejected
    BY DEF SummaryIsBounded, outcome
  <2> QED
    BY <1>5, <1>6, <1>7, <2>1
<1> QED
  BY <1>2, <1>8 DEF outcome

-------------------------------------------------------------------------------
(* The inputs of the graphs.                                               *)

LEMMA DocumentsAre ==
  Documents => /\ input.kind = "documents"
               /\ input.a \in Seq(Contents) /\ input.b \in Seq(Contents) /\ input.describing \in Nat
               /\ input.labels.end \in {"ok", "invalid", "error"}
<1> SUFFICES ASSUME Documents
             PROVE  /\ input.kind = "documents"
                    /\ input.a \in Seq(Contents) /\ input.b \in Seq(Contents) /\ input.describing \in Nat
                    /\ input.labels.end \in {"ok", "invalid", "error"}
  OBVIOUS
<1>1. PICK a \in SeqsUpTo(Contents, MaxSegments), b \in SeqsUpTo(Contents, MaxSegments), describing \in 0..1,
           labels \in {[end |-> "ok", categories |-> <<"factual">>], [end |-> "invalid"], [end |-> "error"]} :
        input = [kind |-> "documents", a |-> a, b |-> b, describing |-> describing, labels |-> labels]
  BY DEF Documents
<1>2. a \in Seq(Contents) /\ b \in Seq(Contents)
  BY SeqsAreSequences
<1>3. labels.end \in {"ok", "invalid", "error"}
  OBVIOUS
<1>4. /\ input.kind = "documents" /\ input.a = a /\ input.b = b /\ input.describing = describing
      /\ input.labels = labels
  BY <1>1
<1> QED
  BY <1>2, <1>3, <1>4

LEMMA SummaryIs ==
  Summary => /\ input.kind = "summary" /\ input.parts \in Nat /\ input.verdicts \in Seq(Verdicts)
<1> SUFFICES ASSUME Summary
             PROVE  input.kind = "summary" /\ input.parts \in Nat /\ input.verdicts \in Seq(Verdicts)
  OBVIOUS
<1>1. PICK parts \in 0..2, verdicts \in SeqsUpTo(Verdicts, QualityRetries + 2) :
        input = [kind |-> "summary", parts |-> parts, verdicts |-> verdicts]
  BY DEF Summary, Verdicts
<1>2. verdicts \in Seq(Verdicts) /\ parts \in Nat
  BY SeqsAreSequences
<1>3. input.kind = "summary" /\ input.parts = parts /\ input.verdicts = verdicts
  BY <1>1
<1> QED
  BY <1>2, <1>3

LEMMA ExtractionIs ==
  Extraction => /\ input.kind = "extraction" /\ input.classified \in {"ok", "error"}
                /\ input.answers \in Seq(Answers)
<1> SUFFICES ASSUME Extraction
             PROVE  /\ input.kind = "extraction" /\ input.classified \in {"ok", "error"}
                    /\ input.answers \in Seq(Answers)
  OBVIOUS
<1>1. PICK classified \in {"ok", "error"}, responses \in SeqsUpTo(Responses, StructureRetries + 2) :
        input = [kind |-> "extraction", classified |-> classified,
                 answers |-> [k \in DOMAIN responses |-> GenerateStructured(responses[k])]]
  BY DEF Extraction
<1>2. responses \in Seq(Responses)
  BY SeqsAreSequences
<1>3. \A response \in Responses : GenerateStructured(response) \in Answers
  BY DEF Responses, GenerateStructured, Answers
<1> DEFINE answers == [k \in DOMAIN responses |-> GenerateStructured(responses[k])]
<1>4. answers \in [1..Len(responses) -> Answers]
  BY <1>2, <1>3
<1>5. answers \in Seq(Answers)
  BY <1>2, <1>4
<1> HIDE DEF answers
<1>6. input.kind = "extraction" /\ input.classified = classified /\ input.answers = answers
  BY <1>1 DEF answers
<1> QED
  BY <1>5, <1>6

LEMMA SchemaIs == Schema => input.kind = "schema"
  BY DEF Schema

LEMMA PresetsAre == Generic # <<>> /\ \A key \in DOMAIN Presets : Presets[key] # <<>>
  BY DEF Generic, Presets

LEMMA ViewsAre ==
  ASSUME PdfPages \/ Table \/ Matches \/ Excerpt
  PROVE  input.kind \in {"pdf", "table", "matches", "excerpt"}
<1>1. ASSUME PdfPages PROVE input.kind = "pdf"
  <2>1. \E atoms, pages : input = [kind |-> "pdf", atoms |-> atoms, pages |-> pages]
    BY <1>1, Zenon DEF PdfPages
  <2> QED
    BY <2>1
<1>2. ASSUME Table PROVE input.kind = "table"
  BY <1>2 DEF Table
<1>3. ASSUME Matches PROVE input.kind = "matches"
  BY <1>3 DEF Matches
<1>4. ASSUME Excerpt PROVE input.kind = "excerpt"
  <2>1. \E length, match : input = [kind |-> "excerpt", length |-> length, match |-> match]
    BY <1>4, Zenon DEF Excerpt
  <2> QED
    BY <2>1
<1> QED
  BY <1>1, <1>2, <1>3, <1>4

(* Whatever two contents have in common, and however the models answer,    *)
(* the graphs do with every input of MCAlgorithms what they should         *)
(* (app/ai/graphs).                                                        *)
THEOREM GraphsAreSoundCorrect == Spec => []GraphsAreSound
<1>0. Cosines(Contents) /\ \A x \in Contents : Similarity(x, x) = 100
  BY SimilarityAssumption DEF SimilarityAssumption, Cosines
<1>1. ASSUME Init PROVE GraphsAreSound
  <2>1. CASE Documents
    <3>1. /\ input.kind = "documents"
          /\ input.a \in Seq(Contents) /\ input.b \in Seq(Contents) /\ input.describing \in Nat
          /\ input.labels.end \in {"ok", "invalid", "error"}
      BY <2>1, DocumentsAre
    <3>2. SegmentsAreAccountedFor(input.a, input.b)
      BY <1>0, <3>1, ComparisonsAreComplete
    <3>3. ItselfIsUnchanged(input.a)
      BY <1>0, <3>1, ItselfIsTheSame
    <3>4. CallsLeaveRows(Compare(input.a, input.b, input.describing, input.labels))
      BY <1>0, <3>1, ComparisonsLeaveRows
    <3> QED
      BY <3>1, <3>2, <3>3, <3>4 DEF GraphsAreSound
  <2>2. CASE Summary
    <3>1. input.kind = "summary" /\ input.parts \in Nat /\ input.verdicts \in Seq(Verdicts)
      BY <2>2, SummaryIs
    <3>2. SummaryIsBounded(input.parts, input.verdicts) /\ CallsLeaveRows(Summarize(input.parts, input.verdicts))
      BY <3>1, SummariesAreBounded
    <3> QED
      BY <3>1, <3>2 DEF GraphsAreSound
  <2>3. CASE Schema
    <3>1. SchemaIsChosen(input.requested, input.picked, DOMAIN Presets \cup {"other"}, Presets, Generic)
      BY PresetsAre, SchemasAreChosen
    <3> QED
      BY <2>3, <3>1, SchemaIs DEF GraphsAreSound
  <2>4. CASE Extraction
    <3>1. /\ input.kind = "extraction" /\ input.classified \in {"ok", "error"}
          /\ input.answers \in Seq(Answers)
      BY <2>4, ExtractionIs
    <3>2. ExtractionIsBounded(input.classified, input.answers)
      BY <3>1, ExtractionsAreBounded
    <3> QED
      BY <3>1, <3>2 DEF GraphsAreSound
  <2>5. CASE PdfPages \/ Table \/ Matches \/ Excerpt
    BY <2>5, ViewsAre DEF GraphsAreSound
  <2>6. CASE Sentence \/ Atoms \/ Paragraphs \/ Pages \/ Rows \/ Results \/ Conversation
    <3>1. input.kind \in {"sentence", "atoms", "paragraphs", "pages", "rows", "results", "conversation"}
      BY <2>6, SentenceIs, AtomsAre, ParagraphsAre, PagesAre, RowsAre, ResultsAre, ConversationIs
    <3> QED
      BY <3>1 DEF GraphsAreSound
  <2> QED
    BY <1>1, <2>1, <2>2, <2>3, <2>4, <2>5, <2>6 DEF Init
<1>2. ASSUME GraphsAreSound, [Next]_input PROVE GraphsAreSound'
  BY <1>2 DEF Next, GraphsAreSound
<1> QED
  BY <1>1, <1>2, PTL DEF Spec

-------------------------------------------------------------------------------
(* Excerpts.                                                               *)

LEMMA MaxWithZero == ASSUME NEW n \in Int PROVE Max({0, n}) = IF n > 0 THEN n ELSE 0
<1>1. CASE n > 0
  BY <1>1, MaxIs
<1>2. CASE ~(n > 0)
  BY <1>2, MaxIs
<1> QED
  BY <1>1, <1>2

(* An excerpt is as long as the window or the content, and has the first   *)
(* match in it, unless that is longer than half a window (build_snippet).  *)
THEOREM SnippetsHaveTheirMatch ==
  \A length \in Nat, start \in Nat, end \in Nat :
    start < end /\ end <= length => SnippetHasMatch(length, [start |-> start, end |-> end])
<1> SUFFICES ASSUME NEW length \in Nat, NEW start \in Nat, NEW end \in Nat, start < end, end <= length
             PROVE  SnippetHasMatch(length, [start |-> start, end |-> end])
  OBVIOUS
<1> DEFINE half == SnippetWindow \div 2
           first == IF start - half > 0 THEN start - half ELSE 0
           last == IF length <= first + SnippetWindow THEN length ELSE first + SnippetWindow
           from == IF last - SnippetWindow > 0 THEN last - SnippetWindow ELSE 0
           match == [start |-> start, end |-> end]
<1>1. SnippetWindow \in Nat /\ SnippetWindow > 0
  BY DocumentViewsAssumption DEF DocumentViewsAssumption
<1>2. half \in Nat /\ 2 * half <= SnippetWindow /\ SnippetWindow <= 2 * half + 1
  BY <1>1
<1> HIDE DEF half
<1>3. first \in Nat /\ first = Max({0, start - half})
  BY <1>2, MaxWithZero
<1>4. last \in Nat /\ last = Min({length, first + SnippetWindow})
  <2> HIDE DEF first
  <2> QED
    BY <1>1, <1>3, MinOfTwo, SMTT(30)
<1>5. from \in Nat /\ from = Max({0, last - SnippetWindow})
  <2>1. last - SnippetWindow \in Int
    <3> HIDE DEF last
    <3> QED
      BY <1>1, <1>4
  <2>2. Max({0, last - SnippetWindow}) = from
    <3> HIDE DEF last
    <3> QED
      BY <2>1, MaxWithZero
  <2> HIDE DEF last
  <2> QED
    BY <2>1, <2>2
<1>6. BuildSnippet(length, match) = [start |-> from, end |-> last]
  <2>1. match.start = start
    OBVIOUS
  <2> HIDE DEF first, last, from, match
  <2> QED
    BY <1>3, <1>4, <1>5, <2>1 DEF BuildSnippet, half
<1>7. Min({length, SnippetWindow}) = IF length <= SnippetWindow THEN length ELSE SnippetWindow
  BY <1>1, MinOfTwo
<1>8. /\ from >= 0 /\ last <= length
      /\ last - from = IF length <= SnippetWindow THEN length ELSE SnippetWindow
  BY <1>1, <1>2
<1>9. 2 * (end - start) <= SnippetWindow => from <= start /\ end <= last
  BY <1>1, <1>2
<1> HIDE DEF from, last, first
<1> QED
  BY <1>6, <1>7, <1>8, <1>9 DEF SnippetHasMatch

-------------------------------------------------------------------------------
(* The order of the hits of a search.                                      *)

LEMMA ProductRises ==
  ASSUME NEW a \in Int, NEW b \in Int, NEW c \in Nat
  PROVE  /\ a <= b => a * c <= b * c
         /\ a < b /\ c > 0 => a * c < b * c
  OBVIOUS

(* Fractions that are not less than one another are so in turn.            *)
LEMMA FractionsAreOrdered ==
  ASSUME NEW a \in Nat, NEW b \in Nat, b > 0, NEW c \in Nat, NEW d \in Nat, d > 0,
         NEW e \in Nat, NEW f \in Nat, f > 0, c * b <= a * d, e * d <= c * f
  PROVE  /\ e * b <= a * f
         /\ c * b < a * d \/ e * d < c * f => e * b < a * f
<1> DEFINE low == (e * d) * b
           middle == (c * f) * b
           high == (a * d) * f
<1>1. /\ low \in Nat /\ middle \in Nat /\ high \in Nat
      /\ e * d \in Nat /\ c * f \in Nat /\ c * b \in Nat /\ a * d \in Nat
      /\ e * b \in Nat /\ a * f \in Nat
  OBVIOUS
<1>2. low <= middle /\ (e * d < c * f => low < middle)
  BY <1>1, ProductRises
<1>3. middle = (c * b) * f
  OBVIOUS
<1>4. (c * b) * f <= high /\ (c * b < a * d => (c * b) * f < high)
  BY <1>1, ProductRises
<1>5. low = (e * b) * d /\ high = (a * f) * d
  OBVIOUS
<1>6. a * f < e * b => (a * f) * d < (e * b) * d
  BY <1>1, ProductRises
<1>7. a * f = e * b => (a * f) * d = (e * b) * d
  OBVIOUS
<1> HIDE DEF low, middle, high
<1> QED
  BY <1>1, <1>2, <1>3, <1>4, <1>5, <1>6, <1>7

(* So are sums of fractions.                                               *)
LEMMA SumsAreOrdered ==
  ASSUME NEW a \in Nat, NEW b \in Nat, b > 0, NEW c \in Nat, NEW d \in Nat, d > 0,
         NEW e \in Nat, NEW f \in Nat, f > 0, NEW g \in Nat, NEW h \in Nat, h > 0,
         e * b <= a * f, g * d <= c * h
  PROVE  /\ (e * h + g * f) * (b * d) <= (a * d + c * b) * (f * h)
         /\ e * b < a * f \/ g * d < c * h =>
              (e * h + g * f) * (b * d) < (a * d + c * b) * (f * h)
<1> DEFINE p == (e * b) * (d * h)
           q == (a * f) * (d * h)
           r == (g * d) * (b * f)
           s == (c * h) * (b * f)
<1>1. d * h \in Nat /\ d * h > 0 /\ b * f \in Nat /\ b * f > 0
  OBVIOUS
<1>2. e * b \in Nat /\ a * f \in Nat /\ g * d \in Nat /\ c * h \in Nat
  OBVIOUS
<1>3. p <= q /\ (e * b < a * f => p < q)
  <2> HIDE DEF p, q
  <2> QED
    BY <1>1, <1>2, ProductRises DEF p, q
<1>4. r <= s /\ (g * d < c * h => r < s)
  BY <1>1, <1>2, ProductRises
<1>5. (e * h + g * f) * (b * d) = p + r
  OBVIOUS
<1>6. (a * d + c * b) * (f * h) = q + s
  OBVIOUS
<1>7. p \in Nat /\ q \in Nat /\ r \in Nat /\ s \in Nat
  OBVIOUS
<1> HIDE DEF p, q, r, s
<1> QED
  BY <1>3, <1>4, <1>5, <1>6, <1>7

(* "below" says what comes before each element, in a strict, total order.  *)
Orders(S, below) ==
  /\ below \in [S -> SUBSET S]
  /\ \A k \in S : k \notin below[k]
  /\ \A j, k \in S : j \in below[k] => below[j] \subseteq below[k]
  /\ \A j, k \in S : j # k => j \in below[k] \/ k \in below[j]

Places(S, below) == [k \in S |-> Cardinality(below[k]) + 1]

Placed(S, below, place) ==
  /\ Cardinality(S) \in Nat
  /\ \A k \in S : place[k] \in 1..Cardinality(S)
  /\ \A r \in 1..Cardinality(S) : \E k \in S : place[k] = r
  /\ \A j, k \in S : place[j] = place[k] => j = k
  /\ \A j, k \in S : j \in below[k] => place[j] < place[k]

(* How many come before each tells its place.                              *)
LEMMA PlacesAre ==
  ASSUME NEW S, IsFiniteSet(S), NEW below, Orders(S, below), NEW place, place = Places(S, below)
  PROVE  Placed(S, below, place)
<1>0. /\ below \in [S -> SUBSET S]
      /\ \A k \in S : k \notin below[k]
      /\ \A j, k \in S : j \in below[k] => below[j] \subseteq below[k]
      /\ \A j, k \in S : j # k => j \in below[k] \/ k \in below[j]
  BY DEF Orders
<1> DEFINE n == Cardinality(S)
<1>1. n \in Nat
  BY FS_CardinalityType
<1>2. ASSUME NEW k \in S
      PROVE  IsFiniteSet(below[k]) /\ Cardinality(below[k]) \in Nat /\ Cardinality(below[k]) < n
  <2>1. below[k] \in SUBSET S /\ below[k] # S
    BY <1>0
  <2>2. /\ IsFiniteSet(below[k]) /\ Cardinality(below[k]) <= n
        /\ Cardinality(below[k]) # n
    BY <2>1, FS_Subset
  <2> QED
    BY <1>1, <2>2, FS_CardinalityType
<1>3. ASSUME NEW j \in S, NEW k \in S, j \in below[k]
      PROVE  Cardinality(below[j]) < Cardinality(below[k])
  <2>1. below[j] \in SUBSET below[k] /\ below[j] # below[k]
    BY <1>0, <1>3
  <2>2. Cardinality(below[j]) <= Cardinality(below[k]) /\ Cardinality(below[j]) # Cardinality(below[k])
    BY <1>2, <2>1, FS_Subset
  <2> QED
    BY <1>2, <2>2
<1>4. place \in [S -> 1..n] /\ \A k \in S : place[k] = Cardinality(below[k]) + 1
  BY <1>1, <1>2 DEF Places
<1>5. \A j, k \in S : j \in below[k] => place[j] < place[k]
  BY <1>2, <1>3, <1>4
<1>6. \A j, k \in S : place[j] = place[k] => j = k
  BY <1>0, <1>4, <1>5
<1>7. place \in Injection(S, 1..n)
  BY <1>4, <1>6 DEF Injection, IsInjective
<1>8. IsFiniteSet(1..n) /\ Cardinality(1..n) = n
  BY <1>1, FS_Interval
<1>9. place \in Surjection(S, 1..n)
  BY <1>7, <1>8, FS_Injection
<1>10. \A r \in 1..n : \E k \in S : place[k] = r
  BY <1>9 DEF Surjection
<1> QED
  BY <1>1, <1>4, <1>5, <1>6, <1>10 DEF Placed

Fractions == [num : Nat, den : Nat \ {0}]

LEMMA ReciprocalIs ==
  ASSUME NEW r \in Nat
  PROVE  /\ Reciprocal(r) \in Fractions
         /\ Reciprocal(r).num \in Nat /\ Reciprocal(r).den \in Nat /\ Reciprocal(r).den > 0
         /\ r = 0 => Reciprocal(r).num = 0
         /\ r # 0 => Reciprocal(r).num = 1 /\ Reciprocal(r).den = RrfK + r
<1>1. RrfK \in Nat /\ RrfK > 0
  BY DocumentViewsAssumption DEF DocumentViewsAssumption
<1> QED
  BY <1>1 DEF Reciprocal, Fractions

NotBehind(r, s) == s = 0 \/ (r # 0 /\ r <= s)

LEMMA ReciprocalsAreOrdered ==
  ASSUME NEW r \in Nat, NEW s \in Nat, NotBehind(r, s)
  PROVE  /\ Reciprocal(s).num * Reciprocal(r).den <= Reciprocal(r).num * Reciprocal(s).den
         /\ ~NotBehind(s, r) =>
              Reciprocal(s).num * Reciprocal(r).den < Reciprocal(r).num * Reciprocal(s).den
<1>1. RrfK \in Nat /\ RrfK > 0
  BY DocumentViewsAssumption DEF DocumentViewsAssumption
<1>2. CASE s = 0
  BY <1>2, ReciprocalIs DEF NotBehind
<1>3. CASE s # 0
  BY <1>1, <1>3, ReciprocalIs DEF NotBehind
<1> QED
  BY <1>2, <1>3

LEMMA ScoreIs ==
  ASSUME NEW v \in Nat, NEW t \in Nat
  PROVE  /\ Score(v, t) \in Fractions
         /\ Score(v, t).num \in Nat /\ Score(v, t).den \in Nat /\ Score(v, t).den > 0
<1> DEFINE p == Reciprocal(v)
           q == Reciprocal(t)
<1>1. p.num \in Nat /\ p.den \in Nat /\ p.den > 0 /\ q.num \in Nat /\ q.den \in Nat /\ q.den > 0
  BY ReciprocalIs
<1> HIDE DEF p, q
<1>2. p.num * q.den + q.num * p.den \in Nat /\ p.den * q.den \in Nat /\ p.den * q.den > 0
  BY <1>1
<1>3. Score(v, t) = [num |-> p.num * q.den + q.num * p.den, den |-> p.den * q.den]
  BY DEF Score, p, q
<1> QED
  BY <1>2, <1>3 DEF Fractions

(* The higher ranked has the higher score.                                 *)
LEMMA ScoresAreOrdered ==
  ASSUME NEW v \in Nat, NEW t \in Nat, NEW w \in Nat, NEW u \in Nat,
         NotBehind(v, w), NotBehind(t, u), ~NotBehind(w, v) \/ ~NotBehind(u, t)
  PROVE  Score(v, t).num * Score(w, u).den > Score(w, u).num * Score(v, t).den
<1> DEFINE p == Reciprocal(v)
           q == Reciprocal(t)
           x == Reciprocal(w)
           y == Reciprocal(u)
<1>1. /\ p.num \in Nat /\ p.den \in Nat /\ p.den > 0 /\ q.num \in Nat /\ q.den \in Nat /\ q.den > 0
      /\ x.num \in Nat /\ x.den \in Nat /\ x.den > 0 /\ y.num \in Nat /\ y.den \in Nat /\ y.den > 0
  BY ReciprocalIs
<1>2. /\ x.num * p.den <= p.num * x.den /\ y.num * q.den <= q.num * y.den
      /\ x.num * p.den < p.num * x.den \/ y.num * q.den < q.num * y.den
  BY ReciprocalsAreOrdered
<1>3. /\ Score(v, t) = [num |-> p.num * q.den + q.num * p.den, den |-> p.den * q.den]
      /\ Score(w, u) = [num |-> x.num * y.den + y.num * x.den, den |-> x.den * y.den]
  BY DEF Score
<1> HIDE DEF p, q, x, y
<1>4. (x.num * y.den + y.num * x.den) * (p.den * q.den) < (p.num * q.den + q.num * p.den) * (x.den * y.den)
  BY <1>1, <1>2, SumsAreOrdered
<1> QED
  BY <1>3, <1>4

LEMMA RankIs ==
  ASSUME NEW ranking \in Seq(Int), NEW key
  PROVE  Rank(ranking, key) \in Nat
<1> DEFINE found == {r \in 1..Min({Len(ranking), CandidatePool}) : ranking[r] = key}
<1>1. \A r \in found : r \in Nat
  <2>1. Len(ranking) \in Nat /\ CandidatePool \in Nat
    BY DocumentViewsAssumption DEF DocumentViewsAssumption
  <2>2. Min({Len(ranking), CandidatePool}) \in Nat
    BY <2>1, MinOfTwo
  <2> QED
    BY <2>2
<1>2. Rank(ranking, key) = IF found = {} THEN 0 ELSE Min(found)
  BY DEF Rank
<1>3. found # {} => Min(found) \in found
  <2> HIDE DEF found
  <2> QED
    BY <1>1, MinOf
<1> HIDE DEF found
<1> QED
  BY <1>1, <1>2, <1>3

LEMMA CandidatesAre ==
  ASSUME NEW ranking \in Seq(Int)
  PROVE  Candidates(ranking) \subseteq Int /\ IsFiniteSet(Candidates(ranking))
<1> DEFINE m == Min({Len(ranking), CandidatePool})
           f == [r \in 1..m |-> ranking[r]]
<1>1. Len(ranking) \in Nat /\ CandidatePool \in Nat
  BY DocumentViewsAssumption DEF DocumentViewsAssumption
<1>2. m \in Nat /\ m <= Len(ranking)
  <2>1. m = IF Len(ranking) <= CandidatePool THEN Len(ranking) ELSE CandidatePool
    BY <1>1, MinOfTwo
  <2> QED
    BY <1>1, <2>1
<1>3. Candidates(ranking) = {ranking[r] : r \in 1..m}
  BY DEF Candidates
<1> HIDE DEF m
<1>4. Candidates(ranking) \subseteq Int
  BY <1>1, <1>2, <1>3
<1>5. f \in Surjection(1..m, Candidates(ranking))
  BY <1>3 DEF Surjection
<1>6. IsFiniteSet(1..m)
  BY <1>2, FS_Interval
<1>7. IsFiniteSet(Candidates(ranking))
  <2> HIDE DEF f
  <2> QED
    BY <1>5, <1>6, FS_Surjection
<1> QED
  BY <1>4, <1>7

(* "Before" is a strict and total order of scored keys.                    *)
LEMMA BeforeIs ==
  ASSUME NEW x \in Fractions, NEW y \in Fractions, NEW z \in Fractions,
         NEW i \in Int, NEW j \in Int, NEW k \in Int
  PROVE  /\ ~Before(x, x, i, i)
         /\ i # j => Before(x, y, i, j) \/ Before(y, x, j, i)
         /\ Before(x, y, i, j) /\ Before(y, z, j, k) => Before(x, z, i, k)
<1>1. /\ x.num \in Nat /\ x.den \in Nat /\ x.den > 0
      /\ y.num \in Nat /\ y.den \in Nat /\ y.den > 0
      /\ z.num \in Nat /\ z.den \in Nat /\ z.den > 0
  BY DEF Fractions
<1>2. /\ x.num * y.den \in Nat /\ y.num * x.den \in Nat /\ y.num * z.den \in Nat
      /\ z.num * y.den \in Nat /\ x.num * z.den \in Nat /\ z.num * x.den \in Nat
      /\ x.num * x.den \in Nat
  BY <1>1
<1>3. y.num * x.den <= x.num * y.den /\ z.num * y.den <= y.num * z.den =>
        /\ z.num * x.den <= x.num * z.den
        /\ y.num * x.den < x.num * y.den \/ z.num * y.den < y.num * z.den =>
             z.num * x.den < x.num * z.den
  BY <1>1, FractionsAreOrdered
<1>4. ~Before(x, x, i, i)
  BY <1>2 DEF Before
<1>5. i # j => Before(x, y, i, j) \/ Before(y, x, j, i)
  BY <1>2 DEF Before
<1>6. Before(x, y, i, j) /\ Before(y, z, j, k) => Before(x, z, i, k)
  BY <1>2, <1>3 DEF Before
<1> QED
  BY <1>4, <1>5, <1>6

(* Every match is ranked once, and one that neither ranking puts behind    *)
(* another, and one puts before it, comes before it (search).              *)
THEOREM RankingsAreFair ==
  \A vector, fulltext \in Seq(Int) : RankingIsFair(vector, fulltext)
<1> SUFFICES ASSUME NEW vector \in Seq(Int), NEW fulltext \in Seq(Int)
             PROVE  RankingIsFair(vector, fulltext)
  OBVIOUS
<1> DEFINE all == Candidates(vector) \cup Candidates(fulltext)
           v(k) == Rank(vector, k)
           t(k) == Rank(fulltext, k)
           score == [k \in all |-> Score(v(k), t(k))]
           below == [k \in all |-> {j \in all : Before(score[j], score[k], j, k)}]
           place == [k \in all |-> Cardinality({j \in all : Before(score[j], score[k], j, k)}) + 1]
           n == Cardinality(all)
           ranked == [r \in 1..n |-> CHOOSE k \in all : place[k] = r]
<1>1. all \subseteq Int /\ IsFiniteSet(all)
  BY CandidatesAre, FS_Union
<1>2. \A k \in all : v(k) \in Nat /\ t(k) \in Nat
  BY RankIs
<1>3. \A k \in all : score[k] = Score(v(k), t(k)) /\ score[k] \in Fractions
  <2> HIDE DEF all
  <2> QED
    BY <1>2, ScoreIs
<1>4. Fuse(vector, fulltext) = ranked
  BY DEF Fuse, Ordered
<1> HIDE DEF all, score
<1>5. /\ below \in [all -> SUBSET all]
      /\ \A j, k \in all : j \in below[k] <=> Before(score[j], score[k], j, k)
  OBVIOUS
<1>6. place = Places(all, below)
  BY DEF Places
<1> HIDE DEF below, place
<1>7. /\ \A k \in all : k \notin below[k]
      /\ \A j, k \in all : j # k => j \in below[k] \/ k \in below[j]
  BY <1>1, <1>3, <1>5, BeforeIs
<1>8. \A j, k \in all : j \in below[k] => below[j] \subseteq below[k]
  <2>1. \A i, j, k \in all : Before(score[i], score[j], i, j) /\ Before(score[j], score[k], j, k)
                               => Before(score[i], score[k], i, k)
    BY <1>1, <1>3, BeforeIs
  <2> QED
    BY <1>5, <2>1
<1>9. /\ n \in Nat
      /\ \A k \in all : place[k] \in 1..n
      /\ \A r \in 1..n : \E k \in all : place[k] = r
      /\ \A j, k \in all : place[j] = place[k] => j = k
      /\ \A j, k \in all : j \in below[k] => place[j] < place[k]
  <2>1. Orders(all, below)
    BY <1>5, <1>7, <1>8 DEF Orders
  <2>2. Placed(all, below, place)
    BY <1>1, <1>6, <2>1, PlacesAre
  <2> QED
    BY <2>2 DEF Placed
<1>10. \A r \in 1..n : ranked[r] \in all /\ place[ranked[r]] = r
  BY <1>9
<1>11. \A k \in all : ranked[place[k]] = k
  BY <1>9, <1>10
<1> HIDE DEF ranked
<1>12. Len(ranked) = n /\ DOMAIN ranked = 1..n
  BY <1>9 DEF ranked
<1>13. {ranked[r] : r \in DOMAIN ranked} = all
  BY <1>9, <1>10, <1>11, <1>12
<1>14. ASSUME NEW r \in 1..n, NEW s \in 1..n,
              NotBehind(v(ranked[r]), v(ranked[s])), NotBehind(t(ranked[r]), t(ranked[s])),
              ~NotBehind(v(ranked[s]), v(ranked[r])) \/ ~NotBehind(t(ranked[s]), t(ranked[r]))
       PROVE  r < s
  <2> DEFINE j == ranked[r]
             k == ranked[s]
  <2>1. j \in all /\ k \in all /\ place[j] = r /\ place[k] = s
    BY <1>10
  <2>2. Score(v(j), t(j)).num * Score(v(k), t(k)).den > Score(v(k), t(k)).num * Score(v(j), t(j)).den
    <3>1. v(j) \in Nat /\ t(j) \in Nat /\ v(k) \in Nat /\ t(k) \in Nat
      BY <1>2, <2>1
    <3> HIDE DEF v, t
    <3> QED
      BY <1>14, <3>1, ScoresAreOrdered
  <2>3. Before(score[j], score[k], j, k)
    BY <1>3, <2>1, <2>2 DEF Before
  <2>4. j \in below[k]
    BY <1>5, <2>1, <2>3
  <2> HIDE DEF j, k
  <2> QED
    BY <1>9, <2>1, <2>4
<1>15. RankingIsFair(vector, fulltext) <=>
         /\ Len(ranked) = n /\ {ranked[r] : r \in DOMAIN ranked} = all
         /\ \A r, s \in DOMAIN ranked :
              (/\ NotBehind(v(ranked[r]), v(ranked[s])) /\ NotBehind(t(ranked[r]), t(ranked[s]))
               /\ ~NotBehind(v(ranked[s]), v(ranked[r])) \/ ~NotBehind(t(ranked[s]), t(ranked[r]))) => r < s
  BY <1>4 DEF RankingIsFair, NotBehind, all
<1> QED
  BY <1>12, <1>13, <1>14, <1>15

-------------------------------------------------------------------------------
(* What is flattened, piece by piece.                                      *)

Joins(c, d, e) ==
  /\ Len(c) \in Nat /\ Len(d) \in Nat /\ Len(e) = Len(c) + Len(d)
  /\ \A k \in 1..Len(c) : e[k] = c[k]
  /\ \A k \in 1..Len(d) : e[Len(c) + k] = d[k]

LEMMA JoinIs ==
  ASSUME NEW S, NEW c, c \in Seq(S), NEW d, d \in Seq(S), NEW e, e = c \o d
  PROVE  Joins(c, d, e)
<1>1. /\ Len(c) \in Nat /\ Len(d) \in Nat /\ Len(c \o d) = Len(c) + Len(d)
      /\ \A k \in 1..Len(c) : (c \o d)[k] = c[k]
      /\ \A k \in 1..Len(d) : (c \o d)[Len(c) + k] = d[k]
  BY ConcatIs
<1> DEFINE j == c \o d
<1> HIDE DEF j
<1>2. /\ Len(j) = Len(c) + Len(d)
      /\ \A k \in 1..Len(c) : j[k] = c[k]
      /\ \A k \in 1..Len(d) : j[Len(c) + k] = d[k]
  BY <1>1 DEF j
<1>3. Joins(c, d, j)
  BY <1>1, <1>2 DEF Joins
<1> QED
  BY <1>3 DEF j

Flattening(S, ss, f) ==
  /\ f[0] = <<>>
  /\ \A i \in 0..Len(ss) : f[i] \in Seq(S)
  /\ \A i \in 1..Len(ss) : f[i] = f[i - 1] \o ss[i]
  /\ FlattenSeq(ss) = f[Len(ss)]

LEMMA SumRises ==
  ASSUME NEW a, a \in Nat, NEW b, b \in Nat, a <= b, NEW d, d \in Nat, NEW e, e = b + d
  PROVE  e \in Nat /\ a <= e
  OBVIOUS

LEMMA FlattenSteps ==
  ASSUME NEW S, NEW ss \in Seq(Seq(S))
  PROVE  \E f : Flattening(S, ss, f)
<1>0. Len(ss) \in Nat /\ DOMAIN ss = 1..Len(ss) /\ \A i \in 1..Len(ss) : ss[i] \in Seq(S)
  OBVIOUS
<1>1. CASE Len(ss) = 0
  <2> DEFINE f == [i \in 0..0 |-> <<>>]
  <2>1. ss = <<>> /\ <<>> \in Seq(S) /\ Len(<<>>) = 0
    BY <1>1, EmptySeq
  <2>2. FlattenSeq(ss) = <<>>
    BY <1>1, <2>1 DEF FlattenSeq
  <2>3. f[0] = <<>> /\ \A i \in 0..Len(ss) : f[i] = <<>>
    BY <1>1
  <2> HIDE DEF f
  <2>4. /\ \A i \in 0..Len(ss) : f[i] \in Seq(S)
        /\ \A i \in 1..Len(ss) : f[i] = f[i - 1] \o ss[i]
        /\ FlattenSeq(ss) = f[Len(ss)]
    <3>1. 1..Len(ss) = {} /\ 0 \in 0..Len(ss)
      BY <1>1
    <3>2. FlattenSeq(ss) = f[Len(ss)]
      BY <1>1, <2>2, <2>3
    <3>3. \A i \in 0..Len(ss) : f[i] \in Seq(S)
      BY <2>1, <2>3
    <3> QED
      BY <3>1, <3>2, <3>3
  <2>5. Flattening(S, ss, f)
    BY <2>3, <2>4, Zenon DEF Flattening
  <2> QED
    BY <2>5
<1>2. CASE Len(ss) # 0
  <2>1. PICK g : /\ g = [i \in 1..Len(ss) |-> IF i = 1 THEN ss[i] ELSE g[i - 1] \o ss[i]]
                 /\ FlattenSeq(ss) = g[Len(ss)]
    BY <1>0, <1>2, FlattenRecursion
  <2> DEFINE f == [i \in 0..Len(ss) |-> IF i = 0 THEN <<>> ELSE g[i]]
             G == {i \in 0..Len(ss) : f[i] \in Seq(S)}
  <2>2. \A i \in 1..Len(ss) : g[i] = IF i = 1 THEN ss[i] ELSE g[i - 1] \o ss[i]
    BY <2>1
  <2>3. f[0] = <<>> /\ \A i \in 1..Len(ss) : f[i] = g[i]
    BY <1>0
  <2> HIDE DEF f
  <2>4. ASSUME NEW i \in 1..Len(ss) PROVE f[i] = f[i - 1] \o ss[i]
    <3>1. CASE i = 1
      <4>1. g[i] = ss[i] /\ i - 1 = 0
        BY <2>2, <3>1
      <4>2. f[i] = ss[i] /\ f[i - 1] = <<>>
        BY <2>3, <4>1
      <4>3. ss[i] \in Seq(S)
        BY <1>0
      <4>4. <<>> \o ss[i] = ss[i]
        BY <4>3, ConcatEmptySeq
      <4> QED
        BY <4>2, <4>4
    <3>2. CASE i # 1
      <4>1. i - 1 \in 1..Len(ss)
        BY <1>0, <3>2
      <4>2. f[i] = g[i] /\ f[i - 1] = g[i - 1] /\ g[i] = g[i - 1] \o ss[i]
        BY <2>2, <2>3, <3>2, <4>1
      <4> QED
        BY <4>2
    <3> QED
      BY <3>1, <3>2
  <2>5. 0 \in G
    <3>1. <<>> \in Seq(S)
      BY EmptySeq
    <3>2. 0 \in 0..Len(ss) /\ f[0] \in Seq(S)
      BY <1>0, <2>3, <3>1
    <3> HIDE DEF f
    <3> QED
      BY <3>2
  <2>6. ASSUME NEW i \in 1..Len(ss), i - 1 \in G PROVE i \in G
    <3>1. f[i - 1] \in Seq(S) /\ ss[i] \in Seq(S)
      BY <1>0, <2>6
    <3>2. f[i] \in Seq(S)
      BY <2>4, <3>1, ConcatProperties
    <3> QED
      BY <3>2
  <2>7. \A i \in 0..Len(ss) : i \in G
    <3> HIDE DEF G
    <3> QED
      BY <1>0, <2>5, <2>6, Induction
  <2>8. \A i \in 0..Len(ss) : f[i] \in Seq(S)
    BY <2>7
  <2>9. FlattenSeq(ss) = f[Len(ss)]
    <3>1. Len(ss) \in 1..Len(ss)
      BY <1>0, <1>2
    <3>2. f[Len(ss)] = g[Len(ss)]
      BY <2>3, <3>1
    <3> QED
      BY <2>1, <3>2
  <2>10. Flattening(S, ss, f)
    BY <2>3, <2>4, <2>8, <2>9 DEF Flattening
  <2> QED
    BY <2>10
<1> QED
  BY <1>1, <1>2

(* What comes first stays there.                                           *)
LEMMA FlattenGrows ==
  ASSUME NEW S, NEW ss \in Seq(Seq(S)), NEW f, Flattening(S, ss, f), NEW n \in 0..Len(ss)
  PROVE  /\ Len(FlattenSeq(ss)) \in Nat /\ Len(f[n]) \in Nat
         /\ Len(f[n]) <= Len(FlattenSeq(ss))
         /\ \A k \in 1..Len(f[n]) : FlattenSeq(ss)[k] = f[n][k]
<1> DEFINE L == Len(ss)
           Keeps(i) == /\ Len(f[i]) \in Nat /\ Len(f[n]) <= Len(f[i])
                       /\ \A k \in 1..Len(f[n]) : f[i][k] = f[n][k]
           G == {i \in 0..L : i < n \/ Keeps(i)}
<1>0. L \in Nat /\ n \in 0..L /\ \A i \in 1..L : ss[i] \in Seq(S)
  OBVIOUS
<1>1. \A i \in 0..L : f[i] \in Seq(S) /\ Len(f[i]) \in Nat
  <2>1. \A i \in 0..L : f[i] \in Seq(S)
    BY DEF Flattening
  <2> QED
    BY <2>1
<1>2. Keeps(n)
  BY <1>0, <1>1
<1>3. 0 \in G
  <2>1. n = 0 \/ 0 < n
    BY <1>0
  <2> HIDE DEF Keeps
  <2> QED
    BY <1>0, <1>2, <2>1
<1>4. ASSUME NEW i \in 1..L, i - 1 \in G PROVE i \in G
  <2>1. CASE i < n
    BY <2>1
  <2>2. CASE i = n
    <3> HIDE DEF Keeps
    <3> QED
      BY <1>2, <2>2
  <2>3. CASE i > n
    <3>1. ~(i - 1 < n) /\ i - 1 \in 0..L
      BY <1>0, <2>3
    <3>2. Keeps(i - 1)
      <4> HIDE DEF Keeps
      <4> QED
        BY <1>4, <3>1
    <3>3. f[i] = f[i - 1] \o ss[i] /\ f[i - 1] \in Seq(S) /\ ss[i] \in Seq(S)
      BY <1>0, <1>1, <3>1 DEF Flattening
    <3>4. /\ Len(f[i]) = Len(f[i - 1]) + Len(ss[i]) /\ Len(ss[i]) \in Nat
          /\ \A k \in 1..Len(f[i - 1]) : f[i][k] = f[i - 1][k]
      <4>1. Joins(f[i - 1], ss[i], f[i])
        BY <3>3, JoinIs, Zenon
      <4> QED
        BY <4>1 DEF Joins
    <3>5. \A k \in 1..Len(f[n]) : k \in 1..Len(f[i - 1])
      BY <1>0, <1>1, <3>2
    <3>6. Len(f[i]) \in Nat /\ Len(f[n]) <= Len(f[i])
      <4>1. Len(f[n]) \in Nat /\ Len(f[i - 1]) \in Nat /\ Len(f[n]) <= Len(f[i - 1])
        BY <1>0, <1>1, <3>1, <3>2
      <4>2. Len(f[i]) = Len(f[i - 1]) + Len(ss[i]) /\ Len(ss[i]) \in Nat
        BY <3>4
      <4> QED
        BY <4>1, <4>2, SumRises, Zenon
    <3>7. \A k \in 1..Len(f[n]) : f[i][k] = f[n][k]
      BY <3>2, <3>4, <3>5
    <3>8. Keeps(i)
      BY <3>6, <3>7
    <3> HIDE DEF Keeps
    <3> QED
      BY <3>8
  <2> QED
    BY <1>0, <2>1, <2>2, <2>3
<1>5. \A i \in 0..L : i \in G
  <2> HIDE DEF G
  <2> QED
    BY <1>0, <1>3, <1>4, Induction
<1>6. Keeps(L)
  <2> HIDE DEF Keeps
  <2> QED
    BY <1>0, <1>5
<1>7. FlattenSeq(ss) = f[L]
  BY DEF Flattening
<1> QED
  BY <1>0, <1>1, <1>6, <1>7

(* Consecutive parts of q make up q.                                       *)
Tiles(q, ss, cut) ==
  /\ cut[0] = 0 /\ cut[Len(ss)] = Len(q)
  /\ \A i \in 0..Len(ss) : cut[i] \in Nat
  /\ \A i \in 1..Len(ss) : /\ Len(ss[i]) = cut[i] - cut[i - 1]
                           /\ \A k \in 1..Len(ss[i]) : ss[i][k] = q[cut[i - 1] + k]

LEMMA FlattenTiles ==
  ASSUME NEW S, NEW ss \in Seq(Seq(S)), NEW q \in Seq(S), NEW cut, Tiles(q, ss, cut)
  PROVE  FlattenSeq(ss) = q
<1> DEFINE L == Len(ss)
<1>1. PICK f : Flattening(S, ss, f)
  BY FlattenSteps
<1> DEFINE Good(i) == Len(f[i]) = cut[i] /\ \A k \in 1..cut[i] : f[i][k] = q[k]
           G == {i \in 0..L : Good(i)}
<1>0. L \in Nat /\ \A i \in 1..L : ss[i] \in Seq(S)
  OBVIOUS
<1>2. /\ f[0] = <<>>
      /\ \A i \in 0..L : f[i] \in Seq(S)
      /\ \A i \in 1..L : f[i] = f[i - 1] \o ss[i]
  BY <1>1 DEF Flattening
<1>3. /\ cut[0] = 0 /\ cut[L] = Len(q)
      /\ \A i \in 0..L : cut[i] \in Nat
      /\ \A i \in 1..L : /\ Len(ss[i]) = cut[i] - cut[i - 1]
                         /\ \A k \in 1..Len(ss[i]) : ss[i][k] = q[cut[i - 1] + k]
  BY DEF Tiles
<1>4. 0 \in G
  <2>1. Len(<<>>) = 0
    OBVIOUS
  <2> QED
    BY <1>0, <1>2, <1>3, <2>1
<1>5. ASSUME NEW i \in 1..L, i - 1 \in G PROVE i \in G
  <2>1. i - 1 \in 0..L /\ Good(i - 1)
    BY <1>5
  <2>2. f[i] = f[i - 1] \o ss[i] /\ f[i - 1] \in Seq(S) /\ ss[i] \in Seq(S)
    BY <1>0, <1>2, <2>1
  <2>3. /\ Len(f[i]) = Len(f[i - 1]) + Len(ss[i])
        /\ \A k \in 1..Len(f[i - 1]) : f[i][k] = f[i - 1][k]
        /\ \A k \in 1..Len(ss[i]) : f[i][Len(f[i - 1]) + k] = ss[i][k]
        /\ Len(ss[i]) \in Nat /\ Len(f[i - 1]) \in Nat
    <3>1. Joins(f[i - 1], ss[i], f[i])
      BY <2>2, JoinIs, Zenon
    <3> QED
      BY <3>1 DEF Joins
  <2>4. cut[i - 1] \in Nat /\ cut[i] \in Nat /\ Len(f[i]) = cut[i]
    BY <1>3, <2>1, <2>3, SMTT(30)
  <2>5. ASSUME NEW k \in 1..cut[i] PROVE f[i][k] = q[k]
    <3>1. CASE k <= cut[i - 1]
      <4>1. k \in 1..cut[i - 1] /\ k \in 1..Len(f[i - 1])
        BY <2>1, <2>4, <3>1
      <4> QED
        BY <2>1, <2>3, <4>1
    <3>2. CASE k > cut[i - 1]
      <4> DEFINE m == k - cut[i - 1]
      <4>1. m \in 1..Len(ss[i]) /\ cut[i - 1] + m = k
        <5>1. Len(ss[i]) = cut[i] - cut[i - 1]
          BY <1>3
        <5> QED
          BY <2>4, <3>2, <5>1, SMTT(30)
      <4> HIDE DEF m
      <4>2. f[i][Len(f[i - 1]) + m] = ss[i][m] /\ ss[i][m] = q[cut[i - 1] + m]
        BY <1>3, <2>3, <4>1
      <4> QED
        BY <2>1, <4>1, <4>2
    <3> QED
      BY <2>4, <3>1, <3>2
  <2>6. Good(i)
    BY <2>4, <2>5
  <2> HIDE DEF Good
  <2> QED
    BY <2>6
<1>6. \A i \in 0..L : i \in G
  <2> HIDE DEF G
  <2> QED
    BY <1>0, <1>4, <1>5, Induction
<1>7. Good(L)
  <2> HIDE DEF Good
  <2> QED
    BY <1>0, <1>6
<1>8. f[L] = q
  <2>1. Len(f[L]) = Len(q) /\ \A k \in 1..Len(f[L]) : f[L][k] = q[k]
    BY <1>3, <1>7
  <2>2. f[L] \in Seq(S)
    BY <1>0, <1>2
  <2> QED
    BY <2>1, <2>2, SeqEqual
<1> QED
  BY <1>1, <1>8 DEF Flattening

-------------------------------------------------------------------------------
(* A table that is read back from its chunks.                              *)

LEMMA FunctionIsSeq ==
  ASSUME NEW S, NEW n, n \in Nat, NEW f, f \in [1..n -> S]
  PROVE  f \in Seq(S) /\ Len(f) = n
  OBVIOUS

(* The groups of rows, one after the other.                                *)
GroupsFollow(g, n) ==
  /\ Len(g) \in Nat /\ DOMAIN g = 1..Len(g)
  /\ n = 0 => Len(g) = 0
  /\ n > 0 => Len(g) > 0 /\ g[1].first = 1 /\ g[Len(g)].last = n
  /\ \A k \in 1..Len(g) : g[k].first \in Nat /\ g[k].last \in Nat /\ g[k].first <= g[k].last
  /\ \A k \in 2..Len(g) : g[k].first = g[k - 1].last + 1

LEMMA GroupsAre ==
  ASSUME NEW h \in Nat, NEW p \in Seq(Nat), NEW g, g = ChunkCsvRows(h, p), NEW n, n = Len(p)
  PROVE  GroupsFollow(g, n)
<1>0. Len(p) \in Nat
  OBVIOUS
<1>1. g \in Seq(Spans) /\ (Len(p) = 0 => Len(g) = 0)
  <2>1. CASE Len(p) = 0
    <3>1. p = <<>>
      BY <2>1, EmptySeq
    <3>2. g = <<>>
      BY <3>1 DEF ChunkCsvRows
    <3> QED
      BY <3>2, EmptySeq
  <2>2. CASE Len(p) # 0
    <3> DEFINE s == Grouped(h, p)[Len(p)]
    <3>1. s.first \in 1..Len(p) /\ s.chunks \in Seq(Spans)
      <4>1. Len(p) \in 1..Len(p)
        BY <1>0, <2>2
      <4> QED
        BY <4>1, GroupedKeeps DEF Filling, RowGroups
    <3>2. g = Append(s.chunks, Chunk(s.first, Len(p)))
      <4>1. p # <<>>
        BY <2>2
      <4> QED
        BY <4>1 DEF ChunkCsvRows
    <3>3. Chunk(s.first, Len(p)) \in Spans
      BY <1>0, <3>1, ChunkIs
    <3> HIDE DEF s
    <3>4. g \in Seq(Spans)
      BY <3>1, <3>2, <3>3, AppendIs
    <3> QED
      BY <2>2, <3>4
  <2> QED
    BY <2>1, <2>2
<1>2. Partitions(g, Len(p))
  BY RowsAreGrouped DEF RowGroupsFit
<1>3. /\ Len(p) > 0 => g # <<>> /\ g[1].first = 1 /\ g[Len(g)].last = Len(p)
      /\ \A k \in DOMAIN g : g[k].first <= g[k].last
      /\ \A k \in 1..Len(g) - 1 : g[k + 1].first = g[k].last + 1
  BY <1>2 DEF Partitions, Last
<1>4. Len(g) \in Nat /\ DOMAIN g = 1..Len(g) /\ (g # <<>> => Len(g) > 0)
  BY <1>1, EmptySeq
<1>5. ASSUME NEW k \in 1..Len(g) PROVE g[k].first \in Nat /\ g[k].last \in Nat
  <2>1. g[k] \in Spans
    BY <1>1, ElementOfSeq
  <2> QED
    BY <2>1 DEF Spans
<1>6. ASSUME NEW k \in 2..Len(g) PROVE g[k].first = g[k - 1].last + 1
  <2>1. k - 1 \in 1..Len(g) - 1 /\ k - 1 + 1 = k
    BY <1>4
  <2> QED
    BY <1>3, <2>1
<1> QED
  BY <1>1, <1>3, <1>4, <1>5, <1>6 DEF GroupsFollow

LEMMA JoinedRecursion ==
  ASSUME NEW p, Len(p) \in Nat, NEW x
  PROVE  JoinedTo(p, x) = [n \in 0..Len(p) |->
           IF n = 0 THEN <<>>
           ELSE IF n = 1 THEN p[n] ELSE Append(JoinedTo(p, x)[n - 1], x) \o p[n]]
<1> DEFINE Next1(c, n) == IF n = 1 THEN p[n] ELSE Append(c, x) \o p[n]
           Join(m, f) == f = [n \in 0..m |-> IF n = 0 THEN <<>> ELSE Next1(f[n - 1], n)]
           G == {m \in 0..Len(p) : \E f : Join(m, f)}
<1> HIDE DEF Next1
<1>1. 0 \in G
  <2>1. Join(0, [n \in 0..0 |-> <<>>])
    OBVIOUS
  <2>2. 0 \in 0..Len(p)
    OBVIOUS
  <2> HIDE DEF Join
  <2> QED
    BY <2>1, <2>2
<1>2. ASSUME NEW m \in 1..Len(p), m - 1 \in G
      PROVE  m \in G
  <2>1. PICK f : Join(m - 1, f)
    BY <1>2
  <2> DEFINE g == [n \in 0..m |-> IF n = m THEN Next1(f[m - 1], m) ELSE f[n]]
  <2>2. Join(m, g)
    BY <2>1
  <2>3. m \in 0..Len(p)
    OBVIOUS
  <2> HIDE DEF Join
  <2> QED
    BY <2>2, <2>3
<1>3. \A m \in 0..Len(p) : m \in G
  <2> HIDE DEF G
  <2> QED
    BY <1>1, <1>2, Induction
<1>4. PICK f : Join(Len(p), f)
  BY <1>3
<1> QED
  BY <1>4 DEF JoinedTo, Next1

LEMMA ReadingRecursion ==
  ASSUME NEW p, Len(p) \in Nat
  PROVE  Reading(p) = [n \in 0..Len(p) |->
           IF n = 0 THEN Unread ELSE ReadSymbol(Reading(p)[n - 1], p[n])]
<1> DEFINE Read(m, f) == f = [n \in 0..m |-> IF n = 0 THEN Unread ELSE ReadSymbol(f[n - 1], p[n])]
           G == {m \in 0..Len(p) : \E f : Read(m, f)}
<1>1. 0 \in G
  <2>1. Read(0, [n \in 0..0 |-> Unread])
    OBVIOUS
  <2>2. 0 \in 0..Len(p)
    OBVIOUS
  <2> HIDE DEF Read
  <2> QED
    BY <2>1, <2>2
<1>2. ASSUME NEW m \in 1..Len(p), m - 1 \in G
      PROVE  m \in G
  <2>1. PICK f : Read(m - 1, f)
    BY <1>2
  <2> DEFINE g == [n \in 0..m |-> IF n = m THEN ReadSymbol(f[m - 1], p[m]) ELSE f[n]]
  <2>2. Read(m, g)
    BY <2>1
  <2>3. m \in 0..Len(p)
    OBVIOUS
  <2> HIDE DEF Read
  <2> QED
    BY <2>2, <2>3
<1>3. \A m \in 0..Len(p) : m \in G
  <2> HIDE DEF G
  <2> QED
    BY <1>1, <1>2, Induction
<1>4. PICK f : Read(Len(p), f)
  BY <1>3
<1> QED
  BY <1>4 DEF Reading

LEMMA ColumnsRecursion ==
  ASSUME NEW p, Len(p) \in Nat
  PROVE  ColumnsTo(p) = [n \in 0..Len(p) |->
           IF n = 0 THEN <<>>
           ELSE IF ColumnsTo(p)[n - 1] # <<>> \/ p[n] = <<>> THEN ColumnsTo(p)[n - 1] ELSE Head(p[n])]
<1> DEFINE Next1(c, n) == IF c # <<>> \/ p[n] = <<>> THEN c ELSE Head(p[n])
           Take(m, f) == f = [n \in 0..m |-> IF n = 0 THEN <<>> ELSE Next1(f[n - 1], n)]
           G == {m \in 0..Len(p) : \E f : Take(m, f)}
<1> HIDE DEF Next1
<1>1. 0 \in G
  <2>1. Take(0, [n \in 0..0 |-> <<>>])
    OBVIOUS
  <2>2. 0 \in 0..Len(p)
    OBVIOUS
  <2> HIDE DEF Take
  <2> QED
    BY <2>1, <2>2
<1>2. ASSUME NEW m \in 1..Len(p), m - 1 \in G
      PROVE  m \in G
  <2>1. PICK f : Take(m - 1, f)
    BY <1>2
  <2> DEFINE g == [n \in 0..m |-> IF n = m THEN Next1(f[m - 1], m) ELSE f[n]]
  <2>2. Take(m, g)
    BY <2>1
  <2>3. m \in 0..Len(p)
    OBVIOUS
  <2> HIDE DEF Take
  <2> QED
    BY <2>2, <2>3
<1>3. \A m \in 0..Len(p) : m \in G
  <2> HIDE DEF G
  <2> QED
    BY <1>1, <1>2, Induction
<1>4. PICK f : Take(Len(p), f)
  BY <1>3
<1> QED
  BY <1>4 DEF ColumnsTo, Next1

(* A part of a text begins behind p.                                       *)
Includes(text, p, part) ==
  /\ p \in Nat /\ p + Len(part) <= Len(text)
  /\ \A i \in 1..Len(part) : text[p + i] = part[i]

Extends(c, d) ==
  /\ Len(c) \in Nat /\ Len(d) \in Nat /\ Len(c) <= Len(d)
  /\ \A i \in 1..Len(c) : d[i] = c[i]

(* Where the parts of a text begin that was joined of them.                *)
JoinedAt(S, parts, x, text, o) ==
  /\ text \in Seq(S)
  /\ \A k \in 1..Len(parts) : Includes(text, o[k], parts[k])
  /\ \A k \in 1..Len(parts) - 1 : o[k + 1] = o[k] + Len(parts[k]) + 1 /\ text[o[k + 1]] = x
  /\ Len(parts) > 0 => o[1] = 0 /\ Len(text) = o[Len(parts)] + Len(parts[Len(parts)])

(* A part is joined to a text c.                                           *)
JoinsTo(S, x, c, d, e) ==
  x \in S /\ c \in Seq(S) /\ d \in Seq(S) /\ e = Append(c, x) \o d

JoinedTwo(S, x, c, d, e) ==
  /\ e \in Seq(S) /\ Len(c) \in Nat /\ Len(d) \in Nat /\ Len(e) = Len(c) + 1 + Len(d)
  /\ Extends(c, e) /\ e[Len(c) + 1] = x
  /\ \A i \in 1..Len(d) : e[Len(c) + 1 + i] = d[i]

LEMMA JoinedStep ==
  ASSUME NEW S, NEW x, NEW c, NEW d, NEW e, JoinsTo(S, x, c, d, e)
  PROVE  JoinedTwo(S, x, c, d, e)
<1>0. x \in S /\ c \in Seq(S) /\ d \in Seq(S) /\ e = Append(c, x) \o d
  BY DEF JoinsTo
<1> DEFINE b == Append(c, x)
<1>1. /\ b \in Seq(S) /\ Len(c) \in Nat /\ Len(b) = Len(c) + 1 /\ b[Len(c) + 1] = x
      /\ \A i \in 1..Len(c) : b[i] = c[i]
  BY <1>0, AppendIs
<1>2. e = b \o d
  BY <1>0
<1> HIDE DEF b
<1>3. e \in Seq(S) /\ Joins(b, d, e)
  BY <1>0, <1>1, <1>2, JoinIs, ConcatProperties
<1>4. /\ Len(b) \in Nat /\ Len(d) \in Nat /\ Len(e) = Len(b) + Len(d)
      /\ \A k \in 1..Len(b) : e[k] = b[k]
      /\ \A k \in 1..Len(d) : e[Len(b) + k] = d[k]
  BY <1>3 DEF Joins
<1>5. \A k \in 1..Len(c) : k \in 1..Len(b) /\ e[k] = c[k]
  BY <1>1, <1>4
<1>6. Len(c) + 1 \in 1..Len(b) /\ e[Len(c) + 1] = x
  BY <1>1, <1>4
<1>7. Extends(c, e)
  BY <1>1, <1>4, <1>5 DEF Extends
<1> QED
  BY <1>1, <1>3, <1>4, <1>6, <1>7 DEF JoinedTwo

LEMMA ExtendsMore ==
  ASSUME NEW c, NEW d, NEW e, Extends(c, d), Extends(d, e)
  PROVE  Extends(c, e)
<1>1. Len(c) \in Nat /\ Len(d) \in Nat /\ Len(e) \in Nat /\ Len(c) <= Len(d) /\ Len(d) <= Len(e)
  BY DEF Extends
<1>2. ASSUME NEW i \in 1..Len(c) PROVE e[i] = c[i]
  <2>1. i \in 1..Len(d)
    BY <1>1
  <2> QED
    BY <2>1 DEF Extends
<1> QED
  BY <1>1, <1>2 DEF Extends

LEMMA ExtendsItself ==
  ASSUME NEW c, Len(c) \in Nat
  PROVE  Extends(c, c)
BY DEF Extends

(* What extends step by step.                                              *)
LEMMA ExtendsTo ==
  ASSUME NEW n \in Nat, NEW j, \A i \in 0..n : Len(j[i]) \in Nat,
         NEW m \in 0..n, \A i \in m + 1..n : Extends(j[i - 1], j[i]), NEW k \in m..n
  PROVE  Extends(j[m], j[k])
<1> DEFINE G == {i \in 0..n : i < m \/ Extends(j[m], j[i])}
<1>1. 0 \in G
  <2>1. m = 0 => Extends(j[m], j[0])
    BY ExtendsItself
  <2> QED
    BY <2>1
<1>2. ASSUME NEW i \in 1..n, i - 1 \in G PROVE i \in G
  <2>1. CASE i < m
    BY <2>1
  <2>2. CASE i = m
    <3>1. Extends(j[m], j[i])
      BY <2>2, ExtendsItself
    <3> QED
      BY <3>1
  <2>3. CASE i > m
    <3>1. i \in m + 1..n /\ ~(i - 1 < m)
      BY <2>3
    <3>2. Extends(j[m], j[i - 1]) /\ Extends(j[i - 1], j[i])
      BY <1>2, <3>1
    <3>3. Extends(j[m], j[i])
      BY <3>2, ExtendsMore
    <3> QED
      BY <3>3
  <2> QED
    BY <2>1, <2>2, <2>3
<1>3. \A i \in 0..n : i \in G
  <2> HIDE DEF G
  <2> QED
    BY <1>1, <1>2, Induction
<1> QED
  BY <1>3

IsBehind(a, b, c, d) == a \in Nat /\ b \in Nat /\ c \in Nat /\ a = b + 1 + c /\ d = b + 1

LEMMA SumsAre ==
  ASSUME NEW a, NEW b, NEW c, NEW d, IsBehind(a, b, c, d)
  PROVE  d \in Nat /\ d + c = a /\ d \in 1..a
  BY DEF IsBehind

LEMMA JoinedIs ==
  ASSUME NEW S, NEW x \in S, NEW parts \in Seq(Seq(S))
  PROVE  \E o : JoinedAt(S, parts, x, Joined(parts, x), o)
<1> DEFINE L == Len(parts)
           j == JoinedTo(parts, x)
           o == [k \in 1..L |-> Len(j[k]) - Len(parts[k])]
<1>0. L \in Nat /\ \A k \in 1..L : parts[k] \in Seq(S) /\ Len(parts[k]) \in Nat
  BY ElementOfSeq
<1>1. /\ j[0] = <<>> /\ (L > 0 => j[1] = parts[1])
      /\ \A n \in 2..L : j[n] = Append(j[n - 1], x) \o parts[n]
  <2>1. j = [n \in 0..L |-> IF n = 0 THEN <<>>
                            ELSE IF n = 1 THEN parts[n] ELSE Append(j[n - 1], x) \o parts[n]]
    BY <1>0, JoinedRecursion
  <2> HIDE DEF j
  <2> QED
    BY <1>0, <2>1
<1>2. Joined(parts, x) = j[L]
  BY DEF Joined
<1>13. \A k \in 1..L : o[k] = Len(j[k]) - Len(parts[k])
  OBVIOUS
<1> HIDE DEF j, o
<1>14. ASSUME NEW n \in 2..L, j[n - 1] \in Seq(S)
       PROVE  /\ j[n] \in Seq(S)
              /\ Len(j[n - 1]) \in Nat /\ Len(parts[n]) \in Nat
              /\ Len(j[n]) = Len(j[n - 1]) + 1 + Len(parts[n])
              /\ Extends(j[n - 1], j[n]) /\ j[n][Len(j[n - 1]) + 1] = x
              /\ \A i \in 1..Len(parts[n]) : j[n][Len(j[n - 1]) + 1 + i] = parts[n][i]
  <2>0. n \in 1..L
    BY <1>0
  <2>1. parts[n] \in Seq(S)
    BY <1>0, <2>0
  <2>2. j[n] = Append(j[n - 1], x) \o parts[n]
    BY <1>1
  <2> HIDE DEF L
  <2> DEFINE c == j[n - 1]
             e == j[n]
             d == parts[n]
  <2>3. JoinsTo(S, x, c, d, e)
    BY <1>14, <2>1, <2>2 DEF JoinsTo
  <2> HIDE DEF c, d, e
  <2>4. JoinedTwo(S, x, c, d, e)
    BY <2>3, JoinedStep, Zenon
  <2> QED
    BY <2>4, Zenon DEF JoinedTwo, c, d, e
<1>3. \A n \in 0..L : j[n] \in Seq(S) /\ Len(j[n]) \in Nat
  <2> DEFINE G == {n \in 0..L : j[n] \in Seq(S)}
  <2>1. 0 \in G
    <3>1. j[0] \in Seq(S)
      BY <1>1, EmptySeq, Zenon
    <3> QED
      BY <1>0, <3>1
  <2>2. ASSUME NEW n \in 1..L, n - 1 \in G PROVE n \in G
    <3>1. CASE n = 1
      BY <1>0, <1>1, <3>1
    <3>2. CASE n # 1
      <4>1. n \in 2..L /\ j[n - 1] \in Seq(S)
        BY <1>0, <2>2, <3>2
      <4>2. j[n] \in Seq(S)
        BY <1>14, <4>1
      <4> QED
        BY <4>2
    <3> QED
      BY <3>1, <3>2
  <2>3. \A n \in 0..L : n \in G
    <3> HIDE DEF G
    <3> QED
      BY <1>0, <2>1, <2>2, Induction
  <2> QED
    BY <2>3, LenProperties
<1>4. ASSUME NEW n \in 2..L
      PROVE  /\ Len(j[n]) = Len(j[n - 1]) + 1 + Len(parts[n])
             /\ Extends(j[n - 1], j[n]) /\ j[n][Len(j[n - 1]) + 1] = x
             /\ \A i \in 1..Len(parts[n]) : j[n][Len(j[n - 1]) + 1 + i] = parts[n][i]
  <2>1. n \in 1..L /\ n - 1 \in 0..L
    BY <1>0
  <2> QED
    BY <1>3, <1>14, <2>1
<1>5. \A n \in 1..L : Extends(j[n - 1], j[n])
  <2>1. ASSUME NEW n \in 1..L, n = 1 PROVE Extends(j[n - 1], j[n])
    <3>1. Len(j[0]) = 0 /\ Len(j[1]) \in Nat
      BY <1>0, <1>1, <1>3, <2>1, EmptySeq
    <3> QED
      BY <2>1, <3>1 DEF Extends
  <2>2. ASSUME NEW n \in 1..L, n # 1 PROVE Extends(j[n - 1], j[n])
    <3>1. n \in 2..L
      BY <1>0, <2>2
    <3> QED
      BY <1>4, <3>1
  <2> QED
    BY <2>1, <2>2
<1>6. ASSUME NEW k \in 1..L PROVE Extends(j[k], j[L])
  <2>1. k \in 0..L /\ L \in k..L /\ \A i \in k + 1..L : i \in 1..L
    BY <1>0
  <2>2. \A i \in k + 1..L : Extends(j[i - 1], j[i])
    BY <1>5, <2>1
  <2>3. \A i \in 0..L : Len(j[i]) \in Nat
    BY <1>3
  <2> QED
    BY <1>0, <2>1, <2>2, <2>3, ExtendsTo
<1>7. ASSUME NEW k \in 1..L
      PROVE  /\ o[k] \in Nat /\ o[k] + Len(parts[k]) = Len(j[k])
             /\ \A i \in 1..Len(parts[k]) : j[k][o[k] + i] = parts[k][i]
             /\ k > 1 => o[k] = Len(j[k - 1]) + 1
             /\ k = 1 => o[k] = 0
  <2>1. o[k] = Len(j[k]) - Len(parts[k])
    BY <1>13
  <2>2. Len(j[k]) \in Nat /\ Len(j[k - 1]) \in Nat /\ Len(parts[k]) \in Nat
    <3>1. k \in 0..L /\ k - 1 \in 0..L
      BY <1>0
    <3> QED
      BY <1>0, <1>3, <3>1
  <2>3. CASE k = 1
    <3>1. j[k] = parts[k]
      BY <1>0, <1>1, <2>3
    <3>2. o[k] = 0
      BY <2>1, <2>2, <3>1
    <3> QED
      BY <2>2, <2>3, <3>1, <3>2
  <2>4. CASE k # 1
    <3>1. k \in 2..L
      BY <1>0, <2>4
    <3>0. Len(j[k]) = Len(j[k - 1]) + 1 + Len(parts[k])
      BY <1>4, <3>1
    <3>2. o[k] = Len(j[k - 1]) + 1 /\ Len(j[k - 1]) + 1 \in Nat
      BY <2>1, <2>2, <3>0
    <3>3. \A i \in 1..Len(parts[k]) : j[k][o[k] + i] = parts[k][i]
      BY <1>4, <3>1, <3>2
    <3>4. o[k] \in Nat /\ o[k] + Len(parts[k]) = Len(j[k])
      <4>1. IsBehind(Len(j[k]), Len(j[k - 1]), Len(parts[k]), o[k])
        BY <2>2, <3>0, <3>2 DEF IsBehind
      <4> QED
        BY <4>1, SumsAre, Zenon
    <3> QED
      BY <2>4, <3>2, <3>3, <3>4
  <2> QED
    BY <2>3, <2>4
<1>8. ASSUME NEW k \in 1..L PROVE Includes(j[L], o[k], parts[k])
  <2>1. Len(j[k]) \in Nat /\ Len(j[L]) \in Nat /\ Len(j[k]) <= Len(j[L]) /\ \A i \in 1..Len(j[k]) : j[L][i] = j[k][i]
    BY <1>6 DEF Extends
  <2>2. ASSUME NEW i \in 1..Len(parts[k]) PROVE j[L][o[k] + i] = parts[k][i]
    <3>1. o[k] + i \in 1..Len(j[k])
      BY <1>0, <1>7, <2>1
    <3> QED
      BY <1>7, <2>1, <3>1
  <2> QED
    BY <1>0, <1>7, <2>1, <2>2 DEF Includes
<1>9. ASSUME NEW k \in 1..L - 1
      PROVE  o[k + 1] = o[k] + Len(parts[k]) + 1 /\ j[L][o[k + 1]] = x
  <2>1. k \in 1..L /\ k + 1 \in 2..L /\ k + 1 \in 1..L /\ k + 1 - 1 = k /\ k + 1 > 1
    BY <1>0
  <2>2. o[k + 1] = Len(j[k]) + 1
    BY <1>7, <2>1
  <2>3. o[k] + Len(parts[k]) = Len(j[k])
    BY <1>7, <2>1
  <2>4. j[k + 1][o[k + 1]] = x /\ Len(j[k + 1]) = Len(j[k]) + 1 + Len(parts[k + 1])
    <3> DEFINE n == k + 1
    <3>1. n \in 2..L /\ n - 1 = k
      BY <2>1
    <3> HIDE DEF n
    <3>2. j[n][Len(j[k]) + 1] = x /\ Len(j[n]) = Len(j[k]) + 1 + Len(parts[n])
      BY <1>4, <3>1
    <3> QED
      BY <2>2, <3>2 DEF n
  <2>5. Len(j[k]) \in Nat /\ Len(parts[k + 1]) \in Nat
    BY <1>0, <1>3, <2>1
  <2>6. o[k + 1] \in 1..Len(j[k + 1])
    <3> DEFINE n == k + 1
    <3> HIDE DEF n
    <3>0. Len(j[n]) \in Nat
      BY <1>0, <1>3, <2>1 DEF n
    <3>1. o[n] = Len(j[k]) + 1 /\ Len(j[n]) = Len(j[k]) + 1 + Len(parts[n]) /\ Len(parts[n]) \in Nat
      BY <2>2, <2>4, <2>5 DEF n
    <3>2. o[n] \in 1..Len(j[n])
      <4>1. IsBehind(Len(j[n]), Len(j[k]), Len(parts[n]), o[n])
        BY <2>5, <3>0, <3>1 DEF IsBehind
      <4> QED
        BY <4>1, SumsAre, Zenon
    <3> QED
      BY <3>2 DEF n
  <2>7. \A i \in 1..Len(j[k + 1]) : j[L][i] = j[k + 1][i]
    BY <1>6, <2>1 DEF Extends
  <2> QED
    BY <2>2, <2>3, <2>4, <2>6, <2>7
<1>10. L > 0 => o[1] = 0 /\ Len(j[L]) = o[L] + Len(parts[L])
  <2>1. L > 0 => 1 \in 1..L /\ L \in 1..L
    BY <1>0
  <2> QED
    BY <1>7, <2>1
<1>11. j[L] \in Seq(S)
  BY <1>0, <1>3
<1>12. JoinedAt(S, parts, x, j[L], o)
  BY <1>8, <1>9, <1>10, <1>11, Zenon DEF JoinedAt
<1> QED
  BY <1>2, <1>12

(* What csv.reader may be in.                                              *)
Reader(S) ==
  [rows : Seq(Seq(Seq(S))), row : Seq(Seq(S)), cell : Seq(S),
   at : {"record", "cell", "in", "quoted", "quote"}]

Outside == {"record", "cell", "in"}

LEMMA ReaderIs ==
  ASSUME NEW S, NEW s \in Reader(S)
  PROVE  /\ s.rows \in Seq(Seq(Seq(S))) /\ s.row \in Seq(Seq(S)) /\ s.cell \in Seq(S)
         /\ s.at \in {"record", "cell", "in", "quoted", "quote"}
         /\ Append(s.row, s.cell) \in Seq(Seq(S))
         /\ Append(s.rows, Append(s.row, s.cell)) \in Seq(Seq(Seq(S)))
         /\ Append(s.rows, <<>>) \in Seq(Seq(Seq(S)))
<1>1. /\ s.rows \in Seq(Seq(Seq(S))) /\ s.row \in Seq(Seq(S)) /\ s.cell \in Seq(S)
      /\ s.at \in {"record", "cell", "in", "quoted", "quote"}
  BY DEF Reader
<1> DEFINE C == Seq(S)
           W == Seq(C)
           rows == s.rows
           row == s.row
           cell == s.cell
<1>2. rows \in Seq(W) /\ row \in Seq(C) /\ cell \in C
  BY <1>1
<1>3. <<>> \in W
  BY EmptySeq
<1> HIDE DEF C, rows, row, cell
<1>4. Append(row, cell) \in W
  BY <1>2, AppendProperties
<1> HIDE DEF W
<1>5. Append(rows, Append(row, cell)) \in Seq(W) /\ Append(rows, <<>>) \in Seq(W)
  BY <1>2, <1>3, <1>4, AppendProperties
<1> QED
  BY <1>1, <1>4, <1>5 DEF C, W, rows, row, cell

LEMMA UnreadIs ==
  ASSUME NEW S
  PROVE  Unread \in Reader(S)
<1>1. <<>> \in Seq(Seq(Seq(S))) /\ <<>> \in Seq(Seq(S)) /\ <<>> \in Seq(S)
  BY EmptySeq
<1> QED
  BY <1>1 DEF Unread, Reader

LEMMA EndRecordIs ==
  ASSUME NEW S, NEW s \in Reader(S)
  PROVE  /\ EndRecord(s) \in Reader(S)
         /\ EndRecord(s).at = "record" /\ EndRecord(s).row = <<>> /\ EndRecord(s).cell = <<>>
         /\ EndRecord(s).rows = Append(s.rows, IF s.at = "record" THEN <<>> ELSE Append(s.row, s.cell))
<1> DEFINE r == IF s.at = "record" THEN <<>> ELSE Append(s.row, s.cell)
<1>1. Append(s.rows, r) \in Seq(Seq(Seq(S)))
  BY ReaderIs
<1>2. <<>> \in Seq(Seq(S)) /\ <<>> \in Seq(S)
  BY EmptySeq
<1>3. EndRecord(s) = [Unread EXCEPT !.rows = Append(s.rows, r)]
  BY DEF EndRecord
<1> HIDE DEF r
<1>4. EndRecord(s) = [rows |-> Append(s.rows, r), row |-> <<>>, cell |-> <<>>, at |-> "record"]
  BY <1>3 DEF Unread
<1> DEFINE rows == Append(s.rows, r)
<1>5. EndRecord(s) = [rows |-> rows, row |-> <<>>, cell |-> <<>>, at |-> "record"] /\ rows \in Seq(Seq(Seq(S)))
  BY <1>1, <1>4
<1> HIDE DEF rows
<1>6. EndRecord(s) \in Reader(S) /\ EndRecord(s).rows = rows
  BY <1>2, <1>5 DEF Reader
<1> QED
  BY <1>5, <1>6 DEF rows, r

LEMMA ReadsBreak ==
  ASSUME NEW s, s.at # "quoted"
  PROVE  ReadSymbol(s, "break") = EndRecord(s)
BY DEF ReadSymbol

LEMMA ReadsComma ==
  ASSUME NEW s, s.at # "quoted"
  PROVE  ReadSymbol(s, "comma") = [s EXCEPT !.row = Append(s.row, s.cell), !.cell = <<>>, !.at = "cell"]
BY DEF ReadSymbol

LEMMA ReadsOther ==
  ASSUME NEW s, s.at \in Outside, NEW x, x # "comma", x # "break", x = "quote" => s.at = "in"
  PROVE  ReadSymbol(s, x) = [s EXCEPT !.cell = Append(s.cell, x), !.at = "in"]
BY DEF ReadSymbol, Outside

LEMMA ReadsQuote ==
  ASSUME NEW s, s.at \in {"record", "cell"}
  PROVE  ReadSymbol(s, "quote") = [s EXCEPT !.at = "quoted"]
BY DEF ReadSymbol

LEMMA ReadsQuoted ==
  ASSUME NEW s, s.at = "quoted", NEW x
  PROVE  ReadSymbol(s, x) = IF x = "quote" THEN [s EXCEPT !.at = "quote"]
                            ELSE [s EXCEPT !.cell = Append(s.cell, x)]
BY DEF ReadSymbol

LEMMA ReadsBehindQuote ==
  ASSUME NEW s, s.at = "quote", NEW x, x # "comma", x # "break"
  PROVE  ReadSymbol(s, x) = [s EXCEPT !.cell = Append(s.cell, x), !.at = IF x = "quote" THEN "quoted" ELSE "in"]
BY DEF ReadSymbol

(* A symbol adds a record, or none.                                        *)
LEMMA ReadSymbolIs ==
  ASSUME NEW S, NEW s \in Reader(S), NEW x \in S
  PROVE  ReadSymbol(s, x) \in Reader(S) /\ Extends(s.rows, ReadSymbol(s, x).rows)
<1> DEFINE t == ReadSymbol(s, x)
<1>1. /\ s.rows \in Seq(Seq(Seq(S))) /\ s.row \in Seq(Seq(S)) /\ s.cell \in Seq(S)
      /\ s.at \in {"record", "cell", "in", "quoted", "quote"}
      /\ Append(s.row, s.cell) \in Seq(Seq(S))
  BY ReaderIs
<1>2. Append(s.cell, x) \in Seq(S) /\ <<>> \in Seq(S)
  BY <1>1, AppendProperties, EmptySeq
<1>3. Extends(s.rows, s.rows)
  <2>1. Len(s.rows) \in Nat
    BY <1>1, LenProperties
  <2> QED
    BY <2>1, ExtendsItself
<1>4. CASE s.at # "quoted" /\ x = "break"
  <2>1. t = EndRecord(s)
    BY <1>4, ReadsBreak
  <2> DEFINE r == IF s.at = "record" THEN <<>> ELSE Append(s.row, s.cell)
             W == Seq(Seq(S))
             rows == s.rows
  <2>2. EndRecord(s) \in Reader(S) /\ EndRecord(s).rows = Append(rows, r)
    BY EndRecordIs
  <2>3. r \in W /\ rows \in Seq(W)
    BY <1>1, EmptySeq
  <2> HIDE DEF r, W, rows
  <2>4. Extends(rows, Append(rows, r))
    BY <2>3, AppendIs DEF Extends
  <2> QED
    BY <2>1, <2>2, <2>4 DEF rows
<1> DEFINE Same(f) == f \in Reader(S) /\ f.rows = s.rows
<1>5. CASE s.at # "quoted" /\ x = "comma"
  <2>1. t = [s EXCEPT !.row = Append(s.row, s.cell), !.cell = <<>>, !.at = "cell"]
    BY <1>5, ReadsComma
  <2>2. Same(t)
    BY <1>1, <1>2, <2>1 DEF Reader
  <2> QED
    BY <1>3, <2>2
<1>6. CASE s.at \in {"record", "cell"} /\ x = "quote"
  <2>1. t = [s EXCEPT !.at = "quoted"]
    BY <1>6, ReadsQuote
  <2>2. Same(t)
    BY <1>1, <2>1 DEF Reader
  <2> QED
    BY <1>3, <2>2
<1>7. CASE s.at = "quoted"
  <2>1. t = IF x = "quote" THEN [s EXCEPT !.at = "quote"] ELSE [s EXCEPT !.cell = Append(s.cell, x)]
    BY <1>7, ReadsQuoted
  <2>2. Same(t)
    BY <1>1, <1>2, <2>1 DEF Reader
  <2> QED
    BY <1>3, <2>2
<1>8. CASE s.at = "quote" /\ x # "comma" /\ x # "break"
  <2>1. t = [s EXCEPT !.cell = Append(s.cell, x), !.at = IF x = "quote" THEN "quoted" ELSE "in"]
    BY <1>8, ReadsBehindQuote
  <2>2. Same(t)
    BY <1>1, <1>2, <2>1 DEF Reader
  <2> QED
    BY <1>3, <2>2
<1>9. CASE s.at \in Outside /\ x # "comma" /\ x # "break" /\ (x = "quote" => s.at = "in")
  <2>1. t = [s EXCEPT !.cell = Append(s.cell, x), !.at = "in"]
    BY <1>9, ReadsOther
  <2>2. Same(t)
    BY <1>1, <1>2, <2>1 DEF Reader
  <2> QED
    BY <1>3, <2>2
<1> QED
  BY <1>1, <1>4, <1>5, <1>6, <1>7, <1>8, <1>9 DEF Outside

(* A content that is read symbol by symbol.                                *)
Reads(S, content, R) ==
  /\ content \in Seq(S) /\ R[0] = Unread
  /\ \A n \in 0..Len(content) : R[n] \in Reader(S)
  /\ \A n \in 1..Len(content) : R[n] = ReadSymbol(R[n - 1], content[n])
  /\ \A n \in 1..Len(content) : Extends(R[n - 1].rows, R[n].rows)
  /\ \A n \in 0..Len(content) : Extends(R[n].rows, R[Len(content)].rows)

LEMMA ReadingIs ==
  ASSUME NEW S, NEW content \in Seq(S)
  PROVE  Reads(S, content, Reading(content))
<1> DEFINE L == Len(content)
           R == Reading(content)
<1>0. L \in Nat /\ \A n \in 1..L : content[n] \in S
  BY ElementOfSeq
<1>1. R[0] = Unread /\ \A n \in 1..L : R[n] = ReadSymbol(R[n - 1], content[n])
  <2>1. R = [n \in 0..L |-> IF n = 0 THEN Unread ELSE ReadSymbol(R[n - 1], content[n])]
    BY <1>0, ReadingRecursion
  <2> HIDE DEF R
  <2> QED
    BY <1>0, <2>1
<1> HIDE DEF R
<1>2. ASSUME NEW n \in 1..L, R[n - 1] \in Reader(S)
      PROVE  R[n] \in Reader(S) /\ Extends(R[n - 1].rows, R[n].rows)
  <2>1. content[n] \in S /\ R[n] = ReadSymbol(R[n - 1], content[n])
    BY <1>0, <1>1
  <2> QED
    BY <1>2, <2>1, ReadSymbolIs
<1>3. \A n \in 0..L : R[n] \in Reader(S)
  <2> DEFINE G == {n \in 0..L : R[n] \in Reader(S)}
  <2>1. 0 \in G
    BY <1>0, <1>1, UnreadIs
  <2>2. ASSUME NEW n \in 1..L, n - 1 \in G PROVE n \in G
    BY <1>0, <1>2, <2>2
  <2>3. \A n \in 0..L : n \in G
    <3> HIDE DEF G
    <3> QED
      BY <1>0, <2>1, <2>2, Induction
  <2> QED
    BY <2>3
<1>4. \A n \in 1..L : Extends(R[n - 1].rows, R[n].rows)
  <2>1. \A n \in 1..L : n - 1 \in 0..L
    BY <1>0
  <2> QED
    BY <1>2, <1>3, <2>1
<1>5. ASSUME NEW n \in 0..L PROVE Extends(R[n].rows, R[L].rows)
  <2> DEFINE j == [i \in 0..L |-> R[i].rows]
  <2>1. \A i \in 0..L : j[i] = R[i].rows /\ Len(j[i]) \in Nat
    <3>1. \A i \in 0..L : R[i].rows \in Seq(Seq(Seq(S)))
      BY <1>3, ReaderIs
    <3>2. \A i \in 0..L : Len(R[i].rows) \in Nat
      BY <3>1, LenProperties
    <3> QED
      BY <3>2
  <2> HIDE DEF j
  <2>2. \A i \in n + 1..L : i \in 1..L /\ i - 1 \in 0..L /\ i \in 0..L
    BY <1>0
  <2>3. \A i \in n + 1..L : Extends(j[i - 1], j[i])
    BY <1>4, <2>1, <2>2
  <2>4. L \in n..L /\ L \in 0..L
    BY <1>0
  <2>5. Extends(j[n], j[L])
    BY <1>0, <2>1, <2>3, <2>4, ExtendsTo
  <2> QED
    BY <2>1, <2>4, <2>5
<1>6. Reads(S, content, R)
  BY <1>1, <1>3, <1>4, <1>5, Zenon DEF Reads
<1> QED
  BY <1>6 DEF R

TameText(text) ==
  /\ text # <<>>
  /\ \A i \in DOMAIN text : /\ text[i] # "break"
                            /\ text[i] = "quote" => i > 1 /\ text[i - 1] # "comma"

(* A line that is read within one record.                                  *)
Run(S, text, Q) ==
  /\ text \in Seq(S)
  /\ \A m \in 0..Len(text) : Q[m] \in Reader(S) /\ Q[m].rows = Q[0].rows
  /\ Q[0].row = <<>> /\ Q[0].cell = <<>>
  /\ \A m \in 1..Len(text) : Q[m].at \in {"cell", "in"}
  /\ \A m \in 1..Len(text) :
       IF text[m] = "comma"
       THEN Q[m].row = Append(Q[m - 1].row, Q[m - 1].cell) /\ Q[m].cell = <<>>
       ELSE Q[m].row = Q[m - 1].row /\ Q[m].cell = Append(Q[m - 1].cell, text[m])

LEMMA TameRuns ==
  ASSUME NEW S, NEW content, NEW R, Reads(S, content, R), NEW p, NEW text \in Seq(S),
         Includes(content, p, text), TameText(text),
         R[p].at = "record", R[p].row = <<>>, R[p].cell = <<>>
  PROVE  Run(S, text, [m \in 0..Len(text) |-> R[p + m]])
<1> DEFINE L == Len(text)
           Q == [m \in 0..L |-> R[p + m]]
<1>0. L \in Nat /\ p \in Nat /\ p + L <= Len(content) /\ Len(content) \in Nat /\ DOMAIN text = 1..L
  BY DEF Includes, Reads
<1>1. \A m \in 1..L : /\ p + m \in 1..Len(content) /\ p + m - 1 = p + (m - 1) /\ m - 1 \in 0..L
                      /\ content[p + m] = text[m]
  BY <1>0 DEF Includes
<1>2. \A m \in 0..L : Q[m] = R[p + m] /\ Q[m] \in Reader(S)
  <2>1. \A m \in 0..L : p + m \in 0..Len(content)
    BY <1>0
  <2> QED
    BY <2>1 DEF Reads
<1>3. Q[0].at = "record" /\ Q[0].row = <<>> /\ Q[0].cell = <<>>
  <2>1. p + 0 = p /\ 0 \in 0..L
    BY <1>0
  <2> QED
    BY <2>1
<1> HIDE DEF Q
<1>4. \A m \in 1..L : Q[m] = ReadSymbol(Q[m - 1], text[m])
  <2>1. ASSUME NEW m \in 1..L PROVE Q[m] = ReadSymbol(Q[m - 1], text[m])
    <3>1. /\ p + m \in 1..Len(content) /\ p + m - 1 = p + (m - 1) /\ m - 1 \in 0..L /\ m \in 0..L
          /\ content[p + m] = text[m]
      BY <1>1
    <3>2. PICK i \in 1..Len(content) : i = p + m /\ i - 1 = p + (m - 1) /\ content[i] = text[m]
      BY <1>0, <3>1
    <3>3. R[i] = ReadSymbol(R[i - 1], content[i])
      BY DEF Reads
    <3>4. Q[m] = R[i] /\ Q[m - 1] = R[i - 1]
      BY <1>2, <3>1, <3>2
    <3> QED
      BY <3>2, <3>3, <3>4
  <2> QED
    BY <2>1
<1> DEFINE Stays(m) == /\ Q[m].rows = Q[0].rows
                       /\ m = 0 => Q[m].at = "record"
                       /\ m > 0 => Q[m].at = IF text[m] = "comma" THEN "cell" ELSE "in"
           Moves(m) == IF text[m] = "comma"
                       THEN Q[m].row = Append(Q[m - 1].row, Q[m - 1].cell) /\ Q[m].cell = <<>>
                       ELSE Q[m].row = Q[m - 1].row /\ Q[m].cell = Append(Q[m - 1].cell, text[m])
<1>5. ASSUME NEW m \in 1..L, Stays(m - 1)
      PROVE  Stays(m) /\ Moves(m)
  <2> DEFINE s == Q[m - 1]
             t == Q[m]
             x == text[m]
  <2>1. t = ReadSymbol(s, x) /\ s \in Reader(S)
    BY <1>1, <1>2, <1>4
  <2>2. s.rows = Q[0].rows /\ s.at \in Outside
    BY <1>0, <1>5 DEF Outside
  <2>3. x # "break"
    BY <1>0 DEF TameText
  <2>4. x = "quote" => s.at = "in"
    <3>1. x = "quote" => m > 1 /\ text[m - 1] # "comma"
      BY <1>0 DEF TameText
    <3>2. m > 1 => m - 1 > 0
      BY <1>0
    <3> QED
      BY <1>5, <3>1, <3>2
  <2>5. /\ s \in [rows : Seq(Seq(Seq(S))), row : Seq(Seq(S)), cell : Seq(S),
                  at : {"record", "cell", "in", "quoted", "quote"}]
    BY <2>1 DEF Reader
  <2>6. m > 0 /\ m # 0
    BY <1>0
  <2> HIDE DEF s, t, x
  <2>7. CASE x = "comma"
    <3>1. t = [s EXCEPT !.row = Append(s.row, s.cell), !.cell = <<>>, !.at = "cell"]
      <4>1. s.at # "quoted"
        BY <2>2 DEF Outside
      <4> QED
        BY <2>1, <2>7, <4>1, ReadsComma
    <3>2. t.rows = s.rows /\ t.at = "cell" /\ t.row = Append(s.row, s.cell) /\ t.cell = <<>>
      BY <2>5, <3>1
    <3> QED
      BY <2>2, <2>6, <2>7, <3>2 DEF s, t, x
  <2>8. CASE x # "comma"
    <3>1. t = [s EXCEPT !.cell = Append(s.cell, x), !.at = "in"]
      BY <2>1, <2>2, <2>3, <2>4, <2>8, ReadsOther
    <3>2. t.rows = s.rows /\ t.at = "in" /\ t.row = s.row /\ t.cell = Append(s.cell, x)
      BY <2>5, <3>1
    <3> QED
      BY <2>2, <2>6, <2>8, <3>2 DEF s, t, x
  <2> QED
    BY <2>7, <2>8
<1>6. \A m \in 0..L : Stays(m)
  <2> DEFINE G == {m \in 0..L : Stays(m)}
  <2>1. 0 \in G
    BY <1>0, <1>3
  <2>2. ASSUME NEW m \in 1..L, m - 1 \in G PROVE m \in G
    <3> HIDE DEF Stays, Moves
    <3> QED
      BY <1>0, <1>5, <2>2
  <2>3. \A m \in 0..L : m \in G
    <3> HIDE DEF G
    <3> QED
      BY <1>0, <2>1, <2>2, Induction
  <2> HIDE DEF Stays
  <2> QED
    BY <2>3
<1>7. \A m \in 1..L : Moves(m)
  <2> HIDE DEF Stays, Moves
  <2> QED
    BY <1>1, <1>5, <1>6
<1>8. /\ \A m \in 0..L : Q[m] \in Reader(S) /\ Q[m].rows = Q[0].rows
      /\ \A m \in 1..L : Q[m].at \in {"cell", "in"}
  <2>1. \A m \in 0..L : Q[m].rows = Q[0].rows
    BY <1>6
  <2>2. ASSUME NEW m \in 1..L PROVE Q[m].at \in {"cell", "in"}
    <3>1. m > 0 /\ m \in 0..L
      BY <1>0
    <3> QED
      BY <1>6, <3>1
  <2> QED
    BY <1>2, <2>1, <2>2
<1>9. Run(S, text, Q)
  BY <1>3, <1>7, <1>8, Zenon DEF Run
<1> QED
  BY <1>9 DEF Q

(* A cell of a line without commas is read into one cell.                  *)
LEMMA CellIsRead ==
  ASSUME NEW S, NEW text, NEW Q, Run(S, text, Q), NEW o, NEW cell \in Seq(S), Includes(text, o, cell),
         Plain(cell), Q[o].cell = <<>>
  PROVE  Q[o + Len(cell)].row = Q[o].row /\ Q[o + Len(cell)].cell = cell
<1> DEFINE L == Len(cell)
           N == Len(text)
           Reads1(i) == /\ Q[o + i].row = Q[o].row
                        /\ Len(Q[o + i].cell) = i /\ \A k \in 1..i : Q[o + i].cell[k] = cell[k]
           G == {i \in 0..L : Reads1(i)}
<1>0. /\ L \in Nat /\ N \in Nat /\ o \in Nat /\ o + L <= N /\ DOMAIN cell = 1..L
      /\ \A i \in 1..L : cell[i] \in S
  <2>1. text \in Seq(S)
    BY DEF Run
  <2> QED
    BY <2>1, ElementOfSeq DEF Includes
<1>1. \A i \in 0..L : o + i \in 0..N /\ Q[o + i].cell \in Seq(S)
  <2>1. \A i \in 0..L : o + i \in 0..N
    BY <1>0
  <2>2. \A i \in 0..N : Q[i] \in Reader(S)
    BY DEF Run
  <2>3. \A i \in 0..N : Q[i].cell \in Seq(S)
    BY <2>2, ReaderIs
  <2> QED
    BY <2>1, <2>3
<1>2. 0 \in G
  <2>1. o + 0 = o
    BY <1>0
  <2>2. Len(<<>>) = 0
    OBVIOUS
  <2> QED
    BY <1>0, <2>1, <2>2
<1>3. ASSUME NEW i \in 1..L, i - 1 \in G PROVE i \in G
  <2>1. PICK m \in 1..N : m = o + i /\ m - 1 = o + (i - 1)
    BY <1>0
  <2>2. text[m] = cell[i] /\ cell[i] # "comma" /\ cell[i] \in S
    BY <1>0, <2>1 DEF Includes, Plain
  <2>3. Q[m].row = Q[m - 1].row /\ Q[m].cell = Append(Q[m - 1].cell, cell[i])
    BY <2>2 DEF Run
  <2> DEFINE c == Q[m - 1].cell
             d == Q[m].cell
  <2>4. c \in Seq(S) /\ d = Append(c, cell[i])
    <3>1. i - 1 \in 0..L
      BY <1>0
    <3> QED
      BY <1>1, <2>1, <2>3, <3>1
  <2>5. Len(c) = i - 1 /\ (\A k \in 1..i - 1 : c[k] = cell[k]) /\ Q[m - 1].row = Q[o].row
    BY <1>3, <2>1
  <2> HIDE DEF c, d
  <2>6. Len(d) = Len(c) + 1 /\ (\A k \in 1..Len(c) : d[k] = c[k]) /\ d[Len(c) + 1] = cell[i]
    BY <2>2, <2>4, AppendIs
  <2>7. Len(d) = i /\ \A k \in 1..i : d[k] = cell[k]
    <3>1. Len(c) + 1 = i
      BY <2>5
    <3>2. ASSUME NEW k \in 1..i PROVE d[k] = cell[k]
      <4>1. k \in 1..Len(c) \/ k = i
        BY <2>5
      <4> QED
        BY <2>5, <2>6, <3>1, <4>1
    <3> QED
      BY <2>6, <3>1, <3>2
  <2>8. Reads1(i)
    BY <2>1, <2>3, <2>5, <2>7 DEF d
  <2> QED
    BY <2>8
<1>4. \A i \in 0..L : i \in G
  <2> HIDE DEF G
  <2> QED
    BY <1>0, <1>2, <1>3, Induction
<1>5. Reads1(L) /\ L \in 0..L
  BY <1>0, <1>4
<1>6. Q[o + L].cell = cell
  <2> DEFINE d == Q[o + L].cell
  <2>1. d \in Seq(S) /\ Len(d) = L /\ \A k \in 1..L : d[k] = cell[k]
    BY <1>1, <1>5
  <2> HIDE DEF d
  <2>2. d = cell
    BY <1>0, <2>1, SeqEqual
  <2> QED
    BY <2>2 DEF d
<1> QED
  BY <1>5, <1>6

LEMMA RunRowsExtend ==
  ASSUME NEW S, NEW text, NEW Q, Run(S, text, Q), NEW m \in 0..Len(text), NEW k \in m..Len(text)
  PROVE  Extends(Q[m].row, Q[k].row)
<1> DEFINE N == Len(text)
           j == [i \in 0..N |-> Q[i].row]
<1>0. N \in Nat
  BY DEF Run
<1>1. \A i \in 0..N : Q[i].row \in Seq(Seq(S)) /\ Q[i].cell \in Seq(S) /\ Len(Q[i].row) \in Nat
  <2>1. \A i \in 0..N : Q[i] \in Reader(S)
    BY DEF Run
  <2> QED
    BY <2>1, ReaderIs, LenProperties
<1>2. ASSUME NEW i \in 1..N PROVE Extends(Q[i - 1].row, Q[i].row)
  <2>1. i - 1 \in 0..N /\ Q[i - 1].row \in Seq(Seq(S)) /\ Q[i - 1].cell \in Seq(S)
    BY <1>0, <1>1
  <2>2. Q[i].row = Append(Q[i - 1].row, Q[i - 1].cell) \/ Q[i].row = Q[i - 1].row
    BY DEF Run
  <2> DEFINE C == Seq(S)
             row == Q[i - 1].row
             cell == Q[i - 1].cell
  <2>3. row \in Seq(C) /\ cell \in C /\ (Q[i].row = Append(row, cell) \/ Q[i].row = row)
    BY <2>1, <2>2
  <2> HIDE DEF C, row, cell
  <2>4. Extends(row, Append(row, cell)) /\ Extends(row, row)
    BY <2>3, AppendIs DEF Extends
  <2> QED
    BY <2>3, <2>4 DEF row
<1>3. \A i \in 0..N : j[i] = Q[i].row /\ Len(j[i]) \in Nat
  BY <1>1
<1> HIDE DEF j
<1>4. \A i \in m + 1..N : i \in 1..N /\ i \in 0..N /\ i - 1 \in 0..N
  BY <1>0
<1>5. \A i \in m + 1..N : Extends(j[i - 1], j[i])
  BY <1>2, <1>3, <1>4
<1>6. Extends(j[m], j[k])
  BY <1>0, <1>3, <1>5, ExtendsTo
<1>7. m \in 0..N /\ k \in 0..N
  BY <1>0
<1> QED
  BY <1>3, <1>6, <1>7

(* A record has what comes before the first cell with a comma.             *)
RecordOf(S, cells, r) ==
  /\ r \in Seq(Seq(S)) /\ Len(r) \in Nat /\ Len(r) >= Len(cells)
  /\ \A c \in 1..Len(cells) : (\A b \in 1..c : Plain(cells[b])) => r[c] = cells[c]
  /\ (\A c \in 1..Len(cells) : Plain(cells[c])) => r = cells

LEMMA CellsAreRead ==
  ASSUME NEW S, NEW text, NEW Q, Run(S, text, Q), NEW cells \in Seq(Seq(S)), NEW o,
         JoinedAt(S, cells, "comma", text, o), Len(cells) > 0
  PROVE  RecordOf(S, cells, Append(Q[Len(text)].row, Q[Len(text)].cell))
<1> DEFINE n == Len(cells)
           N == Len(text)
<1>0. n \in Nat /\ N \in Nat /\ DOMAIN cells = 1..n /\ \A k \in 1..n : cells[k] \in Seq(S) /\ Len(cells[k]) \in Nat
  <2>1. text \in Seq(S)
    BY DEF Run
  <2> QED
    BY <2>1, ElementOfSeq
<1>1. \A k \in 1..n : Includes(text, o[k], cells[k]) /\ o[k] \in Nat /\ o[k] + Len(cells[k]) <= N
  BY DEF JoinedAt, Includes
<1>2. \A i \in 0..N : Q[i].row \in Seq(Seq(S)) /\ Q[i].cell \in Seq(S) /\ Len(Q[i].row) \in Nat
  <2>1. \A i \in 0..N : Q[i] \in Reader(S)
    BY DEF Run
  <2> QED
    BY <2>1, ReaderIs, LenProperties
<1> DEFINE Begun(k) == /\ Len(Q[o[k]].row) >= k - 1 /\ Q[o[k]].cell = <<>>
                       /\ (\A b \in 1..k - 1 : Plain(cells[b])) =>
                            /\ Len(Q[o[k]].row) = k - 1
                            /\ \A b \in 1..k - 1 : Q[o[k]].row[b] = cells[b]
           G == {k \in 0..n : k = 0 \/ Begun(k)}
<1>3. ASSUME NEW k \in 1..n, Plain(cells[k]), Begun(k)
      PROVE  /\ Q[o[k] + Len(cells[k])].row = Q[o[k]].row
             /\ Q[o[k] + Len(cells[k])].cell = cells[k]
  <2>1. Includes(text, o[k], cells[k]) /\ cells[k] \in Seq(S) /\ Q[o[k]].cell = <<>>
    BY <1>0, <1>1, <1>3
  <2> HIDE DEF Begun, n
  <2> QED
    BY <1>3, <2>1, CellIsRead
<1>4. ASSUME NEW k \in 1..n - 1, Begun(k) PROVE Begun(k + 1)
  <2>1. k \in 1..n /\ k \in Nat /\ k + 1 - 1 = k
    BY <1>0
  <2> DEFINE e == o[k] + Len(cells[k])
             c == Q[e].row
             x == Q[e].cell
             d == Q[o[k + 1]].row
             C == Seq(S)
  <2>2. o[k] \in Nat /\ e \in 0..N /\ o[k] \in 0..N /\ e \in o[k]..N
    BY <1>0, <1>1, <2>1
  <2>3. o[k + 1] = e + 1 /\ text[o[k + 1]] = "comma"
    BY DEF JoinedAt
  <2>4. e + 1 \in 1..N /\ e + 1 - 1 = e
    <3>1. k + 1 \in 1..n
      BY <1>0
    <3>2. o[k + 1] <= N
      BY <1>0, <1>1, <3>1
    <3> QED
      BY <1>0, <2>2, <2>3, <3>2
  <2>5. d = Append(c, x) /\ Q[o[k + 1]].cell = <<>>
    <3> HIDE DEF e
    <3>1. PICK m \in 1..N : m = e + 1 /\ text[m] = "comma" /\ o[k + 1] = m /\ m - 1 = e
      BY <2>2, <2>3, <2>4
    <3>2. Q[m].row = Append(Q[m - 1].row, Q[m - 1].cell) /\ Q[m].cell = <<>>
      BY <3>1 DEF Run
    <3> QED
      BY <3>1, <3>2
  <2>6. Extends(Q[o[k]].row, c)
    BY <2>2, RunRowsExtend
  <2>7. c \in Seq(C) /\ x \in C
    BY <1>2, <2>2
  <2>8. Plain(cells[k]) => c = Q[o[k]].row /\ x = cells[k]
    BY <1>3, <1>4, <2>1
  <2> HIDE DEF c, x, d, C, e
  <2>9. Len(c) \in Nat /\ Len(d) = Len(c) + 1 /\ (\A b \in 1..Len(c) : d[b] = c[b]) /\ d[Len(c) + 1] = x
    BY <2>5, <2>7, AppendIs
  <2>10. Len(d) >= k
    <3>1. Len(Q[o[k]].row) >= k - 1 /\ Len(Q[o[k]].row) <= Len(c) /\ Len(Q[o[k]].row) \in Nat
      BY <1>4, <2>6 DEF Extends
    <3> QED
      BY <2>1, <2>9, <3>1
  <2>11. ASSUME \A b \in 1..k : Plain(cells[b])
         PROVE  Len(d) = k /\ \A b \in 1..k : d[b] = cells[b]
    <3>1. k \in 1..k /\ \A b \in 1..k - 1 : b \in 1..k
      BY <2>1
    <3>2. Plain(cells[k]) /\ \A b \in 1..k - 1 : Plain(cells[b])
      BY <2>11, <3>1
    <3>3. c = Q[o[k]].row /\ x = cells[k] /\ Len(c) = k - 1 /\ \A b \in 1..k - 1 : c[b] = cells[b]
      BY <1>4, <2>8, <3>2
    <3>4. Len(d) = k
      BY <2>1, <2>9, <3>3
    <3>5. ASSUME NEW b \in 1..k PROVE d[b] = cells[b]
      <4>1. (b \in 1..k - 1 /\ b \in 1..Len(c)) \/ (b = k /\ Len(c) + 1 = k)
        BY <2>1, <3>3
      <4> QED
        BY <2>9, <3>3, <4>1
    <3> QED
      BY <3>4, <3>5
  <2> QED
    BY <2>1, <2>5, <2>10, <2>11 DEF d
<1>5. \A k \in 1..n : Begun(k)
  <2>1. 0 \in G
    BY <1>0
  <2>2. ASSUME NEW k \in 1..n, k - 1 \in G PROVE k \in G
    <3>1. CASE k = 1
      <4>1. o[1] = 0 /\ Q[0].row = <<>> /\ Q[0].cell = <<>> /\ Len(<<>>) = 0
        BY DEF JoinedAt, Run
      <4>2. 1..k - 1 = {} /\ k - 1 = 0
        BY <3>1
      <4> QED
        BY <1>0, <3>1, <4>1, <4>2
    <3>2. CASE k # 1
      <4>1. k - 1 \in 1..n - 1 /\ k - 1 # 0 /\ k - 1 + 1 = k
        BY <1>0, <3>2
      <4>2. Begun(k - 1)
        BY <2>2, <4>1
      <4> HIDE DEF Begun
      <4>3. Begun(k - 1 + 1)
        BY <1>4, <4>1, <4>2
      <4> QED
        BY <4>1, <4>3
    <3> QED
      BY <3>1, <3>2
  <2>3. \A k \in 0..n : k \in G
    <3> HIDE DEF G
    <3> QED
      BY <1>0, <2>1, <2>2, Induction
  <2>4. \A k \in 1..n : k \in 0..n /\ k # 0
    BY <1>0
  <2> HIDE DEF Begun
  <2> QED
    BY <2>3, <2>4
<1> DEFINE row == Q[N].row
           cell == Q[N].cell
           r == Append(row, cell)
           C == Seq(S)
<1>6. row \in Seq(C) /\ cell \in C
  <2>1. N \in 0..N
    BY <1>0
  <2> QED
    BY <1>2, <2>1
<1>7. n \in 1..n /\ o[n] + Len(cells[n]) = N /\ o[n] \in 0..N /\ N \in o[n]..N
  <2>1. n \in 1..n
    BY <1>0
  <2>2. N = o[n] + Len(cells[n])
    BY DEF JoinedAt
  <2> QED
    BY <1>0, <1>1, <2>1, <2>2
<1>8. Extends(Q[o[n]].row, row)
  BY <1>7, RunRowsExtend
<1>9. Plain(cells[n]) => row = Q[o[n]].row /\ cell = cells[n]
  BY <1>3, <1>5, <1>7
<1>10. ASSUME NEW k \in 1..n - 1, \A b \in 1..k : Plain(cells[b])
       PROVE  k <= Len(row) /\ row[k] = cells[k]
  <2>1. k + 1 \in 1..n /\ k + 1 - 1 = k /\ k \in 1..k
    BY <1>0
  <2> DEFINE m == k + 1
             d == Q[o[m]].row
  <2>2. m \in 1..n /\ m - 1 = k
    BY <2>1
  <2> HIDE DEF m
  <2>3. Len(d) = k /\ d[k] = cells[k]
    BY <1>5, <1>10, <2>1, <2>2
  <2>4. Extends(d, row)
    <3>1. o[m] \in 0..N /\ N \in o[m]..N
      <4>1. o[m] \in Nat /\ o[m] + Len(cells[m]) <= N /\ Len(cells[m]) \in Nat
        BY <1>0, <1>1, <2>2
      <4> QED
        BY <1>0, <4>1
    <3> QED
      BY <3>1, RunRowsExtend
  <2> HIDE DEF d, row
  <2> QED
    BY <2>1, <2>3, <2>4 DEF Extends
<1>11. /\ Len(Q[o[n]].row) \in Nat /\ Len(Q[o[n]].row) >= n - 1
       /\ (\A b \in 1..n - 1 : Plain(cells[b])) => Len(Q[o[n]].row) = n - 1
  BY <1>2, <1>5, <1>7
<1> HIDE DEF row, cell, G, Begun
<1>12. r \in Seq(C) /\ Len(row) \in Nat /\ Len(r) = Len(row) + 1
       /\ (\A b \in 1..Len(row) : r[b] = row[b]) /\ r[Len(row) + 1] = cell
  <2> HIDE DEF C
  <2> QED
    BY <1>6, AppendIs
<1> HIDE DEF r, C
<1>13. Len(r) >= n /\ Len(r) \in Nat
  <2> DEFINE b == Len(Q[o[n]].row)
             w == Len(row)
             v == Len(r)
  <2>1. b \in Nat /\ b >= n - 1 /\ b <= w /\ w \in Nat /\ v = w + 1
    BY <1>8, <1>11, <1>12 DEF Extends
  <2> HIDE DEF b, w, v, n
  <2>2. v >= n /\ v \in Nat
    BY <1>0, <2>1
  <2> QED
    BY <2>2 DEF v
<1>14. ASSUME NEW k \in 1..n, \A b \in 1..k : Plain(cells[b]) PROVE r[k] = cells[k]
  <2>1. CASE k < n
    <3>1. k \in 1..n - 1
      BY <1>0, <2>1
    <3>2. k <= Len(row) /\ row[k] = cells[k]
      BY <1>10, <1>14, <3>1
    <3>3. k \in 1..Len(row)
      BY <1>0, <1>12, <3>2
    <3> QED
      BY <1>12, <3>2, <3>3
  <2>2. CASE k = n
    <3>1. n \in 1..n /\ \A b \in 1..n - 1 : b \in 1..k
      BY <1>0, <2>2
    <3>2. Plain(cells[n]) /\ \A b \in 1..n - 1 : Plain(cells[b])
      BY <1>14, <2>2, <3>1
    <3>3. Len(row) = n - 1 /\ cell = cells[n]
      BY <1>9, <1>11, <3>2
    <3>4. Len(row) + 1 = n
      BY <1>0, <3>3
    <3> QED
      BY <1>12, <2>2, <3>3, <3>4
  <2>3. k < n \/ k = n
    <3>1. n \in Nat
      BY <1>0
    <3> HIDE DEF n
    <3> QED
      BY <3>1
  <2> QED
    BY <2>1, <2>2, <2>3
<1>15. ASSUME \A c \in 1..n : Plain(cells[c]) PROVE r = cells
  <2>1. \A k \in 1..n : r[k] = cells[k]
    <3>1. \A k \in 1..n : \A b \in 1..k : b \in 1..n
      BY <1>0
    <3> QED
      BY <1>14, <1>15, <3>1
  <2>2. Len(r) = n
    <3>1. Plain(cells[n]) /\ \A b \in 1..n - 1 : Plain(cells[b])
      BY <1>0, <1>7, <1>15
    <3>2. Len(row) = n - 1
      BY <1>9, <1>11, <3>1
    <3> QED
      BY <1>0, <1>12, <3>2
  <2>3. r \in Seq(Seq(S)) /\ cells \in Seq(Seq(S))
    BY <1>12 DEF C
  <2> QED
    BY <2>1, <2>2, <2>3, SeqEqual
<1>16. RecordOf(S, cells, r)
  BY <1>12, <1>13, <1>14, <1>15 DEF RecordOf, C
<1> QED
  BY <1>16 DEF r, row, cell

TableLine(S) == [tokens : Nat, cells : Seq(Seq(S)) \ {<<>>}]

LEMMA LineIsRead ==
  ASSUME NEW S, "comma" \in S, NEW content, NEW R, Reads(S, content, R), NEW p,
         NEW line \in TableLine(S), Includes(content, p, Line(line)), Tame(line),
         R[p].at = "record", R[p].row = <<>>, R[p].cell = <<>>
  PROVE  LET e == p + Len(Line(line)) IN
         /\ Len(Line(line)) \in Nat
         /\ R[e].at \in {"cell", "in"} /\ R[e].rows = R[p].rows
         /\ RecordOf(S, line.cells, Append(R[e].row, R[e].cell))
<1> DEFINE text == Line(line)
           L == Len(text)
           Q == [m \in 0..L |-> R[p + m]]
<1>1. line.cells \in Seq(Seq(S)) /\ line.cells # <<>>
  BY DEF TableLine
<1>2. Len(line.cells) > 0
  BY <1>1, EmptySeq
<1>3. PICK o : JoinedAt(S, line.cells, "comma", text, o)
  BY <1>1, JoinedIs DEF Line
<1>4. text \in Seq(S) /\ L \in Nat /\ L > 0
  <2>1. text \in Seq(S)
    BY <1>3 DEF JoinedAt
  <2>2. text # <<>>
    BY DEF Tame
  <2> HIDE DEF text
  <2> QED
    BY <2>1, <2>2, EmptySeq
<1>5. TameText(text)
  BY DEF Tame, TameText
<1>6. Includes(content, p, text)
  OBVIOUS
<1> HIDE DEF text
<1>7. Run(S, text, Q)
  BY <1>4, <1>5, <1>6, TameRuns
<1>8. /\ Q[L] = R[p + L] /\ Q[0] = R[p] /\ L \in 1..L /\ L \in 0..L
  <2>1. p \in Nat
    BY <1>6 DEF Includes
  <2>2. 0 \in 0..L /\ L \in 0..L /\ p + 0 = p /\ L \in 1..L
    BY <1>4, <2>1
  <2> QED
    BY <2>2
<1> HIDE DEF Q
<1>9. RecordOf(S, line.cells, Append(Q[L].row, Q[L].cell))
  BY <1>1, <1>2, <1>3, <1>7, CellsAreRead
<1>10. Q[L].at \in {"cell", "in"} /\ Q[L].rows = Q[0].rows
  BY <1>7, <1>8 DEF Run
<1> QED
  BY <1>4, <1>8, <1>9, <1>10 DEF text

(* The records of the first lines.                                         *)
Records(S, lines, k, read) ==
  /\ read \in Seq(Seq(Seq(S))) /\ Len(read) = k
  /\ \A j \in 1..k : RecordOf(S, lines[j].cells, read[j])

LEMMA RecordsAppend ==
  ASSUME NEW S, NEW lines, NEW k \in Nat, NEW read, Records(S, lines, k, read),
         NEW r, RecordOf(S, lines[k + 1].cells, r)
  PROVE  Records(S, lines, k + 1, Append(read, r))
<1> DEFINE W == Seq(Seq(S))
<1>1. read \in Seq(W) /\ r \in W /\ Len(read) = k
  BY DEF Records, RecordOf
<1> HIDE DEF W
<1>2. /\ Append(read, r) \in Seq(W) /\ Len(Append(read, r)) = k + 1
      /\ (\A i \in 1..k : Append(read, r)[i] = read[i]) /\ Append(read, r)[k + 1] = r
  BY <1>1, AppendIs
<1>3. ASSUME NEW j \in 1..k + 1 PROVE RecordOf(S, lines[j].cells, Append(read, r)[j])
  <2>1. CASE j \in 1..k
    BY <1>2, <2>1 DEF Records
  <2>2. CASE j = k + 1
    BY <1>2, <2>2
  <2>3. j \in 1..k \/ j = k + 1
    OBVIOUS
  <2> QED
    BY <2>1, <2>2, <2>3
<1> QED
  BY <1>2, <1>3 DEF Records, W

(* A chunk whose first line is tame, and all of whose lines are.           *)
ReadAs(S, lines, read) ==
  /\ read \in Seq(Seq(Seq(S))) /\ Len(read) >= 1 /\ RecordOf(S, lines[1].cells, read[1])
  /\ (\A i \in 1..Len(lines) : Tame(lines[i])) => Records(S, lines, Len(lines), read)

LEMMA ContentIsRead ==
  ASSUME NEW S, "comma" \in S, "break" \in S,
         NEW lines \in Seq(TableLine(S)), lines # <<>>, Tame(lines[1]),
         NEW texts \in Seq(Seq(S)), Len(texts) = Len(lines),
         \A i \in 1..Len(lines) : texts[i] = Line(lines[i])
  PROVE  ReadAs(S, lines, CsvReader(Joined(texts, "break")))
<1> DEFINE content == Joined(texts, "break")
           R == Reading(content)
           n == Len(lines)
           N == Len(content)
           read == CsvReader(content)
<1>0. n \in Nat /\ n >= 1 /\ \A i \in 1..n : lines[i] \in TableLine(S) /\ texts[i] = Line(lines[i])
  BY EmptySeq
<1>1. PICK o : JoinedAt(S, texts, "break", content, o)
  BY JoinedIs
<1>2. content \in Seq(S) /\ N \in Nat
  BY <1>1 DEF JoinedAt
<1>3. read = IF R[N].at = "record" THEN R[N].rows ELSE EndRecord(R[N]).rows
  BY DEF CsvReader
<1> HIDE DEF content
<1>4. Reads(S, content, R)
  BY <1>2, ReadingIs
<1> HIDE DEF R, read
<1> DEFINE e(i) == o[i] + Len(texts[i])
           Begun(i) == /\ R[o[i]].at = "record" /\ R[o[i]].row = <<>> /\ R[o[i]].cell = <<>>
                       /\ Records(S, lines, i - 1, R[o[i]].rows)
           Ended(i) == /\ R[e(i)].at \in {"cell", "in"} /\ e(i) \in 0..N
                       /\ Records(S, lines, i, EndRecord(R[e(i)]).rows)
<1>5. ASSUME NEW i \in 1..n, Tame(lines[i]), Begun(i) PROVE Ended(i)
  <2>1. Includes(content, o[i], Line(lines[i])) /\ lines[i] \in TableLine(S) /\ texts[i] = Line(lines[i])
    BY <1>0, <1>1 DEF JoinedAt
  <2> DEFINE text == Line(lines[i])
             p == o[i]
             q == p + Len(text)
             r == Append(R[q].row, R[q].cell)
  <2>2. /\ Len(text) \in Nat /\ R[q].at \in {"cell", "in"} /\ R[q].rows = R[p].rows
        /\ RecordOf(S, lines[i].cells, r)
    <3> HIDE DEF n, N
    <3> QED
      BY <1>4, <1>5, <2>1, LineIsRead
  <2>3. p \in Nat /\ q \in 0..N
    BY <1>2, <2>1, <2>2 DEF Includes
  <2> HIDE DEF q
  <2>4. R[q] \in Reader(S)
    BY <1>4, <2>3 DEF Reads
  <2>5. EndRecord(R[q]).rows = Append(R[p].rows, r)
    BY <2>2, <2>4, EndRecordIs
  <2>6. Records(S, lines, i - 1, R[p].rows)
    BY <1>5
  <2> HIDE DEF p, r
  <2>7. i - 1 \in Nat /\ i - 1 + 1 = i
    BY <1>0
  <2>8. Records(S, lines, i - 1 + 1, Append(R[p].rows, r))
    BY <2>2, <2>6, <2>7, RecordsAppend
  <2>9. q = e(i)
    BY <2>1 DEF q, p
  <2> QED
    BY <2>2, <2>3, <2>5, <2>7, <2>8, <2>9
<1>6. ASSUME NEW i \in 1..n - 1, Ended(i) PROVE Begun(i + 1) /\ o[i + 1] \in 0..N
  <2>1. o[i + 1] = e(i) + 1 /\ content[o[i + 1]] = "break"
    <3>1. i \in 1..Len(texts) - 1
      OBVIOUS
    <3> QED
      BY <1>1, <3>1 DEF JoinedAt
  <2>2. i + 1 \in 1..n /\ i + 1 - 1 = i
    BY <1>0
  <2>3. o[i + 1] \in Nat /\ o[i + 1] <= N
    <3>1. Includes(content, o[i + 1], texts[i + 1]) /\ Len(texts[i + 1]) \in Nat
      BY <1>0, <1>1, <2>2, ElementOfSeq DEF JoinedAt
    <3> QED
      BY <1>2, <3>1 DEF Includes
  <2>4. PICK m \in 1..N : m = o[i + 1] /\ m - 1 = e(i) /\ content[m] = "break"
    BY <1>2, <1>6, <2>1, <2>3
  <2> DEFINE q == e(i)
  <2>5. q \in 0..N /\ R[q].at \in {"cell", "in"} /\ R[q] \in Reader(S)
    BY <1>4, <1>6 DEF Reads
  <2>6. R[m] = ReadSymbol(R[m - 1], content[m])
    BY <1>4 DEF Reads
  <2>7. R[m] = EndRecord(R[q])
    BY <2>4, <2>5, <2>6, ReadsBreak
  <2>8. R[m].at = "record" /\ R[m].row = <<>> /\ R[m].cell = <<>>
    BY <2>5, <2>7, EndRecordIs
  <2>9. Records(S, lines, i, R[m].rows)
    BY <1>6, <2>7
  <2> QED
    BY <2>2, <2>4, <2>8, <2>9
<1>7. Begun(1)
  <2>1. o[1] = 0
    BY <1>0, <1>1 DEF JoinedAt
  <2>2. R[0] = Unread
    BY <1>4 DEF Reads
  <2>3. <<>> \in Seq(Seq(Seq(S))) /\ Len(<<>>) = 0 /\ 1..0 = {}
    BY EmptySeq
  <2>4. Records(S, lines, 0, <<>>)
    BY <2>3 DEF Records
  <2> QED
    BY <2>1, <2>2, <2>4 DEF Unread
<1>8. e(n) = N /\ R[N] \in Reader(S) /\ N \in 0..N
  <2>1. N \in 0..N
    BY <1>2
  <2>2. R[N] \in Reader(S)
    BY <1>4, <2>1 DEF Reads
  <2> QED
    BY <1>0, <1>1, <2>1, <2>2 DEF JoinedAt
<1>9. Ended(1)
  <2>1. 1 \in 1..n
    BY <1>0
  <2> HIDE DEF Begun, Ended, n
  <2> QED
    BY <1>5, <1>7, <2>1
<1>10. read \in Seq(Seq(Seq(S))) /\ Extends(R[N].rows, read)
  <2> DEFINE r == IF R[N].at = "record" THEN <<>> ELSE Append(R[N].row, R[N].cell)
             W == Seq(Seq(S))
             rows == R[N].rows
  <2>1. rows \in Seq(W) /\ r \in W
    BY <1>8, ReaderIs, EmptySeq
  <2>2. read = rows \/ read = Append(rows, r)
    BY <1>3, <1>8, EndRecordIs
  <2> HIDE DEF r, W, rows
  <2>3. Extends(rows, Append(rows, r)) /\ Append(rows, r) \in Seq(W) /\ Extends(rows, rows)
    BY <2>1, AppendIs DEF Extends
  <2> QED
    BY <2>1, <2>2, <2>3 DEF rows, W
<1>11. Ended(n) => Records(S, lines, n, read)
  <2>1. ASSUME R[N].at \in {"cell", "in"} PROVE read = EndRecord(R[N]).rows
    BY <1>3, <2>1
  <2> QED
    BY <1>8, <2>1
<1>12. Len(read) >= 1 /\ RecordOf(S, lines[1].cells, read[1])
  <2>1. CASE n = 1
    <3>1. Records(S, lines, 1, read)
      BY <1>9, <1>11, <2>1
    <3>2. 1 \in 1..1
      OBVIOUS
    <3> QED
      BY <3>1, <3>2 DEF Records
  <2>2. CASE n # 1
    <3>1. 1 \in 1..n - 1 /\ 1 + 1 = 2 /\ 2 - 1 = 1
      BY <1>0, <2>2
    <3>2. Begun(2) /\ o[2] \in 0..N
      <4> HIDE DEF Begun, Ended, n
      <4>1. Begun(1 + 1) /\ o[1 + 1] \in 0..N
        BY <1>6, <1>9, <3>1
      <4> QED
        BY <3>1, <4>1
    <3>3. Records(S, lines, 1, R[o[2]].rows)
      BY <3>1, <3>2
    <3>4. Extends(R[o[2]].rows, R[N].rows)
      BY <1>4, <3>2 DEF Reads
    <3>5. Extends(R[o[2]].rows, read)
      BY <1>10, <3>4, ExtendsMore
    <3>6. 1 \in 1..1
      OBVIOUS
    <3> DEFINE rows == R[o[2]].rows
    <3>7. Len(rows) = 1 /\ RecordOf(S, lines[1].cells, rows[1]) /\ Extends(rows, read)
      BY <3>3, <3>5, <3>6 DEF Records
    <3> HIDE DEF rows
    <3>8. Len(read) >= 1 /\ read[1] = rows[1]
      BY <3>7 DEF Extends
    <3> QED
      BY <3>7, <3>8
  <2> QED
    BY <2>1, <2>2
<1>13. ASSUME \A i \in 1..n : Tame(lines[i]) PROVE Records(S, lines, n, read)
  <2> DEFINE G == {i \in 0..n : i = 0 \/ Ended(i)}
  <2>1. 0 \in G
    BY <1>0
  <2>2. ASSUME NEW i \in 1..n, i - 1 \in G PROVE i \in G
    <3>1. CASE i = 1
      BY <1>0, <1>9, <3>1
    <3>2. CASE i # 1
      <4>1. i - 1 \in 1..n - 1 /\ i - 1 # 0 /\ i - 1 + 1 = i
        BY <1>0, <3>2
      <4>2. Ended(i - 1)
        BY <2>2, <4>1
      <4> HIDE DEF Begun, Ended
      <4>3. Begun(i - 1 + 1)
        BY <1>6, <4>1, <4>2
      <4>4. Ended(i)
        BY <1>5, <1>13, <4>1, <4>3
      <4> QED
        BY <4>4
    <3> QED
      BY <3>1, <3>2
  <2>3. \A i \in 0..n : i \in G
    <3> HIDE DEF G
    <3> QED
      BY <1>0, <2>1, <2>2, Induction
  <2>4. n \in 0..n /\ n # 0
    BY <1>0
  <2>5. Ended(n)
    BY <2>3, <2>4
  <2> QED
    BY <1>11, <2>5
<1>14. ReadAs(S, lines, read)
  BY <1>10, <1>12, <1>13, Zenon DEF ReadAs
<1> QED
  BY <1>14 DEF read, content

(* A row that is long enough, by columns that have names of their own.     *)
LongEnough(C, columns, row) ==
  /\ columns \in Seq(C) /\ row \in Seq(C) /\ Len(row) >= Len(columns)
  /\ \A c, d \in 1..Len(columns) : columns[c] = columns[d] => c = d

Zipped(columns, row, dictionary) ==
  /\ DOMAIN dictionary = {columns[c] : c \in DOMAIN columns}
  /\ \A c \in 1..Len(columns) : dictionary[columns[c]] = row[c]

LEMMA DictionaryIs ==
  ASSUME NEW C, NEW columns, NEW row, LongEnough(C, columns, row)
  PROVE  Zipped(columns, row, AsDictionary(columns, row))
<1> DEFINE n == Len(columns)
           zipped == 1..Min({Len(columns), Len(row)})
           d == AsDictionary(columns, row)
<1>1. /\ n \in Nat /\ Len(row) \in Nat /\ DOMAIN columns = 1..n /\ Len(row) >= n
      /\ \A c, b \in 1..n : columns[c] = columns[b] => c = b
  BY DEF LongEnough
<1>2. zipped = 1..n
  <2>1. Min({n, Len(row)}) = n
    BY <1>1, MinOfTwo
  <2> QED
    BY <2>1
<1>3. d = [name \in {columns[c] : c \in zipped} |-> row[Max({c \in zipped : columns[c] = name})]]
  BY DEF AsDictionary
<1> HIDE DEF zipped, d
<1>4. DOMAIN d = {columns[c] : c \in 1..n}
  BY <1>2, <1>3
<1>5. ASSUME NEW c \in 1..n PROVE d[columns[c]] = row[c]
  <2>1. columns[c] \in {columns[b] : b \in zipped}
    BY <1>2
  <2>2. d[columns[c]] = row[Max({b \in zipped : columns[b] = columns[c]})]
    BY <1>3, <2>1
  <2>3. {b \in zipped : columns[b] = columns[c]} = {c}
    BY <1>1, <1>2
  <2>4. Max({c}) = c
    <3>1. c \in {c} /\ c \in Int /\ \A k \in {c} : k \in Int /\ k <= c
      BY <1>1
    <3> QED
      BY <3>1, MaxIs
  <2> QED
    BY <2>2, <2>3, <2>4
<1> QED
  BY <1>1, <1>4, <1>5 DEF d, Zipped

(* The groups of rows are within the rows.                                 *)
LEMMA GroupsWithin ==
  ASSUME NEW g, NEW n \in Nat, GroupsFollow(g, n), NEW k \in 1..Len(g)
  PROVE  g[k].first >= 1 /\ g[k].last <= n
<1> DEFINE m == Len(g)
<1>1. /\ m \in Nat /\ (n = 0 => m = 0) /\ (n > 0 => m > 0 /\ g[1].first = 1 /\ g[m].last = n)
      /\ \A j \in 1..m : g[j].first \in Nat /\ g[j].last \in Nat /\ g[j].first <= g[j].last
      /\ \A j \in 2..m : g[j].first = g[j - 1].last + 1
  BY DEF GroupsFollow
<1> HIDE DEF m
<1>2. k \in 1..m
  BY DEF m
<1>3. n > 0
  BY <1>1, <1>2
<1>4. \A j \in 1..m : g[j].first >= 1
  <2>1. ASSUME NEW j \in 1..m PROVE g[j].first >= 1
    <3>1. CASE j = 1
      BY <1>1, <1>3, <3>1
    <3>2. CASE j # 1
      <4>1. j \in 2..m /\ j - 1 \in 1..m
        BY <1>1, <3>2
      <4>2. g[j - 1].last \in Nat /\ g[j].first = g[j - 1].last + 1
        BY <1>1, <4>1
      <4> QED
        BY <4>2
    <3> QED
      BY <3>1, <3>2
  <2> QED
    BY <2>1
<1>5. \A j \in 1..m : g[j].last <= n
  <2> DEFINE G == {j \in 0..m : j = 0 \/ g[j].last <= n}
  <2>1. ASSUME NEW j \in 0..m, \A i \in j + 1..m : i \in G PROVE j \in G
    <3>1. CASE j = m
      BY <1>1, <1>3, <3>1
    <3>2. CASE j # m /\ j # 0
      <4>1. j + 1 \in j + 1..m /\ j + 1 \in 2..m /\ j + 1 \in 1..m /\ j \in 1..m /\ j + 1 - 1 = j /\ j + 1 # 0
        <5>1. j \in Nat /\ m \in Nat
          BY <1>1
        <5> QED
          BY <3>2, <5>1
      <4>2. PICK i \in 2..m : i = j + 1 /\ i - 1 = j /\ i \in j + 1..m /\ i # 0 /\ i \in 1..m
        BY <4>1
      <4>3. g[i].last <= n
        BY <2>1, <4>2
      <4>4. g[i].first = g[j].last + 1 /\ g[i].first <= g[i].last /\ g[i].last \in Nat /\ g[j].last \in Nat
        BY <1>1, <4>1, <4>2
      <4>5. g[j].last <= n
        BY <4>3, <4>4
      <4> QED
        BY <4>5
    <3>3. CASE j = 0
      BY <3>3
    <3> QED
      BY <3>1, <3>2, <3>3
  <2>2. \A j \in 0..m : j \in G
    <3> HIDE DEF G
    <3> QED
      BY <1>1, <2>1, DownwardInduction
  <2>3. \A j \in 1..m : j \in 0..m /\ j # 0
    BY <1>1
  <2> QED
    BY <2>2, <2>3
<1> QED
  BY <1>2, <1>4, <1>5

(* What is known of the chunk of a group.                                  *)
GroupRead(S, header, rows, group, read) ==
  /\ read \in Seq(Seq(Seq(S))) /\ Len(read) >= 1 /\ read[1] = header.cells
  /\ (\A i \in group.first..group.last : Tame(rows[i])) =>
       /\ Len(read) = group.last - group.first + 2
       /\ \A i \in 1..group.last - group.first + 1 :
            RecordOf(S, rows[group.first + i - 1].cells, read[i + 1])

GroupWithin(group, n) ==
  /\ group.first \in Nat /\ group.last \in Nat
  /\ 1 <= group.first /\ group.first <= group.last /\ group.last <= n

LEMMA GroupIsRead ==
  ASSUME NEW S, "comma" \in S, "break" \in S, NEW header \in TableLine(S), NEW rows \in Seq(TableLine(S)),
         PlainHeader(header), NEW group, GroupWithin(group, Len(rows))
  PROVE  GroupRead(S, header, rows, group, CsvReader(ChunkContent(header, rows, group)))
<1> DEFINE first == group.first
           size == group.last - group.first + 1
           T == TableLine(S)
           lines == [j \in 1..size + 1 |-> IF j = 1 THEN header ELSE rows[first + j - 2]]
           part == [i \in 1..size |-> Line(rows[first + i - 1])]
           texts == <<Line(header)>> \o part
           read == CsvReader(ChunkContent(header, rows, group))
<1>1. /\ first \in Nat /\ 1 <= first /\ size \in Nat /\ 1 <= size /\ first + size - 1 <= Len(rows)
      /\ Len(rows) \in Nat /\ \A i \in 1..Len(rows) : rows[i] \in T
      /\ group.last = first + size - 1 /\ size = group.last - group.first + 1
  <2>1. Len(rows) \in Nat /\ \A i \in 1..Len(rows) : rows[i] \in T
    BY ElementOfSeq
  <2>2. /\ group.first \in Nat /\ group.last \in Nat
        /\ 1 <= group.first /\ group.first <= group.last /\ group.last <= Len(rows)
    BY DEF GroupWithin
  <2> QED
    BY <2>1, <2>2
<1>2. read = CsvReader(Joined(texts, "break"))
  BY DEF ChunkContent
<1> HIDE DEF first, size, T, read
<1>3. \A line \in T : Line(line) \in Seq(S)
  <2>1. ASSUME NEW line \in T PROVE Line(line) \in Seq(S)
    <3>1. line.cells \in Seq(Seq(S))
      BY DEF T, TableLine
    <3>2. PICK o : JoinedAt(S, line.cells, "comma", Line(line), o)
      BY <3>1, JoinedIs DEF Line
    <3> QED
      BY <3>2 DEF JoinedAt
  <2> QED
    BY <2>1
<1>4. \A i \in 1..size : first + i - 1 \in 1..Len(rows)
  BY <1>1
<1>5. part \in Seq(Seq(S)) /\ Len(part) = size /\ \A i \in 1..size : part[i] = Line(rows[first + i - 1])
  <2> DEFINE W == Seq(S)
  <2>1. \A i \in 1..size : Line(rows[first + i - 1]) \in W
    BY <1>1, <1>3, <1>4
  <2> HIDE DEF W
  <2>2. part \in [1..size -> W]
    BY <2>1
  <2>3. \A i \in 1..size : part[i] = Line(rows[first + i - 1])
    OBVIOUS
  <2> HIDE DEF part
  <2>4. part \in Seq(W) /\ Len(part) = size
    BY <1>1, <2>2, FunctionIsSeq
  <2> QED
    BY <2>3, <2>4 DEF W
<1> HIDE DEF part
<1>6. header \in T /\ Line(header) \in Seq(S)
  BY <1>3 DEF T
<1>7. /\ texts \in Seq(Seq(S)) /\ Len(texts) = size + 1 /\ texts[1] = Line(header)
      /\ \A j \in 2..size + 1 : texts[j] = part[j - 1]
  <2> DEFINE W == Seq(S)
             l == Line(header)
  <2>1. part \in Seq(W) /\ l \in W
    BY <1>5, <1>6
  <2> HIDE DEF W, l
  <2>2. /\ <<l>> \o part \in Seq(W) /\ Len(<<l>> \o part) = Len(part) + 1 /\ (<<l>> \o part)[1] = l
        /\ \A k \in 2..Len(part) + 1 : (<<l>> \o part)[k] = part[k - 1]
    BY <2>1, PrependIs
  <2> QED
    BY <1>5, <2>2 DEF W, l
<1> HIDE DEF texts
<1>8. /\ lines \in Seq(T) /\ Len(lines) = size + 1 /\ lines[1] = header
      /\ \A j \in 2..size + 1 : lines[j] = rows[first + j - 2]
  <2>1. ASSUME NEW j \in 1..size + 1 PROVE lines[j] \in T
    <3>1. CASE j = 1
      BY <1>6, <3>1
    <3>2. CASE j # 1
      <4>1. first + j - 2 \in 1..Len(rows)
        BY <1>1, <3>2
      <4> QED
        BY <1>1, <3>2, <4>1
    <3> QED
      BY <3>1, <3>2
  <2>2. 1 \in 1..size + 1 /\ \A j \in 2..size + 1 : j \in 1..size + 1 /\ j # 1
    BY <1>1
  <2>3. lines[1] = header /\ \A j \in 2..size + 1 : lines[j] = rows[first + j - 2]
    BY <2>2
  <2>4. lines \in [1..size + 1 -> T]
    BY <2>1
  <2>5. size + 1 \in Nat
    BY <1>1
  <2> HIDE DEF lines
  <2>6. lines \in Seq(T) /\ Len(lines) = size + 1
    BY <2>4, <2>5, FunctionIsSeq
  <2> QED
    BY <2>3, <2>6
<1> HIDE DEF lines
<1>9. \A j \in 1..Len(lines) : texts[j] = Line(lines[j])
  <2>1. ASSUME NEW j \in 1..size + 1 PROVE texts[j] = Line(lines[j])
    <3>1. CASE j = 1
      BY <1>7, <1>8, <3>1
    <3>2. CASE j # 1
      <4>1. j \in 2..size + 1 /\ j - 1 \in 1..size /\ first + (j - 1) - 1 = first + j - 2
        BY <1>1, <3>2
      <4>2. texts[j] = part[j - 1] /\ lines[j] = rows[first + j - 2]
        BY <1>7, <1>8, <4>1
      <4>3. part[j - 1] = Line(rows[first + (j - 1) - 1])
        BY <1>5, <4>1
      <4> QED
        BY <4>1, <4>2, <4>3
    <3> QED
      BY <3>1, <3>2
  <2> QED
    BY <1>8, <2>1
<1>10. ReadAs(S, lines, read)
  <2>1. lines # <<>> /\ Len(texts) = Len(lines)
    <3>1. Len(lines) # 0
      BY <1>1, <1>8
    <3> QED
      BY <1>7, <1>8, <3>1, EmptySeq
  <2>2. Tame(lines[1])
    BY <1>8 DEF PlainHeader
  <2> QED
    BY <1>2, <1>7, <1>8, <1>9, <2>1, <2>2, ContentIsRead DEF T
<1>11. read[1] = header.cells
  <2>1. RecordOf(S, header.cells, read[1])
    BY <1>8, <1>10 DEF ReadAs
  <2>2. header.cells \in Seq(Seq(S))
    BY DEF TableLine
  <2>3. \A c \in 1..Len(header.cells) : Plain(header.cells[c])
    BY <2>2 DEF PlainHeader
  <2> QED
    BY <2>1, <2>3 DEF RecordOf
<1>12. ASSUME \A i \in group.first..group.last : Tame(rows[i])
       PROVE  /\ Len(read) = size + 1
              /\ \A i \in 1..size : RecordOf(S, rows[first + i - 1].cells, read[i + 1])
  <2>1. ASSUME NEW j \in 1..size + 1 PROVE Tame(lines[j])
    <3>1. CASE j = 1
      BY <1>8, <3>1 DEF PlainHeader
    <3>2. CASE j # 1
      <4>1. j \in 2..size + 1 /\ first + j - 2 \in group.first..group.last
        BY <1>1, <3>2 DEF first
      <4> QED
        BY <1>8, <1>12, <4>1
    <3> QED
      BY <3>1, <3>2
  <2>2. Records(S, lines, size + 1, read)
    BY <1>8, <1>10, <2>1 DEF ReadAs
  <2>3. ASSUME NEW i \in 1..size PROVE RecordOf(S, rows[first + i - 1].cells, read[i + 1])
    <3>1. PICK j \in 2..size + 1 : j = i + 1 /\ first + j - 2 = first + i - 1 /\ j \in 1..size + 1
      BY <1>1
    <3>2. RecordOf(S, lines[j].cells, read[j])
      BY <2>2, <3>1 DEF Records
    <3>3. lines[j] = rows[first + i - 1]
      BY <1>8, <3>1
    <3> QED
      BY <3>1, <3>2, <3>3
  <2> QED
    BY <2>2, <2>3 DEF Records
<1>13. size + 1 = group.last - group.first + 2
  BY <1>1 DEF first
<1>14. GroupRead(S, header, rows, group, read)
  <2>1. read \in Seq(Seq(Seq(S))) /\ Len(read) >= 1
    BY <1>10 DEF ReadAs
  <2> QED
    BY <1>11, <1>12, <1>13, <2>1 DEF GroupRead, first, size
<1> QED
  BY <1>14 DEF read

(* A table that is read, its header and its rows: lines of as many cells.  *)
TableRead(S, header, rows) ==
  /\ {"comma", "break"} \subseteq S
  /\ header \in TableLine(S) /\ rows \in Seq(TableLine(S))
  /\ \A i \in 1..Len(rows) : Len(rows[i].cells) = Len(header.cells)

(* What is shown of a group.                                               *)
GroupShown(header, rows, group, shown) ==
  (\A i \in group.first..group.last : Tame(rows[i])) =>
     /\ Len(shown) = group.last - group.first + 1
     /\ \A i \in 1..group.last - group.first + 1 :
          ShowsLine(shown[i], header, rows[group.first + i - 1])

(* The records of a chunk but its first, by the columns.                   *)
Dictionaries(columns, read, shown) ==
  /\ Len(shown) = Len(read) - 1
  /\ \A i \in 1..Len(shown) : shown[i] = AsDictionary(columns, read[i + 1])

LEMMA GroupIsShown ==
  ASSUME NEW S, NEW header, NEW rows, TableRead(S, header, rows),
         PlainHeader(header), NEW group, GroupWithin(group, Len(rows)),
         NEW read, GroupRead(S, header, rows, group, read),
         NEW shown, Dictionaries(header.cells, read, shown)
  PROVE  GroupShown(header, rows, group, shown)
<1> DEFINE size == group.last - group.first + 1
<1>0. /\ header \in TableLine(S) /\ rows \in Seq(TableLine(S))
      /\ \A i \in 1..Len(rows) : Len(rows[i].cells) = Len(header.cells)
      /\ Len(shown) = Len(read) - 1
      /\ \A i \in 1..Len(shown) : shown[i] = AsDictionary(header.cells, read[i + 1])
  BY DEF TableRead, Dictionaries
<1> SUFFICES ASSUME \A i \in group.first..group.last : Tame(rows[i])
             PROVE  /\ Len(shown) = size
                    /\ \A i \in 1..size : ShowsLine(shown[i], header, rows[group.first + i - 1])
  BY DEF GroupShown
<1>1. /\ group.first \in Nat /\ group.last \in Nat /\ Len(rows) \in Nat
      /\ 1 <= group.first /\ group.first <= group.last /\ group.last <= Len(rows)
  BY <1>0 DEF GroupWithin
<1>2. /\ Len(read) = group.last - group.first + 2
      /\ \A i \in 1..size : RecordOf(S, rows[group.first + i - 1].cells, read[i + 1])
  BY DEF GroupRead
<1>3. Len(shown) = size
  BY <1>0, <1>1, <1>2
<1>4. ASSUME NEW i \in 1..size PROVE ShowsLine(shown[i], header, rows[group.first + i - 1])
  <2>1. group.first + i - 1 \in 1..Len(rows)
    BY <1>1
  <2> DEFINE C == Seq(S)
             columns == header.cells
             r == read[i + 1]
             line == rows[group.first + i - 1]
             cells == line.cells
             d == AsDictionary(columns, r)
  <2>2. columns \in Seq(C) /\ line \in TableLine(S) /\ Len(cells) = Len(columns)
    <3>1. line \in TableLine(S)
      BY <1>0, <2>1, ElementOfSeq
    <3> QED
      BY <1>0, <2>1, <3>1 DEF TableLine
  <2>3. RecordOf(S, cells, r)
    BY <1>2
  <2>4. shown[i] = d
    BY <1>0, <1>3
  <2>5. \A c, b \in 1..Len(columns) : columns[c] = columns[b] => c = b
    BY <2>2 DEF PlainHeader
  <2>6. cells \in Seq(C)
    BY <2>2 DEF TableLine
  <2> HIDE DEF line, r, columns
  <2>7. r \in Seq(C) /\ Len(r) >= Len(columns)
    BY <2>2, <2>3 DEF RecordOf
  <2>8. \A c \in 1..Len(cells) : (\A b \in 1..c : Plain(cells[b])) => r[c] = cells[c]
    BY <2>3 DEF RecordOf
  <2> HIDE DEF d, C, cells
  <2>9. /\ DOMAIN d = {columns[c] : c \in DOMAIN columns}
        /\ \A c \in 1..Len(columns) : d[columns[c]] = r[c]
    <3>1. LongEnough(C, columns, r)
      BY <2>2, <2>5, <2>7 DEF LongEnough
    <3>2. Zipped(columns, r, AsDictionary(columns, r))
      BY <3>1, DictionaryIs, Zenon
    <3> QED
      BY <3>2 DEF Zipped, d
  <2>10. \A c \in DOMAIN cells : (\A b \in 1..c : Plain(cells[b])) => d[columns[c]] = cells[c]
    <3>1. DOMAIN cells = 1..Len(cells)
      BY <2>6
    <3> QED
      BY <2>2, <2>8, <2>9, <3>1
  <2>11. ShowsLine(d, header, line)
    BY <2>9, <2>10, Zenon DEF ShowsLine, columns, cells
  <2> QED
    BY <2>4, <2>11 DEF line
<1> QED
  BY <1>3, <1>4

(* Chunks that all begin with one header, and columns that are that header.*)
BeginWith(W, read, header) ==
  /\ read \in Seq(Seq(W)) /\ header # <<>>
  /\ \A k \in 1..Len(read) : Len(read[k]) >= 1 /\ read[k][1] = header

ColumnsOf(columns, n, header) == \A k \in 1..n : columns[k] = header

LEMMA ColumnsAre ==
  ASSUME NEW W, NEW read, NEW header, BeginWith(W, read, header)
  PROVE  ColumnsOf(ColumnsTo(read), Len(read), header)
<1> DEFINE n == Len(read)
           columns == ColumnsTo(read)
<1>0. /\ n \in Nat /\ read \in Seq(Seq(W)) /\ header # <<>>
      /\ \A k \in 1..Len(read) : Len(read[k]) >= 1 /\ read[k][1] = header
  BY DEF BeginWith
<1>1. /\ columns[0] = <<>>
      /\ \A k \in 1..n : columns[k] = IF columns[k - 1] # <<>> \/ read[k] = <<>>
                                      THEN columns[k - 1] ELSE Head(read[k])
  <2>1. columns = [k \in 0..n |->
          IF k = 0 THEN <<>>
          ELSE IF columns[k - 1] # <<>> \/ read[k] = <<>> THEN columns[k - 1] ELSE Head(read[k])]
    BY <1>0, ColumnsRecursion
  <2> HIDE DEF columns
  <2> QED
    BY <1>0, <2>1
<1> HIDE DEF columns
<1>2. ASSUME NEW k \in 1..n PROVE read[k] # <<>> /\ Head(read[k]) = header
  <2> DEFINE c == read[k]
  <2>1. c \in Seq(W) /\ Len(c) >= 1 /\ c[1] = header
    BY <1>0, ElementOfSeq
  <2> HIDE DEF c
  <2>2. c # <<>> /\ Head(c) = header
    BY <2>1, EmptySeq
  <2> QED
    BY <2>2 DEF c
<1> DEFINE G == {k \in 0..n : k = 0 \/ columns[k] = header}
<1>3. 0 \in G
  BY <1>0
<1>4. ASSUME NEW k \in 1..n, k - 1 \in G PROVE k \in G
  <2>1. CASE k = 1
    <3>1. columns[0] = <<>> /\ columns[1] = Head(read[1])
      BY <1>1, <1>2, <2>1
    <3>2. columns[k] = header
      BY <1>2, <2>1, <3>1
    <3> QED
      BY <3>2
  <2>2. CASE k # 1
    <3>1. columns[k - 1] = header
      BY <1>0, <1>4, <2>2
    <3>2. columns[k] = header
      BY <1>0, <1>1, <3>1
    <3> QED
      BY <3>2
  <2> QED
    BY <2>1, <2>2
<1>5. \A k \in 0..n : k \in G
  <2> HIDE DEF G
  <2> QED
    BY <1>0, <1>3, <1>4, Induction
<1>6. \A k \in 1..n : k \in 0..n /\ k # 0
  BY <1>0
<1> QED
  BY <1>5, <1>6 DEF columns, ColumnsOf

(* Where the parts of what is flattened begin and end.                     *)
PartsEnd(ss, n, to, all) ==
  /\ to[0] = 0 /\ to[n] = Len(all)
  /\ \A k \in 0..n : to[k] \in 0..Len(all)
  /\ \A k \in 1..n : to[k] = to[k - 1] + Len(ss[k])
  /\ \A k \in 0..n : \A j \in k..n : to[k] <= to[j]
  /\ \A k \in 1..n : \A i \in 1..Len(ss[k]) : all[to[k - 1] + i] = ss[k][i]

LEMMA FlattenedIs ==
  ASSUME NEW D, NEW ss \in Seq(Seq(D)), NEW n, n = Len(ss)
  PROVE  \E to : PartsEnd(ss, n, to, FlattenSeq(ss))
<1> DEFINE all == FlattenSeq(ss)
<1>0. n \in Nat /\ \A k \in 1..n : ss[k] \in Seq(D) /\ Len(ss[k]) \in Nat
  BY ElementOfSeq
<1>1. PICK f : Flattening(D, ss, f)
  BY FlattenSteps
<1> DEFINE to == [k \in 0..n |-> Len(f[k])]
<1>2. /\ f[0] = <<>> /\ all = f[n]
      /\ \A k \in 0..n : f[k] \in Seq(D) /\ Len(f[k]) \in Nat
      /\ \A k \in 1..n : f[k] = f[k - 1] \o ss[k]
  <2>1. /\ f[0] = <<>> /\ all = f[n]
        /\ \A k \in 0..n : f[k] \in Seq(D)
        /\ \A k \in 1..n : f[k] = f[k - 1] \o ss[k]
    BY <1>1 DEF Flattening
  <2> QED
    BY <2>1, LenProperties
<1> HIDE DEF all
<1>3. \A k \in 0..n : to[k] = Len(f[k])
  OBVIOUS
<1> HIDE DEF to
<1>4. ASSUME NEW k \in 1..n
      PROVE  /\ Len(f[k]) = Len(f[k - 1]) + Len(ss[k]) /\ k - 1 \in 0..n /\ k \in 0..n
             /\ \A i \in 1..Len(ss[k]) : f[k][Len(f[k - 1]) + i] = ss[k][i]
             /\ Extends(f[k - 1], f[k])
  <2>1. k - 1 \in 0..n /\ k \in 0..n
    BY <1>0
  <2> DEFINE c == f[k - 1]
             d == ss[k]
             e == f[k]
  <2>2. c \in Seq(D) /\ d \in Seq(D) /\ e = c \o d
    BY <1>0, <1>2, <2>1
  <2> HIDE DEF c, d, e
  <2>3. Joins(c, d, e)
    BY <2>2, JoinIs, Zenon
  <2>4. Len(e) = Len(c) + Len(d) /\ (\A i \in 1..Len(d) : e[Len(c) + i] = d[i]) /\ Extends(c, e)
    BY <2>3 DEF Joins, Extends
  <2> QED
    BY <2>1, <2>4 DEF c, d, e
<1>5. ASSUME NEW k \in 0..n, NEW j \in k..n PROVE Extends(f[k], f[j])
  <2>1. \A i \in k + 1..n : i \in 1..n
    BY <1>0
  <2>2. \A i \in k + 1..n : Extends(f[i - 1], f[i])
    BY <1>4, <2>1
  <2> QED
    BY <1>0, <1>2, <2>2, ExtendsTo
<1>6. ASSUME NEW k \in 0..n, NEW j \in k..n PROVE to[k] <= to[j] /\ to[k] \in Nat /\ to[j] \in Nat
  <2>1. j \in 0..n
    BY <1>0
  <2> QED
    BY <1>2, <1>3, <1>5, <2>1 DEF Extends
<1>7. ASSUME NEW k \in 0..n PROVE to[k] \in 0..Len(all)
  <2>1. n \in k..n /\ n \in 0..n
    BY <1>0
  <2>2. to[n] = Len(all)
    BY <1>2, <1>3, <2>1
  <2> QED
    BY <1>6, <2>1, <2>2
<1>8. to[0] = 0 /\ to[n] = Len(all)
  <2>1. 0 \in 0..n /\ n \in 0..n /\ Len(<<>>) = 0
    BY <1>0
  <2> QED
    BY <1>2, <1>3, <2>1
<1>9. \A k \in 1..n : to[k] = to[k - 1] + Len(ss[k])
  BY <1>3, <1>4
<1>10. ASSUME NEW k \in 1..n, NEW i \in 1..Len(ss[k]) PROVE all[to[k - 1] + i] = ss[k][i]
  <2>1. k - 1 \in 0..n /\ k \in 0..n /\ n \in k..n
    BY <1>0
  <2>2. Extends(f[k], all)
    BY <1>2, <1>5, <2>1
  <2>3. to[k - 1] + i \in 1..Len(f[k]) /\ to[k - 1] = Len(f[k - 1])
    <3> DEFINE a == Len(f[k - 1])
               b == Len(ss[k])
    <3>1. to[k - 1] = a /\ a \in Nat /\ b \in Nat /\ Len(f[k]) = a + b
      BY <1>0, <1>2, <1>3, <1>4, <2>1
    <3>2. i \in 1..b
      OBVIOUS
    <3> HIDE DEF a, b
    <3>3. to[k - 1] + i \in 1..Len(f[k])
      BY <3>1, <3>2
    <3> QED
      BY <3>1, <3>3 DEF a
  <2>4. all[to[k - 1] + i] = f[k][to[k - 1] + i]
    BY <2>2, <2>3 DEF Extends
  <2> QED
    BY <1>4, <2>3, <2>4
<1>11. PartsEnd(ss, n, to, all)
  BY <1>6, <1>7, <1>8, <1>9, <1>10 DEF PartsEnd
<1> QED
  BY <1>11 DEF all

(* The groups of a table, and what is shown of each, one after the other.  *)
GroupsShown(header, rows, groups, to, view) ==
  /\ GroupsFollow(groups, Len(rows))
  /\ \A k \in 1..Len(groups) : GroupWithin(groups[k], Len(rows))
  /\ Len(rows) > 0 => view.columns = header.cells
  /\ to[0] = 0 /\ to[Len(groups)] = Len(view.rows)
  /\ \A k \in 0..Len(groups) : to[k] \in 0..Len(view.rows)
  /\ \A k \in 0..Len(groups) : \A j \in k..Len(groups) : to[k] <= to[j]
  /\ \A k \in 1..Len(groups) : (\A i \in groups[k].first..groups[k].last : Tame(rows[i])) =>
       /\ to[k] = to[k - 1] + (groups[k].last - groups[k].first + 1)
       /\ \A i \in 1..groups[k].last - groups[k].first + 1 :
            ShowsLine(view.rows[to[k - 1] + i], header, rows[groups[k].first + i - 1])

LEMMA TableGroupsAre ==
  ASSUME NEW S, NEW header, NEW rows, TableRead(S, header, rows),
         NEW groups, groups = TableGroups(header, rows)
  PROVE  /\ Len(rows) \in Nat /\ GroupsFollow(groups, Len(rows))
         /\ \A k \in 1..Len(groups) : GroupWithin(groups[k], Len(rows))
<1> DEFINE p == [i \in DOMAIN rows |-> rows[i].tokens]
<1>1. /\ Len(rows) \in Nat /\ DOMAIN rows = 1..Len(rows) /\ header \in TableLine(S)
      /\ \A i \in 1..Len(rows) : rows[i] \in TableLine(S)
  BY ElementOfSeq DEF TableRead
<1>2. header.tokens \in Nat /\ \A i \in 1..Len(rows) : rows[i].tokens \in Nat
  BY <1>1 DEF TableLine
<1>3. p \in [1..Len(rows) -> Nat]
  BY <1>1, <1>2
<1>4. groups = ChunkCsvRows(header.tokens, p)
  BY DEF TableGroups
<1> HIDE DEF p
<1>5. p \in Seq(Nat) /\ Len(p) = Len(rows)
  BY <1>1, <1>3, FunctionIsSeq
<1>6. GroupsFollow(groups, Len(rows))
  BY <1>2, <1>4, <1>5, GroupsAre, Zenon
<1>7. ASSUME NEW k \in 1..Len(groups) PROVE GroupWithin(groups[k], Len(rows))
  <2>1. groups[k].first >= 1 /\ groups[k].last <= Len(rows)
    BY <1>1, <1>6, GroupsWithin
  <2>2. groups[k].first \in Nat /\ groups[k].last \in Nat /\ groups[k].first <= groups[k].last
    BY <1>6 DEF GroupsFollow
  <2> QED
    BY <2>1, <2>2 DEF GroupWithin
<1> QED
  BY <1>1, <1>6, <1>7

LEMMA ViewIs ==
  ASSUME NEW S, NEW header, NEW rows, TableRead(S, header, rows), PlainHeader(header),
         NEW groups, groups = TableGroups(header, rows), NEW view, view = TableView(header, rows)
  PROVE  \E to : GroupsShown(header, rows, groups, to, view)
<1> DEFINE n == Len(groups)
           read == ChunksRead(header, rows)
           columns == ColumnsTo(read)
           ss == [k \in DOMAIN read |->
                   [i \in 1..Len(read[k]) - 1 |-> AsDictionary(columns[k], read[k][i + 1])]]
           D == {AsDictionary(header.cells, r) : r \in Seq(Seq(S))}
           W == Seq(Seq(S))
<1>1. /\ Len(rows) \in Nat /\ GroupsFollow(groups, Len(rows))
      /\ \A k \in 1..n : GroupWithin(groups[k], Len(rows))
  BY TableGroupsAre
<1>2. /\ "comma" \in S /\ "break" \in S /\ header \in TableLine(S) /\ rows \in Seq(TableLine(S))
      /\ \A i \in 1..Len(rows) : Len(rows[i].cells) = Len(header.cells)
      /\ n \in Nat /\ DOMAIN groups = 1..n /\ (Len(rows) > 0 => n > 0)
      /\ header.cells # <<>>
  BY <1>1 DEF TableRead, GroupsFollow, TableLine
<1>3. read = [k \in 1..n |-> CsvReader(ChunkContent(header, rows, groups[k]))]
  BY <1>2 DEF ChunksRead
<1>4. /\ view.columns = columns[Len(read)] /\ view.rows = FlattenSeq(ss)
  BY DEF TableView
<1> HIDE DEF read, columns, ss, D
<1>5. \A k \in 1..n : GroupRead(S, header, rows, groups[k], read[k])
  <2>1. ASSUME NEW k \in 1..n PROVE GroupRead(S, header, rows, groups[k], read[k])
    <3>1. read[k] = CsvReader(ChunkContent(header, rows, groups[k]))
      BY <1>3
    <3>2. GroupWithin(groups[k], Len(rows))
      BY <1>1
    <3> QED
      BY <1>2, <3>1, <3>2, GroupIsRead
  <2> QED
    BY <2>1
<1>6. \A k \in 1..n : read[k] \in Seq(W) /\ Len(read[k]) >= 1 /\ read[k][1] = header.cells
  BY <1>5 DEF GroupRead
<1>7. read \in Seq(Seq(W)) /\ Len(read) = n /\ DOMAIN read = 1..n
  <2> DEFINE V == Seq(W)
  <2>1. \A k \in 1..n : read[k] \in V
    BY <1>6
  <2> HIDE DEF V, W
  <2>2. read \in [1..n -> V]
    BY <1>3, <2>1
  <2>3. read \in Seq(V) /\ Len(read) = n
    BY <1>2, <2>2, FunctionIsSeq
  <2>4. DOMAIN read = 1..n
    BY <2>2
  <2> QED
    BY <2>3, <2>4 DEF V
<1>8. \A k \in 1..n : columns[k] = header.cells
  <2>1. BeginWith(W, read, header.cells)
    BY <1>2, <1>6, <1>7 DEF BeginWith
  <2>2. ColumnsOf(columns, n, header.cells)
    BY <1>7, <2>1, ColumnsAre, Zenon DEF columns
  <2> QED
    BY <2>2 DEF ColumnsOf
<1>9. ASSUME NEW k \in 1..n
      PROVE  /\ ss[k] \in Seq(D) /\ Len(ss[k]) = Len(read[k]) - 1
             /\ \A i \in 1..Len(ss[k]) : ss[k][i] = AsDictionary(header.cells, read[k][i + 1])
  <2> DEFINE m == Len(read[k]) - 1
             s == [i \in 1..m |-> AsDictionary(header.cells, read[k][i + 1])]
  <2>1. ss[k] = s
    BY <1>7, <1>8 DEF ss
  <2>2. m \in Nat /\ \A i \in 1..m : read[k][i + 1] \in W
    <3> DEFINE c == read[k]
    <3>1. c \in Seq(W) /\ Len(c) >= 1
      BY <1>6
    <3> HIDE DEF c, W
    <3>2. Len(c) - 1 \in Nat /\ \A i \in 1..Len(c) - 1 : c[i + 1] \in W
      BY <3>1
    <3> QED
      BY <3>2 DEF c
  <2> HIDE DEF m
  <2>3. \A i \in 1..m : s[i] = AsDictionary(header.cells, read[k][i + 1]) /\ s[i] \in D
    BY <2>2 DEF D
  <2>4. s \in [1..m -> D]
    BY <2>3
  <2> HIDE DEF s
  <2>5. s \in Seq(D) /\ Len(s) = m
    BY <2>2, <2>4, FunctionIsSeq
  <2> QED
    BY <2>1, <2>3, <2>5 DEF m
<1>10. ss \in Seq(Seq(D)) /\ Len(ss) = n
  <2> DEFINE V == Seq(D)
  <2>1. \A k \in 1..n : ss[k] \in V
    BY <1>9
  <2>2. ss = [k \in 1..n |-> ss[k]]
    BY <1>7 DEF ss
  <2> HIDE DEF V
  <2>3. ss \in [1..n -> V]
    BY <2>1, <2>2
  <2>4. ss \in Seq(V) /\ Len(ss) = n
    BY <1>2, <2>3, FunctionIsSeq
  <2> QED
    BY <2>4 DEF V
<1> DEFINE all == view.rows
<1>11. PICK to : PartsEnd(ss, n, to, all)
  <2> HIDE DEF n, D
  <2>1. \E to : PartsEnd(ss, n, to, FlattenSeq(ss))
    BY <1>10, FlattenedIs, Zenon
  <2> QED
    BY <1>4, <2>1
<1> HIDE DEF all
<1>12. ASSUME NEW k \in 1..n PROVE GroupShown(header, rows, groups[k], ss[k])
  <2>1. Dictionaries(header.cells, read[k], ss[k])
    BY <1>9 DEF Dictionaries
  <2>2. GroupWithin(groups[k], Len(rows)) /\ GroupRead(S, header, rows, groups[k], read[k])
    BY <1>1, <1>5
  <2> QED
    BY <2>1, <2>2, GroupIsShown, Zenon
<1>13. ASSUME NEW k \in 1..n, \A i \in groups[k].first..groups[k].last : Tame(rows[i])
       PROVE  /\ to[k] = to[k - 1] + (groups[k].last - groups[k].first + 1)
              /\ \A i \in 1..groups[k].last - groups[k].first + 1 :
                   ShowsLine(all[to[k - 1] + i], header, rows[groups[k].first + i - 1])
  <2>1. /\ Len(ss[k]) = groups[k].last - groups[k].first + 1
        /\ \A i \in 1..groups[k].last - groups[k].first + 1 :
             ShowsLine(ss[k][i], header, rows[groups[k].first + i - 1])
    BY <1>12, <1>13 DEF GroupShown
  <2>2. to[k] = to[k - 1] + Len(ss[k]) /\ \A i \in 1..Len(ss[k]) : all[to[k - 1] + i] = ss[k][i]
    BY <1>11 DEF PartsEnd
  <2> QED
    BY <2>1, <2>2
<1>14. Len(rows) > 0 => view.columns = header.cells
  <2>1. Len(rows) > 0 => n \in 1..n
    BY <1>2
  <2> QED
    BY <1>4, <1>7, <1>8, <2>1
<1>15. /\ to[0] = 0 /\ to[n] = Len(all)
       /\ \A k \in 0..n : to[k] \in 0..Len(all)
       /\ \A k \in 0..n : \A j \in k..n : to[k] <= to[j]
  BY <1>11 DEF PartsEnd
<1>16. GroupsShown(header, rows, groups, to, view)
  BY <1>1, <1>13, <1>14, <1>15, Zenon DEF GroupsShown, all
<1> QED
  BY <1>16

LEMMA AllAreShown ==
  ASSUME NEW header, NEW rows, Len(rows) \in Nat, NEW groups, NEW to, NEW view,
         GroupsShown(header, rows, groups, to, view),
         \A k \in 1..Len(groups) : \A i \in groups[k].first..groups[k].last : Tame(rows[i])
  PROVE  Len(view.rows) = Len(rows)
<1> DEFINE n == Len(groups)
<1>1. /\ n \in Nat /\ (Len(rows) = 0 => n = 0)
      /\ Len(rows) > 0 => n > 0 /\ groups[1].first = 1 /\ groups[n].last = Len(rows)
      /\ \A k \in 1..n : groups[k].first \in Nat /\ groups[k].last \in Nat
      /\ \A k \in 2..n : groups[k].first = groups[k - 1].last + 1
  BY DEF GroupsShown, GroupsFollow
<1>2. /\ to[0] = 0 /\ to[n] = Len(view.rows)
      /\ \A k \in 1..n : to[k] = to[k - 1] + (groups[k].last - groups[k].first + 1)
  BY DEF GroupsShown
<1> HIDE DEF n
<1> DEFINE G == {k \in 0..n : k = 0 \/ to[k] = groups[k].last}
<1>3. 0 \in G
  BY <1>1
<1>4. ASSUME NEW k \in 1..n, k - 1 \in G PROVE k \in G
  <2>1. groups[k].last \in Nat /\ groups[k].first \in Nat /\ n \in Nat /\ k \in 0..n
    BY <1>1
  <2>2. CASE k = 1
    <3>1. groups[k].first = 1 /\ to[k - 1] = 0
      BY <1>1, <1>2, <2>2
    <3>2. to[k] = groups[k].last
      BY <1>2, <2>1, <3>1
    <3> QED
      BY <2>1, <3>2
  <2>3. CASE k # 1
    <3>1. to[k - 1] = groups[k - 1].last /\ k \in 2..n /\ k - 1 \in 1..n
      BY <1>4, <2>1, <2>3
    <3> DEFINE a == groups[k - 1].last
               b == groups[k].last
    <3>2. /\ groups[k].first = a + 1 /\ a \in Nat /\ b \in Nat /\ to[k - 1] = a
          /\ to[k] = to[k - 1] + (b - groups[k].first + 1)
      BY <1>1, <1>2, <2>1, <3>1
    <3> HIDE DEF a, b
    <3>3. to[k] = b
      BY <3>2
    <3> QED
      BY <2>1, <3>3 DEF b
  <2> QED
    BY <2>2, <2>3
<1>5. \A k \in 0..n : k \in G
  <2> HIDE DEF G
  <2> QED
    BY <1>1, <1>3, <1>4, Induction
<1>6. n = 0 \/ to[n] = groups[n].last
  BY <1>1, <1>5
<1> QED
  BY <1>1, <1>2, <1>6

(* A cell with a line break or a leading quote upsets the rows of its own  *)
(* chunk only: whatever a table holds under a plain header, each chunk     *)
(* without such a cell is shown row by row, in its place, what comes       *)
(* before the first comma of a row in the columns that it was read in; and *)
(* if no chunk has one, there are as many rows as were read                *)
(* (_flush_csv_group, get_content).                                        *)
THEOREM TablesAreShown ==
  ASSUME NEW S, NEW header, NEW rows, TableRead(S, header, rows)
  PROVE  TableIsShown(header, rows)
<1> DEFINE view == TableView(header, rows)
           groups == TableGroups(header, rows)
           n == Len(groups)
           Height(k) == groups[k].last - groups[k].first + 1
           TameChunk(k) == \A i \in groups[k].first..groups[k].last : Tame(rows[i])
           Shown(before) ==
             \A k \in DOMAIN groups : TameChunk(k) =>
               /\ before[k] + Height(k) <= Len(view.rows)
               /\ \A j \in DOMAIN groups : j > k => before[k] + Height(k) <= before[j]
               /\ \A i \in 1..Height(k) :
                    ShowsLine(view.rows[before[k] + i], header, rows[groups[k].first + i - 1])
<1>1. TableIsShown(header, rows) <=>
        (PlainHeader(header) =>
           /\ rows # <<>> => view.columns = header.cells
           /\ \E before \in [DOMAIN groups -> 0..Len(view.rows)] : Shown(before)
           /\ (\A k \in DOMAIN groups : TameChunk(k)) => Len(view.rows) = Len(rows))
  BY Zenon DEF TableIsShown
<1> SUFFICES ASSUME PlainHeader(header)
             PROVE  /\ rows # <<>> => view.columns = header.cells
                    /\ \E before \in [DOMAIN groups -> 0..Len(view.rows)] : Shown(before)
                    /\ (\A k \in DOMAIN groups : TameChunk(k)) => Len(view.rows) = Len(rows)
  BY <1>1
<1>2. PICK to : GroupsShown(header, rows, groups, to, view)
  BY ViewIs
<1> HIDE DEF view, groups
<1>3. Len(rows) \in Nat /\ (rows # <<>> => Len(rows) > 0)
  BY EmptySeq DEF TableRead
<1>4. n \in Nat /\ DOMAIN groups = 1..n
  BY <1>2 DEF GroupsShown, GroupsFollow
<1> DEFINE before == [k \in DOMAIN groups |-> to[k - 1]]
<1>5. before \in [DOMAIN groups -> 0..Len(view.rows)]
  <2>1. \A k \in 1..n : to[k - 1] \in 0..Len(view.rows)
    <3>1. \A k \in 1..n : k - 1 \in 0..n
      BY <1>4
    <3> QED
      BY <1>2, <3>1 DEF GroupsShown
  <2> QED
    BY <1>4, <2>1
<1>6. \A k \in 1..n : before[k] = to[k - 1]
  BY <1>4
<1> HIDE DEF before
<1>7. ASSUME NEW k \in DOMAIN groups, TameChunk(k)
      PROVE  /\ before[k] + Height(k) <= Len(view.rows)
             /\ \A j \in DOMAIN groups : j > k => before[k] + Height(k) <= before[j]
             /\ \A i \in 1..Height(k) :
                  ShowsLine(view.rows[before[k] + i], header, rows[groups[k].first + i - 1])
  <2>1. k \in 1..n /\ k \in 0..n
    BY <1>4
  <2>2. /\ to[k] = before[k] + Height(k)
        /\ \A i \in 1..Height(k) :
             ShowsLine(view.rows[before[k] + i], header, rows[groups[k].first + i - 1])
    BY <1>2, <1>6, <1>7, <2>1 DEF GroupsShown
  <2>3. to[k] \in 0..Len(view.rows)
    BY <1>2, <2>1 DEF GroupsShown
  <2>4. to[k] <= Len(view.rows)
    <3> DEFINE m == Len(view.rows)
    <3>1. to[k] \in 0..m
      BY <2>3
    <3> HIDE DEF m
    <3>2. to[k] <= m
      BY <3>1
    <3> QED
      BY <3>2 DEF m
  <2>5. ASSUME NEW j \in DOMAIN groups, j > k PROVE to[k] <= before[j]
    <3>1. j \in 1..n /\ j - 1 \in k..n
      BY <1>4, <2>1, <2>5
    <3>2. to[k] <= to[j - 1]
      BY <1>2, <2>1, <3>1 DEF GroupsShown
    <3> QED
      BY <1>6, <3>1, <3>2
  <2> HIDE DEF Height
  <2> QED
    BY <2>2, <2>4, <2>5
<1>8. Shown(before)
  BY <1>7
<1>9. ASSUME \A k \in DOMAIN groups : TameChunk(k) PROVE Len(view.rows) = Len(rows)
  BY <1>2, <1>3, <1>4, <1>9, AllAreShown
<1>10. rows # <<>> => view.columns = header.cells
  BY <1>2, <1>3 DEF GroupsShown
<1> HIDE DEF Shown
<1> QED
  BY <1>5, <1>8, <1>9, <1>10

-------------------------------------------------------------------------------
(* The pages of a document, put together from its chunks.                  *)

LEMMA BeginsIs ==
  ASSUME NEW pages \in Seq(Nat), NEW page \in 1..Len(pages)
  PROVE  Begins(pages, page) = Sums(pages)[page - 1] + (page - 1)
<1>1. /\ Len(pages) \in Nat /\ Sums(pages)[0] = 0
      /\ \A n \in 0..Len(pages) : Sums(pages)[n] \in Nat
  BY SumsType
<1>2. page - 1 \in 0..Len(pages) /\ 1 - 1 = 0 /\ page \in Nat
  BY <1>1
<1>3. Tokens(pages, 1, page - 1) = Sums(pages)[page - 1] - Sums(pages)[0]
  BY <1>2 DEF Tokens
<1>4. Sums(pages)[page - 1] \in Nat
  BY <1>1, <1>2
<1> QED
  BY <1>1, <1>2, <1>3, <1>4 DEF Begins

LEMMA BeginsAre ==
  ASSUME NEW pages \in Seq(Nat), Len(pages) > 0
  PROVE  /\ \A i \in 1..Len(pages) : Begins(pages, i) \in Nat
         /\ Begins(pages, 1) = 0
         /\ \A i, j \in 1..Len(pages) : i < j => Begins(pages, i) < Begins(pages, j)
<1>1. /\ Len(pages) \in Nat /\ Sums(pages)[0] = 0
      /\ \A n \in 0..Len(pages) : Sums(pages)[n] \in Nat
  BY SumsType
<1>2. ASSUME NEW i \in 1..Len(pages) PROVE Begins(pages, i) \in Nat
  <2>1. i - 1 \in 0..Len(pages) /\ i - 1 \in Nat
    BY <1>1
  <2>2. Sums(pages)[i - 1] \in Nat
    BY <1>1, <2>1
  <2>3. Begins(pages, i) = Sums(pages)[i - 1] + (i - 1)
    BY BeginsIs
  <2> QED
    BY <2>1, <2>2, <2>3
<1>3. Begins(pages, 1) = 0
  <2>1. 1 - 1 = 0 /\ 1 \in 1..Len(pages)
    BY <1>1
  <2> QED
    BY <1>1, <2>1, BeginsIs
<1>4. ASSUME NEW i \in 1..Len(pages), NEW j \in 1..Len(pages), i < j
      PROVE  Begins(pages, i) < Begins(pages, j)
  <2> DEFINE a == i - 1
             c == j - 1
  <2>1. a \in 0..Len(pages) /\ c \in a..Len(pages) /\ a < c /\ c \in 0..Len(pages)
    BY <1>1, <1>4
  <2>2. Begins(pages, i) = Sums(pages)[a] + a /\ Begins(pages, j) = Sums(pages)[c] + c
    BY BeginsIs
  <2> HIDE DEF a, c
  <2>3. Sums(pages)[a] <= Sums(pages)[c]
    BY <2>1, SumsRise
  <2>4. Sums(pages)[a] \in Nat /\ Sums(pages)[c] \in Nat /\ a \in Nat /\ c \in Nat
    BY <1>1, <2>1
  <2> QED
    BY <2>1, <2>2, <2>3, <2>4
<1> QED
  BY <1>2, <1>3, <1>4

(* PdfParser.parse's cursor is where the next page begins.                 *)
LEMMA BreaksAre ==
  ASSUME NEW pages \in Seq(Nat), Len(pages) > 0, NEW b, b = PageBreaks(pages)
  PROVE  /\ DOMAIN b = 1..Len(pages) - 1 /\ Len(b) = Len(pages) - 1
         /\ \A k \in 1..Len(pages) - 1 : b[k] = Begins(pages, k + 1)
<1> DEFINE n == Len(pages) - 1
           Next1(f, k) == f[k - 1] + pages[k] + 1
           Moves(f) == f = [k \in 0..n |-> IF k = 0 THEN 0 ELSE Next1(f, k)]
           at == [k \in 0..n |-> Sums(pages)[k] + k]
           cursor == CHOOSE f : Moves(f)
<1>1. /\ Len(pages) \in Nat /\ Sums(pages)[0] = 0
      /\ \A k \in 1..Len(pages) : pages[k] \in Nat
      /\ \A k \in 0..Len(pages) : Sums(pages)[k] \in Nat
      /\ \A k \in 1..Len(pages) : Sums(pages)[k] = Sums(pages)[k - 1] + pages[k]
  BY SumsType
<1>2. n \in Nat /\ n + 1 = Len(pages)
  BY <1>1
<1>3. b = [k \in 1..n |-> cursor[k]]
  BY DEF PageBreaks
<1>4. \E f : Moves(f)
  <2>1. ASSUME NEW k \in 0..n PROVE at[k] = IF k = 0 THEN 0 ELSE Next1(at, k)
    <3>1. CASE k = 0
      BY <1>1, <1>2, <3>1
    <3>2. CASE k # 0
      <4>1. k \in 1..Len(pages) /\ k - 1 \in 0..n /\ k - 1 \in 0..Len(pages)
        BY <1>2, <3>2
      <4>2. at[k] = Sums(pages)[k] + k /\ at[k - 1] = Sums(pages)[k - 1] + (k - 1)
        BY <4>1
      <4>3. /\ Sums(pages)[k] = Sums(pages)[k - 1] + pages[k]
            /\ Sums(pages)[k - 1] \in Nat /\ pages[k] \in Nat
        BY <1>1, <4>1
      <4> HIDE DEF at, n
      <4> QED
        BY <3>2, <4>2, <4>3
    <3> QED
      BY <3>1, <3>2
  <2>2. at = [k \in 0..n |-> at[k]]
    OBVIOUS
  <2> HIDE DEF at, Next1
  <2>3. Moves(at)
    BY <2>1, <2>2, Zenon
  <2> HIDE DEF Moves
  <2> QED
    BY <2>3
<1>5. Moves(cursor)
  <2> HIDE DEF Moves
  <2> QED
    BY <1>4
<1> HIDE DEF cursor
<1>6. /\ cursor[0] = 0
      /\ \A k \in 1..n : cursor[k] = cursor[k - 1] + pages[k] + 1
  <2> HIDE DEF n
  <2> QED
    BY <1>2, <1>5
<1> HIDE DEF Moves
<1> DEFINE G == {k \in 0..n : cursor[k] = Sums(pages)[k] + k}
<1>7. \A k \in 0..n : k \in G
  <2>1. 0 \in G
    BY <1>1, <1>2, <1>6
  <2>2. ASSUME NEW k \in 1..n, k - 1 \in G PROVE k \in G
    <3>1. k \in 1..Len(pages) /\ k - 1 \in 0..Len(pages)
      BY <1>2
    <3>2. cursor[k - 1] = Sums(pages)[k - 1] + (k - 1)
      BY <2>2
    <3>3. /\ Sums(pages)[k] = Sums(pages)[k - 1] + pages[k]
          /\ Sums(pages)[k - 1] \in Nat /\ pages[k] \in Nat
      BY <1>1, <3>1
    <3>4. cursor[k] = cursor[k - 1] + pages[k] + 1
      BY <1>6
    <3>5. cursor[k] = Sums(pages)[k] + k
      BY <3>2, <3>3, <3>4
    <3> QED
      BY <1>2, <3>5
  <2> HIDE DEF G, n
  <2> QED
    BY <1>2, <2>1, <2>2, Induction
<1>8. ASSUME NEW k \in 1..n PROVE b[k] = Begins(pages, k + 1)
  <2>1. k \in G
    <3> HIDE DEF G, n
    <3> QED
      BY <1>2, <1>7
  <2>2. k + 1 - 1 = k /\ k + 1 \in 1..Len(pages)
    BY <1>2
  <2>3. cursor[k] = Sums(pages)[k] + k
    BY <2>1
  <2>4. b[k] = cursor[k]
    BY <1>3
  <2> HIDE DEF G
  <2> QED
    BY <2>2, <2>3, <2>4, BeginsIs
<1>9. DOMAIN b = 1..n /\ Len(b) = n
  <2> HIDE DEF n
  <2> QED
    BY <1>2, <1>3
<1> QED
  BY <1>8, <1>9

(* The page that an offset is on.                                          *)
OnPage(pages, page, offset) ==
  /\ page \in 1..Len(pages) /\ Begins(pages, page) <= offset
  /\ page < Len(pages) => offset < Begins(pages, page + 1)

LEMMA PagesAscend ==
  ASSUME NEW pages \in Seq(Nat), Len(pages) > 0, NEW o, o \in Nat, NEW u, u \in Nat, o <= u,
         NEW i, OnPage(pages, i, o), NEW j, OnPage(pages, j, u)
  PROVE  i <= j
<1>1. i \in 1..Len(pages) /\ j \in 1..Len(pages) /\ Len(pages) \in Nat
  BY DEF OnPage
<1> SUFFICES ASSUME j < i PROVE FALSE
  BY <1>1
<1>2. j < Len(pages) /\ j + 1 \in 1..Len(pages) /\ (j + 1 = i \/ j + 1 < i)
  BY <1>1
<1>3. /\ Begins(pages, j + 1) \in Nat /\ Begins(pages, i) \in Nat
      /\ j + 1 < i => Begins(pages, j + 1) < Begins(pages, i)
  BY <1>1, <1>2, BeginsAre
<1>4. u < Begins(pages, j + 1) /\ Begins(pages, i) <= o
  BY <1>2 DEF OnPage
<1>5. Begins(pages, j + 1) <= Begins(pages, i)
  BY <1>2, <1>3
<1> QED
  BY <1>3, <1>4, <1>5

LEMMA PageNumberIs ==
  ASSUME NEW pages \in Seq(Nat), Len(pages) > 0, NEW o, o \in Nat
  PROVE  OnPage(pages, PageNumberAt(o, PageBreaks(pages)), o)
<1> DEFINE b == PageBreaks(pages)
           later == {k \in DOMAIN b : o < b[k]}
           L == Len(pages)
<1>1. /\ DOMAIN b = 1..L - 1 /\ Len(b) = L - 1
      /\ \A k \in 1..L - 1 : b[k] = Begins(pages, k + 1)
  BY BreaksAre
<1>2. L \in Nat /\ L >= 1
  OBVIOUS
<1>3. PageNumberAt(o, b) = IF later = {} THEN Len(b) + 1 ELSE Min(later)
  BY DEF PageNumberAt
<1>4. /\ \A i \in 1..L : Begins(pages, i) \in Nat
      /\ Begins(pages, 1) = 0
  BY <1>2, BeginsAre
<1>5. \A k \in later : k \in 1..L - 1 /\ o < Begins(pages, k + 1)
  BY <1>1
<1>6. \A k \in 1..L - 1 : k \notin later => Begins(pages, k + 1) <= o
  <2>1. ASSUME NEW k \in 1..L - 1, k \notin later PROVE Begins(pages, k + 1) <= o
    <3>1. ~(o < Begins(pages, k + 1))
      BY <1>1, <2>1
    <3>2. k + 1 \in 1..L
      BY <1>2
    <3> QED
      BY <1>4, <3>1, <3>2
  <2> QED
    BY <2>1
<1> HIDE DEF b, later, L
<1>7. CASE later = {}
  <2>1. PageNumberAt(o, b) = L
    BY <1>1, <1>2, <1>3, <1>7
  <2>2. Begins(pages, L) <= o
    <3>1. CASE L = 1
      BY <1>4, <3>1
    <3>2. CASE L # 1
      <4>1. L - 1 \in 1..L - 1 /\ L - 1 + 1 = L
        BY <1>2, <3>2
      <4>2. L - 1 \notin later
        BY <1>7
      <4> QED
        BY <1>6, <4>1, <4>2
    <3> QED
      BY <3>1, <3>2
  <2>3. L \in 1..L /\ ~(L < L)
    BY <1>2
  <2> QED
    BY <2>1, <2>2, <2>3 DEF OnPage, b, L
<1>8. CASE later # {}
  <2> DEFINE m == Min(later)
  <2>1. m \in later /\ \A k \in later : m <= k
    <3>1. \A k \in later : k \in Nat
      BY <1>2, <1>5
    <3> QED
      BY <1>8, <3>1, MinOf
  <2>2. PageNumberAt(o, b) = m
    BY <1>3, <1>8
  <2> HIDE DEF m
  <2>3. m \in 1..L - 1 /\ o < Begins(pages, m + 1)
    BY <1>5, <2>1
  <2>4. Begins(pages, m) <= o
    <3>1. CASE m = 1
      BY <1>4, <3>1
    <3>2. CASE m # 1
      <4>1. m - 1 \in 1..L - 1 /\ m - 1 + 1 = m /\ ~(m <= m - 1)
        BY <1>2, <2>3, <3>2
      <4>2. m - 1 \notin later
        BY <2>1, <4>1
      <4> QED
        BY <1>6, <4>1, <4>2
    <3> QED
      BY <3>1, <3>2
  <2>5. m \in 1..L
    BY <1>2, <2>3
  <2> QED
    BY <2>2, <2>3, <2>4, <2>5 DEF OnPage, b, L
<1> QED
  BY <1>7, <1>8 DEF b

Positions(n) == [k \in 1..n |-> k]

LEMMA SelectedSteps ==
  ASSUME NEW n \in Nat, NEW T, NEW c, c = Selected(Positions(n), T)
  PROVE  /\ Select(Positions(n), T) = c[n]
         /\ c[0] = <<>>
         /\ \A m \in 1..n : c[m] = IF m \in T THEN Append(c[m - 1], m) ELSE c[m - 1]
<1> DEFINE s == Positions(n)
<1>1. Len(s) = n /\ \A m \in 1..n : s[m] = m
  BY DEF Positions
<1> HIDE DEF s
<1>2. c = [m \in 0..n |-> IF m = 0 THEN <<>> ELSE IF m \in T THEN Append(c[m - 1], s[m]) ELSE c[m - 1]]
  <2>1. Len(s) \in Nat /\ c = Selected(s, T)
    BY <1>1 DEF s
  <2>2. Selected(s, T) = [m \in 0..Len(s) |->
           IF m = 0 THEN <<>>
           ELSE IF m \in T THEN Append(Selected(s, T)[m - 1], s[m]) ELSE Selected(s, T)[m - 1]]
    BY <2>1, SelectedRecursion
  <2> QED
    BY <1>1, <2>1, <2>2, Zenon
<1>3. 0 \in 0..n /\ \A m \in 1..n : m \in 0..n /\ m # 0
  OBVIOUS
<1>4. c[0] = <<>>
  BY <1>2, <1>3
<1>5. \A m \in 1..n : c[m] = IF m \in T THEN Append(c[m - 1], m) ELSE c[m - 1]
  BY <1>1, <1>2, <1>3
<1>6. Select(s, T) = c[n]
  BY <1>1 DEF Select, s
<1> QED
  BY <1>4, <1>5, <1>6 DEF s

(* The elements of T up to m, in their order.                              *)
Ascends(r, T, m) ==
  /\ r \in Seq(Nat) /\ Len(r) \in Nat
  /\ \A j \in 1..Len(r) : r[j] \in T /\ r[j] \in 1..m
  /\ \A t \in 1..m : t \in T => \E j \in 1..Len(r) : r[j] = t
  /\ \A i, j \in 1..Len(r) : i < j => r[i] < r[j]

LEMMA AscendsAppend ==
  ASSUME NEW m \in Nat, m >= 1, NEW T, NEW r, Ascends(r, T, m - 1)
  PROVE  IF m \in T THEN Ascends(Append(r, m), T, m) ELSE Ascends(r, T, m)
<1>1. /\ r \in Seq(Nat) /\ Len(r) \in Nat
      /\ \A j \in 1..Len(r) : r[j] \in T /\ r[j] \in 1..m - 1
      /\ \A t \in 1..m - 1 : t \in T => \E j \in 1..Len(r) : r[j] = t
      /\ \A i, j \in 1..Len(r) : i < j => r[i] < r[j]
  BY DEF Ascends
<1>2. CASE m \notin T
  <2>1. \A j \in 1..Len(r) : r[j] \in 1..m
    BY <1>1
  <2>2. \A t \in 1..m : t \in T => t \in 1..m - 1
    BY <1>2
  <2> QED
    BY <1>1, <1>2, <2>1, <2>2 DEF Ascends
<1>3. CASE m \in T
  <2> DEFINE q == Append(r, m)
             L == Len(r)
  <2>1. /\ q \in Seq(Nat) /\ Len(q) = L + 1 /\ q[L + 1] = m
        /\ \A k \in 1..L : q[k] = r[k]
    BY <1>1, AppendIs
  <2> HIDE DEF q
  <2>2. L \in Nat /\ \A j \in 1..L + 1 : j \in 1..L \/ j = L + 1
    BY <1>1
  <2>3. \A j \in 1..L + 1 : q[j] \in T /\ q[j] \in 1..m
    <3>1. ASSUME NEW j \in 1..L PROVE q[j] \in T /\ q[j] \in 1..m
      <4>1. q[j] = r[j] /\ r[j] \in T /\ r[j] \in 1..m - 1
        BY <1>1, <2>1
      <4> QED
        BY <4>1
    <3>2. q[L + 1] \in T /\ q[L + 1] \in 1..m
      BY <1>3, <2>1
    <3> QED
      BY <2>2, <3>1, <3>2
  <2>4. ASSUME NEW t \in 1..m, t \in T PROVE \E j \in 1..L + 1 : q[j] = t
    <3>1. CASE t = m
      <4>1. L + 1 \in 1..L + 1
        BY <2>2
      <4> QED
        BY <2>1, <3>1, <4>1
    <3>2. CASE t # m
      <4>1. t \in 1..m - 1
        BY <3>2
      <4>2. PICK j \in 1..L : r[j] = t
        BY <1>1, <2>4, <4>1
      <4>3. j \in 1..L + 1 /\ q[j] = t
        BY <2>1, <2>2, <4>2
      <4> QED
        BY <4>3
    <3> QED
      BY <3>1, <3>2
  <2>5. ASSUME NEW i \in 1..L + 1, NEW j \in 1..L + 1, i < j PROVE q[i] < q[j]
    <3>1. i \in 1..L
      BY <2>2, <2>5
    <3>2. q[i] = r[i] /\ r[i] \in 1..m - 1
      BY <1>1, <2>1, <3>1
    <3>3. CASE j = L + 1
      BY <2>1, <3>2, <3>3
    <3>4. CASE j # L + 1
      <4>1. j \in 1..L
        BY <2>2, <3>4
      <4>2. q[j] = r[j] /\ r[i] < r[j]
        BY <1>1, <2>1, <2>5, <3>1, <4>1
      <4> QED
        BY <3>2, <4>2
    <3> QED
      BY <3>3, <3>4
  <2>6. L + 1 \in Nat
    BY <2>2
  <2>7. Ascends(q, T, m)
    BY <2>1, <2>3, <2>4, <2>5, <2>6 DEF Ascends
  <2> QED
    BY <1>3, <2>7 DEF q
<1> QED
  BY <1>2, <1>3

LEMMA SelectAscends ==
  ASSUME NEW n, n \in Nat, NEW T
  PROVE  Ascends(Select(Positions(n), T), T, n)
<1> DEFINE c == Selected(Positions(n), T)
           G == {m \in 0..n : Ascends(c[m], T, m)}
<1>1. /\ Select(Positions(n), T) = c[n]
      /\ c[0] = <<>>
      /\ \A m \in 1..n : c[m] = IF m \in T THEN Append(c[m - 1], m) ELSE c[m - 1]
  BY SelectedSteps
<1> HIDE DEF c
<1>2. 0 \in G
  <2>1. <<>> \in Seq(Nat) /\ Len(<<>>) = 0
    BY EmptySeq
  <2>2. Ascends(<<>>, T, 0)
    BY <2>1 DEF Ascends
  <2> QED
    BY <1>1, <2>2
<1>3. ASSUME NEW m \in 1..n, m - 1 \in G PROVE m \in G
  <2>1. m \in Nat /\ m >= 1 /\ m \in 0..n
    OBVIOUS
  <2>2. Ascends(c[m - 1], T, m - 1)
    BY <1>3
  <2>3. IF m \in T THEN Ascends(Append(c[m - 1], m), T, m) ELSE Ascends(c[m - 1], T, m)
    BY <2>1, <2>2, AscendsAppend
  <2>4. Ascends(c[m], T, m)
    BY <1>1, <2>3
  <2> QED
    BY <2>1, <2>4
<1>4. n \in G
  <2>1. n \in 0..n
    OBVIOUS
  <2>2. \A m \in 0..n : m \in G
    <3> HIDE DEF G
    <3> QED
      BY <1>2, <1>3, Induction
  <2> QED
    BY <2>1, <2>2
<1> QED
  BY <1>1, <1>4

(* The numbers from a + 1 to b, as far as m.                               *)
Consecutive(r, a, b, m) ==
  /\ r \in Seq(Nat) /\ Len(r) \in Nat
  /\ Len(r) = IF m <= a THEN 0 ELSE IF m <= b THEN m - a ELSE b - a
  /\ \A j \in 1..Len(r) : r[j] = a + j

LEMMA SelectConsecutive ==
  ASSUME NEW n, n \in Nat, NEW a, a \in Nat, NEW b, b \in Nat, a <= b, b <= n,
         NEW T, \A k \in 1..n : k \in T <=> a < k /\ k <= b
  PROVE  Consecutive(Select(Positions(n), T), a, b, n)
<1> DEFINE c == Selected(Positions(n), T)
           G == {m \in 0..n : Consecutive(c[m], a, b, m)}
<1>1. /\ Select(Positions(n), T) = c[n]
      /\ c[0] = <<>>
      /\ \A m \in 1..n : c[m] = IF m \in T THEN Append(c[m - 1], m) ELSE c[m - 1]
  BY SelectedSteps
<1> HIDE DEF c
<1>2. 0 \in G
  <2>1. <<>> \in Seq(Nat) /\ Len(<<>>) = 0
    BY EmptySeq
  <2>2. Consecutive(<<>>, a, b, 0)
    BY <2>1 DEF Consecutive
  <2> QED
    BY <1>1, <2>2
<1>3. ASSUME NEW m \in 1..n, m - 1 \in G PROVE m \in G
  <2> DEFINE r == c[m - 1]
  <2>1. m \in Nat /\ m >= 1 /\ m \in 0..n
    OBVIOUS
  <2>2. Consecutive(r, a, b, m - 1)
    BY <1>3
  <2> HIDE DEF r
  <2>3. CASE m \in T
    <3>1. a < m /\ m <= b
      BY <2>3
    <3>2. Len(r) = m - 1 - a /\ Len(r) \in Nat /\ r \in Seq(Nat) /\ \A j \in 1..Len(r) : r[j] = a + j
      BY <2>1, <2>2, <3>1 DEF Consecutive
    <3> DEFINE q == Append(r, m)
    <3>3. /\ q \in Seq(Nat) /\ Len(q) = Len(r) + 1 /\ q[Len(r) + 1] = m
          /\ \A k \in 1..Len(r) : q[k] = r[k]
      BY <2>1, <3>2, AppendIs
    <3> HIDE DEF q
    <3>4. Len(q) = m - a /\ Len(q) \in Nat
      BY <2>1, <3>1, <3>2, <3>3
    <3>5. ASSUME NEW j \in 1..Len(q) PROVE q[j] = a + j
      <4>1. CASE j = Len(r) + 1
        BY <3>1, <3>2, <3>3, <4>1
      <4>2. CASE j # Len(r) + 1
        <5>1. j \in 1..Len(r)
          BY <3>2, <3>3, <4>2
        <5> QED
          BY <3>2, <3>3, <5>1
      <4> QED
        BY <4>1, <4>2
    <3>6. Consecutive(q, a, b, m)
      BY <2>1, <3>1, <3>3, <3>4, <3>5 DEF Consecutive
    <3> QED
      BY <1>1, <2>1, <2>3, <3>6 DEF q, r
  <2>4. CASE m \notin T
    <3>1. m <= a \/ m > b
      BY <2>1, <2>4
    <3>2. Consecutive(r, a, b, m)
      BY <2>1, <2>2, <3>1 DEF Consecutive
    <3> QED
      BY <1>1, <2>1, <2>4, <3>2 DEF r
  <2> QED
    BY <2>3, <2>4
<1>4. n \in G
  <2>1. n \in 0..n
    OBVIOUS
  <2>2. \A m \in 0..n : m \in G
    <3> HIDE DEF G
    <3> QED
      BY <1>2, <1>3, Induction
  <2> QED
    BY <2>1, <2>2
<1> QED
  BY <1>1, <1>4

(* Where a rising sequence of numbers passes one.                          *)
LEMMA RisingPasses ==
  ASSUME NEW n, n \in Nat, NEW f, \A k \in 1..n : f[k] \in Nat,
         \A j, k \in 1..n : j <= k => f[j] <= f[k], NEW v, v \in Nat
  PROVE  \E c \in 0..n : \A k \in 1..n : f[k] <= v <=> k <= c
<1> DEFINE S == {k \in 0..n : k > 0 => f[k] <= v}
<1>1. PICK c \in S : \A k \in S : k <= c
  <2>1. 0 \in S /\ \A k \in S : k \in 0..n
    OBVIOUS
  <2> HIDE DEF S
  <2> QED
    BY <2>1, GreatestNumber
<1>2. c \in 0..n /\ (c > 0 => f[c] <= v)
  OBVIOUS
<1>3. ASSUME NEW k \in 1..n PROVE f[k] <= v <=> k <= c
  <2>1. ASSUME f[k] <= v PROVE k <= c
    <3>1. k \in S
      BY <2>1
    <3> QED
      BY <1>1, <3>1
  <2>2. ASSUME k <= c PROVE f[k] <= v
    <3>1. c \in 1..n /\ f[c] <= v
      BY <1>2, <2>2
    <3>2. f[k] <= f[c] /\ f[k] \in Nat /\ f[c] \in Nat
      BY <2>2, <3>1
    <3> QED
      BY <3>1, <3>2
  <2> QED
    BY <2>1, <2>2
<1> QED
  BY <1>2, <1>3

Rises(f, n, p) ==
  /\ \A k \in 1..n : f[k] \in 1..p
  /\ \A j, k \in 1..n : j <= k => f[j] <= f[k]

NumbersOf(f, n) == {f[k] : k \in 1..n}

GroupedBy(f, n, v) == [m \in 1..Len(v) |-> Select(Positions(n), {k \in 1..n : f[k] = v[m]})]

(* What is grouped by a number that rises is grouped in its order.         *)
LEMMA GroupsFlatten ==
  ASSUME NEW n, n \in Nat, NEW p, p \in Nat, NEW f, Rises(f, n, p),
         NEW v, Ascends(v, NumbersOf(f, n), p), NEW ss, ss = GroupedBy(f, n, v)
  PROVE  FlattenSeq(ss) = Positions(n)
<1> DEFINE N == Len(v)
           at == [m \in 0..N |-> IF m = 0 THEN 0 ELSE v[m]]
           Passes(c, x) == c \in 0..n /\ \A k \in 1..n : f[k] <= x <=> k <= c
           cut == [m \in 0..N |-> CHOOSE c : Passes(c, at[m])]
           q == Positions(n)
<1>1. /\ \A k \in 1..n : f[k] \in 1..p /\ f[k] \in Nat /\ f[k] >= 1
      /\ \A j, k \in 1..n : j <= k => f[j] <= f[k]
  BY DEF Rises
<1>2. /\ N \in Nat
      /\ \A j \in 1..N : v[j] \in 1..p /\ v[j] \in Nat /\ v[j] >= 1
      /\ \A k \in 1..n : \E j \in 1..N : v[j] = f[k]
      /\ \A i, j \in 1..N : i < j => v[i] < v[j]
  <2>1. \A k \in 1..n : f[k] \in 1..p /\ f[k] \in NumbersOf(f, n)
    BY <1>1 DEF NumbersOf
  <2>2. \A t \in 1..p : t \in NumbersOf(f, n) => \E j \in 1..N : v[j] = t
    BY DEF Ascends
  <2>3. \A j \in 1..N : v[j] \in 1..p
    BY DEF Ascends
  <2>4. N \in Nat /\ \A i, j \in 1..N : i < j => v[i] < v[j]
    BY DEF Ascends
  <2>5. \A k \in 1..n : \E j \in 1..N : v[j] = f[k]
    BY <2>1, <2>2
  <2> QED
    BY <2>3, <2>4, <2>5
<1>3. /\ DOMAIN ss = 1..N
      /\ \A m \in 1..N : ss[m] = Select(Positions(n), {k \in 1..n : f[k] = v[m]})
  BY DEF GroupedBy
<1>4. ss = [m \in 1..N |-> ss[m]]
  BY DEF GroupedBy
<1> HIDE DEF N
<1>5. /\ \A m \in 0..N : at[m] \in Nat
      /\ at[0] = 0 /\ \A m \in 1..N : at[m] = v[m]
  BY <1>2
<1> HIDE DEF at
<1>6. ASSUME NEW m \in 0..N PROVE Passes(cut[m], at[m])
  <2> DEFINE x == at[m]
  <2>1. x \in Nat
    BY <1>5
  <2> HIDE DEF x
  <2>2. \E c \in 0..n : \A k \in 1..n : f[k] <= x <=> k <= c
    BY <1>1, <2>1, RisingPasses
  <2>3. \E c : Passes(c, x)
    BY <2>2
  <2>4. cut[m] = CHOOSE c : Passes(c, x)
    BY DEF x
  <2> HIDE DEF Passes, cut
  <2>5. Passes(cut[m], x)
    BY <2>3, <2>4
  <2> QED
    BY <2>5 DEF x
<1> HIDE DEF cut
<1>7. \A m \in 0..N : cut[m] \in 0..n /\ \A k \in 1..n : f[k] <= at[m] <=> k <= cut[m]
  BY <1>6
<1> HIDE DEF Passes
<1>8. cut[0] = 0
  <2>1. 0 \in 0..N /\ cut[0] \in 0..n
    BY <1>2, <1>7
  <2> SUFFICES ASSUME cut[0] # 0 PROVE FALSE
    OBVIOUS
  <2>2. cut[0] \in 1..n /\ cut[0] <= cut[0]
    BY <2>1
  <2>3. f[cut[0]] <= 0
    BY <1>5, <1>7, <2>1, <2>2
  <2>4. f[cut[0]] >= 1 /\ f[cut[0]] \in Nat
    BY <1>1, <2>2
  <2> QED
    BY <2>3, <2>4
<1>9. cut[N] = n
  <2>1. N \in 0..N /\ cut[N] \in 0..n
    BY <1>2, <1>7
  <2>2. CASE n = 0
    BY <2>1, <2>2
  <2>3. CASE n # 0
    <3>1. n \in 1..n
      BY <2>3
    <3>2. PICK j \in 1..N : v[j] = f[n]
      BY <1>2, <3>1
    <3>3. N \in 1..N /\ v[j] <= v[N]
      <4>1. N \in 1..N /\ (j = N \/ j < N)
        BY <1>2
      <4>2. j < N => v[j] < v[N]
        BY <1>2, <4>1
      <4>3. v[j] \in Nat /\ v[N] \in Nat
        BY <1>2, <4>1
      <4> QED
        BY <4>1, <4>2, <4>3
    <3>4. f[n] <= at[N]
      BY <1>5, <3>2, <3>3
    <3>5. n <= cut[N]
      BY <1>7, <2>1, <3>1, <3>4
    <3> QED
      BY <2>1, <3>5
  <2> QED
    BY <2>2, <2>3
<1>10. ASSUME NEW m \in 1..N
       PROVE  /\ m - 1 \in 0..N /\ m \in 0..N
              /\ at[m - 1] < at[m] /\ at[m] = v[m]
              /\ at[m - 1] \in Nat /\ at[m] \in Nat
  <2>1. m - 1 \in 0..N /\ m \in 0..N
    BY <1>2
  <2>2. at[m - 1] \in Nat /\ at[m] \in Nat /\ at[m] = v[m]
    BY <1>5, <2>1
  <2>3. CASE m = 1
    <3>1. at[m - 1] = 0 /\ v[m] >= 1
      BY <1>2, <1>5, <2>3
    <3> QED
      BY <2>1, <2>2, <3>1
  <2>4. CASE m # 1
    <3>1. m - 1 \in 1..N /\ m - 1 < m
      BY <1>2, <2>4
    <3>2. v[m - 1] < v[m] /\ at[m - 1] = v[m - 1]
      BY <1>2, <1>5, <3>1
    <3> QED
      BY <2>1, <2>2, <3>2
  <2> QED
    BY <2>3, <2>4
<1>11. ASSUME NEW m \in 1..N
       PROVE  cut[m - 1] <= cut[m] /\ cut[m - 1] \in 0..n /\ cut[m] \in 0..n
  <2>1. cut[m - 1] \in 0..n /\ cut[m] \in 0..n
    BY <1>7, <1>10
  <2> SUFFICES ASSUME ~(cut[m - 1] <= cut[m]) PROVE FALSE
    BY <2>1
  <2>2. cut[m - 1] \in 1..n /\ cut[m - 1] <= cut[m - 1]
    BY <2>1
  <2>3. f[cut[m - 1]] <= at[m - 1]
    BY <1>7, <1>10, <2>2
  <2>4. f[cut[m - 1]] <= at[m]
    <3>1. f[cut[m - 1]] \in Nat
      BY <1>1, <2>2
    <3>2. at[m - 1] < at[m] /\ at[m - 1] \in Nat /\ at[m] \in Nat
      BY <1>10
    <3> QED
      BY <2>3, <3>1, <3>2
  <2>5. cut[m - 1] <= cut[m]
    BY <1>7, <1>10, <2>2, <2>4
  <2> QED
    BY <2>5
<1>12. ASSUME NEW m \in 1..N, NEW k \in 1..n
       PROVE  f[k] = v[m] <=> cut[m - 1] < k /\ k <= cut[m]
  <2>1. /\ f[k] <= at[m] <=> k <= cut[m]
        /\ f[k] <= at[m - 1] <=> k <= cut[m - 1]
    BY <1>7, <1>10
  <2>2. /\ f[k] \in Nat /\ v[m] \in Nat /\ at[m - 1] \in Nat /\ cut[m - 1] \in 0..n
        /\ at[m - 1] < v[m] /\ at[m] = v[m]
    BY <1>1, <1>2, <1>10, <1>11
  <2>3. ASSUME f[k] = v[m] PROVE cut[m - 1] < k /\ k <= cut[m]
    BY <2>1, <2>2, <2>3
  <2>4. ASSUME cut[m - 1] < k, k <= cut[m] PROVE f[k] = v[m]
    <3>1. at[m - 1] < f[k] /\ f[k] <= v[m]
      BY <2>1, <2>2, <2>4
    <3>2. PICK j \in 1..N : v[j] = f[k]
      BY <1>2
    <3>3. CASE j < m
      <4>1. m - 1 \in 1..N /\ (j < m - 1 \/ j = m - 1)
        BY <1>2, <3>3
      <4>2. v[j] < v[m - 1] \/ v[j] = v[m - 1]
        BY <1>2, <4>1
      <4>3. at[m - 1] = v[m - 1]
        BY <1>5, <4>1
      <4> QED
        BY <2>2, <3>1, <3>2, <4>2, <4>3
    <3>4. CASE m < j
      <4>1. v[m] < v[j]
        BY <1>2, <3>4
      <4> QED
        BY <2>2, <3>1, <3>2, <4>1
    <3>5. CASE m = j
      BY <3>2, <3>5
    <3> QED
      BY <1>2, <3>3, <3>4, <3>5
  <2> QED
    BY <2>3, <2>4
<1>13. ASSUME NEW m \in 1..N
       PROVE  /\ ss[m] \in Seq(Nat) /\ Len(ss[m]) = cut[m] - cut[m - 1]
              /\ \A j \in 1..Len(ss[m]) : ss[m][j] = cut[m - 1] + j
  <2> DEFINE a == cut[m - 1]
             b == cut[m]
             T == {k \in 1..n : f[k] = v[m]}
  <2>1. \A k \in 1..n : k \in T <=> a < k /\ k <= b
    BY <1>12
  <2>2. ss[m] = Select(Positions(n), T)
    BY <1>3
  <2>3. a \in Nat /\ b \in Nat /\ a <= b /\ b <= n
    BY <1>11
  <2> HIDE DEF T, a, b
  <2>4. Consecutive(Select(Positions(n), T), a, b, n)
    BY <2>1, <2>3, SelectConsecutive
  <2> DEFINE r == ss[m]
  <2>5. Consecutive(r, a, b, n)
    BY <2>2, <2>4
  <2> HIDE DEF r
  <2>6. /\ r \in Seq(Nat) /\ Len(r) = b - a
        /\ \A j \in 1..Len(r) : r[j] = a + j
    <3>1. Len(r) = b - a
      BY <2>3, <2>5 DEF Consecutive
    <3> QED
      BY <2>5, <3>1 DEF Consecutive
  <2> QED
    BY <2>6 DEF a, b, r
<1>14. /\ q \in Seq(Nat) /\ Len(q) = n
       /\ \A k \in 1..n : q[k] = k
  <2>1. q \in [1..n -> Nat] /\ \A k \in 1..n : q[k] = k
    BY DEF Positions
  <2> QED
    BY <2>1, FunctionIsSeq
<1>15. ss \in Seq(Seq(Nat)) /\ Len(ss) = N
  <2>1. \A m \in 1..N : ss[m] \in Seq(Nat)
    BY <1>13
  <2>2. ss \in [1..N -> Seq(Nat)]
    BY <1>4, <2>1
  <2> QED
    BY <1>2, <2>2, FunctionIsSeq, Zenon
<1> HIDE DEF q
<1>16. Tiles(q, ss, cut)
  <2>1. cut[0] = 0 /\ cut[Len(ss)] = Len(q) /\ \A m \in 0..Len(ss) : cut[m] \in Nat
    BY <1>7, <1>8, <1>9, <1>14, <1>15
  <2>2. ASSUME NEW m \in 1..N, NEW j \in 1..Len(ss[m]) PROVE ss[m][j] = q[cut[m - 1] + j]
    <3>1. cut[m - 1] \in 0..n /\ cut[m] \in 0..n /\ Len(ss[m]) = cut[m] - cut[m - 1]
      BY <1>11, <1>13
    <3>2. cut[m - 1] + j \in 1..n
      BY <3>1
    <3>3. q[cut[m - 1] + j] = cut[m - 1] + j
      BY <1>14, <3>2
    <3>4. ss[m][j] = cut[m - 1] + j
      BY <1>13
    <3> QED
      BY <3>3, <3>4
  <2>3. \A m \in 1..Len(ss) : /\ Len(ss[m]) = cut[m] - cut[m - 1]
                              /\ \A j \in 1..Len(ss[m]) : ss[m][j] = q[cut[m - 1] + j]
    BY <1>13, <1>15, <2>2
  <2> QED
    BY <2>1, <2>3, Zenon DEF Tiles
<1>17. FlattenSeq(ss) = q
  BY <1>14, <1>15, <1>16, FlattenTiles
<1> QED
  BY <1>17 DEF q

Offset(atoms, i) == Tokens(atoms, 1, i - 1)

LEMMA OffsetsRise ==
  ASSUME NEW atoms \in Seq(Nat)
  PROVE  /\ \A i \in 1..Len(atoms) : Offset(atoms, i) \in Nat
         /\ \A i, j \in 1..Len(atoms) : i <= j => Offset(atoms, i) <= Offset(atoms, j)
<1>1. /\ Len(atoms) \in Nat /\ Sums(atoms)[0] = 0
      /\ \A n \in 0..Len(atoms) : Sums(atoms)[n] \in Nat
  BY SumsType
<1>2. ASSUME NEW i \in 1..Len(atoms)
      PROVE  i - 1 \in 0..Len(atoms) /\ Offset(atoms, i) = Sums(atoms)[i - 1] /\ Offset(atoms, i) \in Nat
  <2>1. i - 1 \in 0..Len(atoms) /\ 1 - 1 = 0
    BY <1>1
  <2>2. Offset(atoms, i) = Sums(atoms)[i - 1] - Sums(atoms)[0]
    BY <2>1 DEF Offset, Tokens
  <2> QED
    BY <1>1, <2>1, <2>2, SMTT(30)
<1>3. ASSUME NEW i \in 1..Len(atoms), NEW j \in 1..Len(atoms), i <= j
      PROVE  Offset(atoms, i) <= Offset(atoms, j)
  <2> DEFINE a == i - 1
             b == j - 1
  <2>1. a \in 0..Len(atoms) /\ b \in a..Len(atoms)
    BY <1>1, <1>3
  <2>2. Offset(atoms, i) = Sums(atoms)[a] /\ Offset(atoms, j) = Sums(atoms)[b]
    BY <1>2
  <2> HIDE DEF a, b
  <2>3. Sums(atoms)[a] <= Sums(atoms)[b]
    BY <2>1, SumsRise
  <2> QED
    BY <2>2, <2>3
<1> QED
  BY <1>2, <1>3

(* The chunks of a text, by where they begin and end.                      *)
ChunksWithin(chunks, n) ==
  /\ Len(chunks) \in Nat /\ DOMAIN chunks = 1..Len(chunks)
  /\ \A k \in 1..Len(chunks) : /\ chunks[k].first \in 1..n /\ chunks[k].last \in 1..n
                               /\ chunks[k].first <= chunks[k].last
  /\ \A j, k \in 1..Len(chunks) : j <= k => chunks[j].first <= chunks[k].first

LEMMA ChunksAre ==
  ASSUME NEW atoms \in Seq(Nat), NEW n, n = Len(atoms)
  PROVE  ChunksWithin(PackAtoms(atoms), n)
<1> DEFINE chunks == PackAtoms(atoms)
           K == Len(chunks)
<1>1. /\ Packs(atoms, chunks)
      /\ n = 0 => chunks = <<>>
      /\ n > 0 => K > 0 /\ chunks[K].last = n
  BY PackAtomsPacks
<1> HIDE DEF chunks
<1>2. /\ K \in Nat /\ n \in Nat
      /\ DOMAIN chunks = 1..K
      /\ \A k \in 1..K : chunks[k].first \in Nat /\ chunks[k].last \in Nat
      /\ n = 0 => K = 0
  <2>1. chunks \in Seq(Spans)
    BY <1>1 DEF Packs
  <2>2. \A k \in 1..K : chunks[k] \in Spans
    BY <2>1
  <2>3. n = 0 => K = 0
    BY <1>1, EmptySeq
  <2> QED
    BY <2>1, <2>2, <2>3 DEF Spans
<1>3. \A k \in 1..K : 1 <= chunks[k].first /\ chunks[k].first <= chunks[k].last
  BY <1>1 DEF Packs
<1>4. ASSUME NEW k \in 1..K, k + 1 <= K
      PROVE  k + 1 \in 1..K /\ chunks[k].last < chunks[k + 1].last /\ chunks[k].first <= chunks[k + 1].first
  <2>1. k + 1 \in 2..K /\ k + 1 - 1 = k
    BY <1>2, <1>4
  <2>2. Follows(chunks[k], chunks[k + 1])
    BY <1>1, <2>1 DEF Packs
  <2> QED
    BY <1>2, <2>1, <2>2 DEF Follows
<1> HIDE DEF K
<1>5. \A k \in 1..K : chunks[k].last <= n
  <2> DEFINE G == {k \in 0..K : k > 0 => chunks[k].last <= n}
  <2>1. ASSUME NEW k \in 0..K, \A j \in k + 1..K : j \in G PROVE k \in G
    <3>1. CASE k = 0
      BY <3>1
    <3>2. CASE k = K
      BY <1>1, <1>2, <3>2
    <3>3. CASE k # 0 /\ k # K
      <4>1. k \in 1..K /\ k + 1 <= K /\ k + 1 \in k + 1..K
        BY <1>2, <3>3
      <4>2. chunks[k + 1].last <= n
        BY <2>1, <4>1
      <4>3. k + 1 \in 1..K /\ chunks[k].last < chunks[k + 1].last
        BY <1>4, <4>1
      <4>4. chunks[k].last \in Nat /\ chunks[k + 1].last \in Nat
        BY <1>2, <4>1, <4>3
      <4>5. chunks[k].last <= n
        BY <1>2, <4>2, <4>3, <4>4
      <4> QED
        BY <4>1, <4>5
    <3> QED
      BY <3>1, <3>2, <3>3
  <2>2. \A k \in 0..K : k \in G
    <3> HIDE DEF G
    <3> QED
      BY <1>2, <2>1, DownwardInduction
  <2> QED
    BY <1>2, <2>2
<1>6. ASSUME NEW j \in 1..K, NEW k \in 1..K, j <= k PROVE chunks[j].first <= chunks[k].first
  <2> DEFINE G == {m \in 0..K : m >= j => chunks[j].first <= chunks[m].first}
  <2>1. 0 \in G
    BY <1>2
  <2>2. ASSUME NEW m \in 1..K, m - 1 \in G PROVE m \in G
    <3>1. CASE m < j
      BY <3>1
    <3>2. CASE m = j
      BY <1>2, <3>2
    <3>3. CASE m > j
      <4>1. m - 1 \in 1..K /\ m - 1 + 1 = m /\ m <= K /\ m - 1 >= j
        BY <1>2, <3>3
      <4>2. chunks[j].first <= chunks[m - 1].first
        BY <2>2, <4>1
      <4>3. chunks[m - 1].first <= chunks[m].first
        BY <1>4, <4>1
      <4>4. chunks[j].first \in Nat /\ chunks[m - 1].first \in Nat /\ chunks[m].first \in Nat
        BY <1>2, <4>1
      <4> QED
        BY <4>2, <4>3, <4>4
    <3> QED
      BY <1>2, <3>1, <3>2, <3>3
  <2>3. \A m \in 0..K : m \in G
    <3> HIDE DEF G
    <3> QED
      BY <1>2, <2>1, <2>2, Induction
  <2> QED
    BY <1>2, <1>6, <2>3
<1>7. \A k \in 1..K : chunks[k].first \in 1..n /\ chunks[k].last \in 1..n
  BY <1>2, <1>3, <1>5
<1> QED
  BY <1>2, <1>3, <1>6, <1>7 DEF ChunksWithin, chunks, K

(* Only one page has an atom begin on it.                                 *)
LEMMA PageOfIs ==
  ASSUME NEW pages \in Seq(Nat), Len(pages) > 0, NEW atoms \in Seq(Nat), NEW i \in 1..Len(atoms)
  PROVE  PageOf(atoms, pages, i) = PageNumberAt(Offset(atoms, i), PageBreaks(pages))
<1> DEFINE o == Offset(atoms, i)
           m == PageNumberAt(o, PageBreaks(pages))
<1>1. o \in Nat
  BY OffsetsRise
<1>2. Len(pages) \in Nat /\ DOMAIN pages = 1..Len(pages)
  OBVIOUS
<1>3. PageOf(atoms, pages, i) = CHOOSE page \in DOMAIN pages :
                                  /\ Begins(pages, page) <= o
                                  /\ page < Len(pages) => o < Begins(pages, page + 1)
  BY DEF PageOf, Offset
<1> HIDE DEF o
<1>4. OnPage(pages, m, o)
  BY <1>1, PageNumberIs
<1> HIDE DEF m
<1>5. ASSUME NEW page \in 1..Len(pages), OnPage(pages, page, o) PROVE page = m
  <2>1. o <= o
    BY <1>1
  <2>2. page <= m /\ m <= page
    BY <1>1, <1>4, <1>5, <2>1, PagesAscend
  <2>3. m \in 1..Len(pages)
    BY <1>4 DEF OnPage
  <2> QED
    BY <1>2, <2>2, <2>3
<1>6. /\ m \in DOMAIN pages
      /\ \A page \in DOMAIN pages :
           (/\ Begins(pages, page) <= o
            /\ page < Len(pages) => o < Begins(pages, page + 1)) <=> page = m
  BY <1>2, <1>4, <1>5 DEF OnPage
<1> QED
  BY <1>3, <1>6 DEF m, o

LEMMA PageNumbersAre ==
  ASSUME NEW atoms \in Seq(Nat), NEW pages \in Seq(Nat), Len(pages) > 0,
         NEW chunks, chunks = PackAtoms(atoms), NEW number, number = PageNumbers(atoms, pages)
  PROVE  /\ DOMAIN number = 1..Len(chunks)
         /\ Rises(number, Len(chunks), Len(pages))
         /\ \A k \in 1..Len(chunks) :
              number[k] = PageNumberAt(Offset(atoms, chunks[k].first), PageBreaks(pages))
<1> DEFINE K == Len(chunks)
           P == Len(pages)
<1>1. ChunksWithin(chunks, Len(atoms))
  BY ChunksAre
<1>2. /\ K \in Nat /\ DOMAIN chunks = 1..K
      /\ \A k \in 1..K : chunks[k].first \in 1..Len(atoms)
      /\ \A j, k \in 1..K : j <= k => chunks[j].first <= chunks[k].first
  BY <1>1 DEF ChunksWithin
<1>3. /\ DOMAIN number = 1..K
      /\ \A k \in 1..K : number[k] = PageNumberAt(Offset(atoms, chunks[k].first), PageBreaks(pages))
  <2>1. number = [k \in DOMAIN chunks |->
                   PageNumberAt(Offset(atoms, chunks[k].first), PageBreaks(pages))]
    BY DEF PageNumbers, Offset
  <2> HIDE DEF K
  <2> QED
    BY <1>2, <2>1
<1>4. /\ \A k \in 1..K : Offset(atoms, chunks[k].first) \in Nat
      /\ \A j, k \in 1..K : j <= k => Offset(atoms, chunks[j].first) <= Offset(atoms, chunks[k].first)
  BY <1>2, OffsetsRise
<1>5. \A k \in 1..K : OnPage(pages, number[k], Offset(atoms, chunks[k].first))
  BY <1>3, <1>4, PageNumberIs
<1>6. \A k \in 1..K : number[k] \in 1..P
  BY <1>5 DEF OnPage
<1>7. ASSUME NEW j \in 1..K, NEW k \in 1..K, j <= k PROVE number[j] <= number[k]
  <2>1. /\ Offset(atoms, chunks[j].first) \in Nat /\ Offset(atoms, chunks[k].first) \in Nat
        /\ Offset(atoms, chunks[j].first) <= Offset(atoms, chunks[k].first)
    BY <1>4, <1>7
  <2>2. OnPage(pages, number[j], Offset(atoms, chunks[j].first))
    BY <1>5
  <2>3. OnPage(pages, number[k], Offset(atoms, chunks[k].first))
    BY <1>5
  <2> QED
    BY <2>1, <2>2, <2>3, PagesAscend
<1> QED
  BY <1>3, <1>6, <1>7 DEF Rises

(* The viewer shows every chunk once, in the order of the text; a page     *)
(* begins with text of its own, and shows none of an earlier page          *)
(* (PdfParser.parse, _page_number_at, get_content).                        *)
THEOREM PagesAreInOrder ==
  ASSUME NEW atoms \in Seq(Nat), NEW pages \in Seq(Nat), pages # <<>>
  PROVE  PagesAreShown(atoms, pages)
<1> DEFINE chunks == PackAtoms(atoms)
           number == PageNumbers(atoms, pages)
           K == Len(chunks)
           P == Len(pages)
           T == {number[k] : k \in 1..K}
           v == Select(Positions(P), T)
           On(n) == {k \in 1..K : number[k] = v[n]}
           view == PagesView(atoms, pages)
           ss == [n \in 1..Len(v) |-> Select(Positions(K), {k \in 1..K : number[k] = v[n]})]
<1>0. Len(pages) > 0 /\ P \in Nat /\ DOMAIN pages = 1..P
  BY EmptySeq
<1>1. ChunksWithin(chunks, Len(atoms))
  BY ChunksAre
<1>2. /\ DOMAIN number = 1..K
      /\ Rises(number, K, P)
      /\ \A k \in 1..K : number[k] = PageNumberAt(Offset(atoms, chunks[k].first), PageBreaks(pages))
  BY <1>0, PageNumbersAre
<1>3. /\ K \in Nat /\ DOMAIN chunks = 1..K
      /\ \A k \in 1..K : /\ chunks[k].first \in 1..Len(atoms) /\ chunks[k].last \in 1..Len(atoms)
                         /\ chunks[k].first <= chunks[k].last
  BY <1>1 DEF ChunksWithin
<1> HIDE DEF chunks, K, P, number
<1>4. Ascends(v, T, P)
  BY <1>0, SelectAscends
<1>5. v \in Seq(Nat) /\ DOMAIN v = 1..Len(v) /\ Len(v) \in Nat
  BY <1>4 DEF Ascends
<1>6. view = [n \in DOMAIN v |->
               [page_number |-> v[n],
                chunks |-> Select(Positions(K), {k \in 1..K : number[k] = v[n]})]]
  <2>1. Positions(P) = [n \in DOMAIN pages |-> n]
    BY <1>0 DEF Positions
  <2>2. Positions(K) = [k \in DOMAIN number |-> k]
    BY <1>2 DEF Positions
  <2>3. view = LET numbers == Select([n \in DOMAIN pages |-> n], {number[k] : k \in DOMAIN number})
               IN  [n \in DOMAIN numbers |->
                     [page_number |-> numbers[n],
                      chunks |-> Select([k \in DOMAIN number |-> k],
                                        {k \in DOMAIN number : number[k] = numbers[n]})]]
    BY DEF PagesView, number
  <2> QED
    BY <1>2, <2>1, <2>2, <2>3
<1> HIDE DEF v
<1>7. /\ DOMAIN view = 1..Len(v)
      /\ \A n \in 1..Len(v) : view[n].page_number = v[n] /\ view[n].chunks = ss[n]
  <2>1. DOMAIN view = DOMAIN v
    BY <1>6
  <2>2. DOMAIN view = 1..Len(v)
    BY <1>5, <2>1
  <2>3. ASSUME NEW n \in 1..Len(v) PROVE view[n].page_number = v[n] /\ view[n].chunks = ss[n]
    <3>1. n \in DOMAIN v
      BY <1>5
    <3>2. view[n] = [page_number |-> v[n],
                     chunks |-> Select(Positions(K), {k \in 1..K : number[k] = v[n]})]
      BY <1>6, <3>1, Zenon
    <3> QED
      BY <3>2
  <2> QED
    BY <2>2, <2>3
<1> HIDE DEF view
<1>8. [n \in DOMAIN view |-> view[n].chunks] = ss
  BY <1>7
<1>9. FlattenSeq(ss) = Positions(K)
  <2>1. ss = GroupedBy(number, K, v)
    BY DEF GroupedBy
  <2> HIDE DEF ss
  <2>2. Ascends(v, NumbersOf(number, K), P)
    BY <1>4 DEF NumbersOf
  <2> QED
    BY <1>0, <1>2, <1>3, <2>1, <2>2, GroupsFlatten, Zenon
<1>10. ASSUME NEW n \in 1..Len(v), NEW c \in DOMAIN ss[n]
       PROVE  ss[n][c] \in 1..K /\ number[ss[n][c]] = v[n]
  <2> DEFINE r == ss[n]
             U == {k \in 1..K : number[k] = v[n]}
  <2>1. r = Select(Positions(K), U)
    OBVIOUS
  <2>2. Ascends(Select(Positions(K), U), U, K)
    BY <1>3, SelectAscends
  <2> HIDE DEF r
  <2>3. Ascends(r, U, K)
    BY <2>1, <2>2
  <2> HIDE DEF U
  <2>4. c \in 1..Len(r)
    <3>1. r \in Seq(Nat)
      BY <2>3 DEF Ascends
    <3>2. DOMAIN r = 1..Len(r)
      BY <3>1
    <3> QED
      BY <3>2 DEF r
  <2>5. r[c] \in U
    BY <2>3, <2>4 DEF Ascends
  <2> QED
    BY <2>5 DEF U, r
<1> HIDE DEF ss
<1>11. \A i \in 1..Len(atoms) :
         PageOf(atoms, pages, i) = PageNumberAt(Offset(atoms, i), PageBreaks(pages))
  BY <1>0, PageOfIs
<1>12. ASSUME NEW n \in 1..Len(v), NEW c \in DOMAIN ss[n]
       PROVE  /\ PageOf(atoms, pages, chunks[ss[n][c]].first) = v[n]
              /\ \A i \in chunks[ss[n][c]].first..chunks[ss[n][c]].last : PageOf(atoms, pages, i) >= v[n]
  <2> DEFINE k == ss[n][c]
             first == chunks[k].first
             last == chunks[k].last
  <2>1. k \in 1..K /\ number[k] = v[n]
    BY <1>10
  <2> HIDE DEF k
  <2>2. first \in 1..Len(atoms) /\ last \in 1..Len(atoms) /\ first <= last /\ Len(atoms) \in Nat
    BY <1>3, <2>1
  <2>3. number[k] = PageNumberAt(Offset(atoms, first), PageBreaks(pages))
    BY <1>2, <2>1
  <2> HIDE DEF first, last
  <2>4. PageOf(atoms, pages, first) = v[n]
    BY <1>11, <2>1, <2>2, <2>3
  <2>5. ASSUME NEW i \in first..last PROVE PageOf(atoms, pages, i) >= v[n]
    <3>1. i \in 1..Len(atoms) /\ first <= i
      BY <2>2
    <3>2. /\ Offset(atoms, first) \in Nat /\ Offset(atoms, i) \in Nat
          /\ Offset(atoms, first) <= Offset(atoms, i)
      BY <2>2, <3>1, OffsetsRise
    <3> DEFINE p == PageNumberAt(Offset(atoms, first), PageBreaks(pages))
               q == PageNumberAt(Offset(atoms, i), PageBreaks(pages))
    <3>3. OnPage(pages, p, Offset(atoms, first)) /\ OnPage(pages, q, Offset(atoms, i))
      BY <1>0, <3>2, PageNumberIs
    <3>4. PageOf(atoms, pages, i) = q /\ v[n] = p
      BY <1>11, <2>1, <2>3, <3>1
    <3> HIDE DEF p, q
    <3>5. p <= q
      BY <1>0, <3>2, <3>3, PagesAscend
    <3>6. p \in Nat /\ q \in Nat
      BY <3>3 DEF OnPage
    <3> QED
      BY <3>4, <3>5, <3>6
  <2> QED
    BY <2>4, <2>5 DEF first, last, k
<1>13. PagesAreShown(atoms, pages) <=>
         /\ FlattenSeq([n \in DOMAIN view |-> view[n].chunks]) = [k \in DOMAIN chunks |-> k]
         /\ \A n \in DOMAIN view : \A c \in DOMAIN view[n].chunks :
              /\ PageOf(atoms, pages, chunks[view[n].chunks[c]].first) = view[n].page_number
              /\ \A i \in chunks[view[n].chunks[c]].first..chunks[view[n].chunks[c]].last :
                   PageOf(atoms, pages, i) >= view[n].page_number
  BY Zenon DEF PagesAreShown, view, chunks
<1>14. FlattenSeq([n \in DOMAIN view |-> view[n].chunks]) = [k \in DOMAIN chunks |-> k]
  BY <1>3, <1>8, <1>9 DEF Positions
<1>15. ASSUME NEW n \in DOMAIN view, NEW c \in DOMAIN view[n].chunks
       PROVE  /\ PageOf(atoms, pages, chunks[view[n].chunks[c]].first) = view[n].page_number
              /\ \A i \in chunks[view[n].chunks[c]].first..chunks[view[n].chunks[c]].last :
                   PageOf(atoms, pages, i) >= view[n].page_number
  <2>1. n \in 1..Len(v) /\ view[n].page_number = v[n] /\ view[n].chunks = ss[n]
    BY <1>7
  <2>2. c \in DOMAIN ss[n]
    BY <2>1
  <2> QED
    BY <1>12, <2>1, <2>2
<1> QED
  BY <1>13, <1>14, <1>15

-------------------------------------------------------------------------------
(* The inputs of the views.                                                *)

LEMMA BetweenIs ==
  ASSUME NEW breaks \in Seq(Nat), Ascending(breaks), NEW length \in Nat,
         \A k \in 1..Len(breaks) : breaks[k] \in 1..length
  PROVE  LET pages == Between(<<0>> \o breaks \o <<length + 1>>)
         IN  pages \in Seq(Nat) /\ pages # <<>>
<1> DEFINE begun == <<0>> \o breaks
           cuts == <<0>> \o breaks \o <<length + 1>>
           L == Len(breaks)
<1>1. L \in Nat /\ DOMAIN breaks = 1..L
  OBVIOUS
<1>2. begun \in Seq(Nat) /\ Len(begun) = L + 1 /\ begun[1] = 0 /\ \A k \in 2..L + 1 : begun[k] = breaks[k - 1]
  BY PrependIs
<1> HIDE DEF begun
<1>3. cuts = Append(begun, length + 1)
  BY <1>2 DEF begun
<1>4. length + 1 \in Nat
  OBVIOUS
<1>5. /\ Append(begun, length + 1) \in Seq(Nat) /\ Len(Append(begun, length + 1)) = L + 2
      /\ Append(begun, length + 1)[L + 2] = length + 1
      /\ \A k \in 1..L + 1 : Append(begun, length + 1)[k] = begun[k]
  <2>1. L + 1 + 1 = L + 2
    BY <1>1
  <2> QED
    BY <1>2, <1>4, <2>1, AppendIs
<1> HIDE DEF cuts
<1>6. /\ Len(cuts) = L + 2 /\ cuts[L + 2] = length + 1 /\ cuts[1] = 0
      /\ \A k \in 2..L + 1 : cuts[k] = breaks[k - 1]
  <2>1. 1 \in 1..L + 1 /\ \A k \in 2..L + 1 : k \in 1..L + 1
    BY <1>1
  <2> QED
    BY <1>2, <1>3, <1>5, <2>1
<1>7. ASSUME NEW k \in 1..L + 1
      PROVE  cuts[k + 1] - cuts[k] - 1 \in Nat
  <2>1. CASE k = 1 /\ k = L + 1
    <3>1. cuts[k] = 0 /\ cuts[k + 1] = length + 1
      BY <1>1, <1>6, <2>1
    <3> QED
      BY <3>1
  <2>2. CASE k = 1 /\ k # L + 1
    <3>1. k + 1 \in 2..L + 1 /\ k + 1 - 1 = 1 /\ 1 \in 1..L
      BY <1>1, <2>2
    <3>2. cuts[k] = 0 /\ cuts[k + 1] = breaks[1] /\ breaks[1] \in 1..length
      BY <1>6, <2>2, <3>1
    <3> QED
      BY <3>2
  <2>3. CASE k # 1 /\ k = L + 1
    <3>1. k \in 2..L + 1 /\ k - 1 = L /\ k + 1 = L + 2 /\ L \in 1..L
      BY <1>1, <2>3
    <3>2. cuts[k] = breaks[L] /\ cuts[k + 1] = length + 1 /\ breaks[L] \in 1..length
      BY <1>6, <3>1
    <3> QED
      BY <3>2
  <2>4. CASE k # 1 /\ k # L + 1
    <3> DEFINE i == k - 1
    <3>1. k \in 2..L + 1 /\ k + 1 \in 2..L + 1 /\ k + 1 - 1 = k /\ i \in 1..L /\ k \in 1..L /\ i < k
      BY <1>1, <2>4
    <3>2. cuts[k] = breaks[i] /\ cuts[k + 1] = breaks[k]
      BY <1>6, <3>1, SMTT(30)
    <3> HIDE DEF i
    <3>3. breaks[i] \in 1..length /\ breaks[k] \in 1..length /\ breaks[i] < breaks[k]
      BY <1>1, <3>1 DEF Ascending
    <3> QED
      BY <3>2, <3>3
  <2> QED
    BY <2>1, <2>2, <2>3, <2>4
<1> DEFINE pages == Between(cuts)
<1>8. pages = [k \in 1..L + 1 |-> cuts[k + 1] - cuts[k] - 1]
  <2>1. Len(cuts) - 1 = L + 1
    BY <1>1, <1>6
  <2> QED
    BY <2>1 DEF Between
<1>9. pages \in [1..L + 1 -> Nat]
  BY <1>7, <1>8
<1> HIDE DEF pages
<1>10. L + 1 \in Nat /\ L + 1 > 0
  BY <1>1
<1>11. pages \in Seq(Nat) /\ Len(pages) = L + 1
  BY <1>9, <1>10, FunctionIsSeq, Zenon
<1>12. pages # <<>>
  BY <1>10, <1>11, EmptySeq
<1> QED
  BY <1>11, <1>12 DEF pages, cuts

LEMMA PdfPagesAre ==
  PdfPages => /\ input.kind = "pdf"
              /\ input.atoms \in Seq(Nat) /\ input.pages \in Seq(Nat) /\ input.pages # <<>>
<1> SUFFICES ASSUME PdfPages
             PROVE  /\ input.kind = "pdf"
                    /\ input.atoms \in Seq(Nat) /\ input.pages \in Seq(Nat) /\ input.pages # <<>>
  OBVIOUS
<1>1. PICK atoms \in SeqsUpTo(Sizes, MaxAtoms - 1) :
        \E breaks \in SeqsUpTo(1..Tokens(atoms, 1, Len(atoms)), 2) :
          /\ Ascending(breaks)
          /\ input = [kind |-> "pdf", atoms |-> atoms,
                      pages |-> Between(<<0>> \o breaks \o <<Tokens(atoms, 1, Len(atoms)) + 1>>)]
  BY Zenon DEF PdfPages
<1> DEFINE length == Tokens(atoms, 1, Len(atoms))
<1>2. PICK breaks \in SeqsUpTo(1..length, 2) :
        /\ Ascending(breaks)
        /\ input = [kind |-> "pdf", atoms |-> atoms, pages |-> Between(<<0>> \o breaks \o <<length + 1>>)]
  BY <1>1
<1>3. atoms \in Seq(Nat)
  <2>1. atoms \in Seq(Sizes)
    BY SeqsAreSequences
  <2> QED
    BY <2>1, SizesAre, SeqMonotonic
<1>4. length \in Nat
  <2>1. length = Total(atoms)
    BY DEF Total
  <2> QED
    BY <1>3, <2>1, TotalIs
<1> HIDE DEF length
<1>5. breaks \in Seq(Nat) /\ \A k \in 1..Len(breaks) : breaks[k] \in 1..length
  <2>1. breaks \in Seq(1..length)
    BY SeqsAreSequences
  <2>2. 1..length \subseteq Nat
    BY <1>4
  <2> QED
    BY <2>1, <2>2, SeqMonotonic, ElementOfSeq
<1> DEFINE pages == Between(<<0>> \o breaks \o <<length + 1>>)
<1>6. pages \in Seq(Nat) /\ pages # <<>>
  BY <1>2, <1>4, <1>5, BetweenIs
<1>7. input = [kind |-> "pdf", atoms |-> atoms, pages |-> pages]
  BY <1>2
<1> HIDE DEF pages
<1> QED
  BY <1>3, <1>6, <1>7

(* Symbols of the cells, the ends of lines and the commas of a table.      *)
Symbols == {"a", "b", "c", "x", "y", "z", "comma", "break", "quote"}

LEMMA CellsAre == Cells \subseteq Seq(Symbols)
BY DEF Cells, Symbols

LEMMA PairIs ==
  ASSUME NEW S, NEW x, x \in S, NEW y, y \in S, NEW pair, pair = <<x, y>>
  PROVE  pair \in Seq(S) /\ Len(pair) = 2
  OBVIOUS

LEMMA NotEmpty ==
  ASSUME NEW s, Len(s) = 2
  PROVE  s # <<>>
  OBVIOUS

LEMMA HeadingsAre ==
  ASSUME NEW heading \in Headings
  PROVE  heading \in Seq(Seq(Symbols)) /\ Len(heading) = 2
<1>1. /\ <<"a">> \in Seq(Symbols) /\ <<"b">> \in Seq(Symbols) /\ <<"c">> \in Seq(Symbols)
      /\ <<"a", "comma", "b">> \in Seq(Symbols) /\ <<"quote", "a">> \in Seq(Symbols)
  BY DEF Symbols
<1>2. \/ heading = <<<<"a">>, <<"b">>>> \/ heading = <<<<"a", "comma", "b">>, <<"c">>>>
      \/ heading = <<<<"quote", "a">>, <<"b">>>>
  BY DEF Headings
<1> QED
  BY <1>1, <1>2, PairIs, Zenon

LEMMA TableIs == Table => input.kind = "table" /\ \E S : TableRead(S, input.header, input.rows)
<1> DEFINE S == Symbols
           Lines == [tokens : {1, TargetMax}, cells : [1..2 -> Cells]]
<1> SUFFICES ASSUME Table
             PROVE  input.kind = "table" /\ TableRead(S, input.header, input.rows)
  OBVIOUS
<1>1. PICK heading \in Headings, tokens \in {1, 3}, rows \in SeqsUpTo(Lines, 2) :
        input = [kind |-> "table", header |-> [tokens |-> tokens, cells |-> heading], rows |-> rows]
  BY Zenon DEF Table
<1>2. heading \in Seq(Seq(S)) /\ Len(heading) = 2
  BY HeadingsAre
<1>3. [tokens |-> tokens, cells |-> heading] \in TableLine(S)
  <2> HIDE DEF S
  <2>1. tokens \in Nat /\ heading # <<>>
    BY <1>2, NotEmpty
  <2> QED
    BY <1>2, <2>1 DEF TableLine
<1>4. ASSUME NEW cells \in [1..2 -> Cells]
      PROVE  cells \in Seq(Seq(S)) /\ Len(cells) = 2 /\ cells # <<>>
  <2>1. \A c \in 1..2 : cells[c] \in Seq(S)
    BY CellsAre
  <2>2. cells \in [1..2 -> Seq(S)] /\ 2 \in Nat
    BY <2>1
  <2>3. cells \in Seq(Seq(S)) /\ Len(cells) = 2
    BY <2>2, FunctionIsSeq, Zenon
  <2>4. cells # <<>>
    BY <2>3, NotEmpty
  <2> QED
    BY <2>3, <2>4
<1>5. {"comma", "break"} \subseteq S
  BY DEF Symbols
<1> HIDE DEF S
<1>6. \A line \in Lines : line \in TableLine(S) /\ Len(line.cells) = 2
  <2>1. {1, TargetMax} \subseteq Nat
    BY TextWindowsAssumption DEF TextWindowsAssumption
  <2> QED
    BY <1>4, <2>1 DEF TableLine
<1> HIDE DEF Lines
<1>7. rows \in Seq(Lines)
  BY SeqsAreSequences
<1>8. rows \in Seq(TableLine(S)) /\ \A i \in 1..Len(rows) : Len(rows[i].cells) = 2
  BY <1>6, <1>7, SeqMonotonic, ElementOfSeq
<1>9. input.kind = "table" /\ input.header = [tokens |-> tokens, cells |-> heading] /\ input.rows = rows
  BY <1>1
<1>10. input.header \in TableLine(S) /\ input.header.cells = heading
  BY <1>3, <1>9
<1> QED
  BY <1>2, <1>5, <1>8, <1>9, <1>10 DEF TableRead

LEMMA MatchesAre ==
  Matches => input.kind = "matches" /\ input.vector \in Seq(Int) /\ input.fulltext \in Seq(Int)
<1> SUFFICES ASSUME Matches
             PROVE  input.kind = "matches" /\ input.vector \in Seq(Int) /\ input.fulltext \in Seq(Int)
  OBVIOUS
<1>1. ASSUME NEW s \in Ranking PROVE s \in Seq(Int)
  <2>1. PICK n \in 0..4 : s \in [1..n -> 1..5]
    BY DEF Ranking
  <2>2. s \in [1..n -> Int] /\ n \in Nat
    BY <2>1
  <2> QED
    BY <2>2, FunctionIsSeq
<1>2. PICK vector \in Ranking, fulltext \in Ranking :
        input = [kind |-> "matches", vector |-> vector, fulltext |-> fulltext]
  BY DEF Matches
<1>3. vector \in Seq(Int) /\ fulltext \in Seq(Int)
  BY <1>1
<1> QED
  BY <1>2, <1>3

LEMMA ExcerptIs ==
  Excerpt => /\ input.kind = "excerpt" /\ input.length \in Nat
             /\ \E start \in Nat, end \in Nat :
                  /\ start < end /\ end <= input.length
                  /\ input.match = [start |-> start, end |-> end]
<1> SUFFICES ASSUME Excerpt
             PROVE  /\ input.kind = "excerpt" /\ input.length \in Nat
                    /\ \E start \in Nat, end \in Nat :
                         /\ start < end /\ end <= input.length
                         /\ input.match = [start |-> start, end |-> end]
  OBVIOUS
<1>1. PICK length \in 1..20 : \E start \in 0..length - 1 : \E end \in start + 1..length :
        input = [kind |-> "excerpt", length |-> length, match |-> [start |-> start, end |-> end]]
  BY Zenon DEF Excerpt
<1>2. PICK start \in 0..length - 1 : \E end \in start + 1..length :
        input = [kind |-> "excerpt", length |-> length, match |-> [start |-> start, end |-> end]]
  BY <1>1
<1>3. PICK end \in start + 1..length :
        input = [kind |-> "excerpt", length |-> length, match |-> [start |-> start, end |-> end]]
  BY <1>2
<1>4. start \in Nat /\ end \in Nat /\ length \in Nat /\ start < end /\ end <= length
  OBVIOUS
<1>5. /\ input.kind = "excerpt" /\ input.length = length
      /\ input.match = [start |-> start, end |-> end]
  BY <1>3
<1> QED
  BY <1>4, <1>5

(* The viewer shows the pages of every text of MCAlgorithms in their order *)
(* and, of every table, the rows of the chunks that csv.reader takes line  *)
(* by line; the search ranks and excerpts what it finds (document_service, *)
(* search_repository, search_service).                                     *)
THEOREM ViewsAreSoundCorrect == Spec => []ViewsAreSound
<1>1. ASSUME Init PROVE ViewsAreSound
  <2>1. CASE PdfPages
    <3>1. /\ input.kind = "pdf"
          /\ input.atoms \in Seq(Nat) /\ input.pages \in Seq(Nat) /\ input.pages # <<>>
      BY <2>1, PdfPagesAre
    <3>2. PagesAreShown(input.atoms, input.pages)
      BY <3>1, PagesAreInOrder
    <3> QED
      BY <3>1, <3>2 DEF ViewsAreSound
  <2>2. CASE Table
    <3>1. /\ input.kind = "table"
          /\ \E S : TableRead(S, input.header, input.rows)
      BY <2>2, TableIs
    <3>2. TableIsShown(input.header, input.rows)
      BY <3>1, TablesAreShown, Zenon
    <3> QED
      BY <3>1, <3>2 DEF ViewsAreSound
  <2>3. CASE Matches
    <3>1. input.kind = "matches" /\ input.vector \in Seq(Int) /\ input.fulltext \in Seq(Int)
      BY <2>3, MatchesAre
    <3>2. RankingIsFair(input.vector, input.fulltext)
      BY <3>1, RankingsAreFair
    <3> QED
      BY <3>1, <3>2 DEF ViewsAreSound
  <2>4. CASE Excerpt
    <3>1. /\ input.kind = "excerpt" /\ input.length \in Nat
          /\ \E start \in Nat, end \in Nat :
               /\ start < end /\ end <= input.length
               /\ input.match = [start |-> start, end |-> end]
      BY <2>4, ExcerptIs
    <3>2. SnippetHasMatch(input.length, input.match)
      BY <3>1, SnippetsHaveTheirMatch
    <3> QED
      BY <3>1, <3>2 DEF ViewsAreSound
  <2>5. CASE Sentence \/ Atoms \/ Paragraphs \/ Pages \/ Rows \/ Results \/ Conversation
    <3>1. input.kind \in {"sentence", "atoms", "paragraphs", "pages", "rows", "results", "conversation"}
      BY <2>5, SentenceIs, AtomsAre, ParagraphsAre, PagesAre, RowsAre, ResultsAre, ConversationIs
    <3> QED
      BY <3>1 DEF ViewsAreSound
  <2>6. CASE Documents \/ Summary \/ Schema \/ Extraction
    <3>1. input.kind \in {"documents", "summary", "schema", "extraction"}
      BY <2>6, DocumentsAre, SummaryIs, SchemaIs, ExtractionIs
    <3> QED
      BY <3>1 DEF ViewsAreSound
  <2> QED
    BY <1>1, <2>1, <2>2, <2>3, <2>4, <2>5, <2>6 DEF Init
<1>2. ASSUME ViewsAreSound, [Next]_input PROVE ViewsAreSound'
  BY <1>2 DEF Next, ViewsAreSound
<1> QED
  BY <1>1, <1>2, PTL DEF Spec
===============================================================================
