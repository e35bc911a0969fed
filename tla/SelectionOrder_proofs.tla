------------------------ MODULE SelectionOrder_proofs ------------------------
(***************************************************************************)
(* Why the largest-first loop of selectUTXOs takes the fewest inputs.      *)
(* A sum is the number of units of its entries (TxTypes), so sums over     *)
(* index sets split over disjoint parts, are bounded by count times the    *)
(* largest entry and by count times the smallest, and do not change when   *)
(* the entries are renumbered.  With these, the sum of any m candidates is *)
(* at most the sum of the first m of sortBy(..).reverse(): the candidates  *)
(* of the prefix are worth at least as much as any candidate left out.     *)
(* No induction is needed: every step is a fact about finite sets.         *)
(***************************************************************************)
EXTENDS UTXOSelector_proofs

\* The entries of f at the positions of A
EntriesAt(f, A) == [i \in A |-> f[i]]

\* The units of f are finite and count to a natural number
LEMMA SumFinite ==
    ASSUME NEW f, IsFiniteSet(DOMAIN f), \A i \in DOMAIN f : f[i] \in Nat
    PROVE  IsFiniteSet(Units(f)) /\ SeqSum(f) \in Nat
<1> DEFINE D == DOMAIN f
           Row(i) == {<<i, k>> : k \in 1 .. f[i]}
           rows == [i \in D |-> Row(i)]
<1>1. ASSUME NEW i \in D PROVE IsFiniteSet(Row(i))
  <2> DEFINE g == [k \in 1 .. f[i] |-> <<i, k>>]
  <2>1. IsFiniteSet(1 .. f[i])
    BY FS_Interval
  <2>2. g \in Surjection(1 .. f[i], Row(i))
    BY DEF Surjection
  <2>. QED BY <2>1, <2>2, FS_Surjection
<1>2. IsFiniteSet({Row(i) : i \in D})
  <2>1. rows \in Surjection(D, {Row(i) : i \in D})
    BY DEF Surjection
  <2>. QED BY <2>1, FS_Surjection
<1>3. Units(f) = UNION {Row(i) : i \in D}
  BY DEF Units
<1>4. IsFiniteSet(Units(f))
  <2>. HIDE DEF Row
  <2>. QED BY <1>1, <1>2, <1>3, FS_UNION
<1>. QED BY <1>4, FS_CardinalityType DEF SeqSum

(***************************************************************************)
(* A sum splits over a part A of the positions and the rest: the units of  *)
(* the two parts are disjoint, since they carry their position.            *)
(***************************************************************************)
LEMMA SumSplit ==
    ASSUME NEW f, IsFiniteSet(DOMAIN f), \A i \in DOMAIN f : f[i] \in Nat,
           NEW A \in SUBSET DOMAIN f
    PROVE  SeqSum(f) = SeqSum(EntriesAt(f, A)) + SeqSum(EntriesAt(f, DOMAIN f \ A))
<1> DEFINE fa == EntriesAt(f, A)
           fb == EntriesAt(f, DOMAIN f \ A)
<1>1. Units(f) = Units(fa) \cup Units(fb)
  BY DEF Units, EntriesAt
<1>2. Units(fa) \cap Units(fb) = {}
  BY DEF Units, EntriesAt
<1>3. /\ IsFiniteSet(DOMAIN fa) /\ \A i \in DOMAIN fa : fa[i] \in Nat
      /\ IsFiniteSet(DOMAIN fb) /\ \A i \in DOMAIN fb : fb[i] \in Nat
  BY FS_Subset DEF EntriesAt
<1>4. /\ IsFiniteSet(Units(fa)) /\ SeqSum(fa) \in Nat
      /\ IsFiniteSet(Units(fb)) /\ SeqSum(fb) \in Nat
  <2>. HIDE DEF fa, fb
  <2>. QED BY <1>3, SumFinite
<1>5. Cardinality(Units(fa) \cup Units(fb))
        = Cardinality(Units(fa)) + Cardinality(Units(fb)) - Cardinality(Units(fa) \cap Units(fb))
  BY <1>4, FS_Union
<1>6. Cardinality(Units(fa) \cap Units(fb)) = 0
  BY <1>2, FS_EmptySet
<1>7. SeqSum(f) = SeqSum(fa) + SeqSum(fb)
  <2>. HIDE DEF fa, fb
  <2>. QED BY <1>1, <1>4, <1>5, <1>6 DEF SeqSum
<1>. QED BY <1>7

\* Entries of at most c sum to at most c per position
LEMMA SumUpper ==
    ASSUME NEW f, IsFiniteSet(DOMAIN f), NEW c \in Nat,
           \A i \in DOMAIN f : f[i] \in 0 .. c
    PROVE  SeqSum(f) <= Cardinality(DOMAIN f) * c
<1>1. Units(f) \subseteq (DOMAIN f) \X (1 .. c)
  BY DEF Units
<1>3. IsFiniteSet(1 .. c) /\ Cardinality(1 .. c) = c
  BY FS_Interval
<1>2. IsFiniteSet((DOMAIN f) \X (1 .. c))
      /\ Cardinality((DOMAIN f) \X (1 .. c)) = Cardinality(DOMAIN f) * Cardinality(1 .. c)
  BY <1>3, FS_Product
<1>4. Cardinality(Units(f)) <= Cardinality((DOMAIN f) \X (1 .. c))
  BY <1>1, <1>2, FS_Subset
<1>. QED BY <1>2, <1>3, <1>4 DEF SeqSum

\* Entries of at least c sum to at least c per position
LEMMA SumLower ==
    ASSUME NEW f, IsFiniteSet(DOMAIN f), NEW c \in Nat,
           \A i \in DOMAIN f : f[i] \in Nat /\ c <= f[i]
    PROVE  SeqSum(f) >= Cardinality(DOMAIN f) * c
<1>1. (DOMAIN f) \X (1 .. c) \subseteq Units(f)
  BY DEF Units
<1>2. IsFiniteSet(Units(f))
  BY SumFinite
<1>4. IsFiniteSet(1 .. c) /\ Cardinality(1 .. c) = c
  BY FS_Interval
<1>3. Cardinality((DOMAIN f) \X (1 .. c)) = Cardinality(DOMAIN f) * Cardinality(1 .. c)
  BY <1>4, FS_Product
<1>5. Cardinality((DOMAIN f) \X (1 .. c)) <= Cardinality(Units(f))
  BY <1>1, <1>2, FS_Subset
<1>. QED BY <1>3, <1>4, <1>5 DEF SeqSum

(***************************************************************************)
(* Renumbering the entries does not change the sum: a bijection h of the   *)
(* positions that carries every entry of f to an equal entry of g carries  *)
(* the units of f one to one onto the units of g.                          *)
(***************************************************************************)
LEMMA SumReindex ==
    ASSUME NEW f, NEW g, IsFiniteSet(DOMAIN f), \A k \in DOMAIN f : f[k] \in Nat,
           NEW h \in Bijection(DOMAIN f, DOMAIN g),
           \A k \in DOMAIN f : g[h[k]] = f[k]
    PROVE  SeqSum(g) = SeqSum(f)
<1> DEFINE m == [p \in Units(f) |-> <<h[p[1]], p[2]>>]
<1>1. IsFiniteSet(Units(f))
  BY SumFinite
<1>2. /\ h \in [DOMAIN f -> DOMAIN g]
      /\ \A a, b \in DOMAIN f : h[a] = h[b] => a = b
      /\ \A j \in DOMAIN g : \E k \in DOMAIN f : h[k] = j
  BY DEF Bijection, Injection, Surjection, IsInjective
<1>3. ASSUME NEW p \in Units(f)
      PROVE  \E k \in DOMAIN f : \E x \in 1 .. f[k] : p = <<k, x>>
  BY DEF Units
<1>4. m \in [Units(f) -> Units(g)]
  <2> SUFFICES ASSUME NEW p \in Units(f) PROVE m[p] \in Units(g)
    OBVIOUS
  <2>0. PICK k \in DOMAIN f : \E x \in 1 .. f[k] : p = <<k, x>>
    BY <1>3
  <2>1. PICK x \in 1 .. f[k] : p = <<k, x>>
    BY <2>0
  <2>2. m[p] = <<h[k], x>> /\ h[k] \in DOMAIN g /\ x \in 1 .. g[h[k]]
    BY <2>1, <1>2
  <2>. QED BY <2>2 DEF Units
<1>5. \A p, q \in Units(f) : m[p] = m[q] => p = q
  <2> SUFFICES ASSUME NEW p \in Units(f), NEW q \in Units(f), m[p] = m[q] PROVE p = q
    OBVIOUS
  <2>0. PICK k \in DOMAIN f : \E x \in 1 .. f[k] : p = <<k, x>>
    BY <1>3
  <2>1. PICK x \in 1 .. f[k] : p = <<k, x>>
    BY <2>0
  <2>4. PICK l \in DOMAIN f : \E y \in 1 .. f[l] : q = <<l, y>>
    BY <1>3
  <2>2. PICK y \in 1 .. f[l] : q = <<l, y>>
    BY <2>4
  <2>3. h[k] = h[l] /\ x = y
    BY <2>1, <2>2
  <2>. QED BY <2>1, <2>2, <2>3, <1>2
<1>6. \A r \in Units(g) : \E p \in Units(f) : m[p] = r
  <2> SUFFICES ASSUME NEW r \in Units(g) PROVE \E p \in Units(f) : m[p] = r
    OBVIOUS
  <2>0. PICK j \in DOMAIN g : \E x \in 1 .. g[j] : r = <<j, x>>
    BY DEF Units
  <2>1. PICK x \in 1 .. g[j] : r = <<j, x>>
    BY <2>0
  <2>2. PICK k \in DOMAIN f : h[k] = j
    BY <1>2
  <2>3. <<k, x>> \in Units(f)
    BY <2>1, <2>2 DEF Units
  <2>. QED BY <2>1, <2>2, <2>3
<1>7. ExistsBijection(Units(f), Units(g))
  <2>1. m \in Injection(Units(f), Units(g))
    <3>. HIDE DEF m
    <3>. QED BY <1>4, <1>5, Zenon DEF Injection, IsInjective
  <2>2. m \in Surjection(Units(f), Units(g))
    <3>. HIDE DEF m
    <3>. QED BY <1>4, <1>6, Zenon DEF Surjection
  <2>. QED BY <2>1, <2>2 DEF Bijection, ExistsBijection
<1>. QED BY <1>1, <1>7, FS_Bijection DEF SeqSum

(***************************************************************************)
(* The exchange argument.  Of two sets of positions of the same size, the  *)
(* one whose own entries are worth at least as much as every entry only    *)
(* the other has sums to at least as much: the shared part counts for      *)
(* both, and the parts they do not share have the same size and lie on     *)
(* either side of the smallest entry of the better part.                   *)
(***************************************************************************)
LEMMA SumExchange ==
    ASSUME NEW f, IsFiniteSet(DOMAIN f), \A i \in DOMAIN f : f[i] \in Nat,
           NEW I \in SUBSET DOMAIN f, NEW P \in SUBSET DOMAIN f,
           Cardinality(I) = Cardinality(P),
           \A p \in P \ I, q \in I \ P : f[q] <= f[p]
    PROVE  SeqSum(EntriesAt(f, I)) <= SeqSum(EntriesAt(f, P))
<1>1. /\ IsFiniteSet(I) /\ IsFiniteSet(P)
      /\ IsFiniteSet(I \ P) /\ IsFiniteSet(P \ I)
  BY FS_Subset
<1>2. ASSUME NEW X \in SUBSET DOMAIN f
      PROVE  /\ IsFiniteSet(DOMAIN EntriesAt(f, X))
             /\ \A i \in DOMAIN EntriesAt(f, X) : EntriesAt(f, X)[i] \in Nat
             /\ SeqSum(EntriesAt(f, X)) \in Nat
  <2>1. IsFiniteSet(X)
    BY FS_Subset
  <2>. QED BY <2>1, SumFinite DEF EntriesAt
<1>3. SeqSum(EntriesAt(f, I))
        = SeqSum(EntriesAt(f, I \cap P)) + SeqSum(EntriesAt(f, I \ P))
  <2>1. /\ EntriesAt(EntriesAt(f, I), I \cap P) = EntriesAt(f, I \cap P)
        /\ EntriesAt(EntriesAt(f, I), DOMAIN EntriesAt(f, I) \ (I \cap P)) = EntriesAt(f, I \ P)
    BY DEF EntriesAt
  <2>2. I \cap P \in SUBSET DOMAIN EntriesAt(f, I)
    BY DEF EntriesAt
  <2>. QED BY <1>2, <2>1, <2>2, SumSplit
<1>4. SeqSum(EntriesAt(f, P))
        = SeqSum(EntriesAt(f, I \cap P)) + SeqSum(EntriesAt(f, P \ I))
  <2>1. /\ EntriesAt(EntriesAt(f, P), I \cap P) = EntriesAt(f, I \cap P)
        /\ EntriesAt(EntriesAt(f, P), DOMAIN EntriesAt(f, P) \ (I \cap P)) = EntriesAt(f, P \ I)
    BY DEF EntriesAt
  <2>2. I \cap P \in SUBSET DOMAIN EntriesAt(f, P)
    BY DEF EntriesAt
  <2>. QED BY <1>2, <2>1, <2>2, SumSplit
<1>5. Cardinality(I \ P) = Cardinality(P \ I) /\ Cardinality(I \ P) \in Nat
  <2>1. Cardinality(I \ P) = Cardinality(I) - Cardinality(I \cap P)
        /\ Cardinality(P \ I) = Cardinality(P) - Cardinality(P \cap I)
    BY <1>1, FS_Difference
  <2>2. P \cap I = I \cap P
    OBVIOUS
  <2>. QED BY <1>1, <2>1, <2>2, FS_CardinalityType
<1>6. SeqSum(EntriesAt(f, I \ P)) <= SeqSum(EntriesAt(f, P \ I))
  <2>1. CASE P \ I = {}
    <3>1. Cardinality(I \ P) = 0
      BY <1>5, <2>1, FS_EmptySet
    <3>2. I \ P = {}
      BY <1>1, <3>1, FS_EmptySet
    <3>. QED BY <2>1, <3>2, <1>2
  <2>2. CASE P \ I # {}
    <3> DEFINE vals == {f[p] : p \in P \ I}
    <3>1. IsFiniteSet(vals) /\ vals \subseteq Int /\ vals # {}
      <4>1. [p \in P \ I |-> f[p]] \in Surjection(P \ I, vals)
        BY DEF Surjection
      <4>. QED BY <1>1, <2>2, <4>1, FS_Surjection
    <3>2. PICK c \in vals : \A y \in vals : c <= y
      <4>. HIDE DEF vals
      <4>. QED BY <3>1, LeastElement
    <3>3. c \in Nat /\ \A p \in P \ I : c <= f[p] /\ \A q \in I \ P : f[q] \in 0 .. c
      BY <3>2
    <3>4. SeqSum(EntriesAt(f, I \ P)) <= Cardinality(I \ P) * c
      <4>1. \A i \in DOMAIN EntriesAt(f, I \ P) : EntriesAt(f, I \ P)[i] \in 0 .. c
        BY <3>3 DEF EntriesAt
      <4>2. DOMAIN EntriesAt(f, I \ P) = I \ P
        BY DEF EntriesAt
      <4>. QED BY <1>1, <3>3, <4>1, <4>2, SumUpper
    <3>5. SeqSum(EntriesAt(f, P \ I)) >= Cardinality(P \ I) * c
      <4>1. \A i \in DOMAIN EntriesAt(f, P \ I) :
                EntriesAt(f, P \ I)[i] \in Nat /\ c <= EntriesAt(f, P \ I)[i]
        BY <3>3 DEF EntriesAt
      <4>2. DOMAIN EntriesAt(f, P \ I) = P \ I
        BY DEF EntriesAt
      <4>. QED BY <1>1, <3>3, <4>1, <4>2, SumLower
    <3>6. Cardinality(I \ P) * c = Cardinality(P \ I) * c /\ Cardinality(P \ I) * c \in Nat
      BY <1>5, <3>3
    <3>7. SeqSum(EntriesAt(f, I \ P)) \in Nat /\ SeqSum(EntriesAt(f, P \ I)) \in Nat
      BY <1>2
    <3>. HIDE DEF vals
    <3>. QED BY <3>4, <3>5, <3>6, <3>7
  <2>. QED BY <2>1, <2>2
<1>7. /\ SeqSum(EntriesAt(f, I \cap P)) \in Nat
      /\ SeqSum(EntriesAt(f, I \ P)) \in Nat
      /\ SeqSum(EntriesAt(f, P \ I)) \in Nat
  BY <1>2
<1>. QED BY <1>3, <1>4, <1>6, <1>7


(***************************************************************************)
(* The stable ranks of sortBy: every entry has a rank in 1 .. Len(s), no   *)
(* two share one, every rank is taken, and a lower rank never holds a      *)
(* larger value.                                                           *)
(***************************************************************************)
LEMMA SortRankFacts ==
    ASSUME NEW T, NEW s \in Seq(T), \A i \in 1 .. Len(s) : s[i].value \in Int
    PROVE  /\ \A i \in 1 .. Len(s) : SortRank(s, i) \in 1 .. Len(s)
           /\ \A i, j \in 1 .. Len(s) : SortRank(s, i) = SortRank(s, j) => i = j
           /\ \A k \in 1 .. Len(s) : \E i \in 1 .. Len(s) : SortRank(s, i) = k
           /\ \A i, j \in 1 .. Len(s) :
                 SortRank(s, i) < SortRank(s, j) => s[i].value <= s[j].value
<1> DEFINE D == 1 .. Len(s)
           Before(i, j) == \/ s[i].value < s[j].value
                           \/ s[i].value = s[j].value /\ i < j
           R == {p \in D \X D : Before(p[1], p[2])}
<1>1. DOMAIN s = D /\ IsFiniteSet(D) /\ Cardinality(D) = Len(s) /\ Len(s) \in Nat
  <2>1. Len(s) \in Nat /\ DOMAIN s = 1 .. Len(s)
    BY LenProperties
  <2>2. IsFiniteSet(D) /\ Cardinality(D) = IF 1 > Len(s) THEN 0 ELSE Len(s) - 1 + 1
    BY <2>1, FS_Interval
  <2>. QED BY <2>1, <2>2
<1>2. ASSUME NEW i \in D PROVE SortRank(s, i) = Cardinality(Below(D, R, i)) + 1
  <2>1. {j \in DOMAIN s : \/ s[j].value < s[i].value
                          \/ s[j].value = s[i].value /\ j < i} = Below(D, R, i)
    BY <1>1 DEF Below
  <2>. QED BY <2>1 DEF SortRank
<1>3. /\ \A x \in D : <<x, x>> \notin R
      /\ \A x, y, z \in D : <<x, y>> \in R /\ <<y, z>> \in R => <<x, z>> \in R
      /\ \A x, y \in D : x # y => <<x, y>> \in R \/ <<y, x>> \in R
  OBVIOUS
<1>4. ASSUME NEW i \in D
      PROVE  /\ Cardinality(Below(D, R, i)) \in 0 .. Len(s) - 1
             /\ \A j \in D : <<i, j>> \in R =>
                   Cardinality(Below(D, R, i)) < Cardinality(Below(D, R, j))
  <2>. HIDE DEF D, R
  <2>. QED BY <1>1, <1>3, RankOrder
<1>5. \A i \in D : SortRank(s, i) \in 1 .. Len(s)
  <2> SUFFICES ASSUME NEW i \in D PROVE SortRank(s, i) \in 1 .. Len(s)
    OBVIOUS
  <2>1. SortRank(s, i) = Cardinality(Below(D, R, i)) + 1
        /\ Cardinality(Below(D, R, i)) \in 0 .. Len(s) - 1
    BY <1>2, <1>4
  <2>. HIDE DEF D, R
  <2>. QED BY <2>1
<1>6. \A i, j \in D : <<i, j>> \in R => SortRank(s, i) < SortRank(s, j)
  <2> SUFFICES ASSUME NEW i \in D, NEW j \in D, <<i, j>> \in R
               PROVE  SortRank(s, i) < SortRank(s, j)
    OBVIOUS
  <2>1. Cardinality(Below(D, R, i)) < Cardinality(Below(D, R, j))
    <3>. HIDE DEF D, R
    <3>. QED BY <1>4
  <2>. QED BY <2>1, <1>2, <1>4
<1>7. \A i, j \in D : SortRank(s, i) = SortRank(s, j) => i = j
  <2> SUFFICES ASSUME NEW i \in D, NEW j \in D, i # j
               PROVE  SortRank(s, i) # SortRank(s, j)
    OBVIOUS
  <2>1. <<i, j>> \in R \/ <<j, i>> \in R
    <3>. HIDE DEF D, R
    <3>. QED BY <1>3
  <2>. QED BY <2>1, <1>5, <1>6
<1>8. \A k \in 1 .. Len(s) : \E i \in D : SortRank(s, i) = k
  <2>1. \A k \in 0 .. Cardinality(D) - 1 : \E i \in D : Cardinality(Below(D, R, i)) = k
    <3>1. IsFiniteSet(D)
      BY <1>1
    <3>. HIDE DEF D, R
    <3>. QED BY <3>1, <1>3, RankSurjective, Zenon
  <2> SUFFICES ASSUME NEW k \in 1 .. Len(s) PROVE \E i \in D : SortRank(s, i) = k
    OBVIOUS
  <2>2. k - 1 \in 0 .. Cardinality(D) - 1
    BY <1>1
  <2>3. PICK i \in D : Cardinality(Below(D, R, i)) = k - 1
    <3>. HIDE DEF D, R
    <3>. QED BY <2>1, <2>2
  <2>. QED BY <2>3, <1>2
<1>9. \A i, j \in D : SortRank(s, i) < SortRank(s, j) => s[i].value <= s[j].value
  <2> SUFFICES ASSUME NEW i \in D, NEW j \in D, SortRank(s, i) < SortRank(s, j)
               PROVE  s[i].value <= s[j].value
    OBVIOUS
  <2>1. ~(<<j, i>> \in R)
    <3>1. <<j, i>> \in R => SortRank(s, j) < SortRank(s, i)
      <4>. HIDE DEF D, R
      <4>. QED BY <1>6
    <3>2. SortRank(s, i) \in Int /\ SortRank(s, j) \in Int
      <4>. HIDE DEF D, R
      <4>. QED BY <1>5
    <3>. HIDE DEF D, R
    <3>. QED BY <3>1, <3>2
  <2>2. s[i].value \in Int /\ s[j].value \in Int
    OBVIOUS
  <2>. QED BY <2>1, <2>2
<1>. QED BY <1>5, <1>7, <1>8, <1>9


\* The values of the candidates, by position
Values(u) == [i \in DOMAIN u |-> u[i].value]

\* The candidates after ensureValidUTXO, as sortBy receives them
ValidCandidates(u) == [i \in DOMAIN u |-> EnsureValidUTXO(u[i])]

\* The positions of the candidates that the first m of the sorted list are
TopPositions(u, m) ==
    {i \in DOMAIN u : SortRank(ValidCandidates(u), i) > Len(u) - m}

(***************************************************************************)
(* The first m entries of sortBy(..).reverse() are the candidates of the m *)
(* highest ranks: m positions, worth at least as much as every position    *)
(* left out, and with the same sum.                                        *)
(***************************************************************************)
LEMMA PrefixIsTop ==
    ASSUME NEW Ids, NEW u \in Seq(UTXO(Ids)), NEW m \in 0 .. Len(u)
    PROVE  /\ TopPositions(u, m) \subseteq DOMAIN u
           /\ Cardinality(TopPositions(u, m)) = m
           /\ \A i \in TopPositions(u, m), j \in DOMAIN u \ TopPositions(u, m) :
                 u[j].value <= u[i].value
           /\ ValueSum(SubSeq(SortedCandidates(u), 1, m))
                = SeqSum(EntriesAt(Values(u), TopPositions(u, m)))
           /\ {SubSeq(SortedCandidates(u), 1, m)[k] : k \in 1 .. m}
                = {EnsureValidUTXO(u[i]) : i \in TopPositions(u, m)}
<1> DEFINE n   == Len(u)
           v   == ValidCandidates(u)
           P   == TopPositions(u, m)
           sig(r) == CHOOSE i \in DOMAIN v : SortRank(v, i) = r
           pre == SubSeq(SortedCandidates(u), 1, m)
<1>1. /\ n \in Nat /\ DOMAIN u = 1 .. n
      /\ v \in Seq(ValidUTXO(Ids)) /\ Len(v) = n /\ DOMAIN v = 1 .. n
      /\ \A i \in 1 .. n : v[i].value = u[i].value /\ u[i].value \in Nat
  <2>1. \A i \in 1 .. n : u[i] \in UTXO(Ids)
    BY ElementOfSeq
  <2>2. \A i \in 1 .. n : EnsureValidUTXO(u[i]) \in ValidUTXO(Ids)
                          /\ EnsureValidUTXO(u[i]).value = u[i].value
    BY <2>1, EnsureValidUTXOType DEF EnsureValidUTXO, UTXO
  <2>. QED BY <2>1, <2>2 DEF ValidCandidates, UTXO
<1>2. /\ \A i \in 1 .. Len(v) : SortRank(v, i) \in 1 .. Len(v)
      /\ \A i, j \in 1 .. Len(v) : SortRank(v, i) = SortRank(v, j) => i = j
      /\ \A k \in 1 .. Len(v) : \E i \in 1 .. Len(v) : SortRank(v, i) = k
      /\ \A i, j \in 1 .. Len(v) :
            SortRank(v, i) < SortRank(v, j) => v[i].value <= v[j].value
  <2>1. \A i \in 1 .. Len(v) : v[i].value \in Int
    BY <1>1
  <2>. HIDE DEF v, n
  <2>. QED BY <1>1, <2>1, SortRankFacts
<1>3. \A r \in 1 .. n : sig(r) \in 1 .. n /\ SortRank(v, sig(r)) = r
  <2> SUFFICES ASSUME NEW r \in 1 .. n PROVE sig(r) \in 1 .. n /\ SortRank(v, sig(r)) = r
    OBVIOUS
  <2>1. \E i \in DOMAIN v : SortRank(v, i) = r
    <3>. HIDE DEF v
    <3>. QED BY <1>1, <1>2
  <2>. QED BY <2>1, <1>1
<1>4. \A i \in 1 .. n : sig(SortRank(v, i)) = i
  <2> SUFFICES ASSUME NEW i \in 1 .. n PROVE sig(SortRank(v, i)) = i
    OBVIOUS
  <2>1. SortRank(v, i) \in 1 .. n
    <3>. HIDE DEF v
    <3>. QED BY <1>1, <1>2
  <2>2. sig(SortRank(v, i)) \in 1 .. n /\ SortRank(v, sig(SortRank(v, i))) = SortRank(v, i)
    <3>. HIDE DEF v, sig
    <3>. QED BY <2>1, <1>3
  <2>. HIDE DEF v, sig
  <2>. QED BY <2>1, <2>2, <1>1, <1>2
<1>3b. ASSUME NEW k \in 1 .. m
       PROVE  /\ n + 1 - k \in 1 .. n
              /\ sig(n + 1 - k) \in 1 .. n
              /\ SortRank(v, sig(n + 1 - k)) = n + 1 - k
  <2>1. n + 1 - k \in 1 .. n
    BY <1>1
  <2>. HIDE DEF v, sig
  <2>. QED BY <2>1, <1>3
<1>5. /\ DOMAIN pre = 1 .. m
      /\ \A k \in 1 .. m : pre[k].value = u[sig(n + 1 - k)].value
      /\ \A k \in 1 .. m : pre[k] = v[sig(n + 1 - k)]
  <2>1. /\ SortByValue(v) \in Seq(ValidUTXO(Ids)) /\ Len(SortByValue(v)) = Len(v)
    <3>1. \A i \in 1 .. Len(v) : v[i].value \in Int
      BY <1>1
    <3>. HIDE DEF v, n
    <3>. QED BY <1>1, <3>1, SortByValueType
  <2>2. \A r \in 1 .. n : SortByValue(v)[r] = v[sig(r)]
    BY <1>1 DEF SortByValue
  <2>3. SortedCandidates(u) = ReverseSeq(SortByValue(v))
    BY DEF SortedCandidates, ValidCandidates
  <2>4. /\ Len(SortedCandidates(u)) = n
        /\ \A k \in 1 .. n : SortedCandidates(u)[k] = SortByValue(v)[n + 1 - k]
    BY <1>1, <2>1, <2>3 DEF ReverseSeq
  <2>5. /\ DOMAIN pre = 1 .. m
        /\ \A k \in 1 .. m : pre[k] = SortedCandidates(u)[k]
    BY <1>1, <2>4
  <2>6. ASSUME NEW k \in 1 .. m
        PROVE  pre[k].value = u[sig(n + 1 - k)].value /\ pre[k] = v[sig(n + 1 - k)]
    <3>1. n + 1 - k \in 1 .. n /\ sig(n + 1 - k) \in 1 .. n
      BY <1>3b
    <3>2. pre[k] = SortByValue(v)[n + 1 - k]
      <4>. HIDE DEF v, pre, sig, n
      <4>. QED BY <2>4, <2>5, <1>1
    <3>3. SortByValue(v)[n + 1 - k] = v[sig(n + 1 - k)]
      <4>. HIDE DEF v, pre, sig, n
      <4>. QED BY <2>2, <3>1
    <3>4. v[sig(n + 1 - k)].value = u[sig(n + 1 - k)].value
      <4>. HIDE DEF v, pre, sig, n
      <4>. QED BY <3>1, <1>1
    <3>. HIDE DEF v, pre, sig, n
    <3>. QED BY <3>2, <3>3, <3>4
  <2>. QED BY <2>5, <2>6
<1>6. P \subseteq DOMAIN u
  BY DEF TopPositions
<1>7. \A i \in P, j \in DOMAIN u \ P : u[j].value <= u[i].value
  <2> SUFFICES ASSUME NEW i \in P, NEW j \in DOMAIN u \ P PROVE u[j].value <= u[i].value
    OBVIOUS
  <2>1. i \in 1 .. n /\ j \in 1 .. n /\ SortRank(v, j) < SortRank(v, i)
    <3>1. SortRank(v, i) > n - m /\ ~(SortRank(v, j) > n - m)
      BY DEF TopPositions, ValidCandidates
    <3>2. SortRank(v, i) \in 1 .. n /\ SortRank(v, j) \in 1 .. n
      <4>. HIDE DEF v
      <4>. QED BY <1>1, <1>2, <1>6
    <3>. QED BY <3>1, <3>2, <1>1, <1>6
  <2>2. v[j].value <= v[i].value
    <3>. HIDE DEF v, P, n
    <3>. QED BY <2>1, <1>1, <1>2
  <2>. HIDE DEF v, P, n
  <2>. QED BY <2>1, <2>2, <1>1
<1> DEFINE h == [k \in 1 .. m |-> sig(n + 1 - k)]
<1>8. h \in Bijection(1 .. m, P)
  <2>1. h \in [1 .. m -> P]
    <3> SUFFICES ASSUME NEW k \in 1 .. m PROVE sig(n + 1 - k) \in P
      OBVIOUS
    <3>1. sig(n + 1 - k) \in 1 .. n /\ SortRank(v, sig(n + 1 - k)) = n + 1 - k
      BY <1>3b
    <3>. HIDE DEF v, sig
    <3>. QED BY <3>1, <1>1 DEF TopPositions, ValidCandidates, v
  <2>2. \A a, b \in 1 .. m : h[a] = h[b] => a = b
    <3> SUFFICES ASSUME NEW a \in 1 .. m, NEW b \in 1 .. m, sig(n + 1 - a) = sig(n + 1 - b)
                 PROVE  a = b
      OBVIOUS
    <3>1. SortRank(v, sig(n + 1 - a)) = n + 1 - a /\ SortRank(v, sig(n + 1 - b)) = n + 1 - b
      BY <1>3b
    <3>. HIDE DEF v, sig
    <3>. QED BY <3>1, <1>1
  <2>3. \A i \in P : \E k \in 1 .. m : h[k] = i
    <3> SUFFICES ASSUME NEW i \in P PROVE \E k \in 1 .. m : h[k] = i
      OBVIOUS
    <3>1. i \in 1 .. n /\ SortRank(v, i) > n - m
      BY <1>1 DEF TopPositions, ValidCandidates
    <3>2. SortRank(v, i) \in 1 .. n
      <4>. HIDE DEF v
      <4>. QED BY <3>1, <1>1, <1>2
    <3>3. n + 1 - SortRank(v, i) \in 1 .. m
      BY <3>1, <3>2, <1>1
    <3>4. sig(n + 1 - (n + 1 - SortRank(v, i))) = i
      <4>1. n + 1 - (n + 1 - SortRank(v, i)) = SortRank(v, i)
        BY <3>2, <1>1
      <4>. HIDE DEF v, sig
      <4>. QED BY <3>1, <4>1, <1>4
    <3>. HIDE DEF sig, v
    <3>. QED BY <3>3, <3>4
  <2>. HIDE DEF h, P
  <2>. QED BY <2>1, <2>2, <2>3, Zenon DEF Bijection, Injection, Surjection, IsInjective
<1>9. IsFiniteSet(P) /\ Cardinality(P) = m
  <2>1. IsFiniteSet(1 .. m) /\ Cardinality(1 .. m) = m
    BY FS_Interval
  <2>2. ExistsBijection(1 .. m, P)
    BY <1>8 DEF ExistsBijection
  <2>. HIDE DEF P
  <2>. QED BY <2>1, <2>2, FS_Bijection
<1>10. ValueSum(pre) = SeqSum(EntriesAt(Values(u), P))
  <2> DEFINE f == [k \in DOMAIN pre |-> pre[k].value]
             g == EntriesAt(Values(u), P)
  <2>1. IsFiniteSet(DOMAIN f) /\ \A k \in DOMAIN f : f[k] \in Nat
    <3>1. \A k \in 1 .. m : u[sig(n + 1 - k)].value \in Nat
      <4> SUFFICES ASSUME NEW k \in 1 .. m PROVE u[sig(n + 1 - k)].value \in Nat
        OBVIOUS
      <4>1. sig(n + 1 - k) \in 1 .. n
        BY <1>3b
      <4>. HIDE DEF sig, n
      <4>. QED BY <4>1, <1>1
    <3>2. IsFiniteSet(1 .. m)
      BY FS_Interval
    <3>. HIDE DEF sig, n, pre
    <3>. QED BY <1>5, <3>1, <3>2
  <2>2. h \in Bijection(DOMAIN f, DOMAIN g)
    BY <1>5, <1>8 DEF EntriesAt
  <2>3. \A k \in DOMAIN f : g[h[k]] = f[k]
    <3>1. \A k \in 1 .. m : h[k] \in P
      BY <1>8 DEF Bijection, Injection
    <3>. QED BY <1>5, <1>6, <3>1 DEF EntriesAt, Values
  <2>4. SeqSum(g) = SeqSum(f)
    <3>. HIDE DEF f, g, h
    <3>. QED BY <2>1, <2>2, <2>3, SumReindex
  <2>. QED BY <2>4 DEF ValueSum
<1>11. {pre[k] : k \in 1 .. m} = {EnsureValidUTXO(u[i]) : i \in P}
  <2>1. /\ \A k \in 1 .. m : h[k] \in P /\ pre[k] = EnsureValidUTXO(u[h[k]])
        /\ \A i \in P : \E k \in 1 .. m : h[k] = i
    <3>1. \A k \in 1 .. m : h[k] \in P
      BY <1>8 DEF Bijection, Injection
    <3>2. \A i \in P : \E k \in 1 .. m : h[k] = i
      BY <1>8 DEF Bijection, Surjection
    <3>3. \A k \in 1 .. m : pre[k] = EnsureValidUTXO(u[h[k]])
      BY <1>5, <1>6, <3>1 DEF ValidCandidates
    <3>. HIDE DEF h, pre, P
    <3>. QED BY <3>1, <3>2, <3>3
  <2>. HIDE DEF h, pre, P
  <2>. QED BY <2>1
<1>. QED BY <1>6, <1>7, <1>9, <1>10, <1>11


(***************************************************************************)
(* No m candidates are worth more than the first m of the sorted list.     *)
(***************************************************************************)
LEMMA TopSum ==
    ASSUME NEW Ids, NEW u \in Seq(UTXO(Ids)), NEW I \in SUBSET DOMAIN u
    PROVE  SeqSum(EntriesAt(Values(u), I))
             <= ValueSum(SubSeq(SortedCandidates(u), 1, Cardinality(I)))
<1> DEFINE m == Cardinality(I)
           P == TopPositions(u, m)
           f == Values(u)
<1>1. /\ DOMAIN u = 1 .. Len(u) /\ IsFiniteSet(DOMAIN u)
      /\ IsFiniteSet(I) /\ m \in 0 .. Len(u)
  <2>1. DOMAIN u = 1 .. Len(u) /\ Len(u) \in Nat
    BY LenProperties
  <2>2. IsFiniteSet(1 .. Len(u)) /\ Cardinality(1 .. Len(u)) = Len(u)
    <3>1. IsFiniteSet(1 .. Len(u))
          /\ Cardinality(1 .. Len(u)) = IF 1 > Len(u) THEN 0 ELSE Len(u) - 1 + 1
      BY <2>1, FS_Interval
    <3>. QED BY <3>1, <2>1
  <2>3. IsFiniteSet(I) /\ m <= Len(u) /\ m \in Nat
    BY <2>1, <2>2, FS_Subset, FS_CardinalityType
  <2>. QED BY <2>1, <2>2, <2>3
<1>2. /\ P \subseteq DOMAIN u
      /\ Cardinality(P) = m
      /\ \A i \in P, j \in DOMAIN u \ P : u[j].value <= u[i].value
      /\ ValueSum(SubSeq(SortedCandidates(u), 1, m)) = SeqSum(EntriesAt(Values(u), P))
  BY <1>1, PrefixIsTop
<1>3. /\ DOMAIN f = DOMAIN u
      /\ \A i \in DOMAIN f : f[i] \in Nat
      /\ \A i \in DOMAIN u : f[i] = u[i].value
  <2>1. \A i \in 1 .. Len(u) : u[i] \in UTXO(Ids)
    BY ElementOfSeq
  <2>. QED BY <1>1, <2>1 DEF Values, UTXO
<1>4. \A p \in P \ I, q \in I \ P : f[q] <= f[p]
  BY <1>2, <1>3
<1>5. SeqSum(EntriesAt(f, I)) <= SeqSum(EntriesAt(f, P))
  <2>1. Cardinality(I) = Cardinality(P) /\ IsFiniteSet(DOMAIN f)
        /\ I \in SUBSET DOMAIN f /\ P \in SUBSET DOMAIN f
    BY <1>1, <1>2, <1>3
  <2>. HIDE DEF m, P, f
  <2>. QED BY <2>1, <1>3, <1>4, SumExchange
<1>. QED BY <1>2, <1>5


\* sortBy(..).reverse() of the candidates is a list of as many UTXOs
\* that all carry a script
LEMMA SortedCandidatesType ==
    ASSUME NEW Ids, NEW u \in Seq(UTXO(Ids))
    PROVE  SortedCandidates(u) \in Seq(ValidUTXO(Ids)) /\ Len(SortedCandidates(u)) = Len(u)
<1> DEFINE v == ValidCandidates(u)
<1>1. v \in Seq(ValidUTXO(Ids)) /\ Len(v) = Len(u)
  <2>1. \A i \in 1 .. Len(u) : EnsureValidUTXO(u[i]) \in ValidUTXO(Ids)
    BY EnsureValidUTXOType
  <2>. QED BY <2>1 DEF ValidCandidates
<1>2. \A i \in 1 .. Len(v) : v[i].value \in Int
  <2>1. \A i \in 1 .. Len(v) : v[i] \in ValidUTXO(Ids)
    BY <1>1, ElementOfSeq
  <2>. QED BY <2>1 DEF ValidUTXO, UTXO
<1>3. SortByValue(v) \in Seq(ValidUTXO(Ids)) /\ Len(SortByValue(v)) = Len(v)
  <2>. HIDE DEF v
  <2>. QED BY <1>1, <1>2, SortByValueType
<1>4. SortedCandidates(u) = ReverseSeq(SortByValue(v))
  BY DEF SortedCandidates, ValidCandidates
<1>. QED BY <1>1, <1>3, <1>4, ReverseSeqType

\* The loop's first stop is the least count that covers, and it is the
\* length of the inputs a non-null selection returns
LEMMA FirstStopLeast ==
    ASSUME NEW Ids, NEW A, NEW c,
           NEW u \in Seq(UTXO(Ids)), NEW t \in Seq(TxOutput(A)),
           SelectUTXOs(u, t, c) # NoSelection
    PROVE  /\ FirstStop(u, t) \in StopCounts(u, t)
           /\ \A j \in StopCounts(u, t) : FirstStop(u, t) <= j
           /\ StopCounts(u, t) \subseteq 1 .. Len(u)
           /\ Len(SortedCandidates(u)) = Len(u)
           /\ SortedCandidates(u) \in Seq(ValidUTXO(Ids))
           /\ Len(SelectUTXOs(u, t, c).inputs) = FirstStop(u, t)
           /\ ValueSum(t) > 0
<1> DEFINE stops == StopCounts(u, t)
           v == ValidCandidates(u)
<1>1. Len(SortedCandidates(u)) = Len(u) /\ SortedCandidates(u) \in Seq(ValidUTXO(Ids))
  BY SortedCandidatesType
<1>2. stops # {} /\ ~(ValueSum(t) <= 0)
  BY SelectionFields DEF SelectUTXOs
<1>3. stops \subseteq 1 .. Len(u)
  BY <1>1 DEF StopCounts
<1>4. FirstStop(u, t) \in stops /\ \A j \in stops : FirstStop(u, t) <= j
  <2>1. IsFiniteSet(stops)
    BY <1>3, FS_Interval, FS_Subset
  <2>2. \E x \in stops : \A y \in stops : x <= y
    <3>. HIDE DEF stops
    <3>. QED BY <1>2, <1>3, <2>1, LeastElement
  <2>. QED BY <2>2 DEF FirstStop
<1>5. Len(SelectUTXOs(u, t, c).inputs) = FirstStop(u, t)
  <2>1. SelectUTXOs(u, t, c).inputs = SubSeq(SortedCandidates(u), 1, FirstStop(u, t))
    BY SelectionFields
  <2>2. FirstStop(u, t) \in 1 .. Len(SortedCandidates(u))
    BY <1>1, <1>3, <1>4
  <2>. HIDE DEF stops
  <2>. QED BY <2>1, <2>2
<1>6. ValueSum(t) \in Int
  <2>1. \A i \in 1 .. Len(t) : t[i].value \in Int
    <3>1. \A i \in 1 .. Len(t) : t[i] \in TxOutput(A)
      BY ElementOfSeq
    <3>. QED BY <3>1 DEF TxOutput
  <2>. QED BY <2>1, ValueSumType
<1>. QED BY <1>1, <1>2, <1>3, <1>4, <1>5, <1>6

(***************************************************************************)
(* Minimality of the largest-first loop: a non-null selection of k inputs  *)
(* leaves no set of fewer than k candidates that covers the targets plus   *)
(* the fee for its own size.  Such a set is worth at most the prefix of    *)
(* its size (TopSum), and the loop did not stop at that prefix.            *)
(***************************************************************************)
LEMMA NoShorterCover ==
    ASSUME NEW Ids, NEW A, NEW c,
           NEW u \in Seq(UTXO(Ids)), NEW t \in Seq(TxOutput(A)),
           SelectUTXOs(u, t, c) # NoSelection,
           NEW I \in SUBSET DOMAIN u,
           Cardinality(I) < Len(SelectUTXOs(u, t, c).inputs)
    PROVE  SeqSum(EntriesAt(Values(u), I)) < ValueSum(t) + SelectionFee(Cardinality(I), t)
<1> DEFINE m == Cardinality(I)
           need == ValueSum(t) + SelectionFee(m, t)
           sum == SeqSum(EntriesAt(Values(u), I))
<1>1. /\ FirstStop(u, t) \in StopCounts(u, t)
      /\ \A j \in StopCounts(u, t) : FirstStop(u, t) <= j
      /\ StopCounts(u, t) \subseteq 1 .. Len(u)
      /\ Len(SortedCandidates(u)) = Len(u)
      /\ SortedCandidates(u) \in Seq(ValidUTXO(Ids))
      /\ Len(SelectUTXOs(u, t, c).inputs) = FirstStop(u, t)
      /\ ValueSum(t) > 0
  BY FirstStopLeast
<1>2. /\ IsFiniteSet(I) /\ m \in Nat /\ m < FirstStop(u, t) /\ FirstStop(u, t) <= Len(u)
  <2>1. IsFiniteSet(I) /\ m \in Nat
    <3>1. DOMAIN u = 1 .. Len(u) /\ Len(u) \in Nat
      BY LenProperties
    <3>2. IsFiniteSet(1 .. Len(u))
      BY <3>1, FS_Interval
    <3>3. IsFiniteSet(I)
      BY <3>1, <3>2, FS_Subset
    <3>. QED BY <3>3, FS_CardinalityType
  <2>. QED BY <1>1, <2>1
<1>3. SelectionFee(m, t) \in Nat /\ ValueSum(t) \in Nat
  <2>1. \A i \in 1 .. Len(t) : t[i] \in TxOutput(A)
    BY ElementOfSeq
  <2>2. MemoSum(t) \in Nat
    BY <2>1, MemoSumType DEF TxOutput
  <2>3. Len(t) + 1 \in Nat
    OBVIOUS
  <2>4. ValueSum(t) \in Nat
    BY <2>1, ValueSumType DEF TxOutput
  <2>. QED BY <1>2, <2>2, <2>3, <2>4, GetFeeType DEF SelectionFee
<1>4. CASE m = 0
  <2>1. I = {}
    BY <1>2, <1>4, FS_EmptySet
  <2>2. Units(EntriesAt(Values(u), I)) = {}
    BY <2>1 DEF Units, EntriesAt
  <2>3. sum = 0
    BY <2>2, FS_EmptySet DEF SeqSum
  <2>. QED BY <1>1, <1>3, <2>3
<1>5. CASE m # 0
  <2> DEFINE pre == SubSeq(SortedCandidates(u), 1, m)
  <2>1. m \in 1 .. Len(u) /\ m \notin StopCounts(u, t)
    BY <1>1, <1>2, <1>5
  <2>2. ~(ValueSum(pre) >= need)
    BY <1>1, <2>1 DEF StopCounts
  <2>3. ValueSum(pre) \in Nat
    <3>1. pre \in Seq(ValidUTXO(Ids))
      <4>1. \A i \in 1 .. m : SortedCandidates(u)[i] \in ValidUTXO(Ids)
        BY <1>1, <2>1, ElementOfSeq
      <4>. QED BY <4>1, <2>1, SubSeqProperties
    <3>2. \A i \in 1 .. Len(pre) : pre[i].value \in Int
      <4>1. \A i \in 1 .. Len(pre) : pre[i] \in ValidUTXO(Ids)
        <5>. HIDE DEF pre
        <5>. QED BY <3>1, ElementOfSeq
      <4>. HIDE DEF pre
      <4>. QED BY <4>1 DEF ValidUTXO, UTXO
    <3>. HIDE DEF pre
    <3>. QED BY <3>1, <3>2, ValueSumType
  <2>4. sum <= ValueSum(pre)
    BY TopSum
  <2>5. sum \in Nat
    <3>1. \A i \in I : u[i] \in UTXO(Ids)
      BY ElementOfSeq
    <3>2. IsFiniteSet(DOMAIN EntriesAt(Values(u), I))
          /\ \A i \in DOMAIN EntriesAt(Values(u), I) : EntriesAt(Values(u), I)[i] \in Nat
      BY <1>2, <3>1 DEF EntriesAt, Values, UTXO
    <3>. QED BY <3>2, SumFinite
  <2>. HIDE DEF pre
  <2>. QED BY <1>3, <2>2, <2>3, <2>4, <2>5
<1>. QED BY <1>4, <1>5

==============================================================================
