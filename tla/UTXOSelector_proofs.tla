------------------------- MODULE UTXOSelector_proofs -------------------------
(***************************************************************************)
(* Proofs about the coin selection of UTXOSelector: the value sums are     *)
(* natural numbers, the stable sort is a permutation of its argument, the  *)
(* loop's first stopping count exists, and the selection it returns spends *)
(* UTXOs of the candidates and covers the targets plus its fee.            *)
(***************************************************************************)
EXTENDS UTXOSelector, FiniteSetTheorems, SequenceTheorems, TLAPS

(***************************************************************************)
(* Ranks under a strict total order.  In a finite set S ordered strictly   *)
(* and totally by R, the number of elements below x is a different number  *)
(* of 0 .. Cardinality(S) - 1 for every x, so every such number is the     *)
(* rank of some element.  This gives the least element of a set of counts *)
(* (the loop's first stop) and the surjectivity of the sort's ranks.       *)
(***************************************************************************)
Below(S, R, x) == {y \in S : <<y, x>> \in R}

\* The elements below x are fewer than the others, and fewer than those
\* below any element above x
LEMMA RankOrder ==
    ASSUME NEW S, IsFiniteSet(S), NEW R,
           \A x \in S : <<x, x>> \notin R,
           \A x, y, z \in S : <<x, y>> \in R /\ <<y, z>> \in R => <<x, z>> \in R,
           NEW x \in S
    PROVE  /\ IsFiniteSet(Below(S, R, x))
           /\ Cardinality(Below(S, R, x)) \in 0 .. Cardinality(S) - 1
           /\ \A y \in S : <<x, y>> \in R =>
                 Cardinality(Below(S, R, x)) < Cardinality(Below(S, R, y))
<1> DEFINE n == Cardinality(S)
<1>1. n \in Nat
  BY FS_CardinalityType
<1>2. ASSUME NEW z \in S
      PROVE  /\ IsFiniteSet(Below(S, R, z))
             /\ Cardinality(Below(S, R, z)) \in 0 .. n - 1
  <2>1. Below(S, R, z) \subseteq S \ {z}
    BY DEF Below
  <2>2. IsFiniteSet(S \ {z}) /\ Cardinality(S \ {z}) = n - 1
    BY FS_RemoveElement
  <2>3. IsFiniteSet(Below(S, R, z))
        /\ Cardinality(Below(S, R, z)) <= n - 1
        /\ Cardinality(Below(S, R, z)) \in Nat
    BY <2>1, <2>2, FS_Subset, FS_CardinalityType
  <2>. QED BY <2>3, <1>1
<1>3. ASSUME NEW y \in S, <<x, y>> \in R
      PROVE  Cardinality(Below(S, R, x)) < Cardinality(Below(S, R, y))
  <2>1. Below(S, R, x) \cup {x} \subseteq Below(S, R, y)
    BY <1>3 DEF Below
  <2>2. x \notin Below(S, R, x)
    BY DEF Below
  <2>3. Cardinality(Below(S, R, x) \cup {x}) = Cardinality(Below(S, R, x)) + 1
        /\ IsFiniteSet(Below(S, R, x) \cup {x})
    BY <1>2, <2>2, FS_AddElement
  <2>4. Cardinality(Below(S, R, x) \cup {x}) <= Cardinality(Below(S, R, y))
    BY <2>1, <1>2, FS_Subset
  <2>. QED BY <2>3, <2>4, <1>2
<1>. QED BY <1>2, <1>3

LEMMA RankSurjective ==
    ASSUME NEW S, IsFiniteSet(S), NEW R,
           \A x \in S : <<x, x>> \notin R,
           \A x, y, z \in S : <<x, y>> \in R /\ <<y, z>> \in R => <<x, z>> \in R,
           \A x, y \in S : x # y => <<x, y>> \in R \/ <<y, x>> \in R
    PROVE  \A k \in 0 .. Cardinality(S) - 1 :
               \E x \in S : Cardinality(Below(S, R, x)) = k
<1> DEFINE n == Cardinality(S)
           f == [x \in S |-> Cardinality(Below(S, R, x))]
<1>1. n \in Nat
  BY FS_CardinalityType
<1>2. ASSUME NEW x \in S
      PROVE  /\ IsFiniteSet(Below(S, R, x))
             /\ Cardinality(Below(S, R, x)) \in 0 .. n - 1
  BY RankOrder
<1>3. ASSUME NEW x \in S, NEW y \in S, <<x, y>> \in R
      PROVE  Cardinality(Below(S, R, x)) < Cardinality(Below(S, R, y))
  BY <1>3, RankOrder
<1>4. f \in Injection(S, 0 .. n - 1)
  <2>1. f \in [S -> 0 .. n - 1]
    BY <1>2
  <2>2. ASSUME NEW x \in S, NEW y \in S, x # y PROVE f[x] # f[y]
    <3>1. <<x, y>> \in R \/ <<y, x>> \in R
      BY <2>2
    <3>2. Cardinality(Below(S, R, x)) # Cardinality(Below(S, R, y))
      BY <3>1, <1>3, <1>2
    <3>. QED BY <3>2
  <2>. QED BY <2>1, <2>2 DEF Injection, IsInjective
<1>5. IsFiniteSet(0 .. n - 1) /\ Cardinality(0 .. n - 1) = n
  <2>1. IsFiniteSet(0 .. n - 1)
        /\ Cardinality(0 .. n - 1) = IF 0 > n - 1 THEN 0 ELSE n - 1 - 0 + 1
    BY <1>1, FS_Interval
  <2>. QED BY <2>1, <1>1
<1>6. f \in Surjection(S, 0 .. n - 1)
  BY <1>4, <1>5, FS_Injection
<1>. QED BY <1>6 DEF Surjection

(***************************************************************************)
(* A finite nonempty set of integers has a least element: the loop of      *)
(* selectUTXOs stops at the first count that covers the targets.           *)
(***************************************************************************)
LEMMA LeastElement ==
    ASSUME NEW S \in SUBSET Int, IsFiniteSet(S), S # {}
    PROVE  \E x \in S : \A y \in S : x <= y
<1> DEFINE R == {p \in S \X S : p[1] < p[2]}
<1>1. Cardinality(S) \in Nat /\ Cardinality(S) # 0
  BY FS_CardinalityType, FS_EmptySet
<1>2. \E x \in S : Cardinality(Below(S, R, x)) = 0
  <2>1. \A k \in 0 .. Cardinality(S) - 1 : \E x \in S : Cardinality(Below(S, R, x)) = k
    <3>1. \A x \in S : <<x, x>> \notin R
      OBVIOUS
    <3>2. \A x, y, z \in S : <<x, y>> \in R /\ <<y, z>> \in R => <<x, z>> \in R
      OBVIOUS
    <3>3. \A x, y \in S : x # y => <<x, y>> \in R \/ <<y, x>> \in R
      OBVIOUS
    <3>. HIDE DEF R
    <3>. QED BY <3>1, <3>2, <3>3, RankSurjective
  <2>. QED BY <2>1, <1>1
<1>3. PICK x \in S : Cardinality(Below(S, R, x)) = 0
  BY <1>2
<1>4. IsFiniteSet(Below(S, R, x))
  BY FS_Subset DEF Below
<1>5. Below(S, R, x) = {}
  BY <1>3, <1>4, FS_EmptySet
<1>6. \A y \in S : ~(y < x)
  BY <1>5 DEF Below
<1>. QED BY <1>6

(***************************************************************************)
(* The units of a sequence of integers form a finite set, so the value and *)
(* memo sums the code folds with + are natural numbers.                    *)
(***************************************************************************)
LEMMA SeqSumType ==
    ASSUME NEW s, NEW n \in Nat, DOMAIN s = 1 .. n, \A i \in 1 .. n : s[i] \in Int
    PROVE  /\ IsFiniteSet(Units(s))
           /\ SeqSum(s) \in Nat
<1> DEFINE Row(i) == {<<i, k>> : k \in 1 .. s[i]}
           rows == [i \in 1 .. n |-> Row(i)]
<1>1. ASSUME NEW i \in 1 .. n PROVE IsFiniteSet(Row(i))
  <2> DEFINE g == [k \in 1 .. s[i] |-> <<i, k>>]
  <2>1. IsFiniteSet(1 .. s[i])
    BY FS_Interval
  <2>2. g \in Surjection(1 .. s[i], Row(i))
    BY DEF Surjection
  <2>. QED BY <2>1, <2>2, FS_Surjection
<1>2. IsFiniteSet({Row(i) : i \in 1 .. n})
  <2>1. IsFiniteSet(1 .. n)
    BY FS_Interval
  <2>2. rows \in Surjection(1 .. n, {Row(i) : i \in 1 .. n})
    BY DEF Surjection
  <2>. QED BY <2>1, <2>2, FS_Surjection
<1>3. Units(s) = UNION {Row(i) : i \in 1 .. n}
  BY DEF Units
<1>4. \A T \in {Row(i) : i \in 1 .. n} : IsFiniteSet(T)
  BY <1>1
<1>5. IsFiniteSet(Units(s))
  <2>. HIDE DEF Row
  <2>. QED BY <1>2, <1>3, <1>4, FS_UNION
<1>. QED BY <1>5, FS_CardinalityType DEF SeqSum

\* The value sum of a sequence of records with integer values
LEMMA ValueSumType ==
    ASSUME NEW T, NEW xs \in Seq(T), \A i \in 1 .. Len(xs) : xs[i].value \in Int
    PROVE  ValueSum(xs) \in Nat
<1> DEFINE v == [i \in DOMAIN xs |-> xs[i].value]
<1>1. Len(xs) \in Nat /\ DOMAIN v = 1 .. Len(xs)
  BY LenProperties
<1>2. \A i \in 1 .. Len(xs) : v[i] \in Int
  BY LenProperties
<1>3. SeqSum(v) \in Nat
  <2>. HIDE DEF v
  <2>. QED BY <1>1, <1>2, SeqSumType, Zenon
<1>. QED BY <1>3 DEF ValueSum

\* The memo sum of a sequence of records with integer memo lengths
LEMMA MemoSumType ==
    ASSUME NEW T, NEW xs \in Seq(T), \A i \in 1 .. Len(xs) : xs[i].memo \in Int
    PROVE  MemoSum(xs) \in Nat
<1> DEFINE v == [i \in DOMAIN xs |-> xs[i].memo]
<1>1. Len(xs) \in Nat /\ DOMAIN v = 1 .. Len(xs)
  BY LenProperties
<1>2. \A i \in 1 .. Len(xs) : v[i] \in Int
  BY LenProperties
<1>3. SeqSum(v) \in Nat
  <2>. HIDE DEF v
  <2>. QED BY <1>1, <1>2, SeqSumType, Zenon
<1>. QED BY <1>3 DEF MemoSum

(***************************************************************************)
(* lodash sortBy is a permutation: every position 1 .. Len(s) of the       *)
(* sorted list is the stable rank of one entry, so the sorted list is a    *)
(* list of entries of s of the same length.                                *)
(***************************************************************************)
LEMMA SortByValueType ==
    ASSUME NEW T, NEW s \in Seq(T), \A i \in 1 .. Len(s) : s[i].value \in Int
    PROVE  /\ SortByValue(s) \in Seq(T)
           /\ Len(SortByValue(s)) = Len(s)
<1> DEFINE D == 1 .. Len(s)
           Before(i, j) == \/ s[i].value < s[j].value
                           \/ s[i].value = s[j].value /\ i < j
           R == {p \in D \X D : Before(p[1], p[2])}
<1>1. DOMAIN s = D /\ IsFiniteSet(D) /\ Cardinality(D) = Len(s)
  <2>1. Len(s) \in Nat /\ DOMAIN s = 1 .. Len(s)
    BY LenProperties
  <2>2. IsFiniteSet(D) /\ Cardinality(D) = IF 1 > Len(s) THEN 0 ELSE Len(s) - 1 + 1
    BY <2>1, FS_Interval
  <2>. QED BY <2>1, <2>2
<1>2. ASSUME NEW i \in D PROVE SortRank(s, i) = Cardinality(Below(D, R, i)) + 1
  <2>1. {j \in DOMAIN s : \/ s[j].value < s[i].value
                          \/ s[j].value = s[i].value /\ j < i} = Below(D, R, i)
    BY <1>1 DEF Below
  <2>. QED BY <2>1 DEF SortRank
<1>3. \A k \in 0 .. Len(s) - 1 : \E i \in D : Cardinality(Below(D, R, i)) = k
  <2>1. \A x \in D : <<x, x>> \notin R
    OBVIOUS
  <2>2. \A x, y, z \in D : <<x, y>> \in R /\ <<y, z>> \in R => <<x, z>> \in R
    OBVIOUS
  <2>3. \A x, y \in D : x # y => <<x, y>> \in R \/ <<y, x>> \in R
    OBVIOUS
  <2>. HIDE DEF R, D
  <2>4. \A k \in 0 .. Cardinality(D) - 1 : \E i \in D : Cardinality(Below(D, R, i)) = k
    <3>1. IsFiniteSet(D)
      BY <1>1
    <3>. QED BY <3>1, <2>1, <2>2, <2>3, RankSurjective, Zenon
  <2>. QED BY <1>1, <2>4
<1>4. ASSUME NEW k \in 1 .. Len(s) PROVE \E i \in DOMAIN s : SortRank(s, i) = k
  <2>0. k - 1 \in 0 .. Len(s) - 1
    OBVIOUS
  <2>1. PICK i \in D : Cardinality(Below(D, R, i)) = k - 1
    <3>. HIDE DEF D, R
    <3>. QED BY <1>3, <2>0
  <2>. QED BY <2>1, <1>2, <1>1
<1>5. ASSUME NEW k \in 1 .. Len(s) PROVE SortByValue(s)[k] \in T
  <2>1. (CHOOSE i \in DOMAIN s : SortRank(s, i) = k) \in DOMAIN s
    BY <1>4
  <2>. QED BY <2>1, <1>1 DEF SortByValue
<1>. QED BY <1>5 DEF SortByValue

\* Array.prototype.reverse keeps the entries and the length
LEMMA ReverseSeqType ==
    ASSUME NEW T, NEW s \in Seq(T)
    PROVE  /\ ReverseSeq(s) \in Seq(T)
           /\ Len(ReverseSeq(s)) = Len(s)
BY DEF ReverseSeq

\* ensureValidUTXO turns a UTXO into one that carries a script
LEMMA EnsureValidUTXOType ==
    ASSUME NEW Ids, NEW u \in UTXO(Ids)
    PROVE  EnsureValidUTXO(u) \in ValidUTXO(Ids)
BY DEF EnsureValidUTXO, ValidUTXO, UTXO, Scripts, OwnScript, NoScript, PlaceholderScript

(***************************************************************************)
(* Appending an entry adds its value to the sum: the units of the longer   *)
(* sequence are those of the shorter one and v more, all in the new row.   *)
(***************************************************************************)
LEMMA SeqSumAppend ==
    ASSUME NEW s, NEW n \in Nat, DOMAIN s = 1 .. n, \A i \in 1 .. n : s[i] \in Int,
           NEW t, DOMAIN t = 1 .. n + 1, \A i \in 1 .. n : t[i] = s[i],
           NEW v \in Nat, t[n + 1] = v
    PROVE  SeqSum(t) = SeqSum(s) + v
<1> DEFINE Last == {<<n + 1, k>> : k \in 1 .. v}
<1>1. Units(t) = Units(s) \cup Last
  BY DEF Units
<1>2. Units(s) \cap Last = {}
  BY DEF Units
<1>3. IsFiniteSet(Last) /\ Cardinality(Last) = v
  <2> DEFINE g == [k \in 1 .. v |-> <<n + 1, k>>]
  <2>1. IsFiniteSet(1 .. v) /\ Cardinality(1 .. v) = v
    BY FS_Interval
  <2>2. g \in [1 .. v -> Last]
    OBVIOUS
  <2>3. \A a, b \in 1 .. v : g[a] = g[b] => a = b
    OBVIOUS
  <2>4. \A y \in Last : \E k \in 1 .. v : g[k] = y
    OBVIOUS
  <2>5. g \in Injection(1 .. v, Last) /\ g \in Surjection(1 .. v, Last)
    <3>1. IsInjective(g)
      BY <2>3 DEF IsInjective, g
    <3>. HIDE DEF g
    <3>2. g \in Injection(1 .. v, Last)
      BY <2>2, <3>1, Zenon DEF Injection
    <3>3. g \in Surjection(1 .. v, Last)
      BY <2>2, <2>4, Zenon DEF Surjection
    <3>. QED BY <3>2, <3>3
  <2>8. g \in Bijection(1 .. v, Last)
    BY <2>5 DEF Bijection
  <2>6. ExistsBijection(1 .. v, Last)
    BY <2>8 DEF ExistsBijection
  <2>7. IsFiniteSet(Last) /\ Cardinality(Last) = Cardinality(1 .. v)
    BY <2>1, <2>6, FS_Bijection
  <2>. QED BY <2>1, <2>7
<1>4. IsFiniteSet(Units(s)) /\ SeqSum(s) \in Nat
  BY SeqSumType
<1>5. Cardinality(Units(s) \cup Last)
        = Cardinality(Units(s)) + Cardinality(Last) - Cardinality(Units(s) \cap Last)
  BY <1>3, <1>4, FS_Union
<1>6. Cardinality(Units(s) \cap Last) = 0
  BY <1>2, FS_EmptySet
<1>7. Cardinality(Units(s) \cup Last) = SeqSum(s) + v
  BY <1>3, <1>4, <1>5, <1>6 DEF SeqSum
<1>. QED BY <1>1, <1>7 DEF SeqSum

\* Appending an output adds its value to the sum of the outputs
LEMMA ValueSumAppend ==
    ASSUME NEW S, NEW xs \in Seq(S), \A i \in 1 .. Len(xs) : xs[i].value \in Int,
           NEW o, o.value \in Nat
    PROVE  ValueSum(Append(xs, o)) = ValueSum(xs) + o.value
<1> DEFINE s == [i \in DOMAIN xs |-> xs[i].value]
           t == [i \in DOMAIN Append(xs, o) |-> Append(xs, o)[i].value]
<1>1. /\ Len(xs) \in Nat /\ DOMAIN s = 1 .. Len(xs)
      /\ DOMAIN t = 1 .. Len(xs) + 1
  BY AppendProperties
<1>2. \A i \in 1 .. Len(xs) : s[i] \in Int /\ t[i] = s[i]
  BY AppendProperties
<1>3. t[Len(xs) + 1] = o.value
  BY AppendProperties
<1>4. ValueSum(Append(xs, o)) = SeqSum(t) /\ ValueSum(xs) = SeqSum(s)
  BY DEF ValueSum
<1>. HIDE DEF s, t
<1>5. SeqSum(t) = SeqSum(s) + o.value
  BY <1>1, <1>2, <1>3, SeqSumAppend
<1>. QED BY <1>4, <1>5

\* The loop's first stopping count, and the outputs selectUTXOs returns for
\* the inputs it took: the targets, then the change when it exceeds 546
FirstStop(utxos, targets) ==
    CHOOSE k \in StopCounts(utxos, targets) : \A j \in StopCounts(utxos, targets) : k <= j

ChangeOutputs(inputs, targets, c) ==
    IF SelectionChange(inputs, targets) > BITCOIN_DUST
    THEN Append(targets, [address |-> c, value |-> SelectionChange(inputs, targets), memo |-> 0])
    ELSE targets

\* The fields of a non-null selection
LEMMA SelectionFields ==
    ASSUME NEW utxos, NEW targets, NEW c, SelectUTXOs(utxos, targets, c) # NoSelection
    PROVE  /\ StopCounts(utxos, targets) # {}
           /\ SelectUTXOs(utxos, targets, c).inputs
                = SubSeq(SortedCandidates(utxos), 1, FirstStop(utxos, targets))
           /\ SelectUTXOs(utxos, targets, c).fee = SelectionFee(FirstStop(utxos, targets), targets)
           /\ SelectUTXOs(utxos, targets, c).outputs
                = ChangeOutputs(SelectUTXOs(utxos, targets, c).inputs, targets, c)
<1> DEFINE k      == FirstStop(utxos, targets)
           inputs == SubSeq(SortedCandidates(utxos), 1, k)
           ch     == SelectionChange(inputs, targets)
<1>1. ~(ValueSum(targets) <= 0 \/ StopCounts(utxos, targets) = {})
  BY DEF SelectUTXOs
<1>2. SelectUTXOs(utxos, targets, c)
        = [inputs  |-> inputs,
           outputs |-> IF ch > BITCOIN_DUST
                       THEN Append(targets, [address |-> c, value |-> ch, memo |-> 0])
                       ELSE targets,
           fee     |-> SelectionFee(k, targets)]
  BY <1>1 DEF SelectUTXOs, FirstStop
<1>. HIDE DEF k, inputs, ch
<1>3. /\ SelectUTXOs(utxos, targets, c).inputs = inputs
      /\ SelectUTXOs(utxos, targets, c).fee = SelectionFee(k, targets)
      /\ SelectUTXOs(utxos, targets, c).outputs
           = IF ch > BITCOIN_DUST
             THEN Append(targets, [address |-> c, value |-> ch, memo |-> 0])
             ELSE targets
  BY <1>2
<1>. QED BY <1>1, <1>3 DEF ch, inputs, k, ChangeOutputs

(***************************************************************************)
(* What a non-null selectUTXOs returns: a list of the candidates (with     *)
(* their scripts defaulted), at least one and at most all of them, whose   *)
(* value covers the targets plus the fee charged for that many inputs,     *)
(* which is the fee it reports.                                            *)
(***************************************************************************)
LEMMA SelectionProperties ==
    ASSUME NEW Ids, NEW A, NEW c,
           NEW utxos \in Seq(UTXO(Ids)), NEW targets \in Seq(TxOutput(A)),
           SelectUTXOs(utxos, targets, c) # NoSelection
    PROVE  /\ SelectUTXOs(utxos, targets, c).inputs \in Seq(UTXO(Ids))
           /\ SelectUTXOs(utxos, targets, c).inputs \in Seq(ValidUTXO(Ids))
           /\ Len(SelectUTXOs(utxos, targets, c).inputs) \in 1 .. Len(utxos)
           /\ ValueSum(SelectUTXOs(utxos, targets, c).inputs)
                  >= ValueSum(targets)
                     + SelectionFee(Len(SelectUTXOs(utxos, targets, c).inputs), targets)
           /\ SelectUTXOs(utxos, targets, c).fee
                  = SelectionFee(Len(SelectUTXOs(utxos, targets, c).inputs), targets)
<1> DEFINE v      == [i \in DOMAIN utxos |-> EnsureValidUTXO(utxos[i])]
           sorted == SortedCandidates(utxos)
           stops  == StopCounts(utxos, targets)
           k      == FirstStop(utxos, targets)
           sel    == SelectUTXOs(utxos, targets, c)
<1>1. v \in Seq(ValidUTXO(Ids)) /\ Len(v) = Len(utxos)
  <2>1. \A i \in 1 .. Len(utxos) : EnsureValidUTXO(utxos[i]) \in ValidUTXO(Ids)
    BY EnsureValidUTXOType
  <2>. QED BY <2>1
<1>2. \A i \in 1 .. Len(v) : v[i].value \in Int
  <2>1. \A i \in 1 .. Len(v) : v[i] \in ValidUTXO(Ids)
    BY <1>1, ElementOfSeq
  <2>. QED BY <2>1 DEF ValidUTXO, UTXO
<1>3. sorted \in Seq(ValidUTXO(Ids)) /\ Len(sorted) = Len(utxos)
  <2>1. SortByValue(v) \in Seq(ValidUTXO(Ids)) /\ Len(SortByValue(v)) = Len(v)
    BY <1>1, <1>2, SortByValueType
  <2>2. sorted = ReverseSeq(SortByValue(v))
    BY DEF SortedCandidates
  <2>. QED BY <1>1, <2>1, <2>2, ReverseSeqType
<1>4. stops # {}
  BY SelectionFields
<1>5. stops \subseteq 1 .. Len(utxos)
  BY <1>3 DEF StopCounts
<1>6. k \in stops /\ \A j \in stops : k <= j
  <2>1. IsFiniteSet(stops)
    BY <1>5, FS_Interval, FS_Subset
  <2>2. \E x \in stops : \A y \in stops : x <= y
    <3>. HIDE DEF stops
    <3>. QED BY <1>4, <1>5, <2>1, LeastElement
  <2>. QED BY <2>2 DEF FirstStop
<1>7. SubSeq(sorted, 1, k) \in Seq(ValidUTXO(Ids)) /\ Len(SubSeq(sorted, 1, k)) = k
  <2>1. k \in 1 .. Len(sorted)
    BY <1>3, <1>5, <1>6
  <2>2. \A i \in 1 .. k : sorted[i] \in ValidUTXO(Ids)
    BY <1>3, <2>1
  <2>. HIDE DEF sorted, k
  <2>. QED BY <2>1, <2>2, SubSeqProperties
<1>8. ValueSum(SubSeq(sorted, 1, k)) >= ValueSum(targets) + SelectionFee(k, targets)
  BY <1>6 DEF StopCounts
<1>9. sel.inputs = SubSeq(sorted, 1, k) /\ sel.fee = SelectionFee(k, targets)
  BY SelectionFields DEF sel, sorted, k
<1>10. /\ sel.inputs \in Seq(ValidUTXO(Ids))
       /\ Len(sel.inputs) \in 1 .. Len(utxos)
       /\ ValueSum(sel.inputs) >= ValueSum(targets) + SelectionFee(Len(sel.inputs), targets)
       /\ sel.fee = SelectionFee(Len(sel.inputs), targets)
  <2>. HIDE DEF sorted, k, sel, stops
  <2>. QED BY <1>5, <1>6, <1>7, <1>8, <1>9
<1>11. sel.inputs \in Seq(UTXO(Ids))
  <2>1. ValidUTXO(Ids) \subseteq UTXO(Ids)
    BY DEF ValidUTXO
  <2>. HIDE DEF sel
  <2>. QED BY <1>10, <2>1, SeqMonotonic
<1>. QED BY <1>10, <1>11

(***************************************************************************)
(* getFee returns a natural number for natural counts and memo lengths.    *)
(***************************************************************************)
LEMMA MemoOutputsType ==
    ASSUME NEW m \in Nat
    PROVE  MemoOutputs(m) \in Nat
<1>1. CASE m > 0
  <2>1. m + 2 + MEMO_OUTPUT_SIZE - 1 \in Nat /\ MEMO_OUTPUT_SIZE \in Nat \ {0}
    BY FeeConstantsAssumption
  <2>. QED BY <1>1, <2>1 DEF MemoOutputs, CeilDiv
<1>2. CASE m = 0
  BY <1>2 DEF MemoOutputs
<1>. QED BY <1>1, <1>2

LEMMA GetFeeType ==
    ASSUME NEW i \in Nat, NEW o \in Nat, NEW m \in Nat
    PROVE  GetFee(i, o, m) \in Nat
<1>1. MemoOutputs(m) \in Nat
  BY MemoOutputsType
<1>2. MaxInt(i, 1) \in Nat /\ MaxInt(o, 2) + MemoOutputs(m) \in Nat
  BY <1>1 DEF MaxInt
<1>. QED BY <1>2, FeeConstantsAssumption DEF GetFee

(***************************************************************************)
(* The accounting of a non-null selection: its fee is the one charged for  *)
(* its inputs, they cover the targets plus that fee, and what they carry   *)
(* beyond the outputs and the fee is at most 546: the whole change goes to *)
(* the change output, or it is at most 546 and is left to the miner.       *)
(***************************************************************************)
LEMMA SelectionAccountingFacts ==
    ASSUME NEW Ids, NEW A, NEW c,
           NEW utxos \in Seq(UTXO(Ids)), NEW targets \in Seq(TxOutput(A)),
           SelectUTXOs(utxos, targets, c) # NoSelection
    PROVE  LET sel      == SelectUTXOs(utxos, targets, c)
               inSum    == ValueSum(sel.inputs)
               leftover == inSum - ValueSum(sel.outputs) - sel.fee
           IN  /\ sel.fee = SelectionFee(Len(sel.inputs), targets)
               /\ inSum >= ValueSum(targets) + sel.fee
               /\ leftover \in 0 .. BITCOIN_DUST
<1> DEFINE sel == SelectUTXOs(utxos, targets, c)
           ch  == SelectionChange(sel.inputs, targets)
           fee == SelectionFee(Len(sel.inputs), targets)
<1>1. /\ sel.inputs \in Seq(UTXO(Ids))
      /\ Len(sel.inputs) \in 1 .. Len(utxos)
      /\ ValueSum(sel.inputs) >= ValueSum(targets) + fee
      /\ sel.fee = fee
  BY SelectionProperties
<1>2. \A i \in 1 .. Len(targets) : targets[i].value \in Int
  <2>1. \A i \in 1 .. Len(targets) : targets[i] \in TxOutput(A)
    BY ElementOfSeq
  <2>. QED BY <2>1 DEF TxOutput
<1>3. /\ ValueSum(sel.inputs) \in Nat /\ ValueSum(targets) \in Nat
      /\ fee \in Nat /\ BITCOIN_DUST \in Nat
  <2>1. \A i \in 1 .. Len(sel.inputs) : sel.inputs[i].value \in Int
    <3>1. \A i \in 1 .. Len(sel.inputs) : sel.inputs[i] \in UTXO(Ids)
      BY <1>1, ElementOfSeq
    <3>. QED BY <3>1 DEF UTXO
  <2>2. MemoSum(targets) \in Nat
    <3>1. \A i \in 1 .. Len(targets) : targets[i].memo \in Int
      <4>1. \A i \in 1 .. Len(targets) : targets[i] \in TxOutput(A)
        BY ElementOfSeq
      <4>. QED BY <4>1 DEF TxOutput
    <3>. QED BY <3>1, MemoSumType
  <2>3. fee \in Nat
    <3>1. Len(sel.inputs) \in Nat /\ Len(targets) + 1 \in Nat
      BY <1>1
    <3>. HIDE DEF sel
    <3>. QED BY <2>2, <3>1, GetFeeType, Zenon DEF SelectionFee
  <2>. QED BY <1>1, <1>2, <2>1, <2>3, ValueSumType, DustConstantAssumption
<1>4. ch = ValueSum(sel.inputs) - (ValueSum(targets) + fee) /\ ch \in Nat
  BY <1>1, <1>3 DEF SelectionChange
<1>5. sel.outputs = IF ch > BITCOIN_DUST
                    THEN Append(targets, [address |-> c, value |-> ch, memo |-> 0])
                    ELSE targets
  BY SelectionFields DEF sel, ch, ChangeOutputs
<1>6. ASSUME ch > BITCOIN_DUST
      PROVE  ValueSum(sel.inputs) - ValueSum(sel.outputs) - sel.fee \in 0 .. BITCOIN_DUST
  <2>1. ValueSum(sel.outputs) = ValueSum(targets) + ch
    <3>1. ValueSum(Append(targets, [address |-> c, value |-> ch, memo |-> 0]))
            = ValueSum(targets) + ch
      BY <1>2, <1>4, ValueSumAppend
    <3>. HIDE DEF sel, ch
    <3>. QED BY <1>5, <1>6, <3>1
  <2>2. sel.fee = fee
    BY <1>1
  <2>. HIDE DEF sel, ch, fee
  <2>3. \A a, t, f, x, o \in Int : x = a - (t + f) /\ o = t + x => a - o - f = 0
    OBVIOUS
  <2>4. ValueSum(sel.inputs) - ValueSum(sel.outputs) - fee = 0
    BY <1>3, <1>4, <2>1, <2>3
  <2>. QED BY <1>3, <2>2, <2>4
<1>7. ASSUME ~(ch > BITCOIN_DUST)
      PROVE  ValueSum(sel.inputs) - ValueSum(sel.outputs) - sel.fee \in 0 .. BITCOIN_DUST
  <2>1. ValueSum(sel.outputs) = ValueSum(targets)
    <3>. HIDE DEF sel, ch
    <3>. QED BY <1>5, <1>7
  <2>2. sel.fee = fee
    BY <1>1
  <2>. HIDE DEF sel, ch, fee
  <2>. QED BY <1>3, <1>4, <1>7, <2>1, <2>2
<1>. QED BY <1>1, <1>6, <1>7
==============================================================================
