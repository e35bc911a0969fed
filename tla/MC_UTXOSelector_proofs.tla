------------------------ MODULE MC_UTXOSelector_proofs ------------------------
(***************************************************************************)
(* Proofs about the repeated selectUTXOs calls of MC_UTXOSelector, for     *)
(* every value of its constants: each state holds the result of the call   *)
(* on its own arguments, and that result keeps the accounting of a         *)
(* selection.  The facts about one call come from UTXOSelector_proofs.     *)
(***************************************************************************)
EXTENDS MC_UTXOSelector, SelectionOrder_proofs

\* Every state is the result of one selectUTXOs call on its arguments
SelectionOfArgs ==
    /\ utxos \in CandidateLists
    /\ targets \in TargetLists
    /\ selection = SelectUTXOs(utxos, targets, ChangeAddr)

LEMMA SelectionOfArgsInvariant == Spec => []SelectionOfArgs
<1>1. Init => SelectionOfArgs
  BY DEF Init, SelectionOfArgs
<1>2. SelectionOfArgs /\ [Next]_vars => SelectionOfArgs'
  BY DEF SelectionOfArgs, Next, Select, vars
<1>. QED BY <1>1, <1>2, PTL DEF Spec

\* The candidate lists are lists of UTXOs, the target lists lists of outputs
LEMMA CandidateListsType == CandidateLists \subseteq Seq(UTXO(TxIds))
<1>1. Pool \subseteq UTXO(TxIds)
  BY DEF Pool, UTXO, TxIds, Scripts, OwnScript, NoScript
<1>2. ASSUME NEW n \in 0 .. MaxCandidates, NEW s \in [1 .. n -> Pool]
      PROVE  s \in Seq(UTXO(TxIds))
  BY <1>1
<1>. QED BY <1>2 DEF CandidateLists

LEMMA TargetListsType == TargetLists \subseteq Seq(TxOutput({Dest}))
BY DEF TargetLists, TxOutput

(***************************************************************************)
(* Accounting of a selection (selectUTXOs, the accumulation loop and the   *)
(* change test after it): whatever the candidates and targets, a non-null *)
(* selection charges the fee for its number of inputs, its inputs cover    *)
(* the targets plus that fee, and at most 546 zatoshis beyond the outputs  *)
(* and the fee go to the miner.                                            *)
(***************************************************************************)
THEOREM AccountingHolds == Spec => []SelectionAccounting
<1>1. SelectionOfArgs => SelectionAccounting
  <2> SUFFICES ASSUME SelectionOfArgs, selection # NoSelection
               PROVE  SelectionAccounting
    BY DEF SelectionAccounting
  <2>1. utxos \in Seq(UTXO(TxIds)) /\ targets \in Seq(TxOutput({Dest}))
    BY CandidateListsType, TargetListsType DEF SelectionOfArgs
  <2>2. SelectUTXOs(utxos, targets, ChangeAddr) # NoSelection
    BY DEF SelectionOfArgs
  <2>3. LET sel      == SelectUTXOs(utxos, targets, ChangeAddr)
            inSum    == ValueSum(sel.inputs)
            leftover == inSum - ValueSum(sel.outputs) - sel.fee
        IN  /\ sel.fee = SelectionFee(Len(sel.inputs), targets)
            /\ inSum >= ValueSum(targets) + sel.fee
            /\ leftover \in 0 .. BITCOIN_DUST
    BY <2>1, <2>2, SelectionAccountingFacts
  <2>. QED BY <2>3 DEF SelectionOfArgs, SelectionAccounting
<1>. QED BY <1>1, SelectionOfArgsInvariant, PTL

\* What one call on the model's candidates and targets returns
LEMMA CallFacts ==
    ASSUME NEW u \in Seq(UTXO(TxIds)), NEW t \in Seq(TxOutput({Dest})),
           SelectUTXOs(u, t, ChangeAddr) # NoSelection
    PROVE  /\ SelectUTXOs(u, t, ChangeAddr).inputs \in Seq(UTXO(TxIds))
           /\ SelectUTXOs(u, t, ChangeAddr).inputs \in Seq(ValidUTXO(TxIds))
           /\ Len(SelectUTXOs(u, t, ChangeAddr).inputs) \in 1 .. Len(u)
           /\ ValueSum(SelectUTXOs(u, t, ChangeAddr).inputs)
                >= ValueSum(t) + SelectionFee(Len(SelectUTXOs(u, t, ChangeAddr).inputs), t)
           /\ SelectUTXOs(u, t, ChangeAddr).fee
                = SelectionFee(Len(SelectUTXOs(u, t, ChangeAddr).inputs), t)
BY SelectionProperties

(***************************************************************************)
(* Type correctness: a non-null selection spends UTXOs that all carry a    *)
(* script, since selectUTXOs runs ensureValidUTXO on every candidate       *)
(* before it sorts them, and charges a fee that is a natural number.       *)
(***************************************************************************)
THEOREM TypeCorrect == Spec => []TypeOK
<1>1. SelectionOfArgs => TypeOK
  <2> SUFFICES ASSUME SelectionOfArgs, selection # NoSelection
               PROVE  selection.inputs \in Seq(ValidUTXO(TxIds)) /\ selection.fee \in Nat
    BY DEF SelectionOfArgs, TypeOK
  <2>1. utxos \in Seq(UTXO(TxIds)) /\ targets \in Seq(TxOutput({Dest}))
    BY CandidateListsType, TargetListsType DEF SelectionOfArgs
  <2>2. /\ selection.inputs \in Seq(ValidUTXO(TxIds))
        /\ Len(selection.inputs) \in 1 .. Len(utxos)
        /\ selection.fee = SelectionFee(Len(selection.inputs), targets)
    <3>1. /\ selection = SelectUTXOs(utxos, targets, ChangeAddr)
          /\ SelectUTXOs(utxos, targets, ChangeAddr) # NoSelection
      BY DEF SelectionOfArgs
    <3>2. /\ SelectUTXOs(utxos, targets, ChangeAddr).inputs \in Seq(UTXO(TxIds))
          /\ SelectUTXOs(utxos, targets, ChangeAddr).inputs \in Seq(ValidUTXO(TxIds))
          /\ Len(SelectUTXOs(utxos, targets, ChangeAddr).inputs) \in 1 .. Len(utxos)
          /\ ValueSum(SelectUTXOs(utxos, targets, ChangeAddr).inputs)
               >= ValueSum(targets)
                  + SelectionFee(Len(SelectUTXOs(utxos, targets, ChangeAddr).inputs), targets)
          /\ SelectUTXOs(utxos, targets, ChangeAddr).fee
               = SelectionFee(Len(SelectUTXOs(utxos, targets, ChangeAddr).inputs), targets)
      BY <2>1, <3>1, CallFacts
    <3>. QED BY <3>1, <3>2
  <2>3. MemoSum(targets) \in Nat
    <3>1. \A i \in 1 .. Len(targets) : targets[i] \in TxOutput({Dest})
      BY <2>1, ElementOfSeq
    <3>. QED BY <2>1, <3>1, MemoSumType DEF TxOutput
  <2>4. SelectionFee(Len(selection.inputs), targets) \in Nat
    <3>1. Len(selection.inputs) \in Nat /\ Len(targets) + 1 \in Nat
      BY <2>1, <2>2
    <3>. QED BY <2>3, <3>1, GetFeeType, Zenon DEF SelectionFee
  <2>. QED BY <2>2, <2>4
<1>. QED BY <1>1, SelectionOfArgsInvariant, PTL

(***************************************************************************)
(* Minimality of the largest-first loop (selectUTXOs, sortBy(..).reverse() *)
(* and the first-stop loop): whatever the candidates, no set of fewer      *)
(* candidates than a non-null selection spends covers the targets plus the *)
(* fee for its own size.                                                   *)
(***************************************************************************)
THEOREM MinimalHolds == Spec => []SelectionMinimal
<1>1. SelectionOfArgs => SelectionMinimal
  <2> SUFFICES ASSUME SelectionOfArgs, selection # NoSelection,
                      NEW I \in SUBSET DOMAIN utxos,
                      Cardinality(I) < Len(selection.inputs)
               PROVE  IndexSetValue(I) < ValueSum(targets) + SelectionFee(Cardinality(I), targets)
    BY DEF SelectionMinimal
  <2>1. utxos \in Seq(UTXO(TxIds)) /\ targets \in Seq(TxOutput({Dest}))
    BY CandidateListsType, TargetListsType DEF SelectionOfArgs
  <2>2. /\ SelectUTXOs(utxos, targets, ChangeAddr) # NoSelection
        /\ Cardinality(I) < Len(SelectUTXOs(utxos, targets, ChangeAddr).inputs)
    BY DEF SelectionOfArgs
  <2>3. SeqSum(EntriesAt(Values(utxos), I))
          < ValueSum(targets) + SelectionFee(Cardinality(I), targets)
    BY <2>1, <2>2, NoShorterCover
  <2>4. IndexSetValue(I) = SeqSum(EntriesAt(Values(utxos), I))
    BY DEF IndexSetValue, EntriesAt, Values
  <2>. QED BY <2>3, <2>4
<1>. QED BY <1>1, SelectionOfArgsInvariant, PTL

-----------------------------------------------------------------------------
\* The operators SelectionSpec takes from TxTypes and FeeModel are, seen
\* through the instance Abs, the ones of this module
LEMMA AbsOperators ==
    /\ \A X : Abs!Cardinality(X) = Cardinality(X)
    /\ \A f : Abs!SeqSum(f) = SeqSum(f)
    /\ \A xs : Abs!ValueSum(xs) = ValueSum(xs)
    /\ \A xs : Abs!MemoSum(xs) = MemoSum(xs)
    /\ \A i, o, m : Abs!GetFee(i, o, m) = GetFee(i, o, m)
<1>1. \A X : Abs!Cardinality(X) = Cardinality(X)
  BY DEF Abs!Cardinality, Cardinality
<1>2. \A f : Abs!SeqSum(f) = SeqSum(f)
  BY <1>1 DEF Abs!SeqSum, SeqSum, Abs!Units, Units
<1>3. \A xs : Abs!ValueSum(xs) = ValueSum(xs) /\ Abs!MemoSum(xs) = MemoSum(xs)
  BY <1>2 DEF Abs!ValueSum, ValueSum, Abs!MemoSum, MemoSum
<1>4. \A i, o, m : Abs!GetFee(i, o, m) = GetFee(i, o, m)
  BY DEF Abs!GetFee, GetFee, Abs!MaxInt, MaxInt, Abs!MemoOutputs, MemoOutputs,
         Abs!CeilDiv, CeilDiv
<1>. QED BY <1>1, <1>2, <1>3, <1>4

-----------------------------------------------------------------------------
\* The positions of a list of n entries are n
LEMMA IntervalSize ==
    ASSUME NEW n \in Nat
    PROVE  IsFiniteSet(1 .. n) /\ Cardinality(1 .. n) = n
<1>1. IsFiniteSet(1 .. n) /\ Cardinality(1 .. n) = IF 1 > n THEN 0 ELSE n - 1 + 1
  BY FS_Interval
<1>. QED BY <1>1

\* The sums and fees of a target list are natural numbers
LEMMA TargetSums ==
    ASSUME NEW t \in Seq(TxOutput({Dest}))
    PROVE  /\ ValueSum(t) \in Nat /\ MemoSum(t) \in Nat
           /\ \A j \in Nat : SelectionFee(j, t) \in Nat
<1>1. \A i \in 1 .. Len(t) : t[i].value \in Int /\ t[i].memo \in Int
  <2>1. \A i \in 1 .. Len(t) : t[i] \in TxOutput({Dest})
    BY ElementOfSeq
  <2>. QED BY <2>1 DEF TxOutput
<1>2. ValueSum(t) \in Nat /\ MemoSum(t) \in Nat
  BY <1>1, ValueSumType, MemoSumType
<1>3. ASSUME NEW j \in Nat PROVE SelectionFee(j, t) \in Nat
  <2>1. Len(t) + 1 \in Nat
    OBVIOUS
  <2>. QED BY <1>2, <2>1, GetFeeType DEF SelectionFee
<1>. QED BY <1>2, <1>3

(***************************************************************************)
(* Refinement of SelectionSpec.  A set S of positions "covers" when the    *)
(* candidates at S pay the targets plus the fee for |S| inputs.  When no   *)
(* prefix of sortBy(..).reverse() covers (the loop of selectUTXOs runs     *)
(* out), no set covers at all: a set of m candidates is worth at most the  *)
(* prefix of length m (TopSum), so that prefix would have stopped the loop.*)
(***************************************************************************)
LEMMA NoCoverWithoutStop ==
    ASSUME NEW u \in Seq(UTXO(TxIds)), NEW t \in Seq(TxOutput({Dest})),
           StopCounts(u, t) = {},
           NEW S \in SUBSET DOMAIN u, Abs!Covers(u, t, S)
    PROVE  FALSE
<1> DEFINE m == Cardinality(S)
           pre == SubSeq(SortedCandidates(u), 1, m)
<1>1. DOMAIN u = 1 .. Len(u) /\ Len(u) \in Nat /\ IsFiniteSet(S) /\ m \in 1 .. Len(u)
  <2>1. DOMAIN u = 1 .. Len(u) /\ Len(u) \in Nat
    BY LenProperties
  <2>2. IsFiniteSet(1 .. Len(u)) /\ Cardinality(1 .. Len(u)) = Len(u)
    BY <2>1, IntervalSize
  <2>3. IsFiniteSet(S) /\ m <= Len(u)
    BY <2>1, <2>2, FS_Subset
  <2>4. S # {}
    BY DEF Abs!Covers
  <2>5. m \in Nat /\ m # 0
    BY <2>3, <2>4, FS_EmptySet, FS_CardinalityType
  <2>. QED BY <2>1, <2>3, <2>5
<1>2. SortedCandidates(u) \in Seq(ValidUTXO(TxIds)) /\ Len(SortedCandidates(u)) = Len(u)
  BY SortedCandidatesType
<1>3. Abs!SetValue(u, S) <= ValueSum(pre)
  <2>1. Abs!SetValue(u, S) = SeqSum(EntriesAt(Values(u), S))
    BY AbsOperators DEF Abs!SetValue, EntriesAt, Values
  <2>2. SeqSum(EntriesAt(Values(u), S)) <= ValueSum(pre)
    BY TopSum
  <2>. QED BY <2>1, <2>2
<1>4. Abs!SetValue(u, S) >= ValueSum(t) + SelectionFee(m, t)
  BY AbsOperators DEF Abs!Covers, Abs!FeeFor, SelectionFee
<1>5. /\ Abs!SetValue(u, S) \in Nat /\ ValueSum(pre) \in Nat
      /\ ValueSum(t) \in Nat /\ SelectionFee(m, t) \in Nat
  <2>1. Abs!SetValue(u, S) \in Nat
    <3>1. \A i \in S : u[i] \in UTXO(TxIds)
      BY <1>1, ElementOfSeq
    <3>2. \A i \in S : u[i].value \in Nat
      BY <3>1 DEF UTXO
    <3>3. SeqSum([i \in S |-> u[i].value]) \in Nat
      BY <1>1, <3>2, SumFinite
    <3>. QED BY <3>3, AbsOperators DEF Abs!SetValue
  <2>2. ValueSum(pre) \in Nat
    <3>1. \A i \in 1 .. m : SortedCandidates(u)[i] \in ValidUTXO(TxIds)
      BY <1>1, <1>2, ElementOfSeq
    <3>2. pre \in Seq(ValidUTXO(TxIds)) /\ Len(pre) = m
      <4>. HIDE DEF pre
      <4>. QED BY <1>1, <3>1, SubSeqProperties DEF pre
    <3>3. \A i \in 1 .. Len(pre) : pre[i].value \in Int
      BY <3>2, ElementOfSeq DEF ValidUTXO, UTXO
    <3>. HIDE DEF pre
    <3>. QED BY <3>2, <3>3, ValueSumType
  <2>3. ValueSum(t) \in Nat /\ MemoSum(t) \in Nat
    BY TargetSums
  <2>4. SelectionFee(m, t) \in Nat
    <3>1. m \in Nat
      BY <1>1
    <3>. QED BY <3>1, TargetSums
  <2>. QED BY <2>1, <2>2, <2>3, <2>4
<1>6. m \in StopCounts(u, t)
  <2>1. ValueSum(pre) >= ValueSum(t) + SelectionFee(m, t)
    <3>. HIDE DEF pre, m
    <3>. QED BY <1>3, <1>4, <1>5
  <2>. QED BY <1>1, <1>2, <2>1 DEF StopCounts
<1>. QED BY <1>6

\* A result of selectUTXOs as the refinement mapping AbsChosen sees it
ChosenOf(sel) ==
    IF sel = NoSelection THEN [null |-> TRUE]
    ELSE [inputs  |-> {sel.inputs[i] : i \in DOMAIN sel.inputs},
          outputs |-> sel.outputs,
          fee     |-> sel.fee]

(***************************************************************************)
(* A non-null selection of k inputs is the promised answer for the set of  *)
(* the k highest-ranked positions: that set is largest-first, covers, and  *)
(* no covering set is smaller (NoShorterCover); the inputs are its         *)
(* candidates with their scripts defaulted, and the fee and the change     *)
(* output are those SelectionSpec computes for it.                         *)
(***************************************************************************)
LEMMA SelectionIsAnswer ==
    ASSUME NEW u \in Seq(UTXO(TxIds)), NEW t \in Seq(TxOutput({Dest})),
           SelectUTXOs(u, t, ChangeAddr) # NoSelection
    PROVE  LET S == TopPositions(u, FirstStop(u, t))
           IN  /\ S \in Abs!Answers(u, t)
               /\ ChosenOf(SelectUTXOs(u, t, ChangeAddr))
                    = [inputs  |-> {Abs!Spendable(u[i]) : i \in S},
                       outputs |-> Abs!OutputsFor(u, t, S),
                       fee     |-> Abs!FeeFor(Cardinality(S), t)]
<1> DEFINE sel == SelectUTXOs(u, t, ChangeAddr)
           k   == FirstStop(u, t)
           S   == TopPositions(u, k)
           pre == SubSeq(SortedCandidates(u), 1, k)
<1>1. /\ k \in StopCounts(u, t)
      /\ \A j \in StopCounts(u, t) : k <= j
      /\ StopCounts(u, t) \subseteq 1 .. Len(u)
      /\ Len(SortedCandidates(u)) = Len(u)
      /\ SortedCandidates(u) \in Seq(ValidUTXO(TxIds))
      /\ Len(sel.inputs) = k
      /\ ValueSum(t) > 0
  BY FirstStopLeast
<1>2. k \in 0 .. Len(u) /\ k # 0
  BY <1>1
<1>3. /\ S \subseteq DOMAIN u
      /\ Cardinality(S) = k
      /\ \A i \in S, j \in DOMAIN u \ S : u[j].value <= u[i].value
      /\ ValueSum(pre) = SeqSum(EntriesAt(Values(u), S))
      /\ {pre[x] : x \in 1 .. k} = {EnsureValidUTXO(u[i]) : i \in S}
  <2>. HIDE DEF k
  <2>. QED BY <1>2, PrefixIsTop
<1>4. /\ sel.inputs = pre
      /\ sel.fee = SelectionFee(k, t)
      /\ sel.outputs = ChangeOutputs(sel.inputs, t, ChangeAddr)
  BY SelectionFields
<1>5. Abs!SetValue(u, S) = ValueSum(pre)
  BY <1>3, AbsOperators DEF Abs!SetValue, EntriesAt, Values
<1>6. Abs!FeeFor(Cardinality(S), t) = SelectionFee(k, t)
  BY <1>3, AbsOperators DEF Abs!FeeFor, SelectionFee
<1>7. ValueSum(pre) >= ValueSum(t) + SelectionFee(k, t)
  BY <1>1 DEF StopCounts
<1>8. S # {}
  BY <1>2, <1>3, FS_EmptySet
<1>9. /\ ValueSum(t) \in Nat /\ MemoSum(t) \in Nat
      /\ \A j \in Nat : SelectionFee(j, t) \in Nat
  BY TargetSums
<1>10. Abs!Covers(u, t, S) /\ Abs!LargestFirst(u, S)
  <2>1. Abs!Covers(u, t, S)
    <3>. HIDE DEF S, pre, k
    <3>. QED BY <1>5, <1>6, <1>7, <1>8, AbsOperators DEF Abs!Covers
  <2>2. Abs!LargestFirst(u, S)
    BY <1>3 DEF Abs!LargestFirst
  <2>. QED BY <2>1, <2>2
<1>11. ASSUME NEW T \in SUBSET DOMAIN u
       PROVE  Abs!Covers(u, t, T) => k <= Cardinality(T)
  <2>. DEFINE c == Cardinality(T)
              val == SeqSum(EntriesAt(Values(u), T))
  <2>0. HAVE Abs!Covers(u, t, T)
  <2>1. IsFiniteSet(T) /\ c \in Nat
    <3>1. DOMAIN u = 1 .. Len(u) /\ Len(u) \in Nat
      BY LenProperties
    <3>2. IsFiniteSet(1 .. Len(u))
      BY <3>1, IntervalSize
    <3>. QED BY <3>1, <3>2, FS_Subset, FS_CardinalityType
  <2>2. val \in Nat
    <3>1. \A i \in T : u[i] \in UTXO(TxIds)
      BY ElementOfSeq
    <3>2. \A i \in T : EntriesAt(Values(u), T)[i] \in Nat
      BY <3>1 DEF UTXO, EntriesAt, Values
    <3>3. DOMAIN EntriesAt(Values(u), T) = T
      BY DEF EntriesAt
    <3>. HIDE DEF EntriesAt
    <3>. QED BY <2>1, <3>2, <3>3, SumFinite
  <2>3. val >= ValueSum(t) + SelectionFee(c, t)
    <3>1. Abs!SetValue(u, T) = val
      BY AbsOperators DEF Abs!SetValue, EntriesAt, Values
    <3>2. Abs!FeeFor(c, t) = SelectionFee(c, t)
      BY AbsOperators DEF Abs!FeeFor, SelectionFee
    <3>3. Abs!SetValue(u, T) >= ValueSum(t) + Abs!FeeFor(c, t)
      <4>1. Abs!SetValue(u, T) >= Abs!ValueSum(t) + Abs!FeeFor(Abs!Cardinality(T), t)
        BY <2>0 DEF Abs!Covers
      <4>2. Abs!ValueSum(t) = ValueSum(t) /\ Abs!Cardinality(T) = c
        BY AbsOperators
      <4>. QED BY <4>1, <4>2
    <3>. HIDE DEF val, c
    <3>. QED BY <3>1, <3>2, <3>3
  <2>4. SUFFICES ASSUME c < k PROVE FALSE
    BY <2>1, <1>2
  <2>5. val < ValueSum(t) + SelectionFee(c, t)
    <3>1. c < Len(sel.inputs)
      BY <2>4, <1>1
    <3>. HIDE DEF k
    <3>. QED BY <3>1, NoShorterCover
  <2>6. SelectionFee(c, t) \in Nat
    BY <2>1, <1>9
  <2>. HIDE DEF val, c
  <2>. QED BY <2>2, <2>3, <2>5, <2>6, <1>9
<1>12. S \in Abs!Answers(u, t)
  <2>. HIDE DEF S, k
  <2>. QED BY <1>3, <1>10, <1>11, AbsOperators DEF Abs!Answers
<1>13. {sel.inputs[x] : x \in DOMAIN sel.inputs} = {Abs!Spendable(u[i]) : i \in S}
  <2>1. DOMAIN pre = 1 .. k
    BY <1>1, <1>2
  <2>2. ASSUME NEW i \in S PROVE EnsureValidUTXO(u[i]) = Abs!Spendable(u[i])
    <3>1. u[i] \in UTXO(TxIds)
      BY <1>3, ElementOfSeq
    <3>. QED BY <3>1 DEF EnsureValidUTXO, Abs!Spendable, UTXO, Scripts, Abs!NoScript,
                         NoScript, Abs!PlaceholderScript, PlaceholderScript, OwnScript
  <2>. HIDE DEF pre, S
  <2>. QED BY <1>3, <1>4, <2>1, <2>2
<1>14. sel.outputs = Abs!OutputsFor(u, t, S)
  <2>1. SelectionChange(pre, t)
          = Abs!SetValue(u, S) - (Abs!ValueSum(t) + Abs!FeeFor(Abs!Cardinality(S), t))
    <3>1. Len(pre) = k
      BY <1>1, <1>2
    <3>2. Abs!ValueSum(t) = ValueSum(t) /\ Abs!Cardinality(S) = Cardinality(S)
      BY AbsOperators
    <3>. HIDE DEF pre, S, k
    <3>. QED BY <1>5, <1>6, <3>1, <3>2 DEF SelectionChange
  <2>. HIDE DEF pre, S, k, sel
  <2>. QED BY <1>4, <2>1 DEF ChangeOutputs, Abs!OutputsFor
<1>15. sel.fee = Abs!FeeFor(Cardinality(S), t)
  BY <1>4, <1>6
<1>. QED BY <1>12, <1>13, <1>14, <1>15 DEF ChosenOf

(***************************************************************************)
(* Each selectUTXOs call returns what SelectionSpec promises for its       *)
(* arguments: null when the targets sum to zero or nothing covers (the     *)
(* loop runs out only then, NoCoverWithoutStop), and otherwise the answer  *)
(* for a largest-first covering set of the least size.                     *)
(***************************************************************************)
LEMMA ChosenPromised ==
    ASSUME NEW u \in Seq(UTXO(TxIds)), NEW t \in Seq(TxOutput({Dest}))
    PROVE  ChosenOf(SelectUTXOs(u, t, ChangeAddr)) \in Abs!Promised(u, t)
<1> DEFINE sel == SelectUTXOs(u, t, ChangeAddr)
<1>0. Abs!ValueSum(t) = ValueSum(t)
  BY AbsOperators
<1>1. CASE sel = NoSelection
  <2>1. ValueSum(t) <= 0 \/ StopCounts(u, t) = {}
    <3>. SUFFICES ASSUME ~(ValueSum(t) <= 0 \/ StopCounts(u, t) = {}) PROVE FALSE
      OBVIOUS
    <3>1. DOMAIN sel = {"inputs", "outputs", "fee"}
      BY DEF SelectUTXOs
    <3>. QED BY <1>1, <3>1 DEF NoSelection
  <2>2. ValueSum(t) <= 0 \/ Abs!Answers(u, t) = {}
    <3>1. CASE StopCounts(u, t) = {}
      <4>. SUFFICES ASSUME NEW S \in Abs!Answers(u, t) PROVE FALSE
        OBVIOUS
      <4>1. S \in SUBSET DOMAIN u /\ Abs!Covers(u, t, S)
        BY DEF Abs!Answers
      <4>. QED BY <3>1, <4>1, NoCoverWithoutStop
    <3>. QED BY <2>1, <3>1
  <2>3. Abs!Promised(u, t) = {Abs!NoChoice}
    BY <1>0, <2>2 DEF Abs!Promised
  <2>. QED BY <1>1, <2>3 DEF ChosenOf, Abs!NoChoice
<1>2. CASE sel # NoSelection
  <2>. DEFINE S == TopPositions(u, FirstStop(u, t))
  <2>1. /\ S \in Abs!Answers(u, t)
        /\ ChosenOf(sel) = [inputs  |-> {Abs!Spendable(u[i]) : i \in S},
                            outputs |-> Abs!OutputsFor(u, t, S),
                            fee     |-> Abs!FeeFor(Cardinality(S), t)]
    BY <1>2, SelectionIsAnswer
  <2>2. ValueSum(t) > 0 /\ ValueSum(t) \in Nat
    BY <1>2, FirstStopLeast, TargetSums
  <2>3. ~(Abs!ValueSum(t) <= 0 \/ Abs!Answers(u, t) = {})
    BY <1>0, <2>1, <2>2
  <2>4. Abs!Cardinality(S) = Cardinality(S)
    BY AbsOperators
  <2>. HIDE DEF S
  <2>5. ChosenOf(sel) \in {[inputs  |-> {Abs!Spendable(u[i]) : i \in S1},
                            outputs |-> Abs!OutputsFor(u, t, S1),
                            fee     |-> Abs!FeeFor(Abs!Cardinality(S1), t)]
                           : S1 \in Abs!Answers(u, t)}
    BY <2>1, <2>4
  <2>. QED BY <2>3, <2>5 DEF Abs!Promised
<1>. QED BY <1>1, <1>2

(***************************************************************************)
(* Refinement: the repeated selectUTXOs calls of MC_UTXOSelector implement *)
(* SelectionSpec under the mapping AbsChosen, for every value of the       *)
(* constants.  The loop over sortBy(..).reverse() with its first stop, its *)
(* fee and its change test return one of the answers the declarative spec  *)
(* allows, and null exactly when it allows only null.                      *)
(***************************************************************************)
THEOREM Refinement == Spec => SelectionRefinesPromise
<1>1. ASSUME NEW u \in CandidateLists, NEW t \in TargetLists
      PROVE  ChosenOf(SelectUTXOs(u, t, ChangeAddr)) \in Abs!Promised(u, t)
  BY CandidateListsType, TargetListsType, ChosenPromised
<1>2. Init => Abs!AbsInit
  BY <1>1 DEF Init, Abs!AbsInit, AbsChosen, ChosenOf
<1>3. [Next]_vars => [Abs!AbsNext]_Abs!absvars
  <2>1. CASE Next
    <3>1. PICK u \in CandidateLists, t \in TargetLists :
            /\ utxos' = u
            /\ targets' = t
            /\ selection' = SelectUTXOs(u, t, ChangeAddr)
      BY <2>1 DEF Next, Select
    <3>2. AbsChosen' = ChosenOf(SelectUTXOs(u, t, ChangeAddr))
      BY <3>1 DEF AbsChosen, ChosenOf
    <3>. QED BY <1>1, <3>1, <3>2 DEF Abs!AbsNext
  <2>2. CASE UNCHANGED vars
    BY <2>2 DEF vars, Abs!absvars, AbsChosen
  <2>. QED BY <2>1, <2>2
<1>. QED BY <1>2, <1>3, PTL DEF Spec, SelectionRefinesPromise, Abs!AbsSpec

==============================================================================
