---------------------- MODULE TransactionBuilder_proofs ----------------------
(***************************************************************************)
(* Proofs about the TransactionBuilder: every reachable state is well      *)
(* typed, every BuildResult conserves value, and inputs chosen by          *)
(* selectUTXOs("accumulative") pay for what build() charges.  The facts    *)
(* about the selector and the sums come from UTXOSelector_proofs.          *)
(***************************************************************************)
EXTENDS TransactionBuilder, UTXOSelector_proofs

(***************************************************************************)
(* getFee grows with the output count and with the memo bytes: the fee the *)
(* selector charges for targets.length + 1 outputs and the targets' memos  *)
(* is at least what build() charges for at most one output more than the  *)
(* targets and no memo.                                                    *)
(***************************************************************************)
LEMMA GetFeeMonotone ==
    ASSUME NEW i \in Nat, NEW o1 \in Nat, NEW o2 \in Nat, NEW m \in Nat, o1 <= o2
    PROVE  GetFee(i, o1, 0) <= GetFee(i, o2, m)
<1>1. MemoOutputs(m) \in Nat /\ MemoOutputs(0) = 0
  BY MemoOutputsType DEF MemoOutputs
<1>2. MaxInt(o1, 2) + MemoOutputs(0) <= MaxInt(o2, 2) + MemoOutputs(m)
  BY <1>1 DEF MaxInt
<1>3. MaxInt(o1, 2) + MemoOutputs(0) \in Nat /\ MaxInt(o2, 2) + MemoOutputs(m) \in Nat
  BY <1>1 DEF MaxInt
<1>4. \A a, b \in Nat : a <= b => a * MARGINAL_FEE <= b * MARGINAL_FEE
  BY FeeConstantsAssumption
<1>5. (MaxInt(o1, 2) + MemoOutputs(0)) * MARGINAL_FEE
        <= (MaxInt(o2, 2) + MemoOutputs(m)) * MARGINAL_FEE
  BY <1>2, <1>3, <1>4
<1>6. /\ GetFee(i, o1, 0) = MaxInt(i, 1) * MARGINAL_FEE
                            + (MaxInt(o1, 2) + MemoOutputs(0)) * MARGINAL_FEE
                            + BASE_RELAY_FEE
      /\ GetFee(i, o2, m) = MaxInt(i, 1) * MARGINAL_FEE
                            + (MaxInt(o2, 2) + MemoOutputs(m)) * MARGINAL_FEE
                            + BASE_RELAY_FEE
  BY DEF GetFee
<1>7. MaxInt(i, 1) * MARGINAL_FEE \in Int /\ BASE_RELAY_FEE \in Int
  BY FeeConstantsAssumption DEF MaxInt
<1>. QED BY <1>3, <1>5, <1>6, <1>7, FeeConstantsAssumption

\* The sums build() takes over the inputs and the outputs are naturals
LEMMA ValueSumOfUtxos ==
    ASSUME NEW xs \in Seq(UTXO(UtxoIds))
    PROVE  ValueSum(xs) \in Nat
<1>1. \A i \in 1 .. Len(xs) : xs[i].value \in Int
  <2>1. \A i \in 1 .. Len(xs) : xs[i] \in UTXO(UtxoIds)
    BY ElementOfSeq
  <2>. QED BY <2>1 DEF UTXO
<1>. QED BY <1>1, ValueSumType

LEMMA ValueSumOfOutputs ==
    ASSUME NEW xs \in Seq(Outputs)
    PROVE  ValueSum(xs) \in Nat
<1>1. \A i \in 1 .. Len(xs) : xs[i].value \in Int
  <2>1. \A i \in 1 .. Len(xs) : xs[i] \in Outputs
    BY ElementOfSeq
  <2>. QED BY <2>1 DEF Outputs, TxOutput
<1>. QED BY <1>1, ValueSumType

(***************************************************************************)
(* In a well-typed builder the totals, the estimate, the change and the    *)
(* final fee build() computes are integers, and the final outputs are      *)
(* outputs.                                                                *)
(***************************************************************************)
LEMMA BuildValuesType ==
    ASSUME TypeOK
    PROVE  /\ TotalInput \in Nat
           /\ TotalOutput \in Nat
           /\ EstimatedFee \in Nat
           /\ Change \in Int
           /\ FinalOutputs \in Seq(Outputs)
           /\ ValueSum(FinalOutputs) \in Nat
           /\ FinalFee \in Int
<1>1. TotalInput \in Nat /\ TotalOutput \in Nat
  BY ValueSumOfUtxos, ValueSumOfOutputs DEF TypeOK, TotalInput, TotalOutput
<1>2. EstimatedFee \in Nat
  <2>1. Len(inputs) \in Nat /\ OutputCount \in Nat
    BY DEF TypeOK, OutputCount
  <2>. QED BY <2>1, GetFeeType DEF EstimatedFee
<1>3. Change \in Int
  BY <1>1, <1>2 DEF Change
<1>4. FinalOutputs \in Seq(Outputs)
  <2>1. CASE AddsChange
    <3>1. [address |-> changeAddress, value |-> Change, memo |-> 0] \in Outputs
      BY <2>1, <1>3 DEF AddsChange, TypeOK, Outputs, TxOutput
    <3>. QED BY <2>1, <3>1, AppendProperties DEF FinalOutputs, TypeOK
  <2>2. CASE ~AddsChange
    BY <2>2 DEF FinalOutputs, TypeOK
  <2>. QED BY <2>1, <2>2
<1>5. ValueSum(FinalOutputs) \in Nat
  BY <1>4, ValueSumOfOutputs
<1>. QED BY <1>1, <1>2, <1>3, <1>4, <1>5 DEF FinalFee

\* A list the caller passes to addInputs or selectUTXOs is a list of UTXOs
LEMMA CandidateListType ==
    ASSUME NEW cs \in CandidateLists
    PROVE  cs \in Seq(UTXO(UtxoIds))
<1>1. cs \in Seq(Utxos) /\ Utxos \subseteq UTXO(UtxoIds)
  BY BuilderAssumption
<1>. QED BY <1>1, SeqMonotonic

(***************************************************************************)
(* Type correctness: every method of the builder, whether it returns or    *)
(* throws, and sign() on the BuildResult the caller holds, keep the fields *)
(* and the caller's results well typed.  Its induction step rests on the   *)
(* selector lemma for selectUTXOs("accumulative") and on the value types   *)
(* of build().                                                             *)
(***************************************************************************)
THEOREM TypeCorrect == Spec => []TypeOK
<1>1. Init => TypeOK
  <2> SUFFICES ASSUME Init PROVE TypeOK
    OBVIOUS
  <2>1. network \in NetworkArgs
    BY BuilderAssumption DEF Init, ToLower, NetworkArgs
  <2>2. dustThreshold \in Nat /\ feeRate \in Nat
    BY DustConstantAssumption DEF Init
  <2>3. inputs \in Seq(UTXO(UtxoIds)) /\ outputs \in Seq(Outputs)
    BY EmptySeq DEF Init
  <2>. QED BY <2>1, <2>2, <2>3 DEF Init, TypeOK
<1>2. TypeOK /\ [Next]_vars => TypeOK'
  <2> SUFFICES ASSUME TypeOK, [Next]_vars PROVE TypeOK'
    OBVIOUS
  <2>1. ASSUME NEW u \in Utxos, AddInput(u) PROVE TypeOK'
    <3>1. u \in UTXO(UtxoIds)
      BY BuilderAssumption
    <3>. QED BY <2>1, <3>1, AppendProperties DEF AddInput, Returns, TypeOK
  <2>2. ASSUME NEW us \in CandidateLists, AddInputs(us) PROVE TypeOK'
    <3>1. us \in Seq(UTXO(UtxoIds))
      BY CandidateListType
    <3>. QED BY <2>2, <3>1, ConcatProperties DEF AddInputs, Returns, TypeOK
  <2>3. ASSUME NEW a \in Addrs, NEW v \in OutputValues, NEW m \in Memos,
               AddOutput(a, v, m)
        PROVE  TypeOK'
    <3>1. [address |-> a, value |-> v, memo |-> m] \in Outputs
      BY BuilderAssumption DEF Outputs, TxOutput
    <3>2. CASE outputs' = Append(outputs, [address |-> a, value |-> v, memo |-> m])
               /\ Returns
               /\ UNCHANGED <<network, inputs, changeAddress, feeRate, dustThreshold,
                              selectedFor>>
      BY <3>1, <3>2, AppendProperties DEF Returns, TypeOK
    <3>3. CASE Throws
      BY <3>3 DEF Throws, Returns, TypeOK, builderVars
    <3>. QED BY <2>3, <3>2, <3>3 DEF AddOutput
  <2>4. ASSUME NEW a \in Addrs, SetChangeAddress(a) PROVE TypeOK'
    BY <2>4, BuilderAssumption DEF SetChangeAddress, Throws, Returns, TypeOK, builderVars
  <2>5. ASSUME NEW r \in FeeRates, SetFeeRate(r) PROVE TypeOK'
    BY <2>5, BuilderAssumption DEF SetFeeRate, Throws, Returns, TypeOK, builderVars
  <2>6. ASSUME NEW t \in Thresholds, SetDustThreshold(t) PROVE TypeOK'
    BY <2>6, BuilderAssumption DEF SetDustThreshold, Throws, Returns, TypeOK, builderVars
  <2>7. ASSUME NEW cs \in CandidateLists, SelectAll(cs) PROVE TypeOK'
    BY <2>7, CandidateListType DEF SelectAll, Returns, TypeOK
  <2>8. ASSUME NEW cs \in CandidateLists, SelectAccumulative(cs) PROVE TypeOK'
    <3> DEFINE sel == SelectUTXOs(cs, outputs, DummyAddress)
    <3>1. CASE sel = NoSelection
      BY <2>8, <3>1 DEF SelectAccumulative, Throws, Returns, TypeOK, builderVars
    <3>2. CASE sel # NoSelection
      <4>1. sel.inputs \in Seq(UTXO(UtxoIds))
        <5>1. cs \in Seq(UTXO(UtxoIds)) /\ outputs \in Seq(TxOutput(Addresses))
          BY CandidateListType DEF TypeOK, Outputs
        <5>. QED BY <3>2, <5>1, SelectionProperties
      <4>. QED BY <2>8, <3>2, <4>1 DEF SelectAccumulative, Returns, TypeOK
    <3>. QED BY <3>1, <3>2
  <2>9. ASSUME NEW h \in BlockHeights, Build(h) PROVE TypeOK'
    <3>1. /\ TotalInput \in Nat /\ Change \in Int
          /\ FinalOutputs \in Seq(Outputs) /\ ValueSum(FinalOutputs) \in Nat
          /\ FinalFee \in Int
      BY BuildValuesType
    <3>2. BuildTransaction(inputs, FinalOutputs, h, 0) \in UnsignedTransactions
      BY <3>1, BuilderAssumption DEF BuildTransaction, UnsignedTransactions, TypeOK
    <3>. HIDE DEF TotalInput, Change, FinalOutputs, FinalFee, BuildTransaction
    <3>. QED BY <2>9, <3>1, <3>2
             DEF Build, Throws, Returns, TypeOK, builderVars, BuildResults
  <2>10. CASE Clear
    BY <2>10 DEF Clear, Returns, TypeOK
  <2>11. ASSUME NEW k \in PrivateKeys, NEW n \in SignNetworks, Sign(k, n)
         PROVE  TypeOK'
    <3>1. IsKnownNetwork(n) => NormalizeNetwork(n) \in {"Main", "Test", "Regtest"}
      BY BuilderAssumption DEF IsKnownNetwork, NormalizeNetwork, ToLower, NetworkArgs, NetworkNames
    <3>2. result \in BuildResults
      BY <2>11 DEF Sign, TypeOK
    <3>3. CASE signedTx' = NoResult
      BY <2>11, <3>3 DEF Sign, TypeOK, builderVars
    <3>4. CASE /\ IsKnownNetwork(n)
               /\ signedTx' = [tx           |-> result.unsignedTx,
                               network      |-> NormalizeNetwork(n),
                               fee          |-> result.fee,
                               totalInput   |-> result.totalInput,
                               totalOutput  |-> result.totalOutput,
                               changeAmount |-> result.changeAmount]
      <4>1. signedTx' \in SignedTransactions
        BY <3>1, <3>2, <3>4 DEF BuildResults, SignedTransactions
      <4>. QED BY <2>11, <4>1 DEF Sign, TypeOK, builderVars
    <3>. QED BY <2>11, <3>3, <3>4 DEF Sign
  <2>12. CASE UNCHANGED vars
    BY <2>12 DEF vars, TypeOK
  <2>. QED BY <2>1, <2>2, <2>3, <2>4, <2>5, <2>6, <2>7, <2>8, <2>9, <2>10, <2>11, <2>12
           DEF Next
<1>. QED BY <1>1, <1>2, PTL DEF Spec

(***************************************************************************)
(* The inductive form of SelectionCoversBuild.  The list the inputs were   *)
(* selected for is never longer than the outputs (addOutput only appends,  *)
(* clear() forgets the selection), so once an output is added the outputs *)
(* are no longer that list; and while they are, the inputs cover the       *)
(* outputs plus the fee for one output more than them, the slot the       *)
(* selector reserves for the change.                                       *)
(***************************************************************************)
SelectionBudget ==
    /\ selectedFor # NoResult => Len(selectedFor.targets) <= Len(outputs)
    /\ selectedFor = [targets |-> outputs] =>
           TotalInput >= TotalOutput + GetFee(Len(inputs), Len(outputs) + 1, 0)

\* A forgotten selection is no selection
LEMMA NoResultIsNoSelection ==
    \A x : NoResult # [targets |-> x]
BY DEF NoResult

LEMMA SelectionBudgetInit == Init => SelectionBudget
BY NoResultIsNoSelection DEF Init, SelectionBudget

\* selectUTXOs("accumulative") establishes the budget for the outputs
LEMMA SelectionBudgetSelect ==
    ASSUME TypeOK, NEW cs \in CandidateLists, SelectAccumulative(cs),
           SelectUTXOs(cs, outputs, DummyAddress) # NoSelection
    PROVE  SelectionBudget'
<1> DEFINE sel == SelectUTXOs(cs, outputs, DummyAddress)
           k   == Len(sel.inputs)
<1>1. cs \in Seq(UTXO(UtxoIds)) /\ outputs \in Seq(TxOutput(Addresses))
  BY CandidateListType DEF TypeOK, Outputs
<1>2. /\ sel.inputs \in Seq(UTXO(UtxoIds))
      /\ k \in 1 .. Len(cs)
      /\ ValueSum(sel.inputs) >= ValueSum(outputs) + SelectionFee(k, outputs)
  BY <1>1, SelectionProperties
<1>3. MemoSum(outputs) \in Nat
  <2>1. \A i \in 1 .. Len(outputs) : outputs[i].memo \in Int
    <3>1. \A i \in 1 .. Len(outputs) : outputs[i] \in Outputs
      BY ElementOfSeq DEF TypeOK
    <3>. QED BY <3>1 DEF Outputs, TxOutput
  <2>. QED BY <2>1, MemoSumType DEF TypeOK
<1>4. GetFee(k, Len(outputs) + 1, 0) <= SelectionFee(k, outputs)
  <2>1. k \in Nat /\ Len(outputs) + 1 \in Nat
    BY <1>1, <1>2
  <2>2. GetFee(k, Len(outputs) + 1, 0) <= GetFee(k, Len(outputs) + 1, MemoSum(outputs))
    <3>. HIDE DEF k
    <3>. QED BY <2>1, <1>3, GetFeeMonotone
  <2>. QED BY <2>2 DEF SelectionFee
<1>5. /\ ValueSum(sel.inputs) \in Nat /\ ValueSum(outputs) \in Nat
      /\ GetFee(k, Len(outputs) + 1, 0) \in Nat /\ SelectionFee(k, outputs) \in Nat
  <2>1. k \in Nat /\ Len(outputs) + 1 \in Nat
    BY <1>1, <1>2
  <2>2. ValueSum(sel.inputs) \in Nat /\ ValueSum(outputs) \in Nat
    BY <1>1, <1>2, ValueSumOfUtxos, ValueSumOfOutputs DEF TypeOK
  <2>3. GetFee(k, Len(outputs) + 1, 0) \in Nat
        /\ GetFee(k, Len(outputs) + 1, MemoSum(outputs)) \in Nat
    <3>. HIDE DEF k
    <3>. QED BY <2>1, <1>3, GetFeeType
  <2>. QED BY <2>2, <2>3 DEF SelectionFee
<1>6. /\ inputs' = sel.inputs /\ outputs' = outputs
      /\ selectedFor' = [targets |-> outputs]
  BY DEF SelectAccumulative, Throws
<1>7. Len(inputs') = k
  BY <1>6
<1>. HIDE DEF sel, k
<1>. QED BY <1>2, <1>4, <1>5, <1>6, <1>7 DEF SelectionBudget, TotalInput, TotalOutput

LEMMA SelectionBudgetStep ==
    TypeOK /\ SelectionBudget /\ [Next]_vars => SelectionBudget'
<1> SUFFICES ASSUME TypeOK, SelectionBudget, [Next]_vars PROVE SelectionBudget'
  OBVIOUS
<1>1. CASE selectedFor' = NoResult
  BY <1>1, NoResultIsNoSelection DEF SelectionBudget
<1>2. CASE UNCHANGED <<inputs, outputs, selectedFor>>
  BY <1>2 DEF SelectionBudget, TotalInput, TotalOutput
<1>3. ASSUME NEW o, outputs' = Append(outputs, o),
             UNCHANGED <<inputs, selectedFor>>
      PROVE  SelectionBudget'
  <2>1. Len(outputs') = Len(outputs) + 1
    BY <1>3, AppendProperties DEF TypeOK
  <2>2. CASE selectedFor = NoResult
    BY <1>3, <2>2, NoResultIsNoSelection DEF SelectionBudget
  <2>3. CASE selectedFor # NoResult
    <3>1. Len(selectedFor.targets) <= Len(outputs) /\ Len(outputs) \in Nat
      BY <2>3 DEF SelectionBudget, TypeOK
    <3>2. selectedFor' # [targets |-> outputs']
      BY <1>3, <2>1, <3>1
    <3>. QED BY <1>3, <2>1, <3>1, <3>2 DEF SelectionBudget
  <2>. QED BY <2>2, <2>3
<1>4. ASSUME NEW cs \in CandidateLists, SelectAccumulative(cs) PROVE SelectionBudget'
  <2>1. CASE SelectUTXOs(cs, outputs, DummyAddress) = NoSelection
    BY <1>2, <1>4, <2>1 DEF SelectAccumulative, Throws, builderVars
  <2>2. CASE SelectUTXOs(cs, outputs, DummyAddress) # NoSelection
    BY <1>4, <2>2, SelectionBudgetSelect
  <2>. QED BY <2>1, <2>2
<1>5. ASSUME NEW a, NEW v, NEW m, AddOutput(a, v, m) PROVE SelectionBudget'
  BY <1>2, <1>3, <1>5 DEF AddOutput, Throws, builderVars
<1>. QED BY <1>1, <1>2, <1>4, <1>5
         DEF Next, vars, AddInput, AddInputs, SetChangeAddress, SetFeeRate,
             SetDustThreshold, SelectAll, Build, Clear, Sign, Throws, builderVars

(***************************************************************************)
(* Inputs picked by selectUTXOs("accumulative") cover what build()         *)
(* charges for as long as the outputs are the ones they were selected for, *)
(* whatever change address or threshold is set afterwards: the selector's *)
(* fee, for one output more than the targets and their memo bytes, is at  *)
(* least build()'s estimate for at most one output more and no memo.       *)
(***************************************************************************)
THEOREM SelectionCovered == Spec => []SelectionCoversBuild
<1>1. TypeOK /\ SelectionBudget => SelectionCoversBuild
  <2> SUFFICES ASSUME TypeOK, SelectionBudget, selectedFor = [targets |-> outputs]
               PROVE  TotalInput >= TotalOutput + EstimatedFee
    BY DEF SelectionCoversBuild
  <2>1. Len(inputs) \in Nat /\ Len(outputs) \in Nat /\ OutputCount \in Nat
        /\ OutputCount <= Len(outputs) + 1
    BY DEF TypeOK, OutputCount
  <2>2. EstimatedFee <= GetFee(Len(inputs), Len(outputs) + 1, 0)
    BY <2>1, GetFeeMonotone DEF EstimatedFee
  <2>3. /\ TotalInput \in Nat /\ TotalOutput \in Nat /\ EstimatedFee \in Nat
        /\ GetFee(Len(inputs), Len(outputs) + 1, 0) \in Nat
    BY <2>1, BuildValuesType, GetFeeType
  <2>4. TotalInput >= TotalOutput + GetFee(Len(inputs), Len(outputs) + 1, 0)
    BY DEF SelectionBudget
  <2>. HIDE DEF TotalInput, TotalOutput, EstimatedFee
  <2>. QED BY <2>2, <2>3, <2>4
<1>. QED BY TypeCorrect, SelectionBudgetInit, SelectionBudgetStep, <1>1, PTL DEF Spec
-----------------------------------------------------------------------------
(***************************************************************************)
(* What build() hands to the engine, in terms of the builder it reads: the *)
(* builder's outputs in order, then the change output exactly when the    *)
(* reported changeAmount is positive, and a fee that exceeds the estimate  *)
(* for one output more than the builder's by at most the threshold (the    *)
(* change folded into the fee).                                            *)
(***************************************************************************)
LEMMA BuildFinalOutputs ==
    ASSUME TypeOK
    PROVE  LET n  == Len(outputs)
               ca == IF AddsChange THEN Change ELSE 0
           IN  /\ SubSeq(FinalOutputs, 1, n) = outputs
               /\ Len(FinalOutputs) = IF ca > 0 THEN n + 1 ELSE n
               /\ ca > 0 => /\ FinalOutputs[n + 1] = [address |-> changeAddress,
                                                      value   |-> ca,
                                                      memo    |-> 0]
                            /\ ca > dustThreshold
               /\ changeAddress # NoAddress =>
                      FinalFee <= GetFee(Len(inputs), n + 1, 0) + dustThreshold
<1> DEFINE n == Len(outputs)
           c == [address |-> changeAddress, value |-> Change, memo |-> 0]
<1>1. /\ TotalInput \in Nat /\ TotalOutput \in Nat /\ EstimatedFee \in Nat
      /\ Change \in Int /\ FinalFee \in Int
  BY BuildValuesType
<1>2. n \in Nat /\ dustThreshold \in Nat
  BY DEF TypeOK
<1>3. changeAddress # NoAddress => EstimatedFee = GetFee(Len(inputs), n + 1, 0)
  BY DEF EstimatedFee, OutputCount
<1>4. CASE AddsChange
  <2>1. Change > dustThreshold /\ Change > 0 /\ changeAddress # NoAddress
    BY <1>1, <1>2, <1>4 DEF AddsChange
  <2>2. c \in Outputs
    BY <1>1, <2>1 DEF TypeOK, Outputs, TxOutput
  <2>3. FinalOutputs = Append(outputs, c)
    BY <1>4 DEF FinalOutputs
  <2>4. /\ SubSeq(Append(outputs, c), 1, n) = outputs
        /\ Len(Append(outputs, c)) = n + 1
        /\ Append(outputs, c)[n + 1] = c
    BY <1>2 DEF TypeOK
  <2>5. FinalFee = EstimatedFee
    <3>1. c.value \in Nat /\ outputs \in Seq(Outputs)
      BY <1>1, <2>1 DEF TypeOK
    <3>2. ValueSum(Append(outputs, c)) = ValueSum(outputs) + c.value
      <4>1. \A i \in 1 .. Len(outputs) : outputs[i].value \in Int
        <5>1. \A i \in 1 .. Len(outputs) : outputs[i] \in Outputs
          BY <3>1, ElementOfSeq
        <5>. QED BY <5>1 DEF Outputs, TxOutput
      <4>. QED BY <3>1, <4>1, ValueSumAppend
    <3>3. ValueSum(FinalOutputs) = TotalOutput + Change
      BY <2>3, <3>2 DEF TotalOutput
    <3>. HIDE DEF TotalInput, TotalOutput, EstimatedFee, FinalOutputs
    <3>. QED BY <1>1, <3>3 DEF FinalFee, Change
  <2>. HIDE DEF FinalOutputs, FinalFee, Change, EstimatedFee
  <2>. QED BY <1>1, <1>2, <1>3, <1>4, <2>1, <2>3, <2>4, <2>5
<1>5. CASE ~AddsChange
  <2>1. FinalOutputs = outputs
    BY <1>5 DEF FinalOutputs
  <2>2. SubSeq(outputs, 1, n) = outputs
    BY <1>2 DEF TypeOK
  <2>3. changeAddress # NoAddress => Change <= dustThreshold
    BY <1>1, <1>2, <1>5 DEF AddsChange
  <2>4. FinalFee = Change + EstimatedFee
    BY <1>1, <2>1 DEF FinalFee, Change, TotalOutput
  <2>. HIDE DEF FinalOutputs, FinalFee, Change, EstimatedFee
  <2>. QED BY <1>1, <1>2, <1>3, <1>5, <2>1, <2>2, <2>3, <2>4
<1>. QED BY <1>4, <1>5

(***************************************************************************)
(* Dust policy (spec 8): the BuildResult the caller holds has the          *)
(* builder's outputs followed by at most one change output, present        *)
(* exactly when changeAmount > 0, paying the change address a change above *)
(* the threshold, and a fee at most the threshold above the estimate.      *)
(* Only a successful build() sets a result, together with the outputs,     *)
(* change address and threshold it read; sign() keeps both.               *)
(***************************************************************************)
THEOREM DustPolicyHolds == Spec => []DustPolicy
<1>1. Init => DustPolicy
  BY DEF Init, DustPolicy
<1>2. TypeOK /\ DustPolicy /\ [Next]_vars => DustPolicy'
  <2> SUFFICES ASSUME TypeOK, DustPolicy, [Next]_vars PROVE DustPolicy'
    OBVIOUS
  <2>1. CASE result' = NoResult
    BY <2>1 DEF DustPolicy
  <2>2. CASE result' = result /\ builtWith' = builtWith
    BY <2>2 DEF DustPolicy
  <2>3. ASSUME NEW h \in BlockHeights,
               result' = [unsignedTx   |-> BuildTransaction(inputs, FinalOutputs, h, 0),
                          fee          |-> FinalFee,
                          totalInput   |-> TotalInput,
                          totalOutput  |-> ValueSum(FinalOutputs),
                          changeAmount |-> IF AddsChange THEN Change ELSE 0],
               builtWith' = [outputs       |-> outputs,
                             changeAddress |-> changeAddress,
                             dustThreshold |-> dustThreshold]
        PROVE  DustPolicy'
    <3>1. LET n  == Len(outputs)
              ca == IF AddsChange THEN Change ELSE 0
          IN  /\ SubSeq(FinalOutputs, 1, n) = outputs
              /\ Len(FinalOutputs) = IF ca > 0 THEN n + 1 ELSE n
              /\ ca > 0 => /\ FinalOutputs[n + 1] = [address |-> changeAddress,
                                                     value   |-> ca,
                                                     memo    |-> 0]
                           /\ ca > dustThreshold
              /\ changeAddress # NoAddress =>
                     FinalFee <= GetFee(Len(inputs), n + 1, 0) + dustThreshold
      BY BuildFinalOutputs
    <3>2. /\ result'.unsignedTx.outputs = FinalOutputs
          /\ result'.unsignedTx.inputs = inputs
          /\ result'.fee = FinalFee
          /\ result'.changeAmount = IF AddsChange THEN Change ELSE 0
          /\ builtWith'.outputs = outputs
          /\ builtWith'.changeAddress = changeAddress
          /\ builtWith'.dustThreshold = dustThreshold
      BY <2>3 DEF BuildTransaction
    <3>. HIDE DEF FinalOutputs, FinalFee, TotalInput, AddsChange, Change
    <3>. QED BY <3>1, <3>2 DEF DustPolicy
  <2>4. ASSUME NEW h \in BlockHeights, Build(h) PROVE DustPolicy'
    <3>. HIDE DEF FinalFee, FinalOutputs, TotalInput, AddsChange, Change
    <3>. QED BY <2>1, <2>3, <2>4 DEF Build, Throws, Returns
  <2>5. ASSUME NEW k, NEW n, Sign(k, n) PROVE DustPolicy'
    BY <2>2, <2>5 DEF Sign
  <2>6. CASE UNCHANGED vars
    BY <2>2, <2>6 DEF vars
  <2>7. ASSUME NEW cs \in CandidateLists, SelectAccumulative(cs) PROVE DustPolicy'
    BY <2>1, <2>7 DEF SelectAccumulative, Throws, Returns
  <2>. QED BY <2>1, <2>4, <2>5, <2>6, <2>7, Zenon
           DEF Next, AddInput, AddInputs, AddOutput, SetChangeAddress, SetFeeRate,
               SetDustThreshold, SelectAll, Clear, Throws, Returns
<1>. QED BY TypeCorrect, <1>1, <1>2, PTL DEF Spec

-----------------------------------------------------------------------------
(***************************************************************************)
(* An output is payable when it pays an address valid for the builder's    *)
(* network and carries a positive value or a memo.  BuiltOutputsPayable is *)
(* not inductive by itself: build() copies the builder's outputs and its   *)
(* change address into the result, so they must be payable too.  They are: *)
(* addOutput appends only what passes its three checks, setChangeAddress   *)
(* takes only a valid address, and no method changes the network.          *)
(***************************************************************************)
Payable(o) == IsValidAddr(o.address, network) /\ (o.value > 0 \/ (o.value = 0 /\ o.memo > 0))

OutputsPayable == \A i \in DOMAIN outputs : Payable(outputs[i])

ChangePayable == changeAddress # NoAddress => IsValidAddr(changeAddress, network)

PayableInv == OutputsPayable /\ ChangePayable /\ BuiltOutputsPayable

\* build() only adds the change output above a threshold that is not negative
LEMMA BuildOutputsPayable ==
    ASSUME TypeOK, OutputsPayable, ChangePayable
    PROVE  \A i \in DOMAIN FinalOutputs : Payable(FinalOutputs[i])
<1> DEFINE c == [address |-> changeAddress, value |-> Change, memo |-> 0]
<1>1. CASE ~AddsChange
  BY <1>1 DEF FinalOutputs, OutputsPayable
<1>2. CASE AddsChange
  <2>1. Payable(c)
    <3>1. Change \in Int /\ dustThreshold \in Nat
      BY BuildValuesType DEF TypeOK
    <3>2. IsValidAddr(changeAddress, network) /\ Change > 0
      BY <1>2, <3>1 DEF AddsChange, ChangePayable
    <3>. QED BY <3>2 DEF Payable
  <2>2. FinalOutputs = Append(outputs, c)
    BY <1>2 DEF FinalOutputs
  <2>3. ASSUME NEW i \in DOMAIN Append(outputs, c) PROVE Payable(Append(outputs, c)[i])
    <3>1. Len(outputs) \in Nat /\ i \in 1 .. Len(outputs) + 1
      BY DEF TypeOK
    <3>2. CASE i \in 1 .. Len(outputs)
      BY <3>2 DEF TypeOK, OutputsPayable
    <3>3. CASE i = Len(outputs) + 1
      BY <2>1, <3>3 DEF TypeOK
    <3>. QED BY <3>1, <3>2, <3>3
  <2>. HIDE DEF c
  <2>. QED BY <2>2, <2>3
<1>. QED BY <1>1, <1>2

(***************************************************************************)
(* Every output of the BuildResult the caller holds, the change output     *)
(* included, pays an address valid for the builder's network and carries   *)
(* a positive value or a memo (spec 3), whatever sequence of builder calls *)
(* and throws led to it.                                                   *)
(***************************************************************************)
THEOREM OutputsPayableHolds == Spec => []BuiltOutputsPayable
<1>1. Init => PayableInv
  BY EmptySeq DEF Init, PayableInv, OutputsPayable, ChangePayable, BuiltOutputsPayable
<1>2. TypeOK /\ PayableInv /\ [Next]_vars => PayableInv'
  <2> SUFFICES ASSUME TypeOK, PayableInv, [Next]_vars PROVE PayableInv'
    OBVIOUS
  <2>1. CASE UNCHANGED <<network, outputs, changeAddress>> /\ result' = NoResult
    BY <2>1 DEF PayableInv, OutputsPayable, ChangePayable, Payable, BuiltOutputsPayable
  <2>2. CASE UNCHANGED <<network, outputs, changeAddress, result>>
    BY <2>2 DEF PayableInv, OutputsPayable, ChangePayable, Payable, BuiltOutputsPayable
  <2>3. ASSUME NEW a \in Addrs, NEW v \in OutputValues, NEW m \in Memos,
               IsValidAddr(a, network), v >= 0, ~(v = 0 /\ m = 0),
               outputs' = Append(outputs, [address |-> a, value |-> v, memo |-> m]),
               UNCHANGED <<network, changeAddress>>, result' = NoResult
        PROVE  PayableInv'
    <3> DEFINE o == [address |-> a, value |-> v, memo |-> m]
    <3>1. Payable(o)
      BY <2>3, BuilderAssumption DEF Payable, o
    <3>2. ASSUME NEW i \in DOMAIN outputs' PROVE Payable(outputs'[i])
      <4>1. Len(outputs) \in Nat /\ i \in 1 .. Len(outputs) + 1
        BY <2>3 DEF TypeOK
      <4>2. CASE i \in 1 .. Len(outputs)
        BY <2>3, <4>2 DEF TypeOK, PayableInv, OutputsPayable, Payable
      <4>3. CASE i = Len(outputs) + 1
        BY <2>3, <3>1, <4>3 DEF TypeOK, o
      <4>. QED BY <4>1, <4>2, <4>3
    <3>. QED BY <2>3, <3>2 DEF PayableInv, OutputsPayable, ChangePayable, BuiltOutputsPayable,
                               Payable
  <2>4. ASSUME NEW a \in Addrs, IsValidAddr(a, network), changeAddress' = a,
               UNCHANGED <<network, outputs>>, result' = NoResult
        PROVE  PayableInv'
    BY <2>4 DEF PayableInv, OutputsPayable, ChangePayable, Payable, BuiltOutputsPayable
  <2>5. ASSUME NEW h \in BlockHeights,
               result' = [unsignedTx   |-> BuildTransaction(inputs, FinalOutputs, h, 0),
                          fee          |-> FinalFee,
                          totalInput   |-> TotalInput,
                          totalOutput  |-> ValueSum(FinalOutputs),
                          changeAmount |-> IF AddsChange THEN Change ELSE 0],
               UNCHANGED <<network, outputs, changeAddress>>
        PROVE  PayableInv'
    <3>1. \A i \in DOMAIN FinalOutputs : Payable(FinalOutputs[i])
      BY BuildOutputsPayable DEF PayableInv
    <3>2. result'.unsignedTx.outputs = FinalOutputs
      BY <2>5 DEF BuildTransaction
    <3>3. BuiltOutputsPayable'
      <4>. HIDE DEF FinalOutputs
      <4>. QED BY <2>5, <3>1, <3>2 DEF BuiltOutputsPayable, Payable
    <3>. QED BY <2>5, <3>3 DEF PayableInv, OutputsPayable, ChangePayable, Payable
  <2>6. CASE Clear
    <3>1. OutputsPayable'
      BY <2>6, EmptySeq DEF Clear, OutputsPayable
    <3>. QED BY <2>1, <2>6, <3>1
             DEF Clear, Returns, PayableInv, ChangePayable, Payable, BuiltOutputsPayable
  <2>7. ASSUME NEW a \in Addrs, NEW v \in OutputValues, NEW m \in Memos,
               AddOutput(a, v, m)
        PROVE  PayableInv'
    BY <2>1, <2>3, <2>7 DEF AddOutput, Throws, Returns, builderVars
  <2>8. ASSUME NEW a \in Addrs, SetChangeAddress(a) PROVE PayableInv'
    BY <2>1, <2>4, <2>8 DEF SetChangeAddress, Throws, Returns, builderVars
  <2>9. ASSUME NEW h \in BlockHeights, Build(h) PROVE PayableInv'
    <3>. HIDE DEF FinalFee, FinalOutputs, TotalInput, AddsChange, Change
    <3>. QED BY <2>1, <2>5, <2>9 DEF Build, Throws, Returns, builderVars
  <2>10. ASSUME NEW cs \in CandidateLists, SelectAccumulative(cs) PROVE PayableInv'
    BY <2>1, <2>10 DEF SelectAccumulative, Throws, Returns, builderVars
  <2>11. ASSUME NEW k, NEW n, Sign(k, n) PROVE PayableInv'
    BY <2>2, <2>11 DEF Sign, builderVars
  <2>12. CASE UNCHANGED vars
    BY <2>2, <2>12 DEF vars
  <2>. QED BY <2>1, <2>6, <2>7, <2>8, <2>9, <2>10, <2>11, <2>12, Zenon
           DEF Next, AddInput, AddInputs, SetFeeRate, SetDustThreshold, SelectAll,
               Throws, Returns, builderVars
<1>3. PayableInv => BuiltOutputsPayable
  BY DEF PayableInv
<1>. QED BY TypeCorrect, <1>1, <1>2, <1>3, PTL DEF Spec

==============================================================================
