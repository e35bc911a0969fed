# TLA+ models of the Zcash transparent transaction builder

This directory holds TLA+ models, TLC configurations and TLAPS proofs for the
TypeScript package in `src/chain/zec/ts/src`. That package assembles transparent
Zcash transactions, prices their fees and hands them to a native consensus engine
(`zec.linux-x64-gnu.node`) for serialization and signing.

## 1. The system

| Part | Source | What it does |
|---|---|---|
| AddressCodec | `addr.ts`, `normalizeNetwork` in `index.ts` | Handles the network prefixes `t1`/`tm`. `isValidAddr` decodes with plain bs58 and compares two bytes. `pkToAddr` / `skToAddr` derive addresses. `normalizeNetwork` maps the aliases to `Main`/`Test`/`Regtest` |
| ScriptBuilder | `script.ts`, `createMemoScript` / `createPayToAddressScript` in `index.ts` | Lays out P2PKH, memo (OP_RETURN) and signature scripts as bytes |
| FeeModel | `builder.ts` `getFee`, `estimateTransactionSize` | Linear fee: at least one input and two outputs are charged, and memo bytes are charged in chunks of 34 |
| UTXOSelector | `builder.ts` `selectUTXOs` | Sorts the candidates largest first and accumulates them until they cover the targets plus a fee that reserves one change slot. A leftover above 546 becomes change |
| TransactionBuilder | `index.ts` class `TransactionBuilder` | A fluent mutable builder with inputs, outputs, change address, fee rate and dust threshold. It has `build()` and a static `sign()` |
| Engine boundary | `buildTransaction`, `signTransaction`, `signSighashes`, `calculateTransactionId` | Converts to the native engine's format and calls `buildPartialTx` / `applyTxSignatures` |
| Legacy API | `buildTx`, legacy `getFee` in `index.ts` | The older one-shot interface |
| RPC client | `rpc.ts` | JSON-RPC over HTTP with axios (10 s timeout): UTXOs, balance, broadcast, queries |
| Native loader | `index.ts` 23-79 | Finds the `.node` binary at import time |

How the parts interact:
- The builder validates every address it is given with the AddressCodec, against the network it was constructed with (lowercased).
- `selectUTXOs("accumulative")` calls the UTXOSelector with the builder's outputs and a dummy change address. It keeps only the selected inputs.
- `build()` re-prices the transaction itself with `getFee` and decides on change with its own threshold. It then calls the engine through `buildTransaction`, with expiry 0.
- `sign()` takes the BuildResult, a key, a network and a public key. It signs the sighashes and has the engine merge them.
- The builder stores references: the caller's UTXO objects, its arrays' elements, and (through `getState`) its own arrays handed out.
- A wallet calls the RPC client for UTXOs, builds with them, and broadcasts with `sendRawTransaction`. The RPC client's UTXOs carry no `script`, which is what the placeholder script of the legacy paths is for.

## 2. Modules

| Module | Models | State and actions |
|---|---|---|
| `TxTypes` | `types.ts` records; `sumBy` / `reduce` sums | A UTXO is `[txid, value, script]`. The script is one of `own`, `none` (undefined or "") or `placeholder` (the all-zero P2PKH default). A memo is its length. `SeqSum` counts the units of every entry, so it needs no recursion |
| `FeeModel` | `getFee`, `estimateTransactionSize` | Operators only. The constants are `CONSTANTS` |
| `AddressCodec` | `addr.ts`, `normalizeNetwork` | An address string is abstracted to what decoding it yields: is it base58, which prefix does it carry, does its checksum verify. A network argument is `[name, upper]`, and `toLowerCase` clears `upper` |
| `UTXOSelector` | `selectUTXOs`, `ensureValidUTXO` | The stable `sortBy` is defined by each entry's rank (smaller value, or equal value earlier). `.reverse()` is `ReverseSeq`. The loop is its first stopping count, `min StopCounts` |
| `MC_UTXOSelector` | a caller calling `selectUTXOs` repeatedly | Variables: `utxos`, `targets`, `selection`. One action, `Select`, draws new arguments |
| `TransactionBuilder` | class `TransactionBuilder` | Variables: the six fields `network`, `inputs`, `outputs`, `changeAddress`, `feeRate`, `dustThreshold`; the caller's `result` / `signedTx`; and two history variables, `builtWith` (the builder state the last build saw) and `selectedFor` (the outputs the inputs were selected for). There is one action per public method: `AddInput`, `AddInputs`, `AddOutput`, `SetChangeAddress`, `SetFeeRate`, `SetDustThreshold`, `SelectAll`, `SelectAccumulative`, `Build`, `Clear`, `Sign` |
| `MC_TransactionBuilder` | the small instance | Three UTXOs, the third without a script, and the address, value and network sets |
| `SelectionSpec` | what `selectUTXOs` promises | The declarative answer: a *set* of candidates, largest first (no candidate left out is worth more than one taken), of the fewest that cover targets plus the fee for that many inputs. Variables `cands`, `tgts`, `chosen`; one action draws arguments and any promised answer |
| `BuilderNumbers` | `addOutput`, `setDustThreshold`, `build()` over JavaScript numbers | A number is `Fin(n)`, `NaN` or `Inf(s)`, with ECMAScript's `<`, `===`, `+` and `-`. Variables: `inputs`, `outputs`, `hasChange`, `dustThreshold`, `result`. Addresses and scripts are taken as valid, since only the numeric checks matter here |
| `BuilderAliasing` | the heap behind several builders | Array and object cells; each builder's `inputs`/`outputs` fields point at array cells. Actions: constructor, `addInput(s)`, `addOutput`, both selections, `clear`, `clone`, `getState`, and the caller's own pushes and field writes through references it holds |
| `StandaloneTx` | `buildTx`, legacy `getFee`, `buildTransaction`, and `build()`'s call of it | Stateless functions. The state is the last `call` and its `result`. `OVERWINTER_FLAG \| VERSION_5` is computed with `Bitwise` on the ToInt32 value of the flag |
| `RpcClient` | `ZcashRPCClient` | Per call `c`: `op`, `pc` (idle/awaiting/done), `net[c]` (inflight, lost, replied, delivered), `outcome`; the node's `accepted` set. Actions: `Start`, `Serve` (the node answers ok, with an error body, or with an HTTP failure), `Lose`, `Deliver`, `Timeout` |
| `ScriptBuilder` | `memoToScript`, `writeSigScript`, `addressToScript` | Node Buffers as functions on `0 .. n-1`: `alloc`, Uint8 stores (modulo 256, ignored out of range), `copy` that truncates, `subarray` that clamps. A memo is a list of runs of one character, each with its UTF-16 length and its UTF-8 bytes |
| `MC_*` | the small instances | One per component, with the constants as model values or definitions |
| `UTXOSelector_proofs`, `SelectionOrder_proofs`, `MC_UTXOSelector_proofs`, `TransactionBuilder_proofs`, `RpcClient_proofs`, `BuilderAliasing_proofs` | TLAPS proofs | See section 5 |

How the builder actions correspond to the code:
- A method that throws is `Throws`. It leaves every field unchanged, which matches the code: each check comes before the first assignment.
- Every guard is the code's own condition, in the code's order. In `Build`, for example: no inputs, then no outputs, then a missing script, then `finalFee < 0`, then `normalizeNetwork`, then the engine.
- An engine call may always throw. It is a disjunct that leaves everything unchanged.
- The caller holds what `build()` and `sign()` return. `Returns` drops these at the caller's next call on the builder. This is sound because `sign()` reads nothing but its arguments, and every property of a result is decided in the state that built it. `Sign` keeps the BuildResult.
- `build(blockHeight, pubkey)` draws `blockHeight` from a set. The pubkey, sighashes, version and raw bytes are not modelled, because the engine is opaque.
- `feeRate` is modelled because `setFeeRate` validates it. The code never reads it.

How the other modules correspond to the code:
- `BuilderAliasing`: `push` mutates the cell in place and `[...a]` allocates a new one. Only the accumulative selection copies objects (`ensureValidUTXO`'s `{...utxo, script}`); `addInput`, `addInputs`, the `"all"` selection and `clone()` keep the caller's objects. `clone()` copies both arrays into fresh cells; `getState()` returns the builder's own cells.
- `RpcClient`: `request()` is `RequestThrows` (a 200 body with `error` throws "RPC Error", an axios rejection "RPC request failed"), and each public method's handling of it is `Settle` (getUTXOs' catch returns `[]`). The node may process a request whose caller already timed out.
- `ScriptBuilder`: `pushData` is imported from `./writer`, which is not in the repository. It is modelled from the spec as the standard script push prefix (1 byte below 76, then `OP_PUSHDATA1/2/4`).
- `StandaloneTx`: the checks of `buildTx` come in the code's order: no inputs, no outputs, funds, then every address against the hard-coded regtest.

## 3. Runs

The fee constants are scaled down: `BASE_RELAY_FEE = 10`, `MARGINAL_FEE = 5`, `MEMO_OUTPUT_SIZE = 34`, and the selector's 546 becomes `BITCOIN_DUST = 2`. The amounts are scaled with them (UTXOs of 12 to 60), so every branch of the fee and change code is met:
- change above the threshold;
- change equal to it;
- change folded into the fee;
- change negative while the outputs are still covered;
- outputs not covered.

Memo length 40 costs two memo chunks of 34.

| Run | Module | Expect | What it shows |
|---|---|---|---|
| `selector_pass` | `MC_UTXOSelector` | pass | Covers every candidate list of up to 3 distinct UTXOs (two of equal value, one without a script) against 4 target lists. A non-null selection charges exactly `SelectionFee`, covers targets plus fee, and leaves at most dust uncharged (`SelectionAccounting`). No smaller subset covers its own fee (`SelectionMinimal`). Every call implements `SelectionSpec` (`SelectionRefinesPromise`, see below) |
| `builder_pass` | `MC_TransactionBuilder` | pass | Covers every call sequence of at most 2 inputs and 2 outputs (about 19,500 states). `BuiltOutputsPayable`: every built output, the change included, pays a valid address and has a positive value or a memo. `DustPolicy`: the change output exists exactly when `changeAmount > 0`, exceeds the threshold, and bounds the fee. `SelectionCoversBuild`: inputs picked for the current outputs cover `build()`'s estimate |
| `builder_minfee` | `MC_TransactionBuilder` | violation | `build()` succeeds with a fee below its own estimate |
| `builder_checksum` | `MC_TransactionBuilder` | violation | A bad-checksum address is accepted |
| `builder_placeholder` | `MC_TransactionBuilder` | violation | After an accumulative selection, a script-less UTXO reaches the engine with the placeholder script |
| `aliasing_pass` | `MC_BuilderAliasing` | pass | Two builders, one caller object and one caller array, seven calls (about 420,000 states, symmetry on the builders). Two action properties. `BuildersIndependent`: no step on one builder changes another builder's lists, so `clone()` really detaches. `CallerArraysDetached`: a push onto a caller array that `getState` never handed out changes no builder list |
| `numbers_nan` | `MC_BuilderNumbers` | violation | `addOutput` accepts NaN, and `build()` returns a BuildResult with NaN amounts because `finalFee < 0` is false for NaN |
| `aliasing_writes` | `MC_BuilderAliasing` | violation | Spec 5: a write the caller makes through its own references never changes a builder's lists (`CallerWritesIsolated`). TLC finds new builder, `addInput(o)`, then a write of `o.value`. A push onto an array `getState()` returned is the other way to break it; the two configurations below separate the two ways |
| `rpc_pass` | `MC_RpcClient` | pass | Two concurrent calls of any method, answers that are results, error bodies or HTTP failures, lost messages, and the timeout racing a late answer. `TxidMeansAccepted`: a txid is returned only for a transaction the node accepted. `AcceptedNeverRpcError`: an accepted transaction is never reported as "RPC Error", only as its txid or as the timeout's "RPC request failed". `CallsSettle` (liveness): every awaiting call settles |
| `rpc_swallow` | `MC_RpcClient` | violation | `getUTXOs` resolves with `[]` after any failure, indistinguishable from an empty address |
| `script_pass` | `MC_ScriptBuilder` | pass | Memos around the push boundaries (75/76, 252/253, 255/256) and of 1- to 4-byte characters; signatures of 8 and 60..80 and 250..258 bytes with 33- and 65-byte keys. `MemoScriptFramed`: a memo script within the limit is a length byte, OP_RETURN and a push that announces what follows. `SigScriptExact`: the signature script is exactly `push(sig ++ 0x01) ++ push(pk)` |
| `script_utf8` | `MC_ScriptBuilder` | violation | A memo with a multi-byte character loses bytes: `"é"` gives `03 6a 01 c3` |

Further configurations. The project's check runs the twelve runs above. These configurations are kept beside them: eight more counterexamples to spec statements, and two passing checks of the type invariants of `BuilderNumbers` and `StandaloneTx`. Each was run with `tlc -workers 2 -config <cfg> <module>` and gave the result shown.

| Cfg | Module | Result | What it shows |
|---|---|---|---|
| `MC_UTXOSelector_ties.cfg` | `MC_UTXOSelector` | violation | `.reverse()` flips the order of equal-value UTXOs, where spec 4.4 keeps their input order |
| `MC_BuilderAliasing_getstate.cfg` | `MC_BuilderAliasing` | violation | A push onto the array `getState()` returned puts a negative output into the builder, one `addOutput` would refuse |
| `MC_BuilderAliasing_objects.cfg` | `MC_BuilderAliasing` | violation | A write to a UTXO object passed to `addInput` changes the builder's input, and a clone's |
| `MC_UTXOSelector_complete.cfg` | `MC_UTXOSelector` | violation | Memo-only targets sum to 0 and are refused even when the candidates cover the fee |
| `MC_TransactionBuilder_distinct.cfg` | `MC_TransactionBuilder` | violation | A UTXO added twice is spent and counted twice |
| `MC_BuilderNumbers.cfg` | `MC_BuilderNumbers` | pass | With output values -1, 0, 10, NaN and Infinity and thresholds 0 and NaN, no stored amount or threshold is ever a negative number |
| `MC_StandaloneTx.cfg` | `MC_StandaloneTx` | pass | `buildTx`, `buildTransaction` and `build()`'s call of it return a Tx or draft whose inputs all carry a script, with an int32 version, or throw one of the code's errors |
| `MC_StandaloneTx_LegacyFeeIsResidual.cfg` | `MC_StandaloneTx` | violation | `buildTx` reports the estimated fee and adds no change, so excess input is burnt as an unreported fee |
| `MC_StandaloneTx_LegacyAmountsPositive.cfg` | `MC_StandaloneTx` | violation | `buildTx` accepts a negative payment amount |
| `MC_StandaloneTx_DefaultExpiry.cfg` | `MC_StandaloneTx` | violation | `build()` passes `expiryHeight: 0` where spec 4.5 defaults an omitted expiry to `height + 40` |

Why the bounds are enough:
- Two inputs and two outputs are enough for a change slot, for the dust fold, and for an output added after a selection.
- The candidate lists include a duplicate and a script-less UTXO.
- The threshold set `{-1, 0, 5}` and the output values `{-1, 0, 5, 10, 17}` reach the error branches, a change of exactly 0, and a change of exactly the threshold.
- Two builders and seven calls reach a clone of a builder that holds the caller's object and a `getState` array, followed by writes through both.
- Two RPC calls are enough for a late answer to one call while the other awaits; every node answer is tried for every method.
- The script lengths are taken on both sides of every boundary in the code's arithmetic: 76 (one-byte push), 256 (`OP_PUSHDATA2`), the 253-byte script whose length byte wraps.

Fairness. Only `RpcClient` has liveness. Its `Spec` assumes weak fairness of `Timeout(c)` for every call. The justification is axios's `timeout: 10000`: while a call awaits an undelivered response its timer is armed, and Node's event loop runs it. Nothing is assumed of the node, the network or the caller: a reply may never come, and a caller may never call. Without the timeout (mutant `TimeoutNever`) `CallsSettle` fails. The builder and the other modules are synchronous calls with no waiting, so they claim no liveness.

Refinement. `SelectionSpec` states what selection promises without the sort, the reverse or the loop. `MC_UTXOSelector` instantiates it with `cands <- utxos`, `tgts <- targets`, and `chosen` mapped to the selection with its inputs taken as a set. `selector_pass` checks `SelectionRefinesPromise == Abs!AbsSpec`. The mutant that drops the change slot from the selector's fee breaks it. The refinement is also proved (`Refinement`, section 5).

Each property of a passing run has a mutant in `PROJECT.json` that TLC must catch. Examples:
- `>=` for `>` in the change test;
- the change slot dropped from the selector's fee;
- `clone()` sharing the arrays;
- the error-body check dropped from `request()`;
- a memo buffer of `memo.length + 3`.

## 4. Findings

These are the disagreements between the code and `spec.md` found while modelling. Findings 1-3, 7, 8 (both through `aliasing_writes`), 11, 12 and 13 are checked runs with entries in `PROJECT.json`. The others are shown by the further configurations of section 3.
1. `build()` checks only `finalFee < 0` (`index.ts:645`). Inputs that fall short of outputs plus the estimate still build.
2. `isValidAddr` does not verify the Base58Check checksum (`addr.ts:32`).
3. `selectUTXOs("accumulative")` keeps the placeholder script that `ensureValidUTXO` substitutes, which bypasses `MissingScript` (`builder.ts:80`, `index.ts:582`).
4. Duplicate inputs are never rejected (`index.ts:476`, `484`, `559`).
5. Ties are reversed by the selector (`builder.ts:81`).
6. Memo-only targets cannot be funded by selection (`builder.ts:75`).
7. `getState()` returns the internal arrays (`index.ts:678`), through which a caller can add outputs that bypass validation.
8. UTXO objects are stored by reference and `clone()` is shallow (`index.ts:476`).
9. Legacy `buildTx` burns excess input as unreported fee (`index.ts:379`), and it accepts negative amounts (`index.ts:370`). It also validates every address against regtest whatever its config (`index.ts:385`). That is not listed as a disagreement: `_config` is deliberately unused, the spec does not describe `buildTx`, and `transaction.test.ts` and `integration.test.ts` build `tm` outputs with a main config.
10. `build()` gives the engine `expiryHeight: 0` instead of the default `height + 40` (`index.ts:657`).
11. `addOutput` accepts NaN and Infinity, and `build()` then succeeds with NaN amounts (`index.ts:500`).
12. `getUTXOs` swallows every error into `[]` (`rpc.ts:76`), against spec 7.
13. A code bug: `memoToScript` counts UTF-16 units and copies UTF-8 bytes, so non-ASCII memos are truncated silently (`script.ts:13`).

## 5. Proofs (TLAPS)

`UTXOSelector_proofs` proves these lemmas, for all values of the constants:
- `RankSurjective`. In a finite set ordered strictly and totally, the ranks are injective into `0..n-1`, and therefore onto it (`FS_Injection`).
- `LeastElement`. A finite nonempty set of integers has a least element. This is the loop's first stop, derived from `RankSurjective` without induction.
- `SeqSumType`, `ValueSumType`, `MemoSumType`. The units of a sequence form a finite union of finite sets, so the sums are natural numbers.
- `SortByValueType`. `sortBy` returns entries of its argument and keeps its length.
- `SelectionProperties`. A non-null `selectUTXOs` returns a nonempty prefix of the sorted candidates that covers the targets plus the fee it reports.

`TransactionBuilder_proofs` proves these theorems:
- `GetFeeMonotone`. `getFee` does not decrease in the output count or in the memo length.
- `TypeCorrect`: `Spec => []TypeOK`. There is one step per action, and the `SelectAccumulative` step rests on `SelectionProperties`.
- `SelectionCovered`: `Spec => []SelectionCoversBuild`. It is proved through the inductive invariant `SelectionBudget`, which has two parts:
  1. The list the inputs were selected for is never longer than the outputs. This is needed because `addOutput` keeps `selectedFor`, and only this part shows that the outputs then differ from it.
  2. While the outputs equal that list, the inputs cover the outputs plus `getFee(inputs, outputs + 1, 0)`.

  `GetFeeMonotone` turns part 2 into the property.

  TLC checked `SelectionBudget` on the `builder_pass` instance before it was proved.
- `DustPolicyHolds`: `Spec => []DustPolicy`. The lemma `BuildFinalOutputs` states what `build()` hands the engine (`index.ts` 621-636). The outputs come first, unchanged. A change output follows exactly when the change exceeds the threshold, and it is paid to the change address. With a change address set, the fee is at most the estimate plus the threshold. The step for the appended change uses `ValueSumAppend`, which rests on `SeqSumAppend`. That lemma proves the sum of an appended sequence by a bijection of unit sets (`FS_Bijection`, `FS_Union`), not by induction.
- `OutputsPayableHolds`: `Spec => []BuiltOutputsPayable`. The property speaks only of built transactions, so it is not inductive. The strengthening `PayableInv` also states the same fact for the pending outputs that `addOutput` validated (`index.ts` 491-514), and that a set change address is valid (`setChangeAddress`, `index.ts` 519-527). `BuildOutputsPayable` then shows that every output `build()` emits is payable. TLC checked `PayableInv` on the `builder_pass` instance before it was proved.

`MC_UTXOSelector_proofs` proves, for every candidate and target list of `MC_UTXOSelector`:
- `SelectionOfArgsInvariant`. Every state holds the result of one `selectUTXOs` call on its own arguments.
- `AccountingHolds`: `Spec => []SelectionAccounting`. It follows from the lemma `SelectionAccountingFacts` of `UTXOSelector_proofs`. The fee is the one for the input count. The inputs cover the targets plus that fee. The change is either paid as an output, or it is at most 546 zatoshis and goes to the miner.
- `TypeCorrect`: `Spec => []TypeOK`. Every input of a selection carries a script, because `ensureValidUTXO` ran on it (`builder.ts:80`). The fee is a natural number.

- `MinimalHolds`: `Spec => []SelectionMinimal`. No set of fewer candidates than a non-null selection covers the targets plus the fee for its own size. The argument is an exchange argument in `SelectionOrder_proofs`, with no induction:
  1. A sum is the count of its units. So a sum over index sets splits over disjoint parts (`SumSplit`), is bounded by count times the largest and the smallest entry (`SumUpper`, `SumLower`), and survives renumbering (`SumReindex`).
  2. After `sortBy(..).reverse()`, the first `m` positions are the `m` largest-first candidates (`PrefixIsTop`, from the sort's ranks).
  3. `SumExchange` and `TopSum` then show that any `m` candidates are worth at most the first `m`.
  4. Since the loop stops at the first count that covers (`FirstStopLeast`), no shorter set covers (`NoShorterCover`).
- `Refinement`: `Spec => SelectionRefinesPromise`. This is the step-by-step refinement of `SelectionSpec`.
  - The initial state maps to `AbsInit`.
  - Every `Select` step maps to an `AbsNext` step whose chosen answer is promised (`ChosenPromised`).
  - The null result is promised because nothing covers when the loop never stops (`NoCoverWithoutStop`).
  - A non-null result is the position set of a prefix that is an answer of `SelectionSpec` (`SelectionIsAnswer`): it covers, it is no larger than any cover (`NoShorterCover`), and nothing left out is worth more than what was taken (`PrefixIsTop`).
  - The outputs and fee are those the answer determines.
  - The operators `Abs!Cardinality`, `Abs!SeqSum`, `Abs!GetFee`, ... of the instance are distinct symbols to the prover; `AbsOperators` equates them with the base ones.

To be instantiated, the selector lemmas name the loop's first stop and the change test as `FirstStop` and `ChangeOutputs`; a `LET` or `CHOOSE` in a lemma's conclusion defeats the provers. `SelectionFields` states the result of `selectUTXOs` field by field in those terms.

`RpcClient_proofs` proves `TypeCorrect`, `TxidOnlyIfAccepted` and `AcceptedNotRpcError`, for every set of concurrent calls and every set of UTXO counts. None of these is inductive as stated, because each speaks of outcomes, and which outcome a call may have depends on the exchange that produced it. The inductive invariant `IInv` is `CallInv(c)` for every call. It ties each call's method, exchange and outcome together, and states that the node accepted exactly the raw transactions it answered with a result. TLC checked `IInv` on the `rpc_pass` instance before it was proved.

`BuilderAliasing_proofs` proves all three properties of `aliasing_pass`, for every number of builders and every bound:
- `TypeCorrect`: `Spec => []TypeOK`.
- `Independent`: `Spec => BuildersIndependent`, an action property.
- `Detached`: `Spec => CallerArraysDetached`, an action property.

`TypeOK` is not inductive. A push onto `bld[b].inputs` keeps the arrays well formed only if no other live builder refers to that cell, and allocation keeps them fresh only if every reference in use lies below `nextArr`. The inductive invariant `IInv` adds three things to `TypeOK`:
- `bld` is a function to records or `NoBuilder`;
- the caller's own cells lie below the allocation counters;
- `BuildersDisjoint`: no two live builders share an array.

The proof has one lemma per method and caller write (`NewBuilderIInv` ... `PushHeldIInv`). These rest on `WellFormed`, the arrays conjunct, and its lemmas `WellFormedUpdate` and `WellFormedGrow`.

`Independent` follows from `IInv` alone:
- `ViewFrame` says that a builder's view is fixed by its reference, its cell and the objects below `nextObj`.
- Each method writes only its own builder's cells, fresh cells or fresh objects.

`Detached` needs one more conjunct, `HeldExposed`: every builder cell the caller holds was returned by `getState()`.

TLC checked `IInv` and `IInv /\ HeldExposed` on the `aliasing_pass` instance (422,851 states) before they were proved.

What stays with TLC:
- `CallsSettle`. Liveness under fairness, and `ENABLED`, are beyond the prover.
- Every property of `BuilderNumbers` and `ScriptBuilder`. Their sums, and `FlattenSeq` of `SequencesExt`, are `RECURSIVE`. A module that reaches a `RECURSIVE` operator loses the SMT backend.
- The legacy properties of `StandaloneTx`, which reaches `Bitwise` (excluded from proved modules), and the violation runs. These are model-checked only.

The recursive sums of the proved modules were avoided on purpose. The prover cannot instantiate the library's induction theorems, whose operator parameters are out of its reach, so every sum is a cardinality and every order fact comes from ranks.

## 6. Not modelled, and the plan

Not modelled:
- The native module loader (`index.ts` 23-79): file-system I/O at import time, with no state the builder reads.
- The native engine itself: it is opaque, returning its draft or throwing.
- Key derivation and signing arithmetic (`skToAddr`, `signSighashes`): curve arithmetic, out of TLC's reach.
- Doubles above 2^53. `BuilderNumbers` models NaN and the infinities, but finite amounts are exact integers, and the real coin supply is below 2^53.
- `pushData` is modelled from the spec, because `./writer` is not in the repository.

Plan for the next sittings:
1. A wallet-flow composition: RPC `getUTXOs`, the builder and `sendRawTransaction`, with the swallowed error and a retry of a broadcast whose answer timed out.
2. A proof of fee monotonicity in all three arguments.
3. The `sign()` network argument, which is never checked against the build's network (`index.ts:712`).
