-------------------------- MODULE BuilderAliasing --------------------------
(***************************************************************************)
(* The heap behind class TransactionBuilder of src/chain/zec/ts/src/       *)
(* index.ts: which arrays and which objects the builders' inputs and      *)
(* outputs fields refer to, and which of them the caller can also reach.  *)
(* JavaScript arrays and objects are references: push mutates the array   *)
(* in place, [...a] and {...o} allocate new ones, and an object stored in *)
(* two arrays is one object.  Cells are allocated in order, array cell    *)
(* nextArr and object cell nextObj being the next free ones.              *)
(*                                                                         *)
(* Only what moves references is modelled here: the constructor,           *)
(* addInput, addInputs, addOutput, both selectUTXOs strategies, clear,     *)
(* clone and getState, and the caller's own writes through the references *)
(* it holds.  The field checks and what build() and sign() compute from    *)
(* the lists are the business of module TransactionBuilder; a method that *)
(* throws changes no reference and is a stuttering step here.              *)
(***************************************************************************)
EXTENDS Integers, Sequences, FiniteSets

CONSTANTS
    Builders,       \* builder instances the caller may construct
    NCallerObjects, \* the caller's UTXO objects are cells 1..NCallerObjects
    NCallerArrays,  \* the caller's UTXO arrays are cells 1..NCallerArrays
    MaxArrays,      \* bound on the array cells allocated
    MaxObjects,     \* bound on the object cells allocated
    Values,         \* the value fields the caller may write or pass
    MaxLen,         \* bound on the length of any array
    MaxCalls        \* bound on the calls and writes the caller makes

ASSUME AliasingAssumption ==
    /\ NCallerObjects \in Nat /\ NCallerArrays \in Nat
    /\ MaxArrays \in Nat /\ MaxObjects \in Nat
    /\ NCallerObjects <= MaxObjects /\ NCallerArrays <= MaxArrays
    /\ Values \subseteq Int
    /\ MaxLen \in Nat /\ MaxCalls \in Nat

Arrays == 1..MaxArrays

Objects == 1..MaxObjects

CallerObjects == 1..NCallerObjects

CallerArrays == 1..NCallerArrays

\* A builder not constructed yet
NoBuilder == [none |-> "builder"]

VARIABLES
    arrays,     \* arrays[a]: the object references array cell a holds
    objs,       \* objs[o]: the value field of object cell o
    nextArr,    \* the next array cell to allocate
    nextObj,    \* the next object cell to allocate
    bld,        \* bld[b]: [inputs, outputs] array references of builder b
    held,       \* array cells the caller holds a reference to
    exposed,    \* history: the builder arrays getState() has returned
    calls       \* the calls and writes the caller has made so far

vars == <<arrays, objs, nextArr, nextObj, bld, held, exposed, calls>>

Live == {b \in Builders : bld[b] # NoBuilder}

Elems(s) == {s[i] : i \in DOMAIN s}

\* The objects the caller reaches: its own and those in arrays it holds
CallerReach == CallerObjects \cup UNION {Elems(arrays[a]) : a \in held}

\* The list a builder's field stands for, as its methods read it
View(b, f) == [i \in DOMAIN arrays[bld[b][f]] |-> objs[arrays[bld[b][f]][i]]]

\* n new arrays are allocated: cells nextArr .. nextArr + n - 1
AllocArrays(n) ==
    /\ nextArr + n - 1 <= MaxArrays
    /\ nextArr' = nextArr + n

\* Both fields of builder b get two fresh empty arrays
FreshFields(b) ==
    bld' = [bld EXCEPT ![b] = [inputs |-> nextArr, outputs |-> nextArr + 1]]

-----------------------------------------------------------------------------
Init ==
    /\ arrays \in {[a \in Arrays |-> IF a \in CallerArrays THEN s[a] ELSE <<>>] :
                     s \in [CallerArrays -> UNION {[1..n -> CallerObjects] : n \in 0..MaxLen}]}
    /\ objs \in {[o \in Objects |-> IF o \in CallerObjects THEN f[o] ELSE 0] :
                   f \in [CallerObjects -> Values]}
    /\ nextArr = NCallerArrays + 1
    /\ nextObj = NCallerObjects + 1
    /\ bld = [b \in Builders |-> NoBuilder]
    /\ held = CallerArrays
    /\ exposed = {}
    /\ calls = 0

\* new TransactionBuilder(network): inputs = [] and outputs = [] are fresh
NewBuilder(b) ==
    /\ b \notin Live
    /\ AllocArrays(2)
    /\ FreshFields(b)
    /\ UNCHANGED <<arrays, objs, nextObj, held, exposed>>

\* Append to the array a builder field refers to, in place (push)
PushTo(b, f, os) ==
    /\ Len(arrays[bld[b][f]]) + Len(os) <= MaxLen
    /\ arrays' = [arrays EXCEPT ![bld[b][f]] = @ \o os]

\* addInput(utxo): this.inputs.push(utxo), the caller's object itself
AddInput(b, o) ==
    /\ b \in Live /\ o \in CallerReach
    /\ PushTo(b, "inputs", <<o>>)
    /\ UNCHANGED <<objs, nextArr, nextObj, bld, held, exposed>>

\* Mutant: addInputs keeps the caller's array (this.inputs = utxos)
AddInputsAliasing(b, a) ==
    /\ b \in Live /\ a \in held
    /\ bld' = [bld EXCEPT ![b].inputs = a]
    /\ UNCHANGED <<arrays, objs, nextArr, nextObj, held, exposed>>

\* addInputs(utxos): this.inputs.push(...utxos), the caller's objects
AddInputs(b, a) ==
    /\ b \in Live /\ a \in held
    /\ PushTo(b, "inputs", arrays[a])
    /\ UNCHANGED <<objs, nextArr, nextObj, bld, held, exposed>>

\* addOutput(address, value, memo) once its checks pass (value >= 0): a
\* fresh object {address, value, memo: memo || ""} pushed onto this.outputs
AddOutput(b, v) ==
    /\ b \in Live /\ v >= 0
    /\ nextObj <= MaxObjects
    /\ PushTo(b, "outputs", <<nextObj>>)
    /\ objs' = [objs EXCEPT ![nextObj] = v]
    /\ nextObj' = nextObj + 1
    /\ UNCHANGED <<nextArr, bld, held, exposed>>

\* selectUTXOs(availableUTXOs, "all"): this.inputs = [...availableUTXOs], a
\* fresh array of the caller's objects
SelectAll(b, a) ==
    /\ b \in Live /\ a \in held
    /\ AllocArrays(1)
    /\ arrays' = [arrays EXCEPT ![nextArr] = arrays[a]]
    /\ bld' = [bld EXCEPT ![b].inputs = nextArr]
    /\ UNCHANGED <<objs, nextObj, held, exposed>>

\* selectUTXOs(availableUTXOs, "accumulative") on a non-null selection:
\* this.inputs = selection.inputs, the selector's own selectedInputs array
\* holding ensureValidUTXO's copies {...utxo, script} of the first k sorted
\* candidates.  Which k, and in which order, is module UTXOSelector's
\* business; here the copies of some k of them.
SelectAccumulative(b, a) ==
    /\ b \in Live /\ a \in held
    /\ \E k \in 1..Len(arrays[a]) :
       \E pick \in [1..k -> DOMAIN arrays[a]] :
          /\ \A i, j \in 1..k : i # j => pick[i] # pick[j]
          /\ nextObj + k - 1 <= MaxObjects
          /\ AllocArrays(1)
          /\ arrays' = [arrays EXCEPT ![nextArr] = [i \in 1..k |-> nextObj + i - 1]]
          /\ objs' = [o \in Objects |->
                        IF o \in nextObj..(nextObj + k - 1)
                        THEN objs[arrays[a][pick[o - nextObj + 1]]]
                        ELSE objs[o]]
          /\ nextObj' = nextObj + k
          /\ bld' = [bld EXCEPT ![b].inputs = nextArr]
    /\ UNCHANGED <<held, exposed>>

\* Mutant: clear() gives both fields one array (this.inputs = this.outputs = [])
ClearShared(b) ==
    /\ b \in Live
    /\ AllocArrays(1)
    /\ bld' = [bld EXCEPT ![b] = [inputs |-> nextArr, outputs |-> nextArr]]
    /\ UNCHANGED <<arrays, objs, nextObj, held, exposed>>

\* clear(): this.inputs = [] and this.outputs = [], two fresh arrays
Clear(b) ==
    /\ b \in Live
    /\ AllocArrays(2)
    /\ FreshFields(b)
    /\ UNCHANGED <<arrays, objs, nextObj, held, exposed>>

\* Mutant: clone() hands the new builder this builder's own arrays
CloneSharing(b, c) ==
    /\ b \in Live /\ c \notin Live
    /\ bld' = [bld EXCEPT ![c] = bld[b]]
    /\ UNCHANGED <<arrays, objs, nextArr, nextObj, held, exposed>>

\* clone(): new TransactionBuilder(this.network), whose fields are then
\* replaced by [...this.inputs] and [...this.outputs]: fresh arrays holding
\* the same objects (the constructor's own two arrays become garbage)
Clone(b, c) ==
    /\ b \in Live /\ c \notin Live
    /\ AllocArrays(2)
    /\ arrays' = [arrays EXCEPT ![nextArr] = arrays[bld[b].inputs],
                                ![nextArr + 1] = arrays[bld[b].outputs]]
    /\ FreshFields(c)
    /\ UNCHANGED <<objs, nextObj, held, exposed>>

\* getState(): returns this.inputs and this.outputs themselves
GetState(b) ==
    /\ b \in Live
    /\ held' = held \cup {bld[b].inputs, bld[b].outputs}
    /\ exposed' = exposed \cup {bld[b].inputs, bld[b].outputs}
    /\ UNCHANGED <<arrays, objs, nextArr, nextObj, bld>>

\* The caller writes a value field of an object it reaches
WriteValue(o, v) ==
    /\ o \in CallerReach
    /\ objs' = [objs EXCEPT ![o] = v]
    /\ UNCHANGED <<arrays, nextArr, nextObj, bld, held, exposed>>

\* The caller pushes an object it reaches onto an array it holds
PushHeld(a, o) ==
    /\ a \in held /\ o \in CallerReach
    /\ Len(arrays[a]) < MaxLen
    /\ arrays' = [arrays EXCEPT ![a] = Append(@, o)]
    /\ UNCHANGED <<objs, nextArr, nextObj, bld, held, exposed>>

\* The builder methods called on builder b
Method(b) ==
    \/ NewBuilder(b)
    \/ \E o \in Objects : AddInput(b, o)
    \/ \E a \in Arrays : AddInputs(b, a)
    \/ \E v \in Values : AddOutput(b, v)
    \/ \E a \in Arrays : SelectAll(b, a)
    \/ \E a \in Arrays : SelectAccumulative(b, a)
    \/ Clear(b)
    \/ \E c \in Builders : Clone(b, c)
    \/ GetState(b)

\* The caller's own writes through references
CallerWrite ==
    \/ \E o \in Objects, v \in Values : WriteValue(o, v)
    \/ \E a \in Arrays, o \in Objects : PushHeld(a, o)

Next ==
    /\ calls < MaxCalls
    /\ calls' = calls + 1
    /\ (\E b \in Builders : Method(b)) \/ CallerWrite

Spec == Init /\ [][Next]_vars

-----------------------------------------------------------------------------
\* The lists of every live builder are unchanged by a step
ViewsUnchanged(B) ==
    \A c \in B : /\ View(c, "inputs")' = View(c, "inputs")
                 /\ View(c, "outputs")' = View(c, "outputs")

\* Type invariant: every builder field refers to an allocated array of its
\* own (inputs and outputs are two arrays), and every array holds
\* allocated objects within the bound
TypeOK ==
    /\ arrays \in [Arrays -> Seq(Objects)]
    /\ objs \in [Objects -> Int]
    /\ nextArr \in 1..(MaxArrays + 1) /\ nextObj \in 1..(MaxObjects + 1)
    /\ calls \in 0..MaxCalls
    /\ held \subseteq 1..(nextArr - 1) /\ exposed \subseteq held
    /\ \A b \in Live :
          /\ bld[b] \in [inputs : 1..(nextArr - 1), outputs : 1..(nextArr - 1)]
          /\ bld[b].inputs # bld[b].outputs
    /\ \A a \in Arrays : Len(arrays[a]) <= MaxLen /\ Elems(arrays[a]) \subseteq 1..(nextObj - 1)

(***************************************************************************)
(* Spec 4.5 and 5: builders forked with clone() are independent: a method  *)
(* called on one builder never changes the lists another builder sees.    *)
(* clone() copies both arrays ([...this.inputs], [...this.outputs]), and  *)
(* every other method either pushes onto the builder's own arrays or     *)
(* gives it new ones; only the caller's own writes reach two builders.    *)
(***************************************************************************)
BuildersIndependent ==
    [][\A b \in Builders : Method(b) => ViewsUnchanged(Live \ {b})]_vars

(***************************************************************************)
(* Spec 5: arrays passed into the builder are copied on ingestion, so the *)
(* caller pushing onto an array it built itself changes no builder's     *)
(* lists: addInputs pushes the elements, selectUTXOs("all") spreads them  *)
(* into a new array, the accumulative selection builds its own.  Only an  *)
(* array getState() returned is the builder's own.                        *)
(***************************************************************************)
CallerArraysDetached ==
    [][\A a \in Arrays, o \in Objects :
          (PushHeld(a, o) /\ a \notin exposed) => ViewsUnchanged(Live)]_vars

(***************************************************************************)
(* Spec 2 and 5: a UTXO is immutable once selected, and later writes of   *)
(* the caller cannot change the builder's lists.  addInput stores the     *)
(* caller's UTXO object and addInputs / selectUTXOs("all") copy the array *)
(* but not the objects, so the caller writing utxo.value afterwards       *)
(* changes the builder's input.                                           *)
(***************************************************************************)
CallerObjectWritesIsolated ==
    [][\A o \in CallerObjects, v \in Values :
          WriteValue(o, v) => ViewsUnchanged(Live)]_vars

(***************************************************************************)
(* Spec 5: what the caller does with its own references never reaches a  *)
(* builder: neither writing a field of an object it holds nor pushing     *)
(* onto an array it holds changes any builder's lists.  addInput keeps    *)
(* the caller's objects, and getState() hands out the builder's own       *)
(* arrays, so both kinds of write reach the builder.                      *)
(***************************************************************************)
CallerWritesIsolated ==
    [][CallerWrite => ViewsUnchanged(Live)]_vars

(***************************************************************************)
(* Spec 4.5 and 5: every output a builder holds passed addOutput's checks, *)
(* so its value is not negative.  getState() returns the builder's own    *)
(* outputs array, and a value the caller writes through it reaches the    *)
(* builder without any check.                                             *)
(***************************************************************************)
OutputsPassedValidation ==
    \A b \in Live : \A i \in DOMAIN View(b, "outputs") : View(b, "outputs")[i] >= 0
=============================================================================
