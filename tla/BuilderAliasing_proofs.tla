----------------------- MODULE BuilderAliasing_proofs -----------------------
(***************************************************************************)
(* Proofs about the heap behind class TransactionBuilder (module           *)
(* BuilderAliasing), for every value of its constants.  The type invariant *)
(* is not inductive alone: a method of builder b writes the arrays of b,   *)
(* and only because no other live builder refers to those arrays, and     *)
(* allocation only hands out cells above every reference in use, do the   *)
(* references stay well formed.  IInv adds exactly that.                   *)
(***************************************************************************)
EXTENDS BuilderAliasing, SequenceTheorems, FiniteSetTheorems, TLAPS

\* The fields of a constructed builder
BuilderFields == [inputs : Arrays, outputs : Arrays]

\* No two live builders refer to a common array
BuildersDisjoint ==
    \A b, c \in Live : b # c =>
        {bld[b].inputs, bld[b].outputs} \cap {bld[c].inputs, bld[c].outputs} = {}

\* The inductive invariant: the type, the shape of bld, allocation above the
\* caller's own cells, and no array shared by two builders
IInv ==
    /\ TypeOK
    /\ bld \in [Builders -> BuilderFields \cup {NoBuilder}]
    /\ NCallerObjects < nextObj /\ NCallerArrays < nextArr
    /\ BuildersDisjoint

\* One call or write of the caller is counted
Counted == calls < MaxCalls /\ calls' = calls + 1

\* Array cells A holding lists, within the bound, of objects below cell n
WellFormed(A, n) ==
    /\ A \in [Arrays -> Seq(Objects)]
    /\ \A a \in Arrays : Len(A[a]) <= MaxLen /\ Elems(A[a]) \subseteq 1 .. (n - 1)

\* The arrays conjunct of TypeOK
ArraysOK == WellFormed(arrays, nextObj)

USE AliasingAssumption

\* The elements of a concatenation are those of its parts
LEMMA ElemsConcat ==
    ASSUME NEW S, NEW s \in Seq(S), NEW t \in Seq(S)
    PROVE  /\ s \o t \in Seq(S)
           /\ Len(s \o t) = Len(s) + Len(t)
           /\ Elems(s \o t) = Elems(s) \cup Elems(t)
<1>1. /\ s \o t \in Seq(S)
      /\ Len(s \o t) = Len(s) + Len(t)
      /\ \A i \in 1 .. Len(s) + Len(t) :
            (s \o t)[i] = IF i <= Len(s) THEN s[i] ELSE t[i - Len(s)]
  BY ConcatProperties
<1>2. Elems(s \o t) \subseteq Elems(s) \cup Elems(t)
  BY <1>1 DEF Elems
<1>3. Elems(s) \subseteq Elems(s \o t)
  BY <1>1 DEF Elems
<1>4. Elems(t) \subseteq Elems(s \o t)
  <2>. SUFFICES ASSUME NEW j \in 1 .. Len(t) PROVE t[j] \in Elems(s \o t)
    BY DEF Elems
  <2>1. Len(s) + j \in 1 .. Len(s) + Len(t) /\ (s \o t)[Len(s) + j] = t[j]
    BY <1>1
  <2>. QED BY <1>1, <2>1 DEF Elems
<1>. QED BY <1>1, <1>2, <1>3, <1>4

\* Writing a well-formed list into one cell keeps the cells well formed
LEMMA WellFormedUpdate ==
    ASSUME NEW A, NEW n, WellFormed(A, n), NEW a \in Arrays,
           NEW t \in Seq(Objects), Len(t) <= MaxLen, Elems(t) \subseteq 1 .. (n - 1)
    PROVE  WellFormed([A EXCEPT ![a] = t], n)
BY DEF WellFormed

\* Allocating objects keeps the cells well formed
LEMMA WellFormedGrow ==
    ASSUME NEW A, NEW n \in Int, NEW m \in Int, n <= m, WellFormed(A, n)
    PROVE  WellFormed(A, m)
BY DEF WellFormed

\* The caller reaches only allocated objects
LEMMA CallerReachAllocated ==
    ASSUME IInv
    PROVE  CallerReach \subseteq 1 .. (nextObj - 1)
BY DEF IInv, TypeOK, CallerReach, CallerObjects, Arrays

LEMMA InitIInv == Init => IInv
<1>. SUFFICES ASSUME Init PROVE IInv
  OBVIOUS
<1>1. arrays \in [Arrays -> Seq(Objects)]
      /\ \A a \in Arrays : Len(arrays[a]) <= MaxLen /\ Elems(arrays[a]) \subseteq 1 .. (nextObj - 1)
  <2>1. PICK s \in [CallerArrays -> UNION {[1 .. n -> CallerObjects] : n \in 0 .. MaxLen}] :
          arrays = [a \in Arrays |-> IF a \in CallerArrays THEN s[a] ELSE <<>>]
    BY DEF Init
  <2>2. ASSUME NEW a \in CallerArrays
        PROVE  s[a] \in Seq(Objects) /\ Len(s[a]) <= MaxLen
               /\ Elems(s[a]) \subseteq 1 .. (nextObj - 1)
    <3>1. PICK n \in 0 .. MaxLen : s[a] \in [1 .. n -> CallerObjects]
      BY <2>1
    <3>2. CallerObjects \subseteq Objects /\ n \in Nat
      BY AliasingAssumption DEF CallerObjects, Objects
    <3>3. s[a] \in Seq(Objects) /\ Len(s[a]) = n
      BY <3>1, <3>2
    <3>4. Elems(s[a]) \subseteq CallerObjects
      BY <3>1 DEF Elems
    <3>5. CallerObjects = 1 .. (nextObj - 1)
      BY DEF Init, CallerObjects
    <3>. QED BY <3>3, <3>4, <3>5
  <2>3. CallerArrays \subseteq Arrays
    BY DEF CallerArrays, Arrays
  <2>. QED BY <2>1, <2>2, <2>3 DEF Elems
<1>2. objs \in [Objects -> Int]
  <2>1. PICK f \in [CallerObjects -> Values] :
          objs = [o \in Objects |-> IF o \in CallerObjects THEN f[o] ELSE 0]
    BY DEF Init
  <2>2. \A o \in CallerObjects : f[o] \in Int
    <3>1. Values \subseteq Int
      BY AliasingAssumption
    <3>. QED BY <3>1
  <2>3. [o \in Objects |-> IF o \in CallerObjects THEN f[o] ELSE 0] \in [Objects -> Int]
    BY <2>2
  <2>. QED BY <2>1, <2>3
<1>. QED BY <1>1, <1>2 DEF Init, IInv, TypeOK, Live, BuildersDisjoint, CallerArrays, NoBuilder
(***************************************************************************)
(* Giving builder b two fresh arrays (the constructor, clear()) keeps the  *)
(* invariant: the new cells are above every reference any live builder or *)
(* the caller holds, so b shares no array with another builder.            *)
(***************************************************************************)
LEMMA FreshFieldsIInv ==
    ASSUME IInv, Counted, NEW b \in Builders,
           AllocArrays(2), FreshFields(b), ArraysOK',
           UNCHANGED <<objs, nextObj, held, exposed>>
    PROVE  IInv'
<1>1. /\ nextArr' = nextArr + 2 /\ nextArr + 1 <= MaxArrays
      /\ bld'[b] = [inputs |-> nextArr, outputs |-> nextArr + 1]
      /\ \A c \in Builders \ {b} : bld'[c] = bld[c]
      /\ bld' \in [Builders -> BuilderFields \cup {NoBuilder}]
  BY DEF AllocArrays, FreshFields, IInv, TypeOK, BuilderFields, Arrays
<1>2. Live' = Live \cup {b}
  BY <1>1 DEF Live, NoBuilder
<1>3. \A c \in Live : bld[c] \in [inputs : 1 .. (nextArr - 1), outputs : 1 .. (nextArr - 1)]
                      /\ bld[c].inputs # bld[c].outputs
  BY DEF IInv, TypeOK
<1>4. ASSUME NEW c \in Live'
      PROVE  /\ bld'[c] \in [inputs : 1 .. (nextArr' - 1), outputs : 1 .. (nextArr' - 1)]
             /\ bld'[c].inputs # bld'[c].outputs
  <2>1. nextArr \in 1 .. (MaxArrays + 1) /\ Live \subseteq Builders
    BY DEF IInv, TypeOK, Live
  <2>2. CASE c = b
    BY <1>1, <2>1, <2>2
  <2>3. CASE c # b
    <3>1. c \in Live /\ c \in Builders \ {b}
      BY <1>2, <2>1, <2>3
    <3>. QED BY <1>1, <1>3, <2>1, <3>1
  <2>. QED BY <2>2, <2>3
<1>5. TypeOK'
  BY <1>1, <1>4 DEF IInv, TypeOK, Counted, ArraysOK, WellFormed
<1>6. BuildersDisjoint'
  <2>. SUFFICES ASSUME NEW c \in Live', NEW d \in Live', c # d
                PROVE  {bld'[c].inputs, bld'[c].outputs} \cap {bld'[d].inputs, bld'[d].outputs} = {}
    BY DEF BuildersDisjoint
  <2>1. CASE c = b
    BY <2>1, <1>1, <1>2, <1>3
  <2>2. CASE d = b
    BY <2>2, <1>1, <1>2, <1>3
  <2>3. CASE c # b /\ d # b
    BY <2>3, <1>1, <1>2 DEF IInv, BuildersDisjoint
  <2>. QED BY <2>1, <2>2, <2>3
<1>7. NCallerObjects < nextObj' /\ NCallerArrays < nextArr'
  BY <1>1 DEF IInv, TypeOK
<1>. QED BY <1>1, <1>5, <1>6, <1>7 DEF IInv

LEMMA NewBuilderIInv ==
    ASSUME IInv, Counted, NEW b \in Builders, NewBuilder(b)
    PROVE  IInv'
<1>1. ArraysOK'
  BY DEF NewBuilder, IInv, TypeOK, ArraysOK, WellFormed
<1>. QED BY <1>1, FreshFieldsIInv DEF NewBuilder

LEMMA ClearIInv ==
    ASSUME IInv, Counted, NEW b \in Builders, Clear(b)
    PROVE  IInv'
<1>1. ArraysOK'
  BY DEF Clear, IInv, TypeOK, ArraysOK, WellFormed
<1>. QED BY <1>1, FreshFieldsIInv DEF Clear

\* getState() hands out the builder's own arrays, allocated cells
LEMMA GetStateIInv ==
    ASSUME IInv, Counted, NEW b \in Builders, GetState(b)
    PROVE  IInv'
<1>1. b \in Live /\ bld[b].inputs \in 1 .. (nextArr - 1) /\ bld[b].outputs \in 1 .. (nextArr - 1)
  BY DEF GetState, IInv, TypeOK
<1>2. Live' = Live
  BY DEF GetState, Live
<1>3. TypeOK'
  <2>1. held' \subseteq 1 .. (nextArr' - 1) /\ exposed' \subseteq held'
    BY <1>1 DEF GetState, IInv, TypeOK
  <2>2. UNCHANGED <<arrays, objs, nextArr, nextObj, bld>> /\ calls' \in 0 .. MaxCalls
    BY DEF GetState, Counted, IInv, TypeOK
  <2>. QED BY <1>2, <2>1, <2>2 DEF IInv, TypeOK
<1>4. BuildersDisjoint'
  BY <1>2 DEF GetState, IInv, BuildersDisjoint
<1>. QED BY <1>3, <1>4 DEF GetState, IInv

\* A write of the caller changes one value field and no reference
LEMMA WriteValueIInv ==
    ASSUME IInv, Counted, NEW o \in Objects, NEW v \in Values, WriteValue(o, v)
    PROVE  IInv'
<1>1. Live' = Live
  BY DEF WriteValue, Live
<1>2. v \in Int
  BY AliasingAssumption
<1>. QED BY <1>1, <1>2 DEF WriteValue, IInv, TypeOK, Counted, BuildersDisjoint

(***************************************************************************)
(* A step that moves no reference (a push, addOutput, a write of the       *)
(* caller) keeps the invariant as long as the arrays stay lists of         *)
(* allocated objects: the builder fields and the caller's arrays are the   *)
(* same cells.                                                             *)
(***************************************************************************)
LEMMA SameRefsIInv ==
    ASSUME IInv, Counted, UNCHANGED <<nextArr, bld, held, exposed>>,
           ArraysOK', objs' \in [Objects -> Int], nextObj' \in nextObj .. (MaxObjects + 1)
    PROVE  IInv'
<1>1. Live' = Live
  BY DEF Live
<1>2. TypeOK'
  BY <1>1 DEF IInv, TypeOK, Counted, ArraysOK, WellFormed
<1>3. BuildersDisjoint'
  BY <1>1 DEF IInv, BuildersDisjoint
<1>. QED BY <1>2, <1>3 DEF IInv, TypeOK

(***************************************************************************)
(* A step that gives builder b a fresh inputs array (both selectUTXOs      *)
(* strategies) keeps the invariant: the new cell is above every reference  *)
(* in use, so it is neither b's outputs array nor any other builder's.     *)
(***************************************************************************)
LEMMA NewInputsIInv ==
    ASSUME IInv, Counted, NEW b \in Live,
           nextArr <= MaxArrays, nextArr' = nextArr + 1,
           bld' = [bld EXCEPT ![b].inputs = nextArr],
           UNCHANGED <<held, exposed>>,
           ArraysOK', objs' \in [Objects -> Int], nextObj' \in nextObj .. (MaxObjects + 1)
    PROVE  IInv'
<1>1. /\ nextArr \in 1 .. MaxArrays /\ Live \subseteq Builders
      /\ bld[b] \in [inputs : 1 .. (nextArr - 1), outputs : 1 .. (nextArr - 1)]
  BY DEF IInv, TypeOK, Live
<1>2. /\ bld'[b] = [inputs |-> nextArr, outputs |-> bld[b].outputs]
      /\ \A c \in Builders \ {b} : bld'[c] = bld[c]
      /\ bld' \in [Builders -> BuilderFields \cup {NoBuilder}]
  BY <1>1 DEF IInv, BuilderFields, Arrays, NoBuilder
<1>3. Live' = Live
  BY <1>1, <1>2 DEF Live, NoBuilder
<1>4. ASSUME NEW c \in Live'
      PROVE  /\ bld'[c] \in [inputs : 1 .. (nextArr' - 1), outputs : 1 .. (nextArr' - 1)]
             /\ bld'[c].inputs # bld'[c].outputs
  <2>1. CASE c = b
    BY <1>1, <1>2, <2>1
  <2>2. CASE c # b
    BY <1>1, <1>2, <1>3, <2>2 DEF IInv, TypeOK
  <2>. QED BY <2>1, <2>2
<1>5. TypeOK'
  <2>1. /\ nextArr' \in 1 .. (MaxArrays + 1) /\ nextObj' \in 1 .. (MaxObjects + 1)
        /\ calls' \in 0 .. MaxCalls
        /\ held' \subseteq 1 .. (nextArr' - 1) /\ exposed' \subseteq held'
    <3>1. held' = held /\ exposed' = exposed
      OBVIOUS
    <3>2. calls \in 0 .. MaxCalls /\ held \subseteq 1 .. (nextArr - 1) /\ exposed \subseteq held
      BY DEF IInv, TypeOK
    <3>3. nextObj \in 1 .. (MaxObjects + 1)
      BY DEF IInv, TypeOK
    <3>. QED BY <1>1, <3>1, <3>2, <3>3 DEF Counted
  <2>2. /\ arrays' \in [Arrays -> Seq(Objects)]
        /\ \A a \in Arrays : Len(arrays'[a]) <= MaxLen /\ Elems(arrays'[a]) \subseteq 1 .. (nextObj' - 1)
    BY DEF ArraysOK, WellFormed
  <2>. QED BY <1>4, <2>1, <2>2 DEF TypeOK
<1>6. BuildersDisjoint'
  <2>. SUFFICES ASSUME NEW c \in Live', NEW d \in Live', c # d
                PROVE  {bld'[c].inputs, bld'[c].outputs} \cap {bld'[d].inputs, bld'[d].outputs} = {}
    BY DEF BuildersDisjoint
  <2>1. \A x \in Live : bld[x] \in [inputs : 1 .. (nextArr - 1), outputs : 1 .. (nextArr - 1)]
    BY DEF IInv, TypeOK
  <2>6. BuildersDisjoint
    BY DEF IInv
  <2>5. ASSUME NEW x \in Live, x # b
        PROVE  {bld'[b].inputs, bld'[b].outputs} \cap {bld'[x].inputs, bld'[x].outputs} = {}
    <3>1. bld'[x] = bld[x] /\ x \in Builders
      BY <1>1, <1>2, <2>5
    <3>2. nextArr \notin {bld[x].inputs, bld[x].outputs}
      BY <2>1
    <3>3. bld[b].outputs \notin {bld[x].inputs, bld[x].outputs}
      BY <2>5 DEF IInv, BuildersDisjoint
    <3>. QED BY <1>2, <3>1, <3>2, <3>3
  <2>2. CASE c = b
    BY <1>3, <2>2, <2>5
  <2>3. CASE d = b
    BY <1>3, <2>3, <2>5
  <2>4. CASE c # b /\ d # b
    <3>1. c \in Live /\ d \in Live /\ c \in Builders /\ d \in Builders
      BY <1>1, <1>3
    <3>2. bld'[c] = bld[c] /\ bld'[d] = bld[d]
      BY <1>2, <2>4, <3>1
    <3>. QED BY <2>6, <3>1, <3>2 DEF BuildersDisjoint
  <2>. QED BY <2>2, <2>3, <2>4
<1>7. NCallerObjects < nextObj' /\ NCallerArrays < nextArr'
  <2>1. NCallerObjects < nextObj /\ NCallerArrays < nextArr /\ nextArr \in Int /\ nextObj \in Int
    BY DEF IInv, TypeOK
  <2>. QED BY <2>1, AliasingAssumption
<1>. QED BY <1>2, <1>5, <1>6, <1>7 DEF IInv

\* The invariant gives the arrays conjunct and the ranges of the counters
LEMMA IInvFacts ==
    ASSUME IInv
    PROVE  /\ ArraysOK
           /\ nextArr \in 1 .. (MaxArrays + 1) /\ nextObj \in 1 .. (MaxObjects + 1)
           /\ held \subseteq Arrays
           /\ \A b \in Live : bld[b].inputs \in Arrays /\ bld[b].outputs \in Arrays
           /\ CallerReach \subseteq 1 .. (nextObj - 1)
           /\ objs \in [Objects -> Int]
<1>1. CallerReach \subseteq 1 .. (nextObj - 1)
  BY CallerReachAllocated
<1>. QED BY <1>1 DEF IInv, TypeOK, ArraysOK, WellFormed, Arrays

(***************************************************************************)
(* A push onto a field of builder b (addInput, addInputs, addOutput) of    *)
(* allocated objects, within the length bound, keeps the invariant.        *)
(***************************************************************************)
LEMMA PushIInv ==
    ASSUME IInv, Counted, NEW b \in Live, NEW f \in {"inputs", "outputs"},
           NEW os \in Seq(Objects), Elems(os) \subseteq 1 .. (nextObj' - 1),
           PushTo(b, f, os), UNCHANGED <<nextArr, bld, held, exposed>>,
           objs' \in [Objects -> Int], nextObj' \in nextObj .. (MaxObjects + 1)
    PROVE  IInv'
<1> DEFINE a == bld[b][f]
<1>1. a \in Arrays /\ arrays[a] \in Seq(Objects) /\ Elems(arrays[a]) \subseteq 1 .. (nextObj - 1)
  BY IInvFacts DEF ArraysOK, WellFormed
<1>2. /\ arrays[a] \o os \in Seq(Objects)
      /\ Len(arrays[a] \o os) <= MaxLen
      /\ Elems(arrays[a] \o os) \subseteq 1 .. (nextObj' - 1)
  <2>1. /\ arrays[a] \o os \in Seq(Objects)
        /\ Len(arrays[a] \o os) = Len(arrays[a]) + Len(os)
        /\ Elems(arrays[a] \o os) = Elems(arrays[a]) \cup Elems(os)
    BY <1>1, ElemsConcat
  <2>. QED BY <1>1, <2>1, IInvFacts DEF PushTo
<1>3. arrays' = [arrays EXCEPT ![a] = arrays[a] \o os]
  BY DEF PushTo
<1>4. WellFormed(arrays, nextObj')
  BY IInvFacts, WellFormedGrow DEF ArraysOK
<1>5. ArraysOK'
  <2>. HIDE DEF a
  <2>. QED BY <1>1, <1>2, <1>3, <1>4, WellFormedUpdate DEF ArraysOK
<1>. QED BY <1>5, SameRefsIInv

\* addInput(utxo) pushes an object the caller reaches
LEMMA AddInputIInv ==
    ASSUME IInv, Counted, NEW b \in Builders, NEW o \in Objects, AddInput(b, o)
    PROVE  IInv'
<1>1. <<o>> \in Seq(Objects) /\ Elems(<<o>>) \subseteq 1 .. (nextObj - 1)
  BY IInvFacts DEF AddInput, Elems
<1>2. /\ b \in Live /\ PushTo(b, "inputs", <<o>>)
      /\ UNCHANGED <<nextArr, bld, held, exposed>>
      /\ Elems(<<o>>) \subseteq 1 .. (nextObj' - 1)
      /\ objs' \in [Objects -> Int] /\ nextObj' \in nextObj .. (MaxObjects + 1)
  BY <1>1, IInvFacts DEF AddInput
<1>. QED BY <1>1, <1>2, PushIInv

\* addInputs(utxos) pushes the objects of an array the caller holds
LEMMA AddInputsIInv ==
    ASSUME IInv, Counted, NEW b \in Builders, NEW a \in Arrays, AddInputs(b, a)
    PROVE  IInv'
<1>1. arrays[a] \in Seq(Objects) /\ Elems(arrays[a]) \subseteq 1 .. (nextObj - 1)
  BY IInvFacts DEF ArraysOK, WellFormed
<1>. QED BY <1>1, PushIInv, IInvFacts DEF AddInputs

\* addOutput allocates one object and pushes it
LEMMA AddOutputIInv ==
    ASSUME IInv, Counted, NEW b \in Builders, NEW v \in Values, AddOutput(b, v)
    PROVE  IInv'
<1>1. nextObj \in 1 .. MaxObjects /\ nextObj' = nextObj + 1
  BY IInvFacts DEF AddOutput
<1>2. <<nextObj>> \in Seq(Objects) /\ Elems(<<nextObj>>) \subseteq 1 .. (nextObj' - 1)
  BY <1>1 DEF Objects, Elems
<1>3. objs' \in [Objects -> Int]
  BY IInvFacts, AliasingAssumption DEF AddOutput
<1>4. /\ b \in Live /\ PushTo(b, "outputs", <<nextObj>>)
      /\ UNCHANGED <<nextArr, bld, held, exposed>>
      /\ nextObj' \in nextObj .. (MaxObjects + 1)
  BY <1>1 DEF AddOutput
<1>. QED BY <1>2, <1>3, <1>4, PushIInv

\* The caller pushes an object it reaches onto an array it holds
LEMMA PushHeldIInv ==
    ASSUME IInv, Counted, NEW a \in Arrays, NEW o \in Objects, PushHeld(a, o)
    PROVE  IInv'
<1>1. arrays[a] \in Seq(Objects) /\ Elems(arrays[a]) \subseteq 1 .. (nextObj - 1)
      /\ o \in 1 .. (nextObj - 1) /\ Len(arrays[a]) < MaxLen
  BY IInvFacts DEF ArraysOK, WellFormed, PushHeld
<1>2. /\ Append(arrays[a], o) \in Seq(Objects)
      /\ Len(Append(arrays[a], o)) <= MaxLen
      /\ Elems(Append(arrays[a], o)) \subseteq 1 .. (nextObj - 1)
  BY <1>1, AppendProperties DEF Elems
<1>3. ArraysOK'
  BY <1>2, IInvFacts, WellFormedUpdate DEF PushHeld, ArraysOK
<1>. QED BY <1>3, SameRefsIInv, IInvFacts DEF PushHeld

\* selectUTXOs(.., "all") copies an array the caller holds into a new cell
LEMMA SelectAllIInv ==
    ASSUME IInv, Counted, NEW b \in Builders, NEW a \in Arrays, SelectAll(b, a)
    PROVE  IInv'
<1>1. /\ b \in Live /\ nextArr \in 1 .. MaxArrays /\ nextArr' = nextArr + 1
      /\ arrays' = [arrays EXCEPT ![nextArr] = arrays[a]]
      /\ bld' = [bld EXCEPT ![b].inputs = nextArr]
      /\ UNCHANGED <<objs, nextObj, held, exposed>>
  BY IInvFacts DEF SelectAll, AllocArrays
<1>2. arrays[a] \in Seq(Objects) /\ Len(arrays[a]) <= MaxLen
      /\ Elems(arrays[a]) \subseteq 1 .. (nextObj - 1)
  BY IInvFacts DEF ArraysOK, WellFormed
<1>3. ArraysOK'
  <2>1. WellFormed(arrays, nextObj) /\ nextArr \in Arrays
    BY <1>1, IInvFacts DEF ArraysOK, Arrays
  <2>2. WellFormed([arrays EXCEPT ![nextArr] = arrays[a]], nextObj)
    BY <1>2, <2>1, WellFormedUpdate
  <2>. QED BY <1>1, <2>2 DEF ArraysOK
<1>4. /\ objs' \in [Objects -> Int] /\ nextObj' \in nextObj .. (MaxObjects + 1)
      /\ UNCHANGED <<held, exposed>> /\ nextArr <= MaxArrays
  BY <1>1, IInvFacts
<1>. QED BY <1>1, <1>3, <1>4, NewInputsIInv

(***************************************************************************)
(* selectUTXOs(.., "accumulative") allocates k objects, copies of picked   *)
(* candidates, and a new array holding them.                               *)
(***************************************************************************)
LEMMA SelectAccumulativeIInv ==
    ASSUME IInv, Counted, NEW b \in Builders, NEW a \in Arrays, SelectAccumulative(b, a)
    PROVE  IInv'
<1>1. PICK k \in 1 .. Len(arrays[a]) :
         \E pick \in [1 .. k -> DOMAIN arrays[a]] :
            /\ \A i, j \in 1 .. k : i # j => pick[i] # pick[j]
            /\ nextObj + k - 1 <= MaxObjects
            /\ AllocArrays(1)
            /\ arrays' = [arrays EXCEPT ![nextArr] = [i \in 1 .. k |-> nextObj + i - 1]]
            /\ objs' = [o \in Objects |->
                          IF o \in nextObj .. (nextObj + k - 1)
                          THEN objs[arrays[a][pick[o - nextObj + 1]]]
                          ELSE objs[o]]
            /\ nextObj' = nextObj + k
            /\ bld' = [bld EXCEPT ![b].inputs = nextArr]
  BY DEF SelectAccumulative
<1>2. PICK pick \in [1 .. k -> DOMAIN arrays[a]] :
            /\ nextObj + k - 1 <= MaxObjects
            /\ AllocArrays(1)
            /\ arrays' = [arrays EXCEPT ![nextArr] = [i \in 1 .. k |-> nextObj + i - 1]]
            /\ objs' = [o \in Objects |->
                          IF o \in nextObj .. (nextObj + k - 1)
                          THEN objs[arrays[a][pick[o - nextObj + 1]]]
                          ELSE objs[o]]
            /\ nextObj' = nextObj + k
            /\ bld' = [bld EXCEPT ![b].inputs = nextArr]
  BY <1>1
<1>3. /\ arrays[a] \in Seq(Objects) /\ Len(arrays[a]) <= MaxLen
      /\ nextObj \in 1 .. (MaxObjects + 1) /\ nextArr \in 1 .. (MaxArrays + 1)
      /\ objs \in [Objects -> Int]
  BY IInvFacts DEF ArraysOK, WellFormed
<1>4. /\ [i \in 1 .. k |-> nextObj + i - 1] \in Seq(Objects)
      /\ Len([i \in 1 .. k |-> nextObj + i - 1]) <= MaxLen
      /\ Elems([i \in 1 .. k |-> nextObj + i - 1]) \subseteq 1 .. (nextObj' - 1)
  <2>1. k \in Nat /\ k <= MaxLen /\ nextObj \in Nat /\ nextObj >= 1
    BY <1>3
  <2>2. \A i \in 1 .. k : nextObj + i - 1 \in 1 .. MaxObjects
    BY <1>2, <2>1
  <2>3. [i \in 1 .. k |-> nextObj + i - 1] \in [1 .. k -> Objects]
    BY <2>2 DEF Objects
  <2>4. Elems([i \in 1 .. k |-> nextObj + i - 1]) \subseteq 1 .. (nextObj + k - 1)
    BY <2>1 DEF Elems
  <2>5. [i \in 1 .. k |-> nextObj + i - 1] \in Seq(Objects)
    BY <2>1, <2>2, IsASeq DEF Objects
  <2>6. Len([i \in 1 .. k |-> nextObj + i - 1]) = k
    BY <2>1, <2>5, LenProperties
  <2>. QED BY <1>2, <2>1, <2>4, <2>5, <2>6
<1>5. ArraysOK'
  <2>1. WellFormed(arrays, nextObj')
    <3>1. WellFormed(arrays, nextObj) /\ nextObj \in Int /\ nextObj' \in Int
          /\ nextObj <= nextObj'
      BY <1>2, <1>3, IInvFacts DEF ArraysOK
    <3>. QED BY <3>1, WellFormedGrow
  <2>2. nextArr \in Arrays
    BY <1>2, <1>3 DEF AllocArrays, Arrays
  <2>3. WellFormed([arrays EXCEPT ![nextArr] = [i \in 1 .. k |-> nextObj + i - 1]], nextObj')
    BY <1>4, <2>1, <2>2, WellFormedUpdate
  <2>. QED BY <1>2, <2>3 DEF ArraysOK
<1>6. objs' \in [Objects -> Int]
  <2>1. ASSUME NEW o \in nextObj .. (nextObj + k - 1)
        PROVE  objs[arrays[a][pick[o - nextObj + 1]]] \in Int
    <3>1. pick[o - nextObj + 1] \in 1 .. Len(arrays[a])
      BY <1>3
    <3>2. arrays[a][pick[o - nextObj + 1]] \in Objects
      BY <1>3, <3>1, ElementOfSeq
    <3>. QED BY <1>3, <3>2
  <2>. QED BY <1>2, <1>3, <2>1
<1>7. /\ b \in Live /\ nextArr <= MaxArrays /\ nextArr' = nextArr + 1
      /\ UNCHANGED <<held, exposed>>
      /\ nextObj' \in nextObj .. (MaxObjects + 1)
  <2>1. b \in Live /\ UNCHANGED <<held, exposed>>
    BY DEF SelectAccumulative
  <2>2. nextArr <= MaxArrays /\ nextArr' = nextArr + 1
    BY <1>2, <1>3 DEF AllocArrays
  <2>3. k \in Nat /\ k >= 1
    BY <1>3
  <2>4. nextObj' \in nextObj .. (MaxObjects + 1)
    BY <1>2, <1>3, <2>3
  <2>. QED BY <2>1, <2>2, <2>4
<1>. QED BY <1>2, <1>5, <1>6, <1>7, NewInputsIInv

\* clone() gives the new builder two new cells holding copies of b's lists
LEMMA CloneIInv ==
    ASSUME IInv, Counted, NEW b \in Builders, NEW c \in Builders, Clone(b, c)
    PROVE  IInv'
<1>1. /\ b \in Live /\ nextArr + 1 <= MaxArrays /\ nextArr \in 1 .. (MaxArrays + 1)
      /\ bld[b].inputs \in Arrays /\ bld[b].outputs \in Arrays
  <2>1. b \in Live /\ AllocArrays(2)
    BY DEF Clone
  <2>2. nextArr \in 1 .. (MaxArrays + 1) /\ bld[b].inputs \in Arrays /\ bld[b].outputs \in Arrays
    BY <2>1, IInvFacts
  <2>. QED BY <2>1, <2>2 DEF AllocArrays
<1>2. \A x \in Arrays : arrays[x] \in Seq(Objects) /\ Len(arrays[x]) <= MaxLen
                        /\ Elems(arrays[x]) \subseteq 1 .. (nextObj - 1)
  BY IInvFacts DEF ArraysOK, WellFormed
<1> DEFINE ins  == arrays[bld[b].inputs]
           outs == arrays[bld[b].outputs]
           A1   == [arrays EXCEPT ![nextArr] = ins]
<1>3. /\ ins \in Seq(Objects) /\ Len(ins) <= MaxLen /\ Elems(ins) \subseteq 1 .. (nextObj - 1)
      /\ outs \in Seq(Objects) /\ Len(outs) <= MaxLen /\ Elems(outs) \subseteq 1 .. (nextObj - 1)
      /\ nextArr \in Arrays /\ nextArr + 1 \in Arrays
      /\ WellFormed(arrays, nextObj)
  <2>1. ins \in Seq(Objects) /\ Len(ins) <= MaxLen /\ Elems(ins) \subseteq 1 .. (nextObj - 1)
    BY <1>1, <1>2
  <2>2. outs \in Seq(Objects) /\ Len(outs) <= MaxLen /\ Elems(outs) \subseteq 1 .. (nextObj - 1)
    BY <1>1, <1>2
  <2>3. nextArr \in Arrays /\ nextArr + 1 \in Arrays
    BY <1>1 DEF Arrays
  <2>4. WellFormed(arrays, nextObj)
    BY IInvFacts DEF ArraysOK
  <2>. QED BY <2>1, <2>2, <2>3, <2>4
<1>. HIDE DEF ins, outs
<1>4. WellFormed(A1, nextObj)
  BY <1>3, WellFormedUpdate
<1>. HIDE DEF A1
<1>41. WellFormed([A1 EXCEPT ![nextArr + 1] = outs], nextObj)
  BY <1>3, <1>4, WellFormedUpdate
<1>5. ArraysOK'
  BY <1>41 DEF Clone, ArraysOK, A1, ins, outs
<1>. QED BY <1>5, FreshFieldsIInv DEF Clone


\* A step of the caller or of any builder method, or a stutter, keeps IInv
LEMMA NextIInv ==
    ASSUME IInv, [Next]_vars
    PROVE  IInv'
<1>1. CASE Next
  <2>1. Counted
    BY <1>1 DEF Next, Counted
  <2>2. CASE \E b \in Builders : Method(b)
    <3>1. PICK b \in Builders : Method(b)
      BY <2>2
    <3>2. CASE NewBuilder(b)
      BY <2>1, <3>2, NewBuilderIInv
    <3>3. CASE \E o \in Objects : AddInput(b, o)
      BY <2>1, <3>3, AddInputIInv
    <3>4. CASE \E a \in Arrays : AddInputs(b, a)
      BY <2>1, <3>4, AddInputsIInv
    <3>5. CASE \E v \in Values : AddOutput(b, v)
      BY <2>1, <3>5, AddOutputIInv
    <3>6. CASE \E a \in Arrays : SelectAll(b, a)
      BY <2>1, <3>6, SelectAllIInv
    <3>7. CASE \E a \in Arrays : SelectAccumulative(b, a)
      BY <2>1, <3>7, SelectAccumulativeIInv
    <3>8. CASE Clear(b)
      BY <2>1, <3>8, ClearIInv
    <3>9. CASE \E c \in Builders : Clone(b, c)
      BY <2>1, <3>9, CloneIInv
    <3>10. CASE GetState(b)
      BY <2>1, <3>10, GetStateIInv
    <3>. QED BY <3>1, <3>2, <3>3, <3>4, <3>5, <3>6, <3>7, <3>8, <3>9, <3>10 DEF Method
  <2>3. CASE CallerWrite
    <3>1. CASE \E o \in Objects, v \in Values : WriteValue(o, v)
      BY <2>1, <3>1, WriteValueIInv
    <3>2. CASE \E a \in Arrays, o \in Objects : PushHeld(a, o)
      BY <2>1, <3>2, PushHeldIInv
    <3>. QED BY <2>3, <3>1, <3>2 DEF CallerWrite
  <2>. QED BY <1>1, <2>2, <2>3 DEF Next
<1>2. CASE UNCHANGED vars
  BY <1>2 DEF vars, IInv, TypeOK, Live, ArraysOK, WellFormed, BuildersDisjoint
<1>. QED BY <1>1, <1>2

(***************************************************************************)
(* Type correctness of the builder's references (TypeOK): in every state  *)
(* every live builder's inputs and outputs are two distinct allocated     *)
(* arrays and every array holds allocated objects within the length       *)
(* bound, whatever the builders, bounds and values.  It rests on IInv,    *)
(* which adds that the arrays of two live builders are disjoint and that   *)
(* the caller's objects and arrays lie below the allocation counters.      *)
(***************************************************************************)
THEOREM TypeCorrect == Spec => []TypeOK
<1>1. Init => IInv
  BY InitIInv
<1>2. IInv /\ [Next]_vars => IInv'
  BY NextIInv
<1>3. IInv => TypeOK
  BY DEF IInv
<1>. QED BY <1>1, <1>2, <1>3, PTL DEF Spec
-----------------------------------------------------------------------------
(***************************************************************************)
(* Independence of builders.  What builder c sees through field f is      *)
(* fixed by its reference bld[c], the array cell it refers to, and the    *)
(* values of the objects in that cell, all of them below nextObj.         *)
(***************************************************************************)
LEMMA ViewFrame ==
    ASSUME IInv, NEW c \in Live, NEW f \in {"inputs", "outputs"},
           bld'[c] = bld[c],
           arrays'[bld[c][f]] = arrays[bld[c][f]],
           \A o \in 1 .. (nextObj - 1) : objs'[o] = objs[o]
    PROVE  View(c, f)' = View(c, f)
<1>1. /\ arrays[bld[c][f]] \in Seq(Objects)
      /\ Elems(arrays[bld[c][f]]) \subseteq 1 .. (nextObj - 1)
  <2>1. bld[c][f] \in Arrays
    BY IInvFacts
  <2>2. WellFormed(arrays, nextObj)
    BY IInvFacts DEF ArraysOK
  <2>. QED BY <2>1, <2>2 DEF WellFormed
<1>2. \A i \in DOMAIN arrays[bld[c][f]] :
          objs'[arrays[bld[c][f]][i]] = objs[arrays[bld[c][f]][i]]
  BY <1>1 DEF Elems
<1>. QED BY <1>2 DEF View

\* A step that leaves the references, cells and objects of every other live
\* builder alone changes none of their views
LEMMA IndependentFrame ==
    ASSUME IInv, NEW b \in Builders,
           \A c \in Live \ {b} :
               /\ bld'[c] = bld[c]
               /\ arrays'[bld[c].inputs] = arrays[bld[c].inputs]
               /\ arrays'[bld[c].outputs] = arrays[bld[c].outputs],
           \A o \in 1 .. (nextObj - 1) : objs'[o] = objs[o]
    PROVE  ViewsUnchanged(Live \ {b})
<1>. SUFFICES ASSUME NEW c \in Live \ {b}
              PROVE  View(c, "inputs")' = View(c, "inputs") /\ View(c, "outputs")' = View(c, "outputs")
  BY DEF ViewsUnchanged
<1>1. View(c, "inputs")' = View(c, "inputs")
  BY ViewFrame
<1>2. View(c, "outputs")' = View(c, "outputs")
  BY ViewFrame
<1>. QED BY <1>1, <1>2

\* Another live builder's cells are allocated, and disjoint from b's when b
\* is live
LEMMA OtherCells ==
    ASSUME IInv, NEW b \in Builders, NEW c \in Live \ {b}
    PROVE  /\ c \in Builders
           /\ bld[c].inputs \in 1 .. (nextArr - 1) /\ bld[c].outputs \in 1 .. (nextArr - 1)
           /\ b \in Live => /\ bld[b].inputs \notin {bld[c].inputs, bld[c].outputs}
                            /\ bld[b].outputs \notin {bld[c].inputs, bld[c].outputs}
<1>1. c \in Builders
  BY DEF Live
<1>2. bld[c].inputs \in 1 .. (nextArr - 1) /\ bld[c].outputs \in 1 .. (nextArr - 1)
  BY DEF IInv, TypeOK
<1>3. b \in Live => {bld[b].inputs, bld[b].outputs} \cap {bld[c].inputs, bld[c].outputs} = {}
  BY DEF IInv, BuildersDisjoint
<1>. QED BY <1>1, <1>2, <1>3

\* Objects below nextObj keep their values when objs is unchanged
LEMMA ObjsKept ==
    ASSUME IInv, objs' = objs
    PROVE  \A o \in 1 .. (nextObj - 1) : objs'[o] = objs[o]
OBVIOUS
\* new builder b and clear() on b only replace bld[b]
LEMMA FreshFieldsIndependent ==
    ASSUME IInv, NEW b \in Builders, FreshFields(b), UNCHANGED <<arrays, objs>>
    PROVE  ViewsUnchanged(Live \ {b})
<1>1. ASSUME NEW c \in Live \ {b} PROVE bld'[c] = bld[c]
  BY OtherCells DEF FreshFields, IInv
<1>. QED BY <1>1, IndependentFrame

\* A push onto a field of live builder b writes only b's own cell
LEMMA PushIndependent ==
    ASSUME IInv, NEW b \in Live, NEW f \in {"inputs", "outputs"}, NEW os,
           PushTo(b, f, os), UNCHANGED bld,
           \A o \in 1 .. (nextObj - 1) : objs'[o] = objs[o]
    PROVE  ViewsUnchanged(Live \ {b})
<1>1. ASSUME NEW c \in Live \ {b}
      PROVE  /\ bld'[c] = bld[c]
             /\ arrays'[bld[c].inputs] = arrays[bld[c].inputs]
             /\ arrays'[bld[c].outputs] = arrays[bld[c].outputs]
  <2>0. b \in Builders
    BY DEF Live
  <2>1. bld[b][f] \notin {bld[c].inputs, bld[c].outputs}
    <3>1. /\ bld[b].inputs \notin {bld[c].inputs, bld[c].outputs}
          /\ bld[b].outputs \notin {bld[c].inputs, bld[c].outputs}
      BY <2>0, OtherCells
    <3>. QED BY <3>1
  <2>. QED BY <2>1 DEF PushTo
<1>2. b \in Builders
  BY DEF Live
<1>. QED BY <1>1, <1>2, IndependentFrame

\* A new cell nextArr for b's inputs is no other builder's cell
LEMMA NewInputsIndependent ==
    ASSUME IInv, NEW b \in Builders, NEW t,
           arrays' = [arrays EXCEPT ![nextArr] = t],
           bld' = [bld EXCEPT ![b].inputs = nextArr],
           \A o \in 1 .. (nextObj - 1) : objs'[o] = objs[o]
    PROVE  ViewsUnchanged(Live \ {b})
<1>1. ASSUME NEW c \in Live \ {b}
      PROVE  /\ bld'[c] = bld[c]
             /\ arrays'[bld[c].inputs] = arrays[bld[c].inputs]
             /\ arrays'[bld[c].outputs] = arrays[bld[c].outputs]
  <2>1. c \in Builders /\ bld[c].inputs \in 1 .. (nextArr - 1) /\ bld[c].outputs \in 1 .. (nextArr - 1)
    BY OtherCells
  <2>2. bld \in [Builders -> BuilderFields \cup {NoBuilder}] /\ nextArr \in Int
    BY DEF IInv, TypeOK
  <2>. QED BY <2>1, <2>2
<1>. QED BY <1>1, IndependentFrame

LEMMA NewBuilderIndependent ==
    ASSUME IInv, NEW b \in Builders, NewBuilder(b)
    PROVE  ViewsUnchanged(Live \ {b})
BY FreshFieldsIndependent DEF NewBuilder

LEMMA ClearIndependent ==
    ASSUME IInv, NEW b \in Builders, Clear(b)
    PROVE  ViewsUnchanged(Live \ {b})
BY FreshFieldsIndependent DEF Clear

LEMMA GetStateIndependent ==
    ASSUME IInv, NEW b \in Builders, GetState(b)
    PROVE  ViewsUnchanged(Live \ {b})
BY IndependentFrame DEF GetState

LEMMA AddInputIndependent ==
    ASSUME IInv, NEW b \in Builders, NEW o \in Objects, AddInput(b, o)
    PROVE  ViewsUnchanged(Live \ {b})
BY PushIndependent DEF AddInput

LEMMA AddInputsIndependent ==
    ASSUME IInv, NEW b \in Builders, NEW a \in Arrays, AddInputs(b, a)
    PROVE  ViewsUnchanged(Live \ {b})
BY PushIndependent DEF AddInputs

\* addOutput writes only the fresh object nextObj
LEMMA AddOutputIndependent ==
    ASSUME IInv, NEW b \in Builders, NEW v \in Values, AddOutput(b, v)
    PROVE  ViewsUnchanged(Live \ {b})
<1>1. \A o \in 1 .. (nextObj - 1) : objs'[o] = objs[o]
  <2>1. objs \in [Objects -> Int] /\ nextObj \in 1 .. (MaxObjects + 1)
    BY IInvFacts
  <2>. QED BY <2>1 DEF AddOutput, Objects
<1>. QED BY <1>1, PushIndependent DEF AddOutput

LEMMA SelectAllIndependent ==
    ASSUME IInv, NEW b \in Builders, NEW a \in Arrays, SelectAll(b, a)
    PROVE  ViewsUnchanged(Live \ {b})
BY NewInputsIndependent DEF SelectAll

\* The accumulative selection writes only the fresh objects from nextObj on
LEMMA SelectAccumulativeIndependent ==
    ASSUME IInv, NEW b \in Builders, NEW a \in Arrays, SelectAccumulative(b, a)
    PROVE  ViewsUnchanged(Live \ {b})
<1>1. PICK k \in 1 .. Len(arrays[a]) :
         \E pick \in [1 .. k -> DOMAIN arrays[a]] :
            /\ arrays' = [arrays EXCEPT ![nextArr] = [i \in 1 .. k |-> nextObj + i - 1]]
            /\ objs' = [o \in Objects |->
                          IF o \in nextObj .. (nextObj + k - 1)
                          THEN objs[arrays[a][pick[o - nextObj + 1]]]
                          ELSE objs[o]]
            /\ bld' = [bld EXCEPT ![b].inputs = nextArr]
  BY DEF SelectAccumulative
<1>2. PICK pick \in [1 .. k -> DOMAIN arrays[a]] :
            /\ arrays' = [arrays EXCEPT ![nextArr] = [i \in 1 .. k |-> nextObj + i - 1]]
            /\ objs' = [o \in Objects |->
                          IF o \in nextObj .. (nextObj + k - 1)
                          THEN objs[arrays[a][pick[o - nextObj + 1]]]
                          ELSE objs[o]]
            /\ bld' = [bld EXCEPT ![b].inputs = nextArr]
  BY <1>1
<1>3. \A o \in 1 .. (nextObj - 1) : objs'[o] = objs[o]
  <2>1. nextObj \in 1 .. (MaxObjects + 1)
    BY IInvFacts
  <2>. QED BY <1>2, <2>1 DEF Objects
<1>. QED BY <1>2, <1>3, NewInputsIndependent

\* clone() writes only the two fresh cells and the reference of the new
\* builder c, which is not live
LEMMA CloneIndependent ==
    ASSUME IInv, NEW b \in Builders, NEW c \in Builders, Clone(b, c)
    PROVE  ViewsUnchanged(Live \ {b})
<1>1. ASSUME NEW d \in Live \ {b}
      PROVE  /\ bld'[d] = bld[d]
             /\ arrays'[bld[d].inputs] = arrays[bld[d].inputs]
             /\ arrays'[bld[d].outputs] = arrays[bld[d].outputs]
  <2>1. d \in Builders /\ bld[d].inputs \in 1 .. (nextArr - 1) /\ bld[d].outputs \in 1 .. (nextArr - 1)
    BY OtherCells
  <2>2. bld \in [Builders -> BuilderFields \cup {NoBuilder}] /\ nextArr \in Int /\ d # c
    BY DEF IInv, TypeOK, Clone
  <2>3. bld'[d] = bld[d]
    BY <2>1, <2>2 DEF Clone, FreshFields
  <2>4. arrays \in [Arrays -> Seq(Objects)] /\ nextArr \in 1 .. (MaxArrays + 1)
    BY IInvFacts DEF ArraysOK, WellFormed
  <2>5. arrays' = [arrays EXCEPT ![nextArr] = arrays[bld[b].inputs],
                                 ![nextArr + 1] = arrays[bld[b].outputs]]
    BY DEF Clone
  <2>6. ASSUME NEW x \in 1 .. (nextArr - 1)
        PROVE  arrays'[x] = arrays[x]
    <3>1. x \in Arrays /\ x # nextArr /\ x # nextArr + 1
      BY <2>4 DEF Arrays
    <3>. QED BY <2>4, <2>5, <3>1
  <2>. QED BY <2>1, <2>3, <2>6
<1>. QED BY <1>1, IndependentFrame DEF Clone
\* Whichever method of builder b a step is, the other builders' views stay
LEMMA MethodIndependent ==
    ASSUME IInv, NEW b \in Builders, Method(b)
    PROVE  ViewsUnchanged(Live \ {b})
<1>1. CASE NewBuilder(b)
  BY <1>1, NewBuilderIndependent
<1>2. CASE \E o \in Objects : AddInput(b, o)
  BY <1>2, AddInputIndependent
<1>3. CASE \E a \in Arrays : AddInputs(b, a)
  BY <1>3, AddInputsIndependent
<1>4. CASE \E v \in Values : AddOutput(b, v)
  BY <1>4, AddOutputIndependent
<1>5. CASE \E a \in Arrays : SelectAll(b, a)
  BY <1>5, SelectAllIndependent
<1>6. CASE \E a \in Arrays : SelectAccumulative(b, a)
  BY <1>6, SelectAccumulativeIndependent
<1>7. CASE Clear(b)
  BY <1>7, ClearIndependent
<1>8. CASE \E c \in Builders : Clone(b, c)
  BY <1>8, CloneIndependent
<1>9. CASE GetState(b)
  BY <1>9, GetStateIndependent
<1>. QED BY <1>1, <1>2, <1>3, <1>4, <1>5, <1>6, <1>7, <1>8, <1>9 DEF Method

\* IInv holds in every state of the specification
LEMMA IInvHolds == Spec => []IInv
<1>1. Init => IInv
  BY InitIInv
<1>2. IInv /\ [Next]_vars => IInv'
  BY NextIInv
<1>. QED BY <1>1, <1>2, PTL DEF Spec

(***************************************************************************)
(* Builders are independent (BuildersIndependent): no method called on a  *)
(* builder b -- the constructor, addInput, addInputs, addOutput, either   *)
(* selectUTXOs strategy, clear, clone or getState -- changes the inputs   *)
(* or outputs any other live builder sees, for every number of builders   *)
(* and every bound.  A method writes only b's own cells, cells it has just *)
(* allocated and objects it has just allocated; IInv says no other live   *)
(* builder refers to any of them.                                         *)
(***************************************************************************)
THEOREM Independent == Spec => BuildersIndependent
<1>1. IInv => [\A b \in Builders : Method(b) => ViewsUnchanged(Live \ {b})]_vars
  BY MethodIndependent
<1>. QED BY <1>1, IInvHolds, PTL DEF BuildersIndependent
-----------------------------------------------------------------------------
(***************************************************************************)
(* Arrays the caller built stay detached.  The caller holds a builder's   *)
(* own array only when getState() returned it: every builder cell the     *)
(* caller holds has been exposed.  A method only ever hands a builder     *)
(* cells above nextArr, which the caller does not hold.                   *)
(***************************************************************************)
HeldExposed ==
    \A b \in Live : {bld[b].inputs, bld[b].outputs} \cap held \subseteq exposed

LEMMA InitHeldExposed == Init => HeldExposed
<1>. SUFFICES ASSUME Init PROVE HeldExposed
  OBVIOUS
<1>1. Live = {}
  BY DEF Init, Live
<1>. QED BY <1>1 DEF HeldExposed

\* Steps that move no reference keep it
LEMMA SameRefsHeld ==
    ASSUME HeldExposed, UNCHANGED <<bld, held, exposed>>
    PROVE  HeldExposed'
BY DEF HeldExposed, Live

\* Only builder b's references move, and b's new ones are not held or exposed
LEMMA NewRefHeld ==
    ASSUME IInv, HeldExposed, NEW b \in Builders,
           \A c \in Builders \ {b} : bld'[c] = bld[c],
           {bld'[b].inputs, bld'[b].outputs} \cap held \subseteq exposed,
           UNCHANGED <<held, exposed>>
    PROVE  HeldExposed'
<1>. SUFFICES ASSUME NEW c \in Live'
              PROVE  {bld'[c].inputs, bld'[c].outputs} \cap held \subseteq exposed
  BY DEF HeldExposed
<1>1. CASE c = b
  BY <1>1
<1>2. CASE c # b
  <2>1. c \in Live /\ bld'[c] = bld[c]
    BY <1>2 DEF Live
  <2>. QED BY <2>1 DEF HeldExposed
<1>. QED BY <1>1, <1>2

\* The caller holds no cell at or above nextArr
LEMMA FreshNotHeld ==
    ASSUME IInv
    PROVE  nextArr \notin held /\ nextArr + 1 \notin held
BY DEF IInv, TypeOK

LEMMA NextHeldExposed ==
    ASSUME IInv, HeldExposed, [Next]_vars
    PROVE  HeldExposed'
<1>1. CASE \E b \in Builders : Method(b)
  <2>1. PICK b \in Builders : Method(b)
    BY <1>1
  <2>0. bld \in [Builders -> BuilderFields \cup {NoBuilder}]
    BY DEF IInv
  <2>2. CASE NewBuilder(b) \/ Clear(b)
    <3>1. /\ FreshFields(b) /\ UNCHANGED <<held, exposed>>
      BY <2>2 DEF NewBuilder, Clear
    <3>2. /\ \A c \in Builders \ {b} : bld'[c] = bld[c]
          /\ bld'[b].inputs = nextArr /\ bld'[b].outputs = nextArr + 1
      BY <2>0, <3>1 DEF FreshFields
    <3>. QED BY <3>1, <3>2, FreshNotHeld, NewRefHeld
  <2>3. CASE \E c \in Builders : Clone(b, c)
    <3>1. PICK c \in Builders : Clone(b, c)
      BY <2>3
    <3>2. /\ FreshFields(c) /\ UNCHANGED <<held, exposed>>
      BY <3>1 DEF Clone
    <3>3. /\ \A d \in Builders \ {c} : bld'[d] = bld[d]
          /\ bld'[c].inputs = nextArr /\ bld'[c].outputs = nextArr + 1
      BY <2>0, <3>2 DEF FreshFields
    <3>. QED BY <3>2, <3>3, FreshNotHeld, NewRefHeld
  <2>4. CASE \E a \in Arrays : SelectAll(b, a) \/ SelectAccumulative(b, a)
    <3>1. /\ b \in Live /\ bld' = [bld EXCEPT ![b].inputs = nextArr]
          /\ UNCHANGED <<held, exposed>>
      BY <2>4 DEF SelectAll, SelectAccumulative
    <3>2. bld[b] \in BuilderFields
      BY <2>0, <3>1 DEF Live
    <3>3. /\ \A c \in Builders \ {b} : bld'[c] = bld[c]
          /\ bld'[b].inputs = nextArr /\ bld'[b].outputs = bld[b].outputs
      BY <2>0, <3>1, <3>2 DEF BuilderFields
    <3>4. bld[b].outputs \in held => bld[b].outputs \in exposed
      BY <3>1 DEF HeldExposed
    <3>5. {bld'[b].inputs, bld'[b].outputs} \cap held \subseteq exposed
      BY <3>3, <3>4, FreshNotHeld
    <3>. QED BY <3>1, <3>3, <3>5, NewRefHeld
  <2>5. CASE GetState(b)
    BY <2>5 DEF GetState, HeldExposed, Live
  <2>6. CASE \/ \E o \in Objects : AddInput(b, o)
             \/ \E a \in Arrays : AddInputs(b, a)
             \/ \E v \in Values : AddOutput(b, v)
    BY <2>6, SameRefsHeld DEF AddInput, AddInputs, AddOutput
  <2>. QED BY <2>1, <2>2, <2>3, <2>4, <2>5, <2>6 DEF Method
<1>2. CASE CallerWrite
  BY <1>2, SameRefsHeld DEF CallerWrite, WriteValue, PushHeld
<1>3. CASE UNCHANGED vars
  BY <1>3, SameRefsHeld DEF vars
<1>. QED BY <1>1, <1>2, <1>3 DEF Next
\* A push by the caller onto an array getState() never returned writes no
\* cell of a live builder
LEMMA PushHeldDetached ==
    ASSUME IInv, HeldExposed, NEW a \in Arrays, NEW o \in Objects,
           PushHeld(a, o), a \notin exposed
    PROVE  ViewsUnchanged(Live)
<1>. SUFFICES ASSUME NEW c \in Live
              PROVE  View(c, "inputs")' = View(c, "inputs") /\ View(c, "outputs")' = View(c, "outputs")
  BY DEF ViewsUnchanged
<1>1. a \notin {bld[c].inputs, bld[c].outputs}
  BY DEF PushHeld, HeldExposed
<1>2. /\ arrays'[bld[c].inputs] = arrays[bld[c].inputs]
      /\ arrays'[bld[c].outputs] = arrays[bld[c].outputs]
      /\ bld'[c] = bld[c] /\ objs' = objs
  BY <1>1 DEF PushHeld
<1>3. View(c, "inputs")' = View(c, "inputs")
  BY <1>2, ViewFrame
<1>4. View(c, "outputs")' = View(c, "outputs")
  BY <1>2, ViewFrame
<1>. QED BY <1>3, <1>4

(***************************************************************************)
(* Arrays the caller built stay detached (CallerArraysDetached): the      *)
(* caller pushing onto an array it holds that getState() never returned   *)
(* changes no builder's lists, for every number of builders and every     *)
(* bound.  addInputs pushes the elements, selectUTXOs("all") spreads them *)
(* into a new array and the accumulative selection builds its own, so the *)
(* only builder cells the caller can hold are the exposed ones             *)
(* (HeldExposed).                                                          *)
(***************************************************************************)
THEOREM Detached == Spec => CallerArraysDetached
<1>1. Init => IInv /\ HeldExposed
  BY InitIInv, InitHeldExposed
<1>2. IInv /\ HeldExposed /\ [Next]_vars => (IInv /\ HeldExposed)'
  BY NextIInv, NextHeldExposed
<1>3. IInv /\ HeldExposed =>
        [\A a \in Arrays, o \in Objects :
            (PushHeld(a, o) /\ a \notin exposed) => ViewsUnchanged(Live)]_vars
  BY PushHeldDetached
<1>. QED BY <1>1, <1>2, <1>3, PTL DEF Spec, CallerArraysDetached
==============================================================================
