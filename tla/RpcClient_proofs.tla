--------------------------- MODULE RpcClient_proofs ---------------------------
(***************************************************************************)
(* Proofs about ZcashRPCClient (module RpcClient): the type invariant, the *)
(* two safety properties of a broadcast, and that a settled call keeps its *)
(* outcome, for every set of calls and every set of UTXO counts.           *)
(*                                                                         *)
(* None of them is inductive as stated: each speaks of outcomes, and what  *)
(* an outcome may be depends on the exchange that produced it.  IInv ties  *)
(* every call's outcome, exchange and the node's accepted set together.   *)
(***************************************************************************)
EXTENDS RpcClient, TLAPS

\* What the exchange of a call can be
NetStates ==
    {NoReply, [st |-> "inflight"], [st |-> "lost"]}
    \cup [st : {"replied", "delivered"}, status : Statuses, n : NodeUtxoCounts]

\* What request() may throw, "none" when it returns
Thrown == {"none", "RPC_Error", "RPC_request_failed"}

\* The outcomes a settled call of method o can have
OutcomesOf(o) == {Settle(o, t, n) : t \in Thrown, n \in NodeUtxoCounts \cup {0}}

\* The node answered c with a result
AnsweredOk(c) == net[c].st \in {"replied", "delivered"} /\ net[c].status = "ok"

(***************************************************************************)
(* The inductive invariant.  A call is idle until started and then holds   *)
(* an exchange; only a settled call has an outcome, and it is one Settle   *)
(* gives its method; an awaiting call has no delivered response; the node  *)
(* accepted exactly the raw transactions it answered with a result; a txid *)
(* was delivered from such an answer, and "RPC_Error" from an error body.  *)
(***************************************************************************)
CallInv(c) ==
    /\ pc[c] = "idle" => op[c] = "none" /\ net[c].st = "none"
    /\ pc[c] # "idle" => op[c] \in Ops /\ net[c].st # "none"
    /\ pc[c] # "done" => outcome[c].kind = "none"
    /\ pc[c] = "awaiting" => net[c].st # "delivered"
    /\ pc[c] = "done" => outcome[c] \in OutcomesOf(op[c])
    /\ c \in accepted <=> (op[c] = "sendRawTransaction" /\ AnsweredOk(c))
    /\ outcome[c].kind = "txid" =>
          net[c].st = "delivered" /\ net[c].status = "ok"
    /\ outcome[c].kind = "error" /\ outcome[c].error = "RPC_Error" =>
          net[c].st = "delivered" /\ net[c].status = "rpcError"

IInv ==
    /\ op \in [Calls -> Ops \cup {"none"}]
    /\ pc \in [Calls -> {"idle", "awaiting", "done"}]
    /\ net \in [Calls -> NetStates]
    /\ DOMAIN outcome = Calls
    /\ accepted \subseteq Calls
    /\ \A c \in Calls : CallInv(c)
-----------------------------------------------------------------------------
(* What Settle and request() return                                        *)

\* A txid comes only from sendRawTransaction's request() returning, an
\* error carries what request() threw, and a count is the node's or 0
LEMMA SettleShapes ==
    ASSUME NEW o \in Ops, NEW t \in Thrown, NEW n
    PROVE  /\ Settle(o, t, n).kind \in {"getUTXOs", "getBalance", "txid", "result", "error"}
           /\ Settle(o, t, n).kind = "txid" => t = "none" /\ o = "sendRawTransaction"
           /\ Settle(o, t, n).kind = "error" => Settle(o, t, n).error = t
           /\ Settle(o, t, n).kind \in {"getUTXOs", "getBalance"} =>
                 Settle(o, t, n).utxos \in {n, 0}
  BY DEF Settle, Ops, Thrown

\* What sendRawTransaction settles with when request() returns or times out
LEMMA SettleSend ==
    /\ \A n : Settle("sendRawTransaction", "none", n) = [kind |-> "txid"]
    /\ \A n : Settle("sendRawTransaction", "RPC_request_failed", n) =
                 [kind |-> "error", error |-> "RPC_request_failed"]
  BY DEF Settle

\* request() throws "RPC_Error" exactly for an error body
LEMMA RequestThrowsShapes ==
    ASSUME NEW s \in Statuses
    PROVE  /\ RequestThrows(s) \in Thrown
           /\ RequestThrows(s) = "none" <=> s = "ok"
           /\ RequestThrows(s) = "RPC_Error" <=> s = "rpcError"
  BY DEF RequestThrows, Statuses, Thrown

-----------------------------------------------------------------------------
LEMMA InitIInv == Init => IInv
  <1> SUFFICES ASSUME Init PROVE IInv
    OBVIOUS
  <1>1. net \in [Calls -> NetStates]
    BY DEF Init, NetStates
  <1>2. ASSUME NEW c \in Calls
        PROVE  /\ pc[c] = "idle" /\ op[c] = "none" /\ net[c].st = "none"
               /\ outcome[c].kind = "none" /\ c \notin accepted
    BY DEF Init, NoReply
  <1>3. QED
    BY <1>1, <1>2 DEF Init, IInv, CallInv

\* What a delivered response settles a call with
LEMMA DeliverOutcome ==
    ASSUME NEW o \in Ops, NEW s \in Statuses, NEW n \in NodeUtxoCounts
    PROVE  /\ Settle(o, RequestThrows(s), n) \in OutcomesOf(o)
           /\ Settle(o, RequestThrows(s), n).kind = "txid" => s = "ok"
           /\ Settle(o, RequestThrows(s), n).kind = "error" /\
              Settle(o, RequestThrows(s), n).error = "RPC_Error" => s = "rpcError"
  <1>1. /\ RequestThrows(s) \in Thrown
        /\ RequestThrows(s) = "none" <=> s = "ok"
        /\ RequestThrows(s) = "RPC_Error" <=> s = "rpcError"
    BY RequestThrowsShapes
  <1>2. Settle(o, RequestThrows(s), n) \in OutcomesOf(o)
    BY <1>1 DEF OutcomesOf
  <1>3. /\ Settle(o, RequestThrows(s), n).kind = "txid" => RequestThrows(s) = "none"
        /\ Settle(o, RequestThrows(s), n).kind = "error" =>
              Settle(o, RequestThrows(s), n).error = RequestThrows(s)
    BY <1>1, SettleShapes
  <1>. QED BY <1>1, <1>2, <1>3

\* What a timed-out call settles with
LEMMA TimeoutOutcome ==
    ASSUME NEW o \in Ops
    PROVE  /\ Settle(o, "RPC_request_failed", 0) \in OutcomesOf(o)
           /\ Settle(o, "RPC_request_failed", 0).kind # "txid"
           /\ Settle(o, "RPC_request_failed", 0).kind = "error" =>
                 Settle(o, "RPC_request_failed", 0).error = "RPC_request_failed"
  <1>1. "RPC_request_failed" \in Thrown /\ 0 \in NodeUtxoCounts \cup {0}
    BY DEF Thrown
  <1>2. Settle(o, "RPC_request_failed", 0) \in OutcomesOf(o)
    BY <1>1 DEF OutcomesOf
  <1>. QED BY <1>1, <1>2, SettleShapes

\* A call a step leaves alone keeps its invariant
LEMMA CallInvFrame ==
    ASSUME NEW d,
           pc'[d] = pc[d], op'[d] = op[d], net'[d] = net[d],
           outcome'[d] = outcome[d], (d \in accepted') = (d \in accepted)
    PROVE  CallInv(d)' = CallInv(d)
  BY DEF CallInv, AnsweredOk

\* Facts about a call that IInv gives and the steps below keep needing
LEMMA CallFacts ==
    ASSUME IInv, NEW c \in Calls
    PROVE  /\ net[c].st # "none" => pc[c] # "idle" /\ op[c] \in Ops
           /\ net[c].st # "delivered" =>
                 /\ outcome[c].kind # "txid"
                 /\ ~(outcome[c].kind = "error" /\ outcome[c].error = "RPC_Error")
           /\ pc[c] # "done" => outcome[c].kind = "none"
           /\ pc[c] = "done" => outcome[c] \in OutcomesOf(op[c])
           /\ pc[c] = "idle" => op[c] = "none"
           /\ pc[c] # "idle" => net[c].st # "none"
           /\ pc[c] = "awaiting" => net[c].st # "delivered"
           /\ c \in accepted <=> (op[c] = "sendRawTransaction" /\ AnsweredOk(c))
  <1>1. CallInv(c)
    BY DEF IInv
  <1>2. net[c].st # "none" => pc[c] # "idle" /\ op[c] \in Ops
    BY <1>1 DEF CallInv
  <1>4. net[c].st # "delivered" =>
              /\ outcome[c].kind # "txid"
              /\ ~(outcome[c].kind = "error" /\ outcome[c].error = "RPC_Error")
    BY <1>1 DEF CallInv
  <1>3. /\ pc[c] # "done" => outcome[c].kind = "none"
        /\ pc[c] = "done" => outcome[c] \in OutcomesOf(op[c])
        /\ pc[c] = "idle" => op[c] = "none"
        /\ pc[c] # "idle" => net[c].st # "none"
        /\ pc[c] = "awaiting" => net[c].st # "delivered"
        /\ c \in accepted <=> (op[c] = "sendRawTransaction" /\ AnsweredOk(c))
    BY <1>1 DEF CallInv
  <1>. QED BY <1>2, <1>3, <1>4

LEMMA NextIInv == IInv /\ [Next]_vars => IInv'
  <1> SUFFICES ASSUME IInv, [Next]_vars PROVE IInv'
    OBVIOUS
  <1>1. ASSUME NEW c \in Calls, NEW o \in Ops, Start(c, o) PROVE IInv'
    <2>1. /\ op' = [op EXCEPT ![c] = o]
          /\ pc' = [pc EXCEPT ![c] = "awaiting"]
          /\ net' = [net EXCEPT ![c] = [st |-> "inflight"]]
          /\ outcome' = outcome /\ accepted' = accepted
      BY <1>1 DEF Start
    <2>2. pc[c] = "idle" /\ outcome[c].kind = "none" /\ c \notin accepted
      BY <1>1, CallFacts DEF Start
    <2>3. CallInv(c)'
      <3>1. /\ pc'[c] = "awaiting" /\ op'[c] = o /\ net'[c].st = "inflight"
            /\ outcome'[c].kind = "none" /\ c \notin accepted'
        BY <2>1, <2>2 DEF IInv
      <3>. QED BY <3>1 DEF CallInv, AnsweredOk
    <2>4. ASSUME NEW d \in Calls, d # c PROVE CallInv(d)'
      BY <2>1, <2>4, CallInvFrame DEF IInv
    <2>. QED BY <2>1, <2>3, <2>4 DEF IInv, NetStates
  <1>2. ASSUME NEW c \in Calls, NEW s \in Statuses, NEW n \in NodeUtxoCounts,
               Serve(c, s, n)
        PROVE  IInv'
    <2>1. /\ net' = [net EXCEPT ![c] = [st |-> "replied", status |-> s, n |-> n]]
          /\ accepted' = IF op[c] = "sendRawTransaction" /\ s = "ok"
                         THEN accepted \cup {c} ELSE accepted
          /\ UNCHANGED <<op, pc, outcome>>
      BY <1>2 DEF Serve
    <2>2. net[c].st = "inflight"
      BY <1>2 DEF Serve
    <2>3. CallInv(c)'
      <3>1. /\ pc'[c] = pc[c] /\ op'[c] = op[c] /\ outcome'[c] = outcome[c]
            /\ net'[c].st = "replied" /\ net'[c].status = s
            /\ c \in accepted' <=> (op[c] = "sendRawTransaction" /\ s = "ok")
        BY <2>1, <2>2, CallFacts DEF IInv, AnsweredOk
      <3>2. /\ pc[c] # "idle" /\ op[c] \in Ops
            /\ outcome[c].kind # "txid"
            /\ ~(outcome[c].kind = "error" /\ outcome[c].error = "RPC_Error")
            /\ pc[c] # "done" => outcome[c].kind = "none"
            /\ pc[c] = "done" => outcome[c] \in OutcomesOf(op[c])
        BY <2>2, CallFacts
      <3>. QED BY <3>1, <3>2 DEF CallInv, AnsweredOk
    <2>4. ASSUME NEW d \in Calls, d # c PROVE CallInv(d)'
      BY <2>1, <2>4, CallInvFrame DEF IInv
    <2>. QED BY <2>1, <2>3, <2>4 DEF IInv, NetStates
  <1>3. ASSUME NEW c \in Calls, Lose(c) PROVE IInv'
    <2>1. /\ net' = [net EXCEPT ![c] = [st |-> "lost"]]
          /\ UNCHANGED <<op, pc, outcome, accepted>>
      BY <1>3 DEF Lose
    <2>2. net[c].st = "inflight"
      BY <1>3 DEF Lose
    <2>3. CallInv(c)'
      <3>1. /\ pc'[c] = pc[c] /\ op'[c] = op[c] /\ outcome'[c] = outcome[c]
            /\ net'[c].st = "lost" /\ c \notin accepted'
        BY <2>1, <2>2, CallFacts DEF IInv, AnsweredOk
      <3>2. /\ pc[c] # "idle" /\ op[c] \in Ops
            /\ outcome[c].kind # "txid"
            /\ ~(outcome[c].kind = "error" /\ outcome[c].error = "RPC_Error")
            /\ pc[c] # "done" => outcome[c].kind = "none"
            /\ pc[c] = "done" => outcome[c] \in OutcomesOf(op[c])
        BY <2>2, CallFacts
      <3>. QED BY <3>1, <3>2 DEF CallInv, AnsweredOk
    <2>4. ASSUME NEW d \in Calls, d # c PROVE CallInv(d)'
      BY <2>1, <2>4, CallInvFrame DEF IInv
    <2>. QED BY <2>1, <2>3, <2>4 DEF IInv, NetStates
  <1>4. ASSUME NEW c \in Calls, Deliver(c) PROVE IInv'
    <2>1. /\ pc' = [pc EXCEPT ![c] = "done"]
          /\ outcome' = [outcome EXCEPT ![c] =
                           Settle(op[c], RequestThrows(net[c].status), net[c].n)]
          /\ net' = [net EXCEPT ![c].st = "delivered"]
          /\ UNCHANGED <<op, accepted>>
      BY <1>4 DEF Deliver
    <2>2. /\ pc[c] = "awaiting" /\ net[c].st = "replied" /\ op[c] \in Ops
          /\ net[c] \in [st : {"replied", "delivered"}, status : Statuses,
                         n : NodeUtxoCounts]
      <3>1. pc[c] = "awaiting" /\ net[c].st = "replied"
        BY <1>4 DEF Deliver
      <3>2. op[c] \in Ops
        BY <3>1, CallFacts
      <3>3. net[c] \in NetStates
        BY DEF IInv
      <3>4. net[c] \in [st : {"replied", "delivered"}, status : Statuses,
                         n : NodeUtxoCounts]
        <4>1. net[c] \notin {NoReply, [st |-> "inflight"], [st |-> "lost"]}
          BY <3>1 DEF NoReply
        <4>. QED BY <3>3, <4>1, Zenon DEF NetStates
      <3>. QED BY <3>1, <3>2, <3>4
    <2>3. /\ net' \in [Calls -> NetStates]
          /\ net'[c].st = "delivered" /\ net'[c].status = net[c].status
      BY <2>1, <2>2 DEF IInv, NetStates
    <2>4. CallInv(c)'
      <3>1. /\ pc'[c] = "done" /\ op'[c] = op[c]
            /\ outcome'[c] = Settle(op[c], RequestThrows(net[c].status), net[c].n)
            /\ c \in accepted' <=> (op[c] = "sendRawTransaction" /\ net[c].status = "ok")
        BY <2>1, <2>2, CallFacts DEF IInv, AnsweredOk
      <3>2. /\ outcome'[c] \in OutcomesOf(op[c])
            /\ outcome'[c].kind = "txid" => net[c].status = "ok"
            /\ outcome'[c].kind = "error" /\ outcome'[c].error = "RPC_Error" =>
                  net[c].status = "rpcError"
        BY <2>2, <3>1, DeliverOutcome
      <3>. QED BY <2>2, <2>3, <3>1, <3>2 DEF CallInv, AnsweredOk
    <2>5. ASSUME NEW d \in Calls, d # c PROVE CallInv(d)'
      BY <2>1, <2>5, CallInvFrame DEF IInv
    <2>. QED BY <2>1, <2>3, <2>4, <2>5 DEF IInv
  <1>5. ASSUME NEW c \in Calls, Timeout(c) PROVE IInv'
    <2>1. /\ pc' = [pc EXCEPT ![c] = "done"]
          /\ outcome' = [outcome EXCEPT ![c] = Settle(op[c], "RPC_request_failed", 0)]
          /\ UNCHANGED <<op, net, accepted>>
      BY <1>5 DEF Timeout
    <2>2. /\ pc[c] = "awaiting" /\ op[c] \in Ops
          /\ net[c].st # "delivered" /\ net[c].st # "none"
      BY <1>5, CallFacts DEF Timeout
    <2>3. CallInv(c)'
      <3>1. /\ pc'[c] = "done" /\ op'[c] = op[c] /\ net'[c] = net[c]
            /\ outcome'[c] = Settle(op[c], "RPC_request_failed", 0)
            /\ c \in accepted' <=> (op[c] = "sendRawTransaction" /\ AnsweredOk(c))
        BY <2>1, <2>2, CallFacts DEF IInv
      <3>2. /\ outcome'[c] \in OutcomesOf(op[c])
            /\ outcome'[c].kind # "txid"
            /\ outcome'[c].kind = "error" =>
                  outcome'[c].error = "RPC_request_failed"
        BY <2>2, <3>1, TimeoutOutcome
      <3>. QED BY <2>2, <3>1, <3>2 DEF CallInv, AnsweredOk
    <2>4. ASSUME NEW d \in Calls, d # c PROVE CallInv(d)'
      BY <2>1, <2>4, CallInvFrame DEF IInv
    <2>. QED BY <2>1, <2>3, <2>4 DEF IInv
  <1>6. CASE UNCHANGED vars
    <2>1. ASSUME NEW d \in Calls PROVE CallInv(d)'
      BY <1>6, CallInvFrame DEF vars, IInv
    <2>. QED BY <1>6, <2>1 DEF vars, IInv
  <1>7. QED
    BY <1>1, <1>2, <1>3, <1>4, <1>5, <1>6 DEF Next

LEMMA SpecIInv == Spec => []IInv
  BY InitIInv, NextIInv, PTL DEF Spec
-----------------------------------------------------------------------------
(* The properties MC_RpcClient.cfg checks, for every set of calls          *)

\* What a settled call's outcome is: Settle of its method
LEMMA SettledOutcome ==
    ASSUME IInv, NEW c \in Calls, pc[c] = "done"
    PROVE  \E t \in Thrown, n \in NodeUtxoCounts \cup {0} :
              /\ outcome[c] = Settle(op[c], t, n)
              /\ op[c] \in Ops
  <1>1. outcome[c] \in OutcomesOf(op[c]) /\ op[c] \in Ops
    BY CallFacts
  <1>. QED BY <1>1 DEF OutcomesOf

(***************************************************************************)
(* Type correctness: every exchange is in one of its five states, and      *)
(* getUTXOs and getBalance settle with the node's count or the 0 of        *)
(* getUTXOs' catch.                                                        *)
(***************************************************************************)
LEMMA IInvTypeOK == IInv => TypeOK
  <1> SUFFICES ASSUME IInv PROVE TypeOK
    OBVIOUS
  <1>1. ASSUME NEW c \in Calls
        PROVE  net[c].st \in {"none", "inflight", "lost", "replied", "delivered"}
    <2>1. net[c] \in NetStates
      BY DEF IInv
    <2>2. net[c] \in {NoReply, [st |-> "inflight"], [st |-> "lost"]} =>
            net[c].st \in {"none", "inflight", "lost"}
      BY DEF NoReply
    <2>3. net[c] \in [st : {"replied", "delivered"}, status : Statuses,
                      n : NodeUtxoCounts] => net[c].st \in {"replied", "delivered"}
      OBVIOUS
    <2>. QED BY <2>1, <2>2, <2>3 DEF NetStates
  <1>2. ASSUME NEW c \in Calls
        PROVE  /\ pc[c] = "done" =>
                     outcome[c].kind \in {"getUTXOs", "getBalance", "txid", "result", "error"}
               /\ outcome[c].kind \in {"getUTXOs", "getBalance"} =>
                     outcome[c].utxos \in NodeUtxoCounts \cup {0}
    <2>1. CASE pc[c] = "done"
      <3>1. PICK t \in Thrown, n \in NodeUtxoCounts \cup {0} :
                outcome[c] = Settle(op[c], t, n) /\ op[c] \in Ops
        BY <2>1, SettledOutcome
      <3>. QED BY <3>1, SettleShapes
    <2>2. CASE pc[c] # "done"
      BY <2>2, CallFacts
    <2>. QED BY <2>1, <2>2
  <1>. QED BY <1>1, <1>2 DEF IInv, TypeOK

\* Theorem: ZcashRPCClient keeps its state well formed
THEOREM TypeCorrect == Spec => []TypeOK
  BY SpecIInv, IInvTypeOK, PTL

(***************************************************************************)
(* sendRawTransaction resolves with a txid only for a transaction the node *)
(* accepted: request()'s response.data.error check turns an error body     *)
(* into a rejection, for any number of concurrent calls.                   *)
(***************************************************************************)
THEOREM TxidOnlyIfAccepted == Spec => []TxidMeansAccepted
  <1>1. IInv => TxidMeansAccepted
    <2> SUFFICES ASSUME IInv, NEW c \in Calls, pc[c] = "done",
                        outcome[c].kind = "txid"
                 PROVE  c \in accepted
      BY DEF TxidMeansAccepted
    <2>1. PICK t \in Thrown, n \in NodeUtxoCounts \cup {0} :
              outcome[c] = Settle(op[c], t, n) /\ op[c] \in Ops
      BY SettledOutcome
    <2>2. op[c] = "sendRawTransaction"
      BY <2>1, SettleShapes
    <2>3. net[c].st = "delivered" /\ net[c].status = "ok"
      BY DEF IInv, CallInv
    <2>. QED BY <2>2, <2>3, CallFacts DEF AnsweredOk
  <1>. QED BY <1>1, SpecIInv, PTL

(***************************************************************************)
(* A transaction the node accepted is never reported as "RPC Error": its   *)
(* call resolves with the txid or rejects with "RPC request failed" when   *)
(* axios timed out first, whichever of the concurrent calls it is.         *)
(***************************************************************************)
THEOREM AcceptedNotRpcError == Spec => []AcceptedNeverRpcError
  <1>1. IInv => AcceptedNeverRpcError
    <2> SUFFICES ASSUME IInv, NEW c \in Calls, c \in accepted, pc[c] = "done"
                 PROVE  outcome[c] \in {[kind |-> "txid"],
                                        [kind |-> "error", error |-> "RPC_request_failed"]}
      BY DEF AcceptedNeverRpcError
    <2>1. op[c] = "sendRawTransaction" /\ net[c].status = "ok"
      BY CallFacts DEF AnsweredOk
    <2>2. PICK t \in Thrown, n \in NodeUtxoCounts \cup {0} :
              outcome[c] = Settle(op[c], t, n)
      BY SettledOutcome
    <2>3. CASE t = "none"
      BY <2>1, <2>2, <2>3, SettleSend
    <2>4. CASE t = "RPC_request_failed"
      BY <2>1, <2>2, <2>4, SettleSend
    <2>5. CASE t = "RPC_Error"
      <3>1. outcome[c].kind = "error" /\ outcome[c].error = "RPC_Error"
        BY <2>1, <2>2, <2>5 DEF Settle
      <3>2. net[c].status = "rpcError"
        BY <3>1 DEF IInv, CallInv
      <3>. QED BY <2>1, <3>2
    <2>. QED BY <2>3, <2>4, <2>5 DEF Thrown
  <1>. QED BY <1>1, SpecIInv, PTL
=============================================================================
