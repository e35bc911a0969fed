------------------------------ MODULE RpcClient ------------------------------
(***************************************************************************)
(* ZcashRPCClient, src/chain/zec/ts/src/rpc.ts: JSON-RPC over HTTP with    *)
(* axios.  Every public method is an async call that sends one request     *)
(* and awaits it; several calls may be in flight at once, and their        *)
(* responses arrive in any order, late, or never.                          *)
(*                                                                         *)
(* A call c goes idle -> awaiting -> done.  Its HTTP exchange is net[c]:   *)
(* in flight, lost (the node never answers), replied (a response is on     *)
(* its way back) or delivered.  The node answers with a result, with a     *)
(* 200 response whose body carries an error, or with an HTTP failure       *)
(* (axios rejects non-2xx statuses and refused connections alike).  The    *)
(* axios option timeout: 10000 rejects a request whose response has not    *)
(* been delivered; the node may still process it afterwards.  accepted is  *)
(* the node's own state: the calls whose raw transaction it took.          *)
(*                                                                         *)
(* Addresses, hex strings and amounts are abstracted: getaddressutxos      *)
(* answers with a number of UTXOs from NodeUtxoCounts, and getBalance's    *)
(* sum / 1e8 is kept as that count.                                        *)
(***************************************************************************)
EXTENDS Naturals

CONSTANTS
    Calls,          \* the async calls a caller makes, one method each
    NodeUtxoCounts  \* how many UTXOs getaddressutxos may report

\* "query" is any of getNetworkInfo, getBlockchainInfo, validateAddress and
\* getRawTransaction, which return this.request(...) as it settles
Ops == {"getUTXOs", "getBalance", "sendRawTransaction", "query"}

\* The node's answer to one request
Statuses == {"ok", "rpcError", "httpError"}

NoReply == [st |-> "none"]

VARIABLES op, pc, net, outcome, accepted
vars == <<op, pc, net, outcome, accepted>>

-----------------------------------------------------------------------------
\* Mutant: the response.data.error check dropped
RequestThrowsNoErrorCheck(status) ==
    IF status = "httpError" THEN "RPC_request_failed" ELSE "none"

\* request(): what it throws for a delivered response or a timeout, or
\* "none" when it returns response.data.result.  "RPC_Error" and
\* "RPC_request_failed" stand for the messages 'RPC Error' and
\* 'RPC request failed' of the Errors it throws.
RequestThrows(status) ==
    CASE status = "ok"       -> "none"
      [] status = "rpcError" -> "RPC_Error"
      [] OTHER               -> "RPC_request_failed"

\* Mutant: getUTXOs' catch logs and falls through without return
SettleCatchNoReturn(o, thrown, n) ==
    IF o \in {"getUTXOs", "getBalance"}
    THEN IF thrown = "none" THEN [kind |-> o, utxos |-> n] ELSE [kind |-> "none"]
    ELSE IF thrown # "none" THEN [kind |-> "error", error |-> thrown]
    ELSE IF o = "sendRawTransaction" THEN [kind |-> "txid"]
    ELSE [kind |-> "result"]

\* The public method's result once request() settles: getUTXOs maps the
\* rows to UTXOs without a script field and returns [] from its catch;
\* getBalance sums getUTXOs; the others pass the result (for
\* sendRawTransaction the txid) or the error on
Settle(o, thrown, n) ==
    IF o \in {"getUTXOs", "getBalance"}
    THEN [kind |-> o, utxos |-> IF thrown = "none" THEN n ELSE 0]
    ELSE IF thrown # "none" THEN [kind |-> "error", error |-> thrown]
    ELSE IF o = "sendRawTransaction" THEN [kind |-> "txid"]
    ELSE [kind |-> "result"]

Init ==
    /\ op = [c \in Calls |-> "none"]
    /\ pc = [c \in Calls |-> "idle"]
    /\ net = [c \in Calls |-> NoReply]
    /\ outcome = [c \in Calls |-> [kind |-> "none"]]
    /\ accepted = {}

\* A caller calls a method; request() posts to http://host:port
Start(c, o) ==
    /\ pc[c] = "idle"
    /\ op' = [op EXCEPT ![c] = o]
    /\ pc' = [pc EXCEPT ![c] = "awaiting"]
    /\ net' = [net EXCEPT ![c] = [st |-> "inflight"]]
    /\ UNCHANGED <<outcome, accepted>>

\* The node processes a request, whether or not its caller still waits;
\* a sendrawtransaction it answers with a result is in its mempool
Serve(c, status, n) ==
    /\ net[c].st = "inflight"
    /\ net' = [net EXCEPT ![c] = [st |-> "replied", status |-> status, n |-> n]]
    /\ accepted' = IF op[c] = "sendRawTransaction" /\ status = "ok"
                   THEN accepted \cup {c} ELSE accepted
    /\ UNCHANGED <<op, pc, outcome>>

\* The request or its response is lost
Lose(c) ==
    /\ net[c].st = "inflight"
    /\ net' = [net EXCEPT ![c] = [st |-> "lost"]]
    /\ UNCHANGED <<op, pc, outcome, accepted>>

\* The response reaches axios before the timeout: the awaiting call resumes
Deliver(c) ==
    /\ pc[c] = "awaiting"
    /\ net[c].st = "replied"
    /\ pc' = [pc EXCEPT ![c] = "done"]
    /\ outcome' = [outcome EXCEPT ![c] =
                     Settle(op[c], RequestThrows(net[c].status), net[c].n)]
    /\ net' = [net EXCEPT ![c].st = "delivered"]
    /\ UNCHANGED <<op, accepted>>

\* Mutant: no timeout option, axios waits for ever
TimeoutNever(c) == FALSE

\* Mutant: the catch rethrows the timeout as an RPC error
TimeoutAsRpcError(c) ==
    /\ pc[c] = "awaiting"
    /\ net[c].st \in {"inflight", "lost", "replied"}
    /\ pc' = [pc EXCEPT ![c] = "done"]
    /\ outcome' = [outcome EXCEPT ![c] = Settle(op[c], "RPC_Error", 0)]
    /\ UNCHANGED <<op, net, accepted>>

\* timeout: 10000 fires first: axios rejects and request() rethrows it as
\* "RPC_request_failed"; the request may still be in flight at the node
Timeout(c) ==
    /\ pc[c] = "awaiting"
    /\ net[c].st \in {"inflight", "lost", "replied"}
    /\ pc' = [pc EXCEPT ![c] = "done"]
    /\ outcome' = [outcome EXCEPT ![c] = Settle(op[c], "RPC_request_failed", 0)]
    /\ UNCHANGED <<op, net, accepted>>

Next ==
    \E c \in Calls :
        \/ \E o \in Ops : Start(c, o)
        \/ \E s \in Statuses, n \in NodeUtxoCounts : Serve(c, s, n)
        \/ Lose(c)
        \/ Deliver(c)
        \/ Timeout(c)

(***************************************************************************)
(* The axios timer is the only thing the code relies on to end a wait:     *)
(* while a call awaits an undelivered response, Timeout(c) stays enabled,  *)
(* and Node's event loop runs the timer.  Nothing forces the node to       *)
(* answer or the caller to call, so no other action is fair.               *)
(***************************************************************************)
Fairness == \A c \in Calls : WF_vars(Timeout(c))

Spec == Init /\ [][Next]_vars /\ Fairness

-----------------------------------------------------------------------------
\* Type invariant: getUTXOs and getBalance always settle with a count
TypeOK ==
    /\ op \in [Calls -> Ops \cup {"none"}]
    /\ pc \in [Calls -> {"idle", "awaiting", "done"}]
    /\ accepted \subseteq Calls
    /\ \A c \in Calls :
          /\ net[c].st \in {"none", "inflight", "lost", "replied", "delivered"}
          /\ pc[c] = "done" =>
                outcome[c].kind \in {"getUTXOs", "getBalance", "txid", "result", "error"}
          /\ outcome[c].kind \in {"getUTXOs", "getBalance"} =>
                outcome[c].utxos \in NodeUtxoCounts \cup {0}

(***************************************************************************)
(* sendRawTransaction resolves with a txid only for a transaction the node *)
(* accepted: a 200 response whose body carries an error is thrown by       *)
(* request()'s response.data.error check, not returned as a txid.         *)
(***************************************************************************)
TxidMeansAccepted ==
    \A c \in Calls :
        (pc[c] = "done" /\ outcome[c].kind = "txid") => c \in accepted

(***************************************************************************)
(* A transaction the node accepted is never reported as "RPC_Error": its   *)
(* call resolves with the txid, or, when axios timed out before the        *)
(* response, rejects with "RPC_request_failed", the one outcome a caller   *)
(* must treat as unknown before retrying the broadcast.                    *)
(***************************************************************************)
AcceptedNeverRpcError ==
    \A c \in Calls :
        (c \in accepted /\ pc[c] = "done") =>
            outcome[c] \in {[kind |-> "txid"],
                            [kind |-> "error", error |-> "RPC_request_failed"]}

(***************************************************************************)
(* Every call that awaits a response eventually settles, whatever the      *)
(* node and the network do: the 10000 ms axios timeout ends every wait.    *)
(***************************************************************************)
CallsSettle == \A c \in Calls : pc[c] = "awaiting" ~> pc[c] = "done"

(***************************************************************************)
(* Spec 7: errors are surfaced to the caller, never silently swallowed.    *)
(* A getUTXOs call resolves only on a result the node delivered; its catch *)
(* turns every failure into [], which reads as an address without UTXOs.  *)
(***************************************************************************)
UtxoFailuresSurfaced ==
    \A c \in Calls :
        (pc[c] = "done" /\ op[c] = "getUTXOs") =>
            (net[c].st = "delivered" /\ net[c].status = "ok")
=============================================================================
