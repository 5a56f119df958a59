----------------------------- MODULE WardenChain -----------------------------
(***************************************************************************)
(* The Warden chain as the message handler uses it through WardenService   *)
(* (blockchain-library/src/index.ts): a transaction is signed and posted   *)
(* in BROADCAST_MODE_SYNC, and its hash is then polled for until a         *)
(* deadline.  signAndBroadcast returns the hash whatever the code of the   *)
(* answer, so a transaction the node refused is waited for like one it     *)
(* took.  When a slot stops waiting, or its process ends, a transaction it *)
(* left in the mempool may still be committed: nobody waits for it then.   *)
(*                                                                         *)
(* Account sequences and the lock of waitTx are in TxSubmission: what they *)
(* cause, a refused or evicted transaction and a deadline that passes      *)
(* before the first look, may happen at any time here.                     *)
(***************************************************************************)
EXTENDS Integers, FiniteSets

CONSTANTS
    Requests,
    Results,
    NoResult,
    Slots,      \* those who send transactions
    MaxMempool  \* bound: transactions in the mempool

VARIABLES
    status,     \* the requests, as the chain's query answers them
    result,     \* the key or signature of a fulfilled request
    mempool,    \* transactions accepted and not yet in a block
    outcome     \* what getTx would find for the hash each slot waits for

vars == <<status, result, mempool, outcome>>

Statuses == {"pending", "fulfilled", "rejected"}

\* "none": no hash; "unknown": getTx finds nothing; "success" and "failure":
\* the transaction is in a block, with code 0 or another one.
Outcomes == {"none", "unknown", "success", "failure"}

\* The waiters are the slots that hold its hash.
Transactions ==
    [waiters : SUBSET Slots,
     request : Requests,
     verdict : {"fulfilled", "rejected"},
     result  : Results \cup {NoResult}]

TypeOK ==
    /\ status \in [Requests -> Statuses]
    /\ result \in [Requests -> Results \cup {NoResult}]
    /\ mempool \subseteq Transactions
    /\ outcome \in [Slots -> Outcomes]

Init ==
    /\ status = [r \in Requests |-> "pending"]
    /\ result = [r \in Requests |-> NoResult]
    /\ mempool = {}
    /\ outcome = [s \in Slots |-> "none"]

-----------------------------------------------------------------------------

Pending(r) == status[r] = "pending"

\* The transactions of fulfil...Request and of reject...Request.
FulfilTx(s, r, x) == [waiters |-> {s}, request |-> r, verdict |-> "fulfilled", result |-> x]
RejectTx(s, r) == [waiters |-> {s}, request |-> r, verdict |-> "rejected", result |-> NoResult]

SameContent(tx, other) == [tx EXCEPT !.waiters = {}] = [other EXCEPT !.waiters = {}]

Tell(slots, found) == outcome' = [s \in Slots |-> IF s \in slots THEN found ELSE outcome[s]]

WithinBound == Cardinality(mempool') <= MaxMempool

\* signAndBroadcast returned a hash: the node accepted the transaction, ...
Accept(tx) ==
    /\ mempool' = mempool \cup {tx}
    /\ WithinBound
    /\ Tell(tx.waiters, "unknown")
    /\ UNCHANGED <<status, result>>

\* ... or refused it, ...
Refuse(tx) ==
    /\ Tell(tx.waiters, "unknown")
    /\ UNCHANGED <<status, result, mempool>>

\* ... or refused it as one it already has: with the account sequence it was
\* signed for before, the same message is the same transaction, and has the
\* hash of the one in the mempool ...
Rejoin(tx) ==
    /\ \E twin \in mempool :
          /\ SameContent(tx, twin)
          /\ mempool' = (mempool \ {twin})
                           \cup {[twin EXCEPT !.waiters = @ \cup tx.waiters]}
    /\ Tell(tx.waiters, "unknown")
    /\ UNCHANGED <<status, result>>

\* ... or of the one in a block by now, which may have failed there.
Rediscover(tx) ==
    /\ \/ /\ status[tx.request] = tx.verdict
          /\ result[tx.request] = tx.result
          /\ Tell(tx.waiters, "success")
       \/ Tell(tx.waiters, "failure")
    /\ UNCHANGED <<status, result, mempool>>

\* These slots stop waiting; unanswered are the transactions posted in this
\* very step whose answer was lost.
Leave(slots, unanswered) ==
    /\ mempool' = {[tx EXCEPT !.waiters = @ \ slots] : tx \in mempool \cup unanswered}
    /\ WithinBound
    /\ Tell(slots, "none")
    /\ UNCHANGED <<status, result>>

\* The chain answers a request once: a later transaction for it fails.
Execute(tx) ==
    /\ tx \in mempool
    /\ Pending(tx.request)
    /\ mempool' = mempool \ {tx}
    /\ status' = [status EXCEPT ![tx.request] = tx.verdict]
    /\ result' = [result EXCEPT ![tx.request] = tx.result]
    /\ Tell(tx.waiters, "success")

\* A transaction may also fail in its block for reasons of its own (gas, fee).
FailInBlock(tx) ==
    /\ tx \in mempool
    /\ mempool' = mempool \ {tx}
    /\ Tell(tx.waiters, "failure")
    /\ UNCHANGED <<status, result>>

\* The mempool drops it, for instance once its account sequence is stale.
Evict(tx) ==
    /\ tx \in mempool
    /\ mempool' = mempool \ {tx}
    /\ UNCHANGED <<status, result, outcome>>
=============================================================================
