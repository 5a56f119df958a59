------------------------------ MODULE Processor ------------------------------
(***************************************************************************)
(* What the three processors of the message handler have in common         *)
(* (message-handler/src/processors/): an invocation takes a message        *)
(* through attempts, an attempt is a sequence of calls, and the last call  *)
(* sends the answer of the message's request to the chain and waits for    *)
(* it.  KeyHandler and SignatureHandler add the calls of their own.        *)
(*                                                                         *)
(* Every call that may throw is a step of its own, as every await is a     *)
(* point where other invocations run.  Two branches of the code are never  *)
(* taken and left out: every message has the one provider there is a       *)
(* handler for, and nothing that is called throws an error with the code   *)
(* and the log that keep the loop from counting it (processor.ts, 27).     *)
(***************************************************************************)
EXTENDS Integers, FiniteSets

CONSTANTS
    Requests,
    Results,        \* what the key provider makes: keys, or signatures
    NoResult,
    Messages,
    NoMessage,
    RequestOf,      \* the request each message is about
    QueueOf,
    Slots,          \* bound: invocations alive at the same time
    RetryAttempts,
    Prefetch,
    MaxCopies,      \* bound: unsettled copies of one message
    MaxMempool,     \* bound: transactions in the mempool
    Losable         \* bound: queues whose consumer may be lost alone

ASSUME SlotsAssumption == IsFiniteSet(Slots)
ASSUME NoResultAssumption == NoResult \notin Results
ASSUME NoMessageAssumption == NoMessage \notin Messages
ASSUME RequestOfAssumption == RequestOf \in [Messages -> Requests]
ASSUME RetryAttemptsAssumption == RetryAttempts \in Nat
ASSUME PrefetchAssumption == Prefetch \in Nat \ {0}
ASSUME LosableAssumption == Losable \subseteq {QueueOf[m] : m \in Messages}
ASSUME BoundsAssumption == MaxCopies \in Nat /\ MaxMempool \in Nat

VARIABLES
    ready, state, msg, attempts, acked, dropped, consumed,  \* of Delivery
    status, result, mempool, outcome,                       \* of WardenChain
    step,       \* the call each slot is about to make
    found,      \* the result its attempt has got, if any
    late,       \* messages with a creation under way that nobody awaits
    failures    \* the most attempts an invocation of each message has lost

Consumer == INSTANCE Delivery
Chain == INSTANCE WardenChain

consumerVars == <<ready, state, msg, attempts, acked, dropped, consumed>>
chainVars == <<status, result, mempool, outcome>>
slotVars == <<step, found>>
processorVars == <<consumerVars, chainVars, slotVars, late, failures>>

Steps == {"none", "query", "search", "create", "fetch", "submit", "wait"}

ProcessorTypeOK ==
    /\ Consumer!TypeOK
    /\ Chain!TypeOK
    /\ step \in [Slots -> Steps]
    /\ found \in [Slots -> Results \cup {NoResult}]
    /\ late \subseteq Messages
    /\ failures \in [Messages -> 0 .. RetryAttempts]

ProcessorInit ==
    /\ Consumer!Init
    /\ Chain!Init
    /\ step = [s \in Slots |-> "none"]
    /\ found = [s \in Slots |-> NoResult]
    /\ late = {}
    /\ failures = [m \in Messages |-> 0]

-----------------------------------------------------------------------------
(* The message                                                             *)

Request(s) == RequestOf[msg[s]]

\* Mutant of FirstStep: the last attempt but one rejects already.
FirstStepEarly(n) == IF n <= 1 THEN "submit" ELSE "query"

\* The last attempt only rejects.
FirstStep(n) == IF n = 0 THEN "submit" ELSE "query"

\* A producer, the listener or the webhook, adds a copy of the message.
Publish(m) ==
    /\ Consumer!Publish(m)
    /\ UNCHANGED <<chainVars, slotVars, late, failures>>

Deliver(s, m) ==
    /\ Consumer!Deliver(s, m)
    /\ step' = [step EXCEPT ![s] = FirstStep(RetryAttempts)]
    /\ UNCHANGED <<chainVars, found, late, failures>>

\* fulfill with what was found, or reject.
Answer(s) ==
    IF found[s] = NoResult THEN Chain!RejectTx(s, Request(s))
                           ELSE Chain!FulfilTx(s, Request(s), found[s])

\* Slots in a call that changes something outside.
Calling == {t \in Slots : step[t] \in {"create", "submit"}}

\* The slots that are free once this step is done.
Freed == {t \in Slots : state'[t] = "idle"}

\* The attempts of slots are over.  The calls of those in unfinished were made
\* and not answered: what they ask for may still happen.
Release(slots, unfinished) ==
    /\ Chain!Leave(slots, {Answer(t) : t \in {u \in unfinished : step[u] = "submit"}})
    /\ late' = late \cup {msg[t] : t \in {u \in unfinished : step[u] = "create"}}
    /\ found' = [t \in Slots |-> IF t \in slots THEN NoResult ELSE found[t]]

\* handle returns; the process may end on it, with the calls of other slots.
Return(s, handled) ==
    /\ Consumer!Settle(s, handled)
    /\ \E unfinished \in SUBSET (Calling \cap (Freed \ {s})) : Release(Freed, unfinished)
    /\ step' = [t \in Slots |-> IF t \in Freed THEN "none" ELSE step[t]]
    /\ UNCHANGED failures

\* handle throws.
Fail(s) ==
    /\ Consumer!Throw(s)
    /\ \E unfinished \in SUBSET (Calling \cap (Freed \cup {s})) :
          Release(Freed \cup {s}, unfinished)
    /\ step' = [t \in Slots |->
                   IF t \in Freed THEN "none"
                   ELSE IF t = s THEN FirstStep(attempts'[s]) ELSE step[t]]
    /\ failures' = [failures EXCEPT ![msg[s]] =
                       IF @ < RetryAttempts - attempts'[s]
                       THEN RetryAttempts - attempts'[s] ELSE @]

Interruption ==
    /\ Consumer!Interruption
    /\ UNCHANGED <<chainVars, slotVars, late, failures>>

Crash ==
    /\ Consumer!Crash
    /\ \E unfinished \in SUBSET Calling : Release(Slots, unfinished)
    /\ step' = [t \in Slots |-> "none"]
    /\ UNCHANGED failures

-----------------------------------------------------------------------------
(* The calls every attempt makes                                           *)

At(s, here) == state[s] # "idle" /\ step[s] = here

GoTo(s, there) ==
    /\ step' = [step EXCEPT ![s] = there]
    /\ UNCHANGED <<consumerVars, failures>>

\* Mutant of AlreadyAnswered: a message is taken for handled before it is.
AlreadyAnsweredAlways(s) == At(s, "query") /\ Return(s, TRUE)

\* if (request && request.status !== PENDING) return true;
AlreadyAnswered(s) ==
    /\ At(s, "query")
    /\ ~Chain!Pending(Request(s))
    /\ Return(s, TRUE)

\* The request is pending, or the query caught an error and says nothing.
NotSeenAnswered(s, next) ==
    /\ At(s, "query")
    /\ GoTo(s, next)
    /\ UNCHANGED <<chainVars, found, late>>

\* signAndBroadcast.
Submit(s) ==
    /\ At(s, "submit")
    /\ GoTo(s, "wait")
    /\ UNCHANGED <<found, late>>

SubmitAccepted(s) == Submit(s) /\ Chain!Accept(Answer(s))

SubmitRefused(s) == Submit(s) /\ Chain!Refuse(Answer(s))

SubmitAgain(s) == Submit(s) /\ (Chain!Rejoin(Answer(s)) \/ Chain!Rediscover(Answer(s)))

\* Nothing the slot waits for is in the mempool or in a block.
NothingToFind(s) == outcome[s] = "unknown" /\ \A tx \in mempool : s \notin tx.waiters

\* The transaction it posted and the node refused is accepted from another slot,
\* which has signed the same message for the same account sequence.
Recognize(s) ==
    /\ At(s, "wait")
    /\ NothingToFind(s)
    /\ Chain!Rejoin(Answer(s))
    /\ UNCHANGED <<consumerVars, slotVars, late, failures>>

\* The answer carries no hash: waitTx returns undefined.
SubmitWithoutHash(s) == At(s, "submit") /\ Return(s, FALSE)

\* Mutant of Confirm: the code of the transaction is not looked at.
ConfirmAny(s) ==
    /\ At(s, "wait")
    /\ outcome[s] \in {"success", "failure"}
    /\ Return(s, TRUE)

\* waitTx has found the transaction: handled means code 0.
Confirm(s) ==
    /\ At(s, "wait")
    /\ outcome[s] \in {"success", "failure"}
    /\ Return(s, outcome[s] = "success")

\* The deadline passes first.  It was set before the lock was waited for, and is
\* looked at only once the lock is got, for which there is no deadline: when that
\* is the case is up to the other slots, see Overtaken.
Timeout(s) == At(s, "wait") /\ Fail(s)

\* Any other call fails, or its answer is lost.
Error(s) == state[s] # "idle" /\ step[s] # "wait" /\ Fail(s)

Block(tx) ==
    /\ Chain!Execute(tx) \/ Chain!FailInBlock(tx) \/ Chain!Evict(tx)
    /\ UNCHANGED <<consumerVars, slotVars, late, failures>>

-----------------------------------------------------------------------------
(* What every processor can do, and what goes wrong beside the code        *)

Mishap(s) == SubmitRefused(s) \/ SubmitAgain(s) \/ SubmitWithoutHash(s) \/ Error(s)

\* What a block does unless something is wrong with the transaction.
Settled(tx) == Chain!Execute(tx) \/ (~Chain!Pending(tx.request) /\ Chain!FailInBlock(tx))

ProcessorFault ==
    \/ Interruption
    \/ Crash
    \/ \E s \in Slots : Mishap(s) \/ Recognize(s) \/ (~NothingToFind(s) /\ Timeout(s))
    \/ \E tx \in mempool : Block(tx) /\ ~Settled(tx)

\* The wait of s goes on while the one of another slot ends: as often as this
\* happens s may be kept from the lock of waitTx, which goes to anyone who waits.
Overtaken(s) ==
    /\ At(s, "wait")
    /\ step'[s] = "wait"
    /\ \E t \in Slots \ {s} : At(t, "wait") /\ step'[t] # "wait"

-----------------------------------------------------------------------------
(* Invariants of all processors                                            *)

\* A slot has a next call exactly while it has a message.
StepsFit == \A s \in Slots : state[s] = "idle" <=> step[s] = "none"

\* Only what is about to be submitted, or has been, is kept of an attempt.
FoundKept == \A s \in Slots : found[s] # NoResult => step[s] \in {"submit", "wait"}

\* Every attempt an invocation has lost is counted.
FailuresFit ==
    \A s \in Slots : state[s] # "idle" => failures[msg[s]] + attempts[s] >= RetryAttempts

\* Only the slots that work on its request hold the hash of a transaction.
WaitersFit ==
    \A tx \in mempool : \A s \in tx.waiters : state[s] # "idle" /\ Request(s) = tx.request

\* A slot is told of success only once its request is answered.
SuccessFits ==
    \A s \in Slots :
        outcome[s] = "success" => state[s] # "idle" /\ ~Chain!Pending(Request(s))

ProcessorInv ==
    /\ ProcessorTypeOK
    /\ StepsFit
    /\ FoundKept
    /\ FailuresFit
    /\ WaitersFit
    /\ SuccessFits
=============================================================================
