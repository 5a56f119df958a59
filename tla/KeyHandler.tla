----------------------------- MODULE KeyHandler -----------------------------
(***************************************************************************)
(* The handling of new key requests: NewKeyProcessor                       *)
(* (message-handler/src/processors/newKeyProcessor.ts) on top of           *)
(* Processor, and the vaults FordefiKeychainHandler.createKey finds or     *)
(* creates (message-handler/src/keychains/fordefiKeychainHandler.ts).      *)
(*                                                                         *)
(* A message is named by the request it carries, and a key by its vault:   *)
(* Results is the set of the vaults that can be created, a bound.          *)
(***************************************************************************)
EXTENDS Processor

CONSTANTS
    NoRequest,
    SearchHits      \* SearchHits[r]: the requests whose vault the search for
                    \* the vault of r finds; names are matched in part

ASSUME MessagesAssumption ==
    /\ Messages = Requests
    /\ RequestOf = [m \in Messages |-> m]
ASSUME NoRequestAssumption == NoRequest \notin Requests
ASSUME SearchHitsAssumption ==
    /\ SearchHits \in [Requests -> SUBSET Requests]
    /\ \A r \in Requests : r \in SearchHits[r]

VARIABLES
    owner,      \* the request the name of each vault is made of
    raced       \* the requests two creations for which were under way at once

vaultVars == <<owner, raced>>
vars == <<processorVars, vaultVars>>

TypeOK ==
    /\ ProcessorTypeOK
    /\ owner \in [Results -> Requests \cup {NoRequest}]
    /\ raced \subseteq Requests

Init ==
    /\ ProcessorInit
    /\ owner = [v \in Results |-> NoRequest]
    /\ raced = {}

-----------------------------------------------------------------------------

\* What getVault(name) may find for request r: it takes the first hit.
Found(r) == {v \in Results : owner[v] \in SearchHits[r]}

\* Mutant of FindVault: the name is not searched for.
FindAnyVault(s) ==
    /\ At(s, "search")
    /\ \E v \in Results : owner[v] # NoRequest /\ found' = [found EXCEPT ![s] = v]
    /\ GoTo(s, "submit")
    /\ UNCHANGED <<chainVars, late, vaultVars>>

FindVault(s) ==
    /\ At(s, "search")
    /\ \E v \in Found(Request(s)) : found' = [found EXCEPT ![s] = v]
    /\ GoTo(s, "submit")
    /\ UNCHANGED <<chainVars, late, vaultVars>>

\* The slots that have found no vault for request r and are about to create one.
Creating(r) == {t \in Slots : step[t] = "create" /\ Request(t) = r}

\* Slot s goes on to create a vault; raced keeps whether another creation for the
\* same request is under way.
BeginCreation(s) ==
    /\ GoTo(s, "create")
    /\ raced' = IF Creating(Request(s)) # {} \/ Request(s) \in late
                THEN raced \cup {Request(s)} ELSE raced
    /\ UNCHANGED <<chainVars, found, late, owner>>

\* Mutant of FindNoVault: a vault is created without looking for one.
FindNothing(s) == At(s, "search") /\ BeginCreation(s)

FindNoVault(s) ==
    /\ At(s, "search")
    /\ Found(Request(s)) = {}
    /\ BeginCreation(s)

NewVault(v, r) ==
    /\ owner[v] = NoRequest
    /\ owner' = [owner EXCEPT ![v] = r]
    /\ UNCHANGED raced

\* Mutant of CreateVault: an answer that says nothing was created is a key too.
CreateVaultUnchecked(s) ==
    /\ At(s, "create")
    /\ \E v \in Results : found' = [found EXCEPT ![s] = v]
    /\ GoTo(s, "submit")
    /\ UNCHANGED <<chainVars, late, vaultVars>>

CreateVault(s) ==
    /\ At(s, "create")
    /\ \E v \in Results :
          /\ NewVault(v, Request(s))
          /\ found' = [found EXCEPT ![s] = v]
    /\ GoTo(s, "submit")
    /\ UNCHANGED <<chainVars, late>>

\* Fordefi creates a vault that was asked for by an attempt that is over.
LateCreate(r) ==
    /\ r \in late
    /\ \E v \in Results : NewVault(v, r)
    /\ late' = late \ {r}
    /\ UNCHANGED <<consumerVars, chainVars, slotVars, failures>>

-----------------------------------------------------------------------------

Progress(s) ==
    \/ FindVault(s) \/ FindNoVault(s) \/ CreateVault(s)
    \/ /\ \/ AlreadyAnswered(s) \/ NotSeenAnswered(s, "search")
          \/ SubmitAccepted(s) \/ Confirm(s)
       /\ UNCHANGED vaultVars

Invocation(s) == Progress(s) \/ ((Mishap(s) \/ Timeout(s)) /\ UNCHANGED vaultVars)

Environment ==
    \/ \E r \in Requests : Publish(r)
    \/ \E s \in Slots, r \in Requests : Deliver(s, r)
    \/ \E tx \in mempool : Block(tx)
    \/ \E s \in Slots : Recognize(s)
    \/ Interruption
    \/ Crash

Next ==
    \/ \E s \in Slots : Invocation(s)
    \/ \E r \in Requests : LateCreate(r)
    \/ Environment /\ UNCHANGED vaultVars

Spec == Init /\ [][Next]_vars

\* Calls return or fail, the listener publishes a pending request again, the
\* broker delivers, and the chain makes blocks.  Of the waits for transactions
\* one or the other ends: one slot has the lock of waitTx, up to its deadline, but
\* the rest wait for the lock without one.
Fairness ==
    LET Unchanged == UNCHANGED vaultVars IN
    /\ \A s \in Slots : WF_vars(step[s] # "wait" /\ Invocation(s))
    /\ WF_vars(\E s \in Slots : step[s] = "wait" /\ Invocation(s))
    /\ \A r \in Requests : WF_vars(Chain!Pending(r) /\ Publish(r) /\ Unchanged)
    /\ WF_vars((\E s \in Slots, r \in Requests : Deliver(s, r)) /\ Unchanged)
    /\ WF_vars((\E tx \in mempool : Block(tx) /\ Settled(tx)) /\ Unchanged)

FairSpec == Spec /\ Fairness

-----------------------------------------------------------------------------
(* Properties                                                              *)

\* A message is acknowledged, and so forgotten, only when its request has an
\* answer on the chain; handle returns true for nothing else.
AckedAnswered == \A r \in acked : status[r] # "pending"

\* A request is rejected only after one invocation lost all its attempts.
RejectedAfterFailures ==
    \A r \in Requests : status[r] = "rejected" => failures[r] = RetryAttempts

\* What is about to be submitted is a key found or made for the request.
FoundFits ==
    \A s \in Slots :
        step[s] = "submit" => IF found[s] = NoResult THEN attempts[s] = 0
                                                     ELSE found[s] \in Found(msg[s])

\* Request r may be answered by verdict with x.
Founded(r, verdict, x) ==
    IF verdict = "fulfilled" THEN x \in Found(r)
                             ELSE x = NoResult /\ failures[r] = RetryAttempts

MempoolFits == \A tx \in mempool : Founded(tx.request, tx.verdict, tx.result)

AnswersFit ==
    \A r \in Requests :
        IF status[r] = "pending" THEN result[r] = NoResult
                                 ELSE Founded(r, status[r], result[r])

\* Looking for the vault before creating it keeps a request to one vault, over
\* attempts, redeliveries, crashes and creations whose answer was lost.  The one
\* way to a second vault is two creations at once: the search and the creation
\* are two calls (fordefiKeychainHandler.ts, 22-24), and one that nobody awaits
\* any more may still come.
OneVault ==
    \A r \in Requests \ raced, v, w \in Results : owner[v] = r /\ owner[w] = r => v = w

\* Why: without a race one creation is under way at most, and none once there is
\* a vault.
CreationsFit ==
    \A r \in Requests \ raced :
        /\ \A s, t \in Creating(r) : s = t
        /\ Creating(r) = {} \/ r \notin late
        /\ Creating(r) # {} \/ r \in late => \A v \in Results : owner[v] # r

\* Why the properties hold, as an inductive invariant.  No leftover of an attempt,
\* in the mempool or in a slot, can ever answer a request with something the search
\* would not find for it, or reject it too early.
AnswerInv ==
    /\ ProcessorInv
    /\ TypeOK
    /\ FoundFits
    /\ MempoolFits
    /\ AnswersFit
    /\ AckedAnswered

VaultInv == CreationsFit /\ OneVault

IInv == AnswerInv /\ VaultInv

\* A request is answered once, with a vault the search has found for it or was
\* created for it.  The search matches names in part and takes the first hit, so
\* it may be the vault of another request: Found is what the code takes for the
\* request's own.
Ledger == INSTANCE RequestLedger WITH made <- [r \in Requests |-> Found(r)]

AnsweredOnce == Ledger!Spec

\* An invocation ends whatever goes wrong, and does not keep its prefetch slot,
\* unless the waits of others end before its own again and again.
InvocationsEnd ==
    \A s \in Slots : []<>(state[s] = "idle") \/ []<><<Overtaken(s)>>_vars

\* Once nothing goes wrong any more every request gets its answer: a message
\* that was dropped is published again, and no leftover of an earlier attempt
\* stands in its way.  Only if the queue has lost its consumer for good, alone,
\* nothing comes of it.
EventuallyAnswered ==
    <>[][~ProcessorFault]_vars
        => \A r \in Requests : <>(status[r] # "pending") \/ <>[](QueueOf[r] \notin consumed)
=============================================================================
