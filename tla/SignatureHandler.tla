-------------------------- MODULE SignatureHandler --------------------------
(***************************************************************************)
(* The handling of signature requests: NewSignatureProcessor and           *)
(* SignatureStatusProcessor (message-handler/src/processors/) on top of    *)
(* Processor, FordefiKeychainHandler.sign and getSignature                 *)
(* (message-handler/src/keychains/fordefiKeychainHandler.ts), and the      *)
(* webhook service (webhooks/src/) that turns an event of Fordefi into a   *)
(* status message.                                                         *)
(*                                                                         *)
(* Several deployments of the operator, one for each chain, may share one  *)
(* Fordefi account, and their requests have numbers in common.  A Fordefi  *)
(* transaction is named by the deployment (FORDEFI_API_USER_NAME, in its   *)
(* note) and the request it was made for, <<d, r>>; the uuid given as its  *)
(* idempotence id makes it one transaction for all attempts.  It names the *)
(* status message about it and the signature it ends with, too.            *)
(***************************************************************************)
EXTENDS Processor

CONSTANTS
    Deployments,
    Own,            \* this one
    Sign            \* marks a new signature message, <<Sign, r>>

ASSUME OwnAssumption == Own \in Deployments
ASSUME SignAssumption == Sign \notin Deployments
ASSUME MessagesAssumption ==
    /\ Messages = (Deployments \cup {Sign}) \X Requests
    /\ RequestOf = [m \in Messages |-> m[2]]
    /\ Results = Deployments \X Requests

VARIABLES
    findable,   \* the requests whose key is among the vaults of the request's
                \* creator, where sign looks for it; they stay the same
    signing,    \* the state of each Fordefi transaction
    missed      \* those in a listed state an event of which the webhook dropped

fordefiVars == <<findable, signing, missed>>
vars == <<processorVars, fordefiVars>>

\* Final states: those that sign takes for a failure, and one that it does not
\* know, which stands for canceled too.
Failed == {"error_signing", "aborted"}
Unknown == {"stuck"}
Final == Failed \cup Unknown \cup {"completed"}

\* What the webhook compares with, as the states to publish.
Listed == {"completed", "aborted", "stuck"}

\* "waiting" stands for waiting_for_approval, approved and signed.
SigningStates == {"none", "waiting"} \cup Final

TypeOK ==
    /\ ProcessorTypeOK
    /\ findable \subseteq Requests
    /\ signing \in [Results -> SigningStates]
    /\ missed \subseteq Results

Init ==
    /\ ProcessorInit
    /\ findable \in SUBSET Requests
    /\ signing = [x \in Results |-> "none"]
    /\ missed = {}

-----------------------------------------------------------------------------
(* NewSignatureProcessor                                                   *)

IsSign(s) == msg[s][1] = Sign

\* Mutant of FindVault: only the first page is searched.
FindVaultFirstPage(s) ==
    /\ At(s, "search")
    /\ \E there \in {"create", "submit"} : GoTo(s, there)
    /\ UNCHANGED <<chainVars, found, late, fordefiVars>>

\* The pages of getVaults(name) are searched for the public key: a vault that
\* is not there rejects the request.
FindVault(s) ==
    /\ At(s, "search")
    /\ GoTo(s, IF Request(s) \in findable THEN "create" ELSE "submit")
    /\ UNCHANGED <<chainVars, found, late, fordefiVars>>

\* The states createBlackBoxSignatureRequest may find transaction x in: it has
\* no effect on one that is there.
Asked(x) == IF signing[x] = "none" THEN SigningStates \ {"none"} ELSE {signing[x]}

\* Mutant of AskSignature: a failed transaction is taken for completed.
AskSignatureFallThrough(s) ==
    LET x == <<Own, Request(s)>> IN
    /\ At(s, "create")
    /\ \E there \in Asked(x) :
          /\ signing' = [signing EXCEPT ![x] = there]
          /\ \/ there \in {"waiting"} \cup Unknown /\ Return(s, TRUE)
             \/ /\ there \in Failed \cup {"completed"}
                /\ GoTo(s, "submit")
                /\ found' = [found EXCEPT ![s] = x]
                /\ UNCHANGED <<chainVars, late>>
    /\ UNCHANGED <<findable, missed>>

\* Completed fulfils, Failed rejects, and everything else is Pending: the message
\* is acknowledged, and something else has to bring the answer.
AskSignature(s) ==
    LET x == <<Own, Request(s)>> IN
    /\ At(s, "create")
    /\ \E there \in Asked(x) :
          /\ signing' = [signing EXCEPT ![x] = there]
          /\ \/ there \in {"waiting"} \cup Unknown /\ Return(s, TRUE)
             \/ /\ there \in Failed \cup {"completed"}
                /\ GoTo(s, "submit")
                /\ found' = [found EXCEPT ![s] = IF there = "completed" THEN x ELSE NoResult]
                /\ UNCHANGED <<chainVars, late>>
    /\ UNCHANGED <<findable, missed>>

\* Fordefi takes a request of an attempt that is over.
LateAsk(m) ==
    /\ m \in late
    /\ late' = late \ {m}
    /\ LET x == <<Own, RequestOf[m]>> IN
          \E there \in Asked(x) : signing' = [signing EXCEPT ![x] = there]
    /\ UNCHANGED <<consumerVars, chainVars, slotVars, failures, findable, missed>>

-----------------------------------------------------------------------------
(* SignatureStatusProcessor                                                *)

\* getSignature takes the first signature of the transaction the message names;
\* there is none before it is completed, and the attempt fails.  A message
\* with success false would reject: the webhook publishes none.
FetchSignature(s) ==
    /\ At(s, "fetch")
    /\ signing[msg[s]] = "completed"
    /\ found' = [found EXCEPT ![s] = msg[s]]
    /\ GoTo(s, "submit")
    /\ UNCHANGED <<chainVars, late, fordefiVars>>

-----------------------------------------------------------------------------
(* Fordefi and the webhook                                                 *)

Decide(x) ==
    /\ signing[x] = "waiting"
    /\ \E there \in Final : signing' = [signing EXCEPT ![x] = there]
    /\ UNCHANGED <<processorVars, findable, missed>>

\* Another deployment has a request with the same number, and its transaction
\* completes; of one that does not no event is published, whoever it belongs to.
AskElsewhere(x) ==
    /\ x[1] # Own
    /\ signing[x] = "none"
    /\ signing' = [signing EXCEPT ![x] = "completed"]
    /\ UNCHANGED <<processorVars, findable, missed>>

\* Mutant of CanActivate: the guard lets every event in.
CanActivateAny(x) == TRUE

\* ApiUserGuard.canActivate
CanActivate(x) == x[1] = Own

\* state !== ('completed' || 'aborted' || 'stuck' || 'canceled') compares with
\* 'completed' alone.
Published(x) == signing[x] = "completed"

\* An event comes once, again after an error, late, or not at all; those of
\* states that are not final are dropped, too.
HandleEvent(x) ==
    /\ signing[x] \in Final
    /\ CanActivate(x)
    /\ \/ Published(x) /\ Publish(x) /\ UNCHANGED missed
       \/ /\ ~Published(x)
          /\ missed' = missed \cup ({x} \cap {y \in Results : signing[y] \in Listed})
          /\ UNCHANGED processorVars
    /\ UNCHANGED <<findable, signing>>

-----------------------------------------------------------------------------

Fordefi ==
    \/ \E x \in Results : Decide(x) \/ AskElsewhere(x) \/ HandleEvent(x)
    \/ \E m \in Messages : LateAsk(m)

Progress(s) ==
    \/ FindVault(s) \/ AskSignature(s) \/ FetchSignature(s)
    \/ /\ \/ AlreadyAnswered(s)
          \/ NotSeenAnswered(s, IF IsSign(s) THEN "search" ELSE "fetch")
          \/ SubmitAccepted(s) \/ Confirm(s)
       /\ UNCHANGED fordefiVars

Invocation(s) ==
    Progress(s) \/ ((Mishap(s) \/ Timeout(s)) /\ UNCHANGED fordefiVars)

\* The listener publishes new signature messages only.
Environment ==
    \/ \E r \in Requests : Publish(<<Sign, r>>)
    \/ \E s \in Slots, m \in Messages : Deliver(s, m)
    \/ \E tx \in mempool : Block(tx)
    \/ \E s \in Slots : Recognize(s)
    \/ Interruption
    \/ Crash

Next ==
    \/ \E s \in Slots : Invocation(s)
    \/ Fordefi
    \/ Environment /\ UNCHANGED fordefiVars

Spec == Init /\ [][Next]_vars

\* Calls return or fail, the listener publishes a pending request again, the
\* broker delivers, the chain makes blocks, and Fordefi comes to a decision.  Of
\* the waits for transactions one or the other ends: one slot has the lock of
\* waitTx, up to its deadline, but the rest wait for the lock without one.
\* That the webhook gets an event is not assumed.
Fairness ==
    LET Unchanged == UNCHANGED fordefiVars IN
    /\ \A s \in Slots : WF_vars(step[s] # "wait" /\ Invocation(s))
    /\ WF_vars(\E s \in Slots : step[s] = "wait" /\ Invocation(s))
    /\ \A r \in Requests : WF_vars(Chain!Pending(r) /\ Publish(<<Sign, r>>) /\ Unchanged)
    /\ \A m \in Messages : SF_vars((\E s \in Slots : Deliver(s, m)) /\ Unchanged)
    /\ WF_vars((\E tx \in mempool : Block(tx) /\ Settled(tx)) /\ Unchanged)
    /\ \A x \in Results : WF_vars(Decide(x))

FairSpec == Spec /\ Fairness

-----------------------------------------------------------------------------
(* Properties                                                              *)

\* A new signature message is acknowledged only when its request is answered
\* or Fordefi has a transaction for it, which no later message makes a second
\* time; a status message only when its request is answered.  That Fordefi has it
\* is no promise: one that is stuck or canceled never leads to an answer.
AckedAccounted ==
    \A m \in acked :
        \/ status[RequestOf[m]] # "pending"
        \/ m[1] = Sign /\ signing[<<Own, RequestOf[m]>>] # "none"

\* The reasons to reject a request: no vault with its key among those of its
\* creator, a transaction that failed at Fordefi, ...
Unsignable(r) == r \notin findable \/ signing[<<Own, r>>] \in Failed

\* ... or an invocation that lost all its attempts.
GivenUp(r) == \E m \in Messages : RequestOf[m] = r /\ failures[m] = RetryAttempts

\* A request is rejected only for a reason.
RejectedForReason ==
    \A r \in Requests : status[r] = "rejected" => Unsignable(r) \/ GivenUp(r)

\* The signature Fordefi has made for request r.
Signed(r) == {x \in Results : x = <<Own, r>> /\ signing[x] = "completed"}

\* A copy of message m is in its queue, or an invocation works on it.
InPlay(m) == ready[m] > 0 \/ \E s \in Slots : state[s] # "idle" /\ msg[s] = m

\* The handler gets messages about its own transactions only, and looks for a
\* vault for a new request only.
MessagesFit ==
    /\ \A m \in Messages : InPlay(m) => m[1] \in {Own, Sign}
    /\ \A s \in Slots : /\ step[s] \in {"search", "create"} => msg[s][1] = Sign
                        /\ step[s] = "fetch" => msg[s][1] = Own

\* What is about to be submitted is a signature made for the request, or there
\* will be none.
FoundFits ==
    \A s \in Slots :
        step[s] = "submit" => IF found[s] = NoResult
                              THEN attempts[s] = 0 \/ Unsignable(Request(s))
                              ELSE found[s] \in Signed(Request(s))

\* Request r may be answered by verdict with x.
Founded(r, verdict, x) ==
    IF verdict = "fulfilled" THEN x \in Signed(r)
                             ELSE x = NoResult /\ (Unsignable(r) \/ GivenUp(r))

MempoolFits == \A tx \in mempool : Founded(tx.request, tx.verdict, tx.result)

AnswersFit ==
    \A r \in Requests :
        IF status[r] = "pending" THEN result[r] = NoResult
                                 ELSE Founded(r, status[r], result[r])

\* Why the properties hold, as an inductive invariant: neither the webhook nor
\* a leftover of an attempt, in the mempool or in a slot, can ever answer a
\* request with something not made for it, or reject it without a reason.
IInv ==
    /\ ProcessorInv
    /\ TypeOK
    /\ MessagesFit
    /\ FoundFits
    /\ MempoolFits
    /\ AnswersFit
    /\ AckedAccounted

\* A request is answered once, with the signature this deployment had made for
\* it: neither the events of other deployments, nor duplicates or late answers
\* make it another one.
Ledger == INSTANCE RequestLedger WITH made <- [r \in Requests |-> Signed(r)]

AnsweredOnce == Ledger!Spec

\* Once nothing goes wrong any more every request gets its answer, even with
\* no event from Fordefi: the listener's message leads to it.  The code has no
\* answer for a transaction that ends stuck or canceled: sign acknowledges it as
\* pending on every message (fordefiKeychainHandler.ts, 80), the webhook drops its
\* event, and the idempotence id keeps it from being asked for anew.  Nor is there
\* one if the queue has lost its consumer for good, alone.
EventuallyAnswered ==
    <>[][~ProcessorFault]_vars
        => \A r \in Requests :
              \/ <>(status[r] # "pending" \/ signing[<<Own, r>>] \in Unknown)
              \/ <>[](QueueOf[<<Sign, r>>] \notin consumed)

\* The webhook publishes a status message for every event of a state that it
\* compares with (fordefiWebhook.service.ts, 18).  It does not: only 'completed'
\* passes.
FinalStatesPublished == missed = {}
=============================================================================
