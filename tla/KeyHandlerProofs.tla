-------------------------- MODULE KeyHandlerProofs --------------------------
(***************************************************************************)
(* What KeyHandler promises, for any number of requests, vaults, slots and *)
(* attempts: the inductive invariant IInv of KeyHandler, the properties    *)
(* that follow from it, among them what makes a second vault, and that     *)
(* KeyHandler implements RequestLedger and Delivery.                       *)
(***************************************************************************)
EXTENDS KeyHandler, ProcessorProofs

USE NoResultAssumption, RetryAttemptsAssumption, MessagesAssumption, NoRequestAssumption,
    SearchHitsAssumption

-----------------------------------------------------------------------------
(* Lemmas                                                                  *)

\* The answer a slot is about to submit is founded.
LEMMA AnswerFounded ==
    ASSUME AnswerInv, NEW s \in Slots, step[s] = "submit"
    PROVE  Founded(Answer(s).request, Answer(s).verdict, Answer(s).result)
<1>1. /\ state[s] # "idle" /\ msg[s] \in Requests /\ Request(s) = msg[s]
      /\ Answer(s).request = Request(s)
      /\ IF found[s] = NoResult
         THEN Answer(s).verdict = "rejected" /\ Answer(s).result = NoResult
         ELSE Answer(s).verdict = "fulfilled" /\ Answer(s).result = found[s]
  BY AnswerType DEF AnswerInv, ProcessorInv, Request
<1>2. CASE found[s] = NoResult
  <2>1. attempts[s] = 0
    BY <1>2 DEF AnswerInv, FoundFits
  <2>2. failures[msg[s]] = RetryAttempts
    BY <1>1, <2>1 DEF AnswerInv, ProcessorInv, FailuresFit, ProcessorTypeOK
  <2>3. QED
    BY <1>1, <1>2, <2>2 DEF Founded
<1>3. CASE found[s] # NoResult
  BY <1>1, <1>3 DEF AnswerInv, FoundFits, Founded
<1>4. QED
  BY <1>2, <1>3

\* What is founded stays so: vaults keep their names, failures only grow.
LEMMA FoundedStays ==
    ASSUME TypeOK, TypeOK', NEW r \in Requests, NEW verdict, NEW x, Founded(r, verdict, x),
           \A v \in Results : owner[v] # NoRequest => owner'[v] = owner[v],
           failures'[r] >= failures[r]
    PROVE  Founded(r, verdict, x)'
BY DEF Founded, Found, TypeOK, ProcessorTypeOK

\* Steps that answer no request: what is in the mempool and on the chain stays
\* founded.
LEMMA AnswersStay ==
    ASSUME AnswerInv, TypeOK', MempoolFrom, UNCHANGED <<status, result>>,
           \A v \in Results : owner[v] # NoRequest => owner'[v] = owner[v],
           \A r \in Requests : failures'[r] >= failures[r]
    PROVE  MempoolFits' /\ AnswersFit'
<1>1. \A verdict, x : \A r \in Requests : Founded(r, verdict, x) => Founded(r, verdict, x)'
  BY FoundedStays DEF AnswerInv
<1>2. MempoolFits'
  <2> SUFFICES ASSUME NEW tx \in mempool'
               PROVE  Founded(tx.request, tx.verdict, tx.result)'
    BY DEF MempoolFits
  <2>1. tx.request \in Requests
    BY DEF TypeOK, ProcessorTypeOK, Chain!TypeOK, Chain!Transactions
  <2>2. Founded(tx.request, tx.verdict, tx.result)
    BY AnswerFounded DEF MempoolFrom, SameAnswer, MempoolFits, AnswerInv
  <2>3. QED
    BY <1>1, <2>1, <2>2
<1>3. AnswersFit'
  BY <1>1 DEF AnswersFit, AnswerInv
<1>4. QED
  BY <1>2, <1>3

\* The same for the steps that touch neither the chain nor vaults nor failures.
LEMMA NothingSubmitted ==
    ASSUME AnswerInv, UNCHANGED <<chainVars, owner, failures>>
    PROVE  MempoolFits' /\ AnswersFit'
BY DEF chainVars, AnswerInv, MempoolFits, AnswersFit, Founded, Found

\* Slots that do not change keep what they found.
LEMMA FoundFitsStays ==
    ASSUME AnswerInv, NEW t \in Slots, step'[t] = "submit",
           step[t] = "submit", found'[t] = found[t], msg'[t] = msg[t], attempts'[t] = attempts[t],
           \A v \in Results : owner[v] # NoRequest => owner'[v] = owner[v]
    PROVE  IF found'[t] = NoResult THEN attempts'[t] = 0 ELSE (found[t] \in Found(msg[t]))'
<1>1. msg[t] \in Requests
  BY DEF AnswerInv, ProcessorInv, StepsFit, ProcessorTypeOK, Consumer!TypeOK
<1>2. QED
  BY <1>1 DEF AnswerInv, FoundFits, Found, TypeOK

\* A new vault takes no name away.
LEMMA NewVaultFound ==
    ASSUME TypeOK, NEW v \in Results, NEW r \in Requests, NewVault(v, r)
    PROVE  /\ owner' \in [Results -> Requests \cup {NoRequest}]
           /\ \A w \in Results : owner[w] # NoRequest => owner'[w] = owner[w]
           /\ \A q \in Requests : Found(q) \subseteq Found(q)'
           /\ v \in Found(r)'
           /\ raced' = raced
BY DEF NewVault, Found, TypeOK

-----------------------------------------------------------------------------
(* Every step keeps the invariant                                          *)

LEMMA InitInvariant == Init => AnswerInv
<1> SUFFICES ASSUME Init PROVE AnswerInv
  OBVIOUS
<1>1. ProcessorInv
  BY ProcessorInitInv DEF Init
<1>2. QED
  BY <1>1 DEF Init, ProcessorInit, Consumer!Init, Chain!Init, ProcessorInv, AnswerInv, TypeOK, FoundFits,
              MempoolFits, AnswersFit, AckedAnswered

LEMMA PublishInvariant ==
    ASSUME AnswerInv, NEW m \in Messages, Publish(m), UNCHANGED vaultVars
    PROVE  AnswerInv'
<1> USE DEF vaultVars
<1>1. /\ ProcessorInv'
      /\ UNCHANGED <<chainVars, slotVars, late, failures, state, msg, attempts, acked>>
  BY PublishKeeps DEF AnswerInv
<1>2. TypeOK' /\ MempoolFits' /\ AnswersFit'
  BY <1>1, NothingSubmitted DEF AnswerInv, TypeOK, ProcessorInv
<1>3. FoundFits' /\ AckedAnswered'
  BY <1>1 DEF slotVars, chainVars, AnswerInv, FoundFits, Found, AckedAnswered
<1>4. QED
  BY <1>1, <1>2, <1>3 DEF AnswerInv

LEMMA DeliverInvariant ==
    ASSUME AnswerInv, NEW s \in Slots, NEW m \in Messages, Deliver(s, m), UNCHANGED vaultVars
    PROVE  AnswerInv'
<1> USE DEF vaultVars
<1>1. /\ ProcessorInv'
      /\ UNCHANGED <<chainVars, found, late, failures, acked>>
      /\ found[s] = NoResult
      /\ step'[s] = "submit" => attempts'[s] = 0
      /\ \A t \in Slots \ {s} : step'[t] = step[t] /\ msg'[t] = msg[t] /\ attempts'[t] = attempts[t]
  BY DeliverKeeps DEF AnswerInv
<1>2. TypeOK' /\ MempoolFits' /\ AnswersFit'
  BY <1>1, NothingSubmitted DEF AnswerInv, TypeOK, ProcessorInv
<1>3. FoundFits'
  BY <1>1 DEF AnswerInv, FoundFits, Found
<1>4. AckedAnswered'
  BY <1>1 DEF chainVars, AnswerInv, AckedAnswered
<1>5. QED
  BY <1>1, <1>2, <1>3, <1>4 DEF AnswerInv

LEMMA ReturnInvariant ==
    ASSUME AnswerInv, NEW s \in Slots, NEW handled \in BOOLEAN, Return(s, handled),
           handled => ~Chain!Pending(Request(s)),
           UNCHANGED vaultVars
    PROVE  AnswerInv'
<1> USE DEF vaultVars
<1>1. /\ ProcessorInv'
      /\ UNCHANGED <<status, result, failures>>
      /\ MempoolFrom
      /\ msg[s] \in Messages
      /\ acked' \subseteq acked \cup (IF handled THEN {msg[s]} ELSE {})
      /\ \A t \in Slots : step'[t] # "none" =>
            /\ step'[t] = step[t] /\ found'[t] = found[t]
            /\ msg'[t] = msg[t] /\ attempts'[t] = attempts[t]
  BY ReturnKeeps DEF AnswerInv
<1>2. TypeOK'
  BY <1>1 DEF AnswerInv, TypeOK, ProcessorInv
<1>3. \A r \in Requests : failures'[r] >= failures[r]
  BY <1>1 DEF AnswerInv, TypeOK, ProcessorTypeOK
<1>4. MempoolFits' /\ AnswersFit'
  BY <1>1, <1>2, <1>3, AnswersStay
<1>5. FoundFits'
  BY <1>1, FoundFitsStays DEF FoundFits
<1>6. AckedAnswered'
  BY <1>1 DEF Chain!Pending, Request, AckedAnswered, AnswerInv
<1>7. QED
  BY <1>1, <1>2, <1>4, <1>5, <1>6 DEF AnswerInv

LEMMA FailInvariant ==
    ASSUME AnswerInv, NEW s \in Slots, Fail(s), UNCHANGED vaultVars
    PROVE  AnswerInv'
<1> USE DEF vaultVars
<1>1. /\ ProcessorInv'
      /\ UNCHANGED <<status, result, acked>>
      /\ \A m \in Messages : failures'[m] >= failures[m]
      /\ MempoolFrom
      /\ \A t \in Slots : step'[t] # "none" =>
            /\ msg'[t] = msg[t]
            /\ IF t = s THEN /\ found'[t] = NoResult
                             /\ step'[t] = FirstStep(attempts'[t])
                        ELSE /\ step'[t] = step[t] /\ found'[t] = found[t]
                             /\ attempts'[t] = attempts[t]
  BY FailKeeps DEF AnswerInv
<1>2. TypeOK'
  BY <1>1 DEF AnswerInv, TypeOK, ProcessorInv
<1>3. MempoolFits' /\ AnswersFit'
  BY <1>1, <1>2, AnswersStay
<1>4. FoundFits'
  <2> SUFFICES ASSUME NEW t \in Slots, step'[t] = "submit"
               PROVE  IF found'[t] = NoResult THEN attempts'[t] = 0 ELSE (found[t] \in Found(msg[t]))'
    BY DEF FoundFits
  <2>1. CASE t = s
    BY <1>1, <2>1 DEF FirstStep
  <2>2. CASE t # s
    BY <1>1, <2>2, FoundFitsStays
  <2>3. QED
    BY <2>1, <2>2
<1>5. AckedAnswered'
  BY <1>1 DEF AckedAnswered, AnswerInv
<1>6. QED
  BY <1>1, <1>2, <1>3, <1>4, <1>5 DEF AnswerInv

LEMMA CrashInvariant ==
    ASSUME AnswerInv, Crash, UNCHANGED vaultVars
    PROVE  AnswerInv'
<1> USE DEF vaultVars
<1>1. /\ ProcessorInv'
      /\ UNCHANGED <<status, result, acked, failures>>
      /\ MempoolFrom
      /\ \A t \in Slots : step'[t] = "none"
  BY CrashKeeps DEF AnswerInv
<1>2. TypeOK'
  BY <1>1 DEF AnswerInv, TypeOK, ProcessorInv
<1>3. \A r \in Requests : failures'[r] >= failures[r]
  BY <1>1 DEF AnswerInv, TypeOK, ProcessorTypeOK
<1>4. MempoolFits' /\ AnswersFit'
  BY <1>1, <1>2, <1>3, AnswersStay
<1>5. FoundFits' /\ AckedAnswered'
  BY <1>1 DEF FoundFits, AckedAnswered, AnswerInv
<1>6. QED
  BY <1>1, <1>2, <1>4, <1>5 DEF AnswerInv

LEMMA InterruptionInvariant ==
    ASSUME AnswerInv, Interruption, UNCHANGED vaultVars
    PROVE  AnswerInv'
<1> USE DEF vaultVars
<1>1. /\ ProcessorInv'
      /\ UNCHANGED <<chainVars, slotVars, late, failures, acked, msg, attempts>>
  BY InterruptionKeeps DEF AnswerInv
<1>2. TypeOK' /\ MempoolFits' /\ AnswersFit'
  BY <1>1, NothingSubmitted DEF AnswerInv, TypeOK, ProcessorInv
<1>3. FoundFits' /\ AckedAnswered'
  BY <1>1 DEF slotVars, chainVars, AnswerInv, FoundFits, Found, AckedAnswered
<1>4. QED
  BY <1>1, <1>2, <1>3 DEF AnswerInv

\* The calls before the submission.
LEMMA LookupInvariant ==
    ASSUME AnswerInv, NEW s \in Slots, NEW here \in Steps \ {"none", "submit", "wait"},
           NEW there \in Steps \ {"none"}, NEW x \in Results \cup {NoResult},
           At(s, here), GoTo(s, there), UNCHANGED <<chainVars, late, owner>>, raced' \subseteq Requests,
           found' = [found EXCEPT ![s] = x],
           IF x = NoResult THEN there # "submit" ELSE there = "submit" /\ x \in Found(Request(s))
    PROVE  AnswerInv'
<1>1. ProcessorInv'
  BY GoToKeeps DEF AnswerInv, ProcessorInv, ProcessorTypeOK
<1>2. TypeOK' /\ MempoolFits' /\ AnswersFit'
  BY <1>1, NothingSubmitted DEF GoTo, AnswerInv, TypeOK, ProcessorInv
<1>3. msg[s] \in Requests /\ Request(s) = msg[s]
  BY DEF At, Request, AnswerInv, ProcessorInv, ProcessorTypeOK, Consumer!TypeOK
<1>4. FoundFits'
  <2> SUFFICES ASSUME NEW t \in Slots, step'[t] = "submit"
               PROVE  IF found'[t] = NoResult THEN attempts'[t] = 0 ELSE (found[t] \in Found(msg[t]))'
    BY DEF FoundFits
  <2>1. CASE t = s
    <3>1. found'[t] = x /\ step'[t] = there /\ msg' = msg /\ owner' = owner
      BY <2>1 DEF GoTo, consumerVars, AnswerInv, ProcessorInv, ProcessorTypeOK
    <3>2. QED
      BY <1>3, <2>1, <3>1 DEF Found
  <2>2. CASE t # s
    <3>1. step[t] = "submit" /\ found'[t] = found[t] /\ msg'[t] = msg[t] /\ attempts'[t] = attempts[t]
      BY <2>2 DEF GoTo, consumerVars, AnswerInv, ProcessorInv, ProcessorTypeOK
    <3>2. QED
      BY <3>1, FoundFitsStays
  <2>3. QED
    BY <2>1, <2>2
<1>5. AckedAnswered'
  BY DEF GoTo, consumerVars, chainVars, AnswerInv, AckedAnswered
<1>6. QED
  BY <1>1, <1>2, <1>4, <1>5 DEF AnswerInv

\* Nothing is found before the submission.
LEMMA NothingFoundYet ==
    ASSUME AnswerInv, NEW s \in Slots, step[s] \notin {"submit", "wait"}
    PROVE  [found EXCEPT ![s] = NoResult] = found
BY DEF AnswerInv, ProcessorInv, FoundKept, ProcessorTypeOK

LEMMA CreateVaultInvariant ==
    ASSUME AnswerInv, NEW s \in Slots, CreateVault(s)
    PROVE  AnswerInv'
<1>1. PICK v \in Results : NewVault(v, Request(s)) /\ found' = [found EXCEPT ![s] = v]
  BY DEF CreateVault
<1>2. /\ At(s, "create") /\ GoTo(s, "submit") /\ UNCHANGED <<chainVars, late>>
      /\ msg[s] \in Requests /\ Request(s) = msg[s]
  BY DEF CreateVault, At, Request, AnswerInv, ProcessorInv, ProcessorTypeOK, Consumer!TypeOK
<1>3. /\ owner' \in [Results -> Requests \cup {NoRequest}]
      /\ \A w \in Results : owner[w] # NoRequest => owner'[w] = owner[w]
      /\ v \in Found(msg[s])'
      /\ raced' = raced
  BY <1>1, <1>2, NewVaultFound DEF AnswerInv, GoTo, consumerVars
<1>4. ProcessorInv'
  BY <1>1, <1>2, GoToKeeps DEF Steps, AnswerInv, ProcessorInv, ProcessorTypeOK
<1>5. TypeOK'
  BY <1>3, <1>4 DEF AnswerInv, TypeOK, ProcessorInv
<1>6. MempoolFrom /\ UNCHANGED <<status, result>>
  BY <1>2 DEF chainVars, MempoolFrom, SameAnswer
<1>7. \A r \in Requests : failures'[r] >= failures[r]
  BY <1>2 DEF GoTo, AnswerInv, TypeOK, ProcessorTypeOK
<1>8. MempoolFits' /\ AnswersFit'
  BY <1>3, <1>5, <1>6, <1>7, AnswersStay
<1>9. FoundFits'
  <2> SUFFICES ASSUME NEW t \in Slots, step'[t] = "submit"
               PROVE  IF found'[t] = NoResult THEN attempts'[t] = 0 ELSE (found[t] \in Found(msg[t]))'
    BY DEF FoundFits
  <2>1. CASE t = s
    <3>1. found'[t] = v /\ msg' = msg
      BY <1>1, <1>2, <2>1 DEF GoTo, consumerVars, AnswerInv, ProcessorInv, ProcessorTypeOK
    <3>2. QED
      BY <1>3, <2>1, <3>1 DEF Found
  <2>2. CASE t # s
    <3>1. step[t] = "submit" /\ found'[t] = found[t] /\ msg'[t] = msg[t] /\ attempts'[t] = attempts[t]
      BY <1>1, <1>2, <2>2 DEF GoTo, consumerVars, AnswerInv, ProcessorInv, ProcessorTypeOK
    <3>2. QED
      BY <1>3, <3>1, FoundFitsStays
  <2>3. QED
    BY <2>1, <2>2
<1>10. AckedAnswered'
  BY <1>2 DEF GoTo, consumerVars, chainVars, AnswerInv, AckedAnswered
<1>11. QED
  BY <1>4, <1>5, <1>8, <1>9, <1>10 DEF AnswerInv

LEMMA LateCreateInvariant ==
    ASSUME AnswerInv, NEW r \in Requests, LateCreate(r)
    PROVE  AnswerInv'
<1>1. PICK v \in Results : NewVault(v, r)
  BY DEF LateCreate
<1>2. late' = late \ {r} /\ UNCHANGED <<consumerVars, chainVars, slotVars, failures>>
  BY DEF LateCreate
<1>3. /\ owner' \in [Results -> Requests \cup {NoRequest}]
      /\ \A w \in Results : owner[w] # NoRequest => owner'[w] = owner[w]
      /\ raced' = raced
  BY <1>1, NewVaultFound DEF AnswerInv
<1>4. ProcessorInv'
  BY <1>2, LateStarts DEF AnswerInv
<1>5. TypeOK'
  BY <1>3, <1>4 DEF AnswerInv, TypeOK, ProcessorInv
<1>6. MempoolFrom /\ UNCHANGED <<status, result>>
  BY <1>2 DEF chainVars, MempoolFrom, SameAnswer
<1>7. \A q \in Requests : failures'[q] >= failures[q]
  BY <1>2 DEF AnswerInv, TypeOK, ProcessorTypeOK
<1>8. MempoolFits' /\ AnswersFit'
  BY <1>3, <1>5, <1>6, <1>7, AnswersStay
<1>9. FoundFits'
  BY <1>2, <1>3, FoundFitsStays DEF consumerVars, slotVars, FoundFits
<1>10. AckedAnswered'
  BY <1>2 DEF consumerVars, chainVars, AnswerInv, AckedAnswered
<1>11. QED
  BY <1>4, <1>5, <1>8, <1>9, <1>10 DEF AnswerInv

LEMMA SubmitInvariant ==
    ASSUME AnswerInv, NEW s \in Slots, SubmitAccepted(s) \/ SubmitRefused(s) \/ SubmitAgain(s),
           UNCHANGED vaultVars
    PROVE  AnswerInv'
<1> USE DEF vaultVars
<1>1. /\ ProcessorInv'
      /\ UNCHANGED <<consumerVars, failures, found, late, status, result>>
      /\ MempoolFrom
      /\ step' = [step EXCEPT ![s] = "wait"]
  BY SubmitKeeps DEF AnswerInv
<1>2. TypeOK'
  BY <1>1 DEF AnswerInv, TypeOK, ProcessorInv
<1>3. \A r \in Requests : failures'[r] >= failures[r]
  BY <1>1 DEF AnswerInv, TypeOK, ProcessorTypeOK
<1>4. MempoolFits' /\ AnswersFit'
  BY <1>1, <1>2, <1>3, AnswersStay
<1>5. FoundFits' /\ AckedAnswered'
  BY <1>1 DEF consumerVars, AnswerInv, ProcessorInv, ProcessorTypeOK, FoundFits, Found, AckedAnswered
<1>6. QED
  BY <1>1, <1>2, <1>4, <1>5 DEF AnswerInv

LEMMA RecognizeInvariant ==
    ASSUME AnswerInv, NEW s \in Slots, Recognize(s), UNCHANGED vaultVars
    PROVE  AnswerInv'
<1> USE DEF vaultVars
<1>1. /\ ProcessorInv'
      /\ UNCHANGED <<consumerVars, slotVars, late, failures, status, result>>
      /\ MempoolFrom
  BY RecognizeKeeps DEF AnswerInv
<1>2. TypeOK'
  BY <1>1 DEF AnswerInv, TypeOK, ProcessorInv
<1>3. \A r \in Requests : failures'[r] >= failures[r]
  BY <1>1 DEF AnswerInv, TypeOK, ProcessorTypeOK
<1>4. MempoolFits' /\ AnswersFit'
  BY <1>1, <1>2, <1>3, AnswersStay
<1>5. FoundFits' /\ AckedAnswered'
  BY <1>1 DEF consumerVars, slotVars, AnswerInv, FoundFits, Found, AckedAnswered
<1>6. QED
  BY <1>1, <1>2, <1>4, <1>5 DEF AnswerInv

LEMMA InvocationInvariant ==
    ASSUME AnswerInv, NEW s \in Slots, Invocation(s)
    PROVE  AnswerInv'
<1>1. CASE AlreadyAnswered(s) /\ UNCHANGED vaultVars
  BY <1>1, ReturnInvariant DEF AlreadyAnswered
<1>2. CASE NotSeenAnswered(s, "search") /\ UNCHANGED vaultVars
  BY <1>2, LookupInvariant, NothingFoundYet DEF NotSeenAnswered, At, Steps, vaultVars, AnswerInv, TypeOK
<1>3. CASE FindVault(s)
  <2>1. PICK v \in Found(Request(s)) : found' = [found EXCEPT ![s] = v]
    BY <1>3 DEF FindVault
  <2>2. v \in Results
    BY <2>1 DEF Found
  <2>3. QED
    BY <1>3, <2>1, <2>2, LookupInvariant DEF FindVault, Steps, vaultVars, AnswerInv, TypeOK
<1>4. CASE FindNoVault(s)
  <2>1. Request(s) \in Requests
    BY <1>4 DEF FindNoVault, At, Request, AnswerInv, ProcessorInv, ProcessorTypeOK, Consumer!TypeOK
  <2>2. raced' \subseteq Requests
    BY <1>4, <2>1 DEF FindNoVault, BeginCreation, AnswerInv, TypeOK
  <2>3. QED
    BY <1>4, <2>2, LookupInvariant, NothingFoundYet DEF FindNoVault, BeginCreation, At, Steps
<1>5. CASE CreateVault(s)
  BY <1>5, CreateVaultInvariant
<1>6. CASE (SubmitAccepted(s) \/ SubmitRefused(s) \/ SubmitAgain(s)) /\ UNCHANGED vaultVars
  BY <1>6, SubmitInvariant
<1>7. CASE Confirm(s) /\ UNCHANGED vaultVars
  BY <1>7, ReturnInvariant DEF Confirm, AnswerInv, ProcessorInv, SuccessFits
<1>8. CASE SubmitWithoutHash(s) /\ UNCHANGED vaultVars
  BY <1>8, ReturnInvariant DEF SubmitWithoutHash
<1>9. CASE (Error(s) \/ Timeout(s)) /\ UNCHANGED vaultVars
  BY <1>9, FailInvariant DEF Error, Timeout
<1>10. QED
  BY <1>1, <1>2, <1>3, <1>4, <1>5, <1>6, <1>7, <1>8, <1>9 DEF Invocation, Progress, Mishap

LEMMA BlockInvariant ==
    ASSUME AnswerInv, NEW tx \in mempool, Block(tx), UNCHANGED vaultVars
    PROVE  AnswerInv'
<1> USE DEF vaultVars
<1>1. /\ ProcessorInv'
      /\ UNCHANGED <<consumerVars, slotVars, late, failures>>
      /\ mempool' \subseteq mempool
      /\ tx \in Chain!Transactions
      /\ \A r \in Requests :
            \/ status'[r] = status[r] /\ result'[r] = result[r]
            \/ /\ r = tx.request /\ status[r] = "pending"
               /\ status'[r] = tx.verdict /\ result'[r] = tx.result
  BY BlockKeeps DEF AnswerInv
<1>2. Founded(tx.request, tx.verdict, tx.result)
  BY DEF AnswerInv, MempoolFits
<1>3. TypeOK'
  BY <1>1 DEF AnswerInv, TypeOK, ProcessorInv
<1>4. FoundFits' /\ MempoolFits'
  BY <1>1 DEF consumerVars, slotVars, AnswerInv, FoundFits, MempoolFits, Founded, Found
<1>5. \A r \in Requests : tx.verdict # "pending"
  BY <1>1 DEF Chain!Transactions
<1>6. AnswersFit'
  BY <1>1, <1>2, <1>5 DEF AnswerInv, AnswersFit, Founded, Found
<1>7. AckedAnswered'
  <2>1. \A r \in Requests : status[r] # "pending" => status'[r] = status[r]
    BY <1>1
  <2>2. acked' = acked /\ acked \subseteq Requests
    BY <1>1 DEF consumerVars, AnswerInv, ProcessorInv, ProcessorTypeOK, Consumer!TypeOK
  <2>3. QED
    BY <2>1, <2>2 DEF AnswerInv, AckedAnswered
<1>8. QED
  BY <1>1, <1>3, <1>4, <1>6, <1>7 DEF AnswerInv

LEMMA StutterInvariant ==
    ASSUME AnswerInv, UNCHANGED vars
    PROVE  AnswerInv'
<1> USE DEF vaultVars
<1>1. ProcessorInv' /\ UNCHANGED <<processorVars, vaultVars>>
  BY ProcessorStutters DEF vars, AnswerInv
<1>2. QED
  BY <1>1 DEF processorVars, consumerVars, chainVars, slotVars, AnswerInv, TypeOK, ProcessorInv, FoundFits,
              MempoolFits, AnswersFit, AckedAnswered, Founded, Found

LEMMA NextInvariant == AnswerInv /\ [Next]_vars => AnswerInv'
<1> SUFFICES ASSUME AnswerInv, [Next]_vars PROVE AnswerInv'
  OBVIOUS
<1>1. CASE \E s \in Slots : Invocation(s)
  BY <1>1, InvocationInvariant
<1>2. CASE \E r \in Requests : LateCreate(r)
  BY <1>2, LateCreateInvariant
<1>3. CASE (\E r \in Requests : Publish(r)) /\ UNCHANGED vaultVars
  BY <1>3, PublishInvariant
<1>4. CASE (\E s \in Slots, r \in Requests : Deliver(s, r)) /\ UNCHANGED vaultVars
  BY <1>4, DeliverInvariant
<1>5. CASE (\E tx \in mempool : Block(tx)) /\ UNCHANGED vaultVars
  BY <1>5, BlockInvariant
<1>6. CASE (Interruption \/ Crash) /\ UNCHANGED vaultVars
  BY <1>6, InterruptionInvariant, CrashInvariant
<1>7. CASE (\E s \in Slots : Recognize(s)) /\ UNCHANGED vaultVars
  BY <1>7, RecognizeInvariant
<1>8. CASE UNCHANGED vars
  BY <1>8, StutterInvariant
<1>9. QED
  BY <1>1, <1>2, <1>3, <1>4, <1>5, <1>6, <1>7, <1>8 DEF Next, Environment

-----------------------------------------------------------------------------
(* Only creations under way at once make a second vault                    *)

\* The steps that neither look for a vault in vain nor create one: no slot is
\* about to create a vault that was not before, and what nobody awaits any more
\* was a slot's until now.
LEMMA OthersDoNotCreate ==
    ASSUME AnswerInv,
           \/ \E s \in Slots : \/ Fail(s) \/ (\E handled \in BOOLEAN : Return(s, handled))
                               \/ SubmitAccepted(s) \/ SubmitRefused(s) \/ SubmitAgain(s)
                               \/ Recognize(s) \/ NotSeenAnswered(s, "search") \/ FindVault(s)
           \/ \E r \in Requests : Publish(r)
           \/ \E s \in Slots, r \in Requests : Deliver(s, r)
           \/ \E tx \in mempool : Block(tx)
           \/ Interruption \/ Crash \/ UNCHANGED vars
    PROVE  /\ \A t \in Slots : step'[t] = "create" => step[t] = "create" /\ msg'[t] = msg[t]
           /\ \A m \in late' \ late :
                 \E u \in Slots : step[u] = "create" /\ step'[u] # "create" /\ msg[u] = m
<1> DEFINE Same == \A t \in Slots : step'[t] = "create" => step[t] = "create" /\ msg'[t] = msg[t]
           Left == \A m \in late' \ late :
                      \E u \in Slots : step[u] = "create" /\ step'[u] # "create" /\ msg[u] = m
<1> USE DEF AnswerInv
<1>1. ASSUME NEW s \in Slots, Fail(s)
      PROVE  Same /\ Left
  <2>1. Same
    BY <1>1, FailKeeps DEF FirstStep
  <2>2. PICK unfinished \in SUBSET (Calling \cap (Freed \cup {s})) :
           Release(Freed \cup {s}, unfinished)
    BY <1>1 DEF Fail
  <2>3. \A u \in unfinished : u \in Slots /\ step'[u] # "create"
    BY <1>1 DEF Fail, FirstStep, Freed, Calling
  <2>4. Left
    BY <2>2, <2>3 DEF Release
  <2>5. QED
    BY <2>1, <2>4
<1>2. ASSUME NEW s \in Slots, NEW handled \in BOOLEAN, Return(s, handled)
      PROVE  Same /\ Left
  <2>1. Same
    BY <1>2, ReturnKeeps
  <2>2. PICK unfinished \in SUBSET (Calling \cap (Freed \ {s})) : Release(Freed, unfinished)
    BY <1>2 DEF Return
  <2>3. \A u \in unfinished : u \in Slots /\ step'[u] # "create"
    BY <1>2 DEF Return, Freed, Calling
  <2>4. Left
    BY <2>2, <2>3 DEF Release
  <2>5. QED
    BY <2>1, <2>4
<1>3. ASSUME NEW s \in Slots,
             \/ SubmitAccepted(s) \/ SubmitRefused(s) \/ SubmitAgain(s)
             \/ NotSeenAnswered(s, "search") \/ FindVault(s)
      PROVE  Same /\ Left
  BY <1>3 DEF SubmitAccepted, SubmitRefused, SubmitAgain, Submit, NotSeenAnswered, FindVault, GoTo,
              consumerVars, ProcessorInv, ProcessorTypeOK
<1>4. ASSUME NEW s \in Slots, NEW r \in Requests, Deliver(s, r)
      PROVE  Same /\ Left
  BY <1>4, DeliverKeeps DEF Deliver, FirstStep, ProcessorInv, ProcessorTypeOK
<1>5. CASE \/ \E s \in Slots : Recognize(s)
           \/ \E tx \in mempool : Block(tx)
           \/ Interruption \/ UNCHANGED vars
  BY <1>5, InterruptionKeeps DEF Recognize, Block, vars, processorVars, consumerVars, slotVars
<1>6. ASSUME NEW r \in Requests, Publish(r)
      PROVE  Same /\ Left
  BY <1>6, PublishKeeps DEF slotVars
<1>7. CASE Crash
  <2>1. Same
    BY <1>7, CrashKeeps
  <2>2. PICK unfinished \in SUBSET Calling : Release(Slots, unfinished)
    BY <1>7 DEF Crash
  <2>3. \A u \in unfinished : u \in Slots /\ step'[u] # "create"
    BY <1>7 DEF Crash, Calling
  <2>4. Left
    BY <2>2, <2>3 DEF Release
  <2>5. QED
    BY <2>1, <2>4
<1>8. QED
  BY <1>1, <1>2, <1>3, <1>4, <1>5, <1>6, <1>7

\* A slot about to create a vault has a message, which is its request.
LEMMA CreatorsRequest ==
    ASSUME AnswerInv, NEW t \in Slots, step[t] = "create"
    PROVE  msg[t] \in Requests /\ Request(t) = msg[t]
BY DEF AnswerInv, ProcessorInv, StepsFit, ProcessorTypeOK, Consumer!TypeOK, Request

\* An attempt that ends hands its creation over: there are no more of them.
LEMMA CreationsStay ==
    ASSUME AnswerInv, VaultInv, UNCHANGED vaultVars,
           \A t \in Slots : step'[t] = "create" => step[t] = "create" /\ msg'[t] = msg[t],
           \A m \in late' \ late :
              \E u \in Slots : step[u] = "create" /\ step'[u] # "create" /\ msg[u] = m
    PROVE  VaultInv'
<1>1. OneVault'
  BY DEF VaultInv, OneVault, vaultVars
<1>2. \A r \in Requests : Creating(r)' \subseteq Creating(r)
  BY DEF Creating, Request
<1>3. \A r \in Requests : r \in late' \ late => \E u \in Creating(r) : u \notin Creating(r)'
  BY CreatorsRequest DEF Creating
<1>4. CreationsFit'
  <2> SUFFICES ASSUME NEW r \in Requests \ raced
               PROVE  /\ \A s, t \in Creating(r)' : s = t
                      /\ Creating(r)' = {} \/ r \notin late'
                      /\ Creating(r)' # {} \/ r \in late' => \A v \in Results : owner[v] # r
    BY DEF CreationsFit, vaultVars
  <2>1. /\ \A s, t \in Creating(r) : s = t
        /\ Creating(r) = {} \/ r \notin late
        /\ Creating(r) # {} \/ r \in late => \A v \in Results : owner[v] # r
    BY DEF VaultInv, CreationsFit
  <2>2. QED
    BY <1>2, <1>3, <2>1
<1>5. QED
  BY <1>1, <1>4 DEF VaultInv

LEMMA CreateVaultOnce ==
    ASSUME AnswerInv, VaultInv, NEW s \in Slots, CreateVault(s)
    PROVE  VaultInv'
<1>1. PICK v \in Results : NewVault(v, Request(s))
  BY DEF CreateVault
<1>2. /\ step[s] = "create" /\ step' = [step EXCEPT ![s] = "submit"]
      /\ UNCHANGED <<msg, late, raced>>
      /\ step \in [Slots -> Steps]
  BY <1>1 DEF CreateVault, NewVault, At, GoTo, consumerVars, AnswerInv, ProcessorInv, ProcessorTypeOK
<1>3. Request(s) \in Requests /\ s \in Creating(Request(s))
  BY <1>2, CreatorsRequest DEF Creating
<1>4. \A w \in Results : owner'[w] = IF w = v THEN Request(s) ELSE owner[w]
  BY <1>1 DEF NewVault, AnswerInv, TypeOK
<1>5. \A r \in Requests : Creating(r)' = Creating(r) \ {s}
  BY <1>2 DEF Creating, Request
<1>6. OneVault'
  BY <1>2, <1>3, <1>4 DEF VaultInv, CreationsFit, OneVault
<1>7. CreationsFit'
  BY <1>2, <1>3, <1>4, <1>5 DEF VaultInv, CreationsFit
<1>8. QED
  BY <1>6, <1>7 DEF VaultInv

LEMMA LateCreateOnce ==
    ASSUME AnswerInv, VaultInv, NEW q \in Requests, LateCreate(q)
    PROVE  VaultInv'
<1>1. PICK v \in Results : NewVault(v, q)
  BY DEF LateCreate
<1>2. q \in late /\ late' = late \ {q} /\ UNCHANGED <<msg, step, raced>>
  BY <1>1 DEF LateCreate, NewVault, consumerVars, slotVars
<1>3. \A w \in Results : owner'[w] = IF w = v THEN q ELSE owner[w]
  BY <1>1 DEF NewVault, AnswerInv, TypeOK
<1>4. \A r \in Requests : Creating(r)' = Creating(r)
  BY <1>2 DEF Creating, Request
<1>5. OneVault'
  BY <1>2, <1>3 DEF VaultInv, CreationsFit, OneVault
<1>6. CreationsFit'
  BY <1>2, <1>3, <1>4 DEF VaultInv, CreationsFit
<1>7. QED
  BY <1>5, <1>6 DEF VaultInv

LEMMA FindNoVaultOnce ==
    ASSUME AnswerInv, VaultInv, NEW s \in Slots, FindNoVault(s)
    PROVE  VaultInv'
<1>1. /\ step' = [step EXCEPT ![s] = "create"]
      /\ UNCHANGED <<msg, late, owner>>
      /\ raced' = IF Creating(Request(s)) # {} \/ Request(s) \in late
                  THEN raced \cup {Request(s)} ELSE raced
      /\ step \in [Slots -> Steps]
  BY DEF FindNoVault, BeginCreation, GoTo, consumerVars, AnswerInv, ProcessorInv, ProcessorTypeOK
<1>2. Request(s) \in Requests
  BY DEF FindNoVault, At, Request, AnswerInv, ProcessorInv, ProcessorTypeOK, Consumer!TypeOK
<1>3. \A v \in Results : owner[v] # Request(s)
  BY <1>2 DEF FindNoVault, Found
<1>4. \A r \in Requests : Creating(r)' = IF r = Request(s) THEN Creating(r) \cup {s}
                                                          ELSE Creating(r) \ {s}
  BY <1>1 DEF Creating, Request
<1>5. OneVault'
  BY <1>1 DEF VaultInv, OneVault
<1>6. CreationsFit'
  BY <1>1, <1>2, <1>3, <1>4 DEF VaultInv, CreationsFit
<1>7. QED
  BY <1>5, <1>6 DEF VaultInv

LEMMA VaultStep == AnswerInv /\ VaultInv /\ [Next]_vars => VaultInv'
<1> SUFFICES ASSUME AnswerInv, VaultInv, [Next]_vars PROVE VaultInv'
  OBVIOUS
<1>1. CASE \E s \in Slots : CreateVault(s)
  BY <1>1, CreateVaultOnce
<1>2. CASE \E s \in Slots : FindNoVault(s)
  BY <1>2, FindNoVaultOnce
<1>3. CASE \E r \in Requests : LateCreate(r)
  BY <1>3, LateCreateOnce
<1>4. ASSUME NEW s \in Slots, Invocation(s), ~CreateVault(s), ~FindNoVault(s)
      PROVE  VaultInv'
  <2>1. UNCHANGED vaultVars
    BY <1>4 DEF Invocation, Progress, FindVault
  <2>2. \/ Fail(s) \/ (\E handled \in BOOLEAN : Return(s, handled))
        \/ SubmitAccepted(s) \/ SubmitRefused(s) \/ SubmitAgain(s)
        \/ NotSeenAnswered(s, "search") \/ FindVault(s)
    BY <1>4 DEF Invocation, Progress, Mishap, AlreadyAnswered, Confirm, SubmitWithoutHash, Error, Timeout
  <2>3. QED
    BY <2>1, <2>2, OthersDoNotCreate, CreationsStay
<1>5. CASE Environment /\ UNCHANGED vaultVars
  BY <1>5, OthersDoNotCreate, CreationsStay DEF Environment
<1>6. CASE UNCHANGED vars
  BY <1>6, OthersDoNotCreate, CreationsStay DEF vars
<1>7. QED
  BY <1>1, <1>2, <1>3, <1>4, <1>5, <1>6 DEF Next

-----------------------------------------------------------------------------
(* The theorems                                                            *)

\* Every reachable state has its type and meets the inductive invariant: what
\* is left of abandoned attempts, in the mempool or in slots, fits its request,
\* and so do the creations under way.
THEOREM Invariance == Spec => []IInv
<1>1. Init => IInv
  <2>1. Init => VaultInv
    BY DEF Init, ProcessorInit, VaultInv, CreationsFit, Creating, OneVault
  <2>2. QED
    BY <2>1, InitInvariant DEF IInv
<1>2. IInv /\ [Next]_vars => IInv'
  BY NextInvariant, VaultStep DEF IInv
<1>3. QED
  BY <1>1, <1>2, PTL DEF Spec

THEOREM TypeCorrectness == Spec => []TypeOK
<1>1. IInv => TypeOK
  BY DEF IInv, AnswerInv
<1>2. QED
  BY <1>1, Invariance, PTL

\* A key request message is acknowledged only when the request is answered.
THEOREM AckedOnlyAnswered == Spec => []AckedAnswered
<1>1. IInv => AckedAnswered
  BY DEF IInv, AnswerInv
<1>2. QED
  BY <1>1, Invariance, PTL

\* A key request is rejected only after an invocation lost all its attempts.
THEOREM RejectedOnlyAfterFailures == Spec => []RejectedAfterFailures
<1>1. IInv => RejectedAfterFailures
  BY DEF IInv, AnswerInv, AnswersFit, Founded, RejectedAfterFailures
<1>2. QED
  BY <1>1, Invariance, PTL

\* Through attempts that fail, creations that are lost or late, redeliveries,
\* reconnects and crashes a request gets a second vault only if two creations
\* for it were under way at once.
THEOREM OneVaultTheorem == Spec => []OneVault
<1>1. IInv => OneVault
  BY DEF IInv, VaultInv
<1>2. QED
  BY <1>1, Invariance, PTL

-----------------------------------------------------------------------------
(* KeyHandler implements RequestLedger                                     *)

\* One more vault is one more result, for every request whose search finds it.
LEMMA NewVaultProduces ==
    ASSUME TypeOK, NEW v \in Results, NEW r \in Requests, NewVault(v, r),
           UNCHANGED <<status, result>>
    PROVE  Ledger!Next
<1> DEFINE served == {q \in Requests : r \in SearchHits[q]}
<1>1. \A q \in Requests : Found(q)' = IF q \in served THEN Found(q) \cup {v} ELSE Found(q)
  BY DEF NewVault, Found, TypeOK
<1>2. Ledger!Produce(served, v)
  BY <1>1 DEF Ledger!Produce
<1>3. served \in SUBSET Requests
  OBVIOUS
<1>4. QED
  BY <1>2, <1>3 DEF Ledger!Next

\* A block answers a request with a vault found for it, or rejects it.
LEMMA BlockAnswers ==
    ASSUME AnswerInv, NEW tx \in mempool, Block(tx), UNCHANGED vaultVars
    PROVE  Ledger!Next \/ UNCHANGED Ledger!vars
<1>1. /\ tx \in Chain!Transactions
      /\ Founded(tx.request, tx.verdict, tx.result)
  BY DEF AnswerInv, MempoolFits, ProcessorInv, ProcessorTypeOK, Chain!TypeOK
<1>2. \A q \in Requests : Found(q)' = Found(q)
  BY DEF Found, vaultVars
<1>3. CASE Chain!Execute(tx)
  <2>1. /\ tx.request \in Requests
        /\ status[tx.request] = "pending"
        /\ result[tx.request] = NoResult
        /\ result \in [Requests -> Results \cup {NoResult}]
    BY <1>1, <1>3 DEF Chain!Execute, Chain!Pending, Chain!Transactions, AnswerInv, AnswersFit,
                      ProcessorInv, ProcessorTypeOK, Chain!TypeOK
  <2>2. CASE tx.verdict = "fulfilled"
    <3>1. tx.result \in Found(tx.request) /\ tx.result \in Results
      BY <1>1, <2>2 DEF Founded, Found
    <3>2. Ledger!Fulfil(tx.request, tx.result)
      BY <1>2, <1>3, <2>1, <2>2, <3>1 DEF Ledger!Fulfil, Chain!Execute
    <3>3. QED
      BY <2>1, <3>1, <3>2 DEF Ledger!Next
  <2>3. CASE tx.verdict = "rejected"
    <3>1. tx.result = NoResult
      BY <1>1, <2>3 DEF Founded
    <3>2. result' = result
      BY <1>3, <2>1, <3>1 DEF Chain!Execute
    <3>3. Ledger!Reject(tx.request)
      BY <1>2, <1>3, <2>1, <2>3, <3>2 DEF Ledger!Reject, Chain!Execute
    <3>4. QED
      BY <2>1, <3>3 DEF Ledger!Next
  <2>4. QED
    BY <1>1, <2>2, <2>3 DEF Chain!Transactions
<1>4. CASE Chain!FailInBlock(tx) \/ Chain!Evict(tx)
  BY <1>2, <1>4 DEF Chain!FailInBlock, Chain!Evict, Ledger!vars
<1>5. QED
  BY <1>3, <1>4 DEF Block

\* The other steps change no answer and no vault.
LEMMA InvocationAnswers ==
    ASSUME AnswerInv, NEW s \in Slots, Invocation(s)
    PROVE  Ledger!Next \/ UNCHANGED Ledger!vars
<1>1. CASE CreateVault(s)
  <2>1. Request(s) \in Requests /\ UNCHANGED <<status, result>>
    BY <1>1 DEF CreateVault, At, chainVars, Request, AnswerInv, ProcessorInv, ProcessorTypeOK, Consumer!TypeOK
  <2>2. QED
    BY <1>1, <2>1, NewVaultProduces DEF CreateVault, AnswerInv
<1>2. CASE ~CreateVault(s)
  <2>1. UNCHANGED <<status, result, owner>>
    BY <1>2 DEF Invocation, Progress, Mishap, AlreadyAnswered, NotSeenAnswered, FindVault, FindNoVault,
                Submit, SubmitAccepted, SubmitRefused, SubmitAgain, SubmitWithoutHash, Confirm, Error,
                Timeout, Return, Fail, Release, Chain!Leave, Chain!Accept, Chain!Refuse, Chain!Rejoin,
                Chain!Rediscover, BeginCreation, chainVars, vaultVars
  <2>2. QED
    BY <2>1 DEF Found, Ledger!vars
<1>3. QED
  BY <1>1, <1>2

\* A key request is answered at most once, and fulfilled only with the key of
\* a vault that exists and that the search finds for it, whatever happens to
\* messages, processes, vault creations and transactions.
THEOREM AnsweredOnceTheorem == Spec => AnsweredOnce
<1>1. Init => Ledger!Init
  BY DEF Init, ProcessorInit, Chain!Init, Ledger!Init, Found
<1>2. IInv /\ [Next]_vars => [Ledger!Next]_(Ledger!vars)
  <2> SUFFICES ASSUME AnswerInv, [Next]_vars
               PROVE  Ledger!Next \/ UNCHANGED Ledger!vars
    BY DEF IInv
  <2>1. ASSUME NEW r \in Requests, LateCreate(r)
        PROVE  Ledger!Next
    BY <2>1, NewVaultProduces DEF LateCreate, chainVars, AnswerInv
  <2>2. ASSUME NEW s \in Slots, Invocation(s)
        PROVE  Ledger!Next \/ UNCHANGED Ledger!vars
    BY <2>2, InvocationAnswers
  <2>3. ASSUME NEW tx \in mempool, Block(tx), UNCHANGED vaultVars
        PROVE  Ledger!Next \/ UNCHANGED Ledger!vars
    BY <2>3, BlockAnswers
  <2>4. ASSUME \/ /\ \/ \E r \in Requests : Publish(r)
                     \/ \E s \in Slots, r \in Requests : Deliver(s, r)
                     \/ \E s \in Slots : Recognize(s)
                     \/ Interruption
                     \/ Crash
                  /\ UNCHANGED vaultVars
               \/ UNCHANGED vars
        PROVE  UNCHANGED Ledger!vars
    <3>1. UNCHANGED <<status, result, owner>>
      BY <2>4 DEF Publish, Deliver, Recognize, Chain!Rejoin, Interruption, Crash, Release,
         Chain!Leave, vars, vaultVars, processorVars, chainVars
    <3>2. QED
      BY <3>1 DEF Found, Ledger!vars
  <2>5. QED
    BY <2>1, <2>2, <2>3, <2>4 DEF Next, Environment
<1>3. QED
  BY <1>1, <1>2, Invariance, PTL DEF Spec, AnsweredOnce, Ledger!Spec

-----------------------------------------------------------------------------
(* KeyHandler implements Delivery                                          *)

\* To the broker the handling of key requests is what Delivery says of any
\* handling: what is proved of Delivery holds of it, and so no attempt, fault or
\* late creation loses a key request message or multiplies it.
THEOREM DeliversTheorem == Spec => Consumer!Spec
<1>1. Init => Consumer!Init
  BY DEF Init, ProcessorInit
<1>2. [Next]_vars => [Consumer!Next]_(Consumer!vars)
  <2> SUFFICES ASSUME [Next]_vars
               PROVE  Consumer!Next \/ UNCHANGED consumerVars
    BY DEF consumerVars, Consumer!vars
  <2>1. ASSUME NEW s \in Slots, Invocation(s)
        PROVE  Consumer!Next \/ UNCHANGED consumerVars
    BY <2>1, CallsDeliver DEF Invocation, Progress, FindVault, FindNoVault, BeginCreation,
              CreateVault, GoTo
  <2>2. CASE \E r \in Requests : LateCreate(r)
    BY <2>2 DEF LateCreate
  <2>3. CASE Environment
    BY <2>3, ProcessorDelivers, CallsDeliver, BlockDelivers DEF Environment
  <2>4. CASE UNCHANGED vars
    BY <2>4 DEF vars, processorVars
  <2>5. QED
    BY <2>1, <2>2, <2>3, <2>4 DEF Next
<1>3. QED
  BY <1>1, <1>2, PTL DEF Spec, Consumer!Spec

=============================================================================
