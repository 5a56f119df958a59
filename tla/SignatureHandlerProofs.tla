----------------------- MODULE SignatureHandlerProofs -----------------------
(***************************************************************************)
(* What SignatureHandler promises, for any number of deployments,          *)
(* requests, slots and attempts: the inductive invariant IInv of           *)
(* SignatureHandler, the properties that follow from it, and that          *)
(* SignatureHandler implements RequestLedger.                              *)
(***************************************************************************)
EXTENDS SignatureHandler, ProcessorProofs

USE NoResultAssumption, RetryAttemptsAssumption, RequestOfAssumption, OwnAssumption,
    SignAssumption

-----------------------------------------------------------------------------
(* Which messages are in play                                              *)

\* Only publishing brings a message into play; what the broker puts back was
\* being worked on.
LEMMA RequeuedInPlay ==
    ASSUME Consumer!TypeOK, NEW closed, Consumer!Requeue(closed), NEW m \in Messages, ready'[m] > 0
    PROVE  InPlay(m)
<1>1. CASE Consumer!Unsettled(m) = {}
  <2>1. Consumer!Cardinality(Consumer!Unsettled(m)) = 0
    BY <1>1, FS_EmptySet, SameCardinality
  <2>2. QED
    BY <2>1 DEF Consumer!Requeue, Consumer!Copies, Consumer!TypeOK, InPlay
<1>2. CASE Consumer!Unsettled(m) # {}
  BY <1>2 DEF Consumer!Unsettled, InPlay
<1>3. QED
  BY <1>1, <1>2

LEMMA ExitInPlay ==
    ASSUME Consumer!TypeOK, Consumer!Exit, NEW m \in Messages, InPlay(m)'
    PROVE  InPlay(m)
BY RequeuedInPlay DEF Consumer!Exit, InPlay

LEMMA SettledInPlay ==
    ASSUME Consumer!TypeOK, NEW s \in Slots, NEW handled \in BOOLEAN, Consumer!Settle(s, handled),
           NEW m \in Messages, InPlay(m)'
    PROVE  InPlay(m)
<1>1. CASE Consumer!Answer(s, handled)
  BY <1>1 DEF Consumer!Answer, Consumer!TypeOK, InPlay
<1>2. CASE Consumer!AnswerOnClosedChannel(s)
  BY <1>2, ExitInPlay DEF Consumer!AnswerOnClosedChannel
<1>3. QED
  BY <1>1, <1>2 DEF Consumer!Settle

LEMMA ThrownInPlay ==
    ASSUME Consumer!TypeOK, NEW s \in Slots, Consumer!Throw(s), NEW m \in Messages, InPlay(m)'
    PROVE  InPlay(m)
<1>1. CASE Consumer!Retry(s)
  BY <1>1 DEF Consumer!Retry, InPlay
<1>2. CASE Consumer!Settle(s, FALSE)
  BY <1>2, SettledInPlay
<1>3. QED
  BY <1>1, <1>2 DEF Consumer!Throw

LEMMA ClosedInPlay ==
    ASSUME Consumer!TypeOK, NEW closed, Consumer!Close(closed), NEW m \in Messages, InPlay(m)'
    PROVE  InPlay(m)
<1>1. CASE ready'[m] > 0
  BY <1>1, RequeuedInPlay DEF Consumer!Close
<1>2. CASE \E s \in Slots : state'[s] # "idle" /\ msg'[s] = m
  BY <1>2 DEF Consumer!Close, Consumer!TypeOK, InPlay
<1>3. QED
  BY <1>1, <1>2 DEF InPlay

LEMMA InterruptedInPlay ==
    ASSUME Consumer!TypeOK, Consumer!Interruption, NEW m \in Messages, InPlay(m)'
    PROVE  InPlay(m)
<1>1. CASE Consumer!ConnectionLost
  BY <1>1, ClosedInPlay DEF Consumer!ConnectionLost
<1>2. ASSUME NEW q \in Losable, Consumer!ChannelLost(q)
      PROVE  InPlay(m)
  BY <1>2, ClosedInPlay DEF Consumer!ChannelLost
<1>3. ASSUME NEW q \in Losable, Consumer!ConsumerCancelled(q)
      PROVE  InPlay(m)
  BY <1>3 DEF Consumer!ConsumerCancelled, InPlay
<1>4. QED
  BY <1>1, <1>2, <1>3 DEF Consumer!Interruption

LEMMA DeliveredInPlay ==
    ASSUME Consumer!TypeOK, NEW s \in Slots, NEW n \in Messages, Consumer!Deliver(s, n),
           NEW m \in Messages, InPlay(m)'
    PROVE  InPlay(m)
<1>1. CASE m = n
  BY <1>1 DEF Consumer!Deliver, InPlay
<1>2. CASE m # n
  BY <1>2 DEF Consumer!Deliver, Consumer!TypeOK, InPlay
<1>3. QED
  BY <1>1, <1>2

LEMMA PublishedInPlay ==
    ASSUME Consumer!TypeOK, NEW n \in Messages, Consumer!Publish(n),
           NEW m \in Messages, InPlay(m)'
    PROVE  m = n \/ InPlay(m)
BY DEF Consumer!Publish, Consumer!TypeOK, InPlay

-----------------------------------------------------------------------------
(* What stays as it is                                                     *)

\* A message is a mark and its request, and a transaction is a status message.
LEMMA MessageParts ==
    /\ \A m \in Messages : /\ RequestOf[m] = m[2]
                           /\ m[2] \in Requests
                           /\ m = <<m[1], m[2]>>
    /\ Results \subseteq Messages
    /\ \A r \in Requests : <<Own, r>> \in Results /\ <<Sign, r>> \in Messages
BY MessagesAssumption

\* Fordefi keeps the transactions it has, and what it decided about them.
FordefiKeeps ==
    /\ findable' = findable
    /\ signing' \in [Results -> SigningStates]
    /\ missed' \subseteq Results
    /\ \A x \in Results : /\ signing[x] \in Final => signing'[x] = signing[x]
                          /\ signing[x] # "none" => signing'[x] # "none"

LEMMA FordefiStutters ==
    ASSUME TypeOK, UNCHANGED fordefiVars
    PROVE  FordefiKeeps
BY DEF fordefiVars, TypeOK, FordefiKeeps

\* Asking for a transaction, again or for the first time, overturns nothing.
LEMMA AskedKeeps ==
    ASSUME TypeOK, NEW x \in Results, NEW there \in Asked(x),
           signing' = [signing EXCEPT ![x] = there], UNCHANGED <<findable, missed>>
    PROVE  FordefiKeeps /\ signing'[x] = there /\ there # "none"
BY DEF Asked, TypeOK, FordefiKeeps, SigningStates, Final, Failed, Unknown

FailuresGrow == \A m \in Messages : failures'[m] >= failures[m]

\* What is founded stays so.
LEMMA FoundedStays ==
    ASSUME TypeOK, ProcessorInv', FordefiKeeps, FailuresGrow, NEW r \in Requests
    PROVE  /\ Unsignable(r) => Unsignable(r)'
           /\ GivenUp(r) => GivenUp(r)'
           /\ \A x : x \in Signed(r) => x \in Signed(r)'
           /\ \A verdict, x : Founded(r, verdict, x) => Founded(r, verdict, x)'
<1>1. Unsignable(r) => Unsignable(r)'
  BY MessageParts DEF Unsignable, FordefiKeeps, Final
<1>2. GivenUp(r) => GivenUp(r)'
  <2> SUFFICES ASSUME NEW m \in Messages, RequestOf[m] = r, failures[m] = RetryAttempts
               PROVE  failures'[m] = RetryAttempts
    BY DEF GivenUp
  <2>1. failures'[m] \in 0 .. RetryAttempts /\ failures'[m] >= failures[m]
    BY DEF FailuresGrow, ProcessorInv, ProcessorTypeOK
  <2>2. QED
    BY <2>1
<1>3. \A x : x \in Signed(r) => x \in Signed(r)'
  BY DEF Signed, FordefiKeeps, Final
<1>4. QED
  BY <1>1, <1>2, <1>3 DEF Founded

\* The answer a slot is about to submit is founded.
LEMMA AnswerFounded ==
    ASSUME IInv, NEW s \in Slots, step[s] = "submit"
    PROVE  Founded(Answer(s).request, Answer(s).verdict, Answer(s).result)
<1>1. /\ state[s] # "idle" /\ msg[s] \in Messages /\ Request(s) \in Requests
      /\ Answer(s).request = Request(s)
      /\ IF found[s] = NoResult
         THEN Answer(s).verdict = "rejected" /\ Answer(s).result = NoResult
         ELSE Answer(s).verdict = "fulfilled" /\ Answer(s).result = found[s]
  BY AnswerType DEF IInv, ProcessorInv
<1>2. CASE found[s] = NoResult
  <2>1. attempts[s] = 0 => failures[msg[s]] = RetryAttempts
    BY <1>1 DEF IInv, ProcessorInv, FailuresFit, ProcessorTypeOK
  <2>2. attempts[s] = 0 => GivenUp(Request(s))
    BY <1>1, <2>1 DEF GivenUp, Request
  <2>3. Unsignable(Request(s)) \/ GivenUp(Request(s))
    BY <1>2, <2>2 DEF IInv, FoundFits
  <2>4. QED
    BY <1>1, <1>2, <2>3 DEF Founded
<1>3. CASE found[s] # NoResult
  BY <1>1, <1>3 DEF IInv, FoundFits, Founded
<1>4. QED
  BY <1>2, <1>3

\* Steps that answer no request: what is in the mempool and on the chain stays
\* founded.
LEMMA AnswersStay ==
    ASSUME IInv, ProcessorInv', MempoolFrom, UNCHANGED <<status, result>>,
           FordefiKeeps, FailuresGrow
    PROVE  TypeOK' /\ MempoolFits' /\ AnswersFit'
<1>1. \A verdict, x : \A r \in Requests : Founded(r, verdict, x) => Founded(r, verdict, x)'
  BY FoundedStays DEF IInv
<1>2. TypeOK'
  BY DEF IInv, TypeOK, ProcessorInv, FordefiKeeps
<1>3. MempoolFits'
  <2> SUFFICES ASSUME NEW tx \in mempool'
               PROVE  Founded(tx.request, tx.verdict, tx.result)'
    BY DEF MempoolFits
  <2>1. tx.request \in Requests
    BY DEF ProcessorInv, ProcessorTypeOK, Chain!TypeOK, Chain!Transactions
  <2>2. Founded(tx.request, tx.verdict, tx.result)
    BY AnswerFounded DEF MempoolFrom, SameAnswer, MempoolFits, IInv
  <2>3. QED
    BY <1>1, <2>1, <2>2
<1>4. AnswersFit'
  BY <1>1 DEF AnswersFit, IInv
<1>5. QED
  BY <1>2, <1>3, <1>4

\* What was acknowledged stays accounted for.
LEMMA AckedStays ==
    ASSUME IInv, FordefiKeeps, acked' \subseteq acked,
           \A r \in Requests : status[r] # "pending" => status'[r] # "pending"
    PROVE  AckedAccounted'
<1>1. acked \subseteq Messages
  BY DEF IInv, ProcessorInv, ProcessorTypeOK, Consumer!TypeOK
<1>2. QED
  BY <1>1, MessageParts DEF IInv, AckedAccounted, FordefiKeeps

\* Slots that do not change keep what they found.
LEMMA FoundStays ==
    ASSUME IInv, ProcessorInv', FordefiKeeps, FailuresGrow, NEW t \in Slots,
           step'[t] = "submit", step[t] = "submit", found'[t] = found[t],
           msg'[t] = msg[t], attempts'[t] = attempts[t]
    PROVE  (IF found[t] = NoResult THEN attempts[t] = 0 \/ Unsignable(Request(t))
                                   ELSE found[t] \in Signed(Request(t)))'
<1>1. Request(t) \in Requests /\ Request(t)' = Request(t)
  BY AnswerType DEF IInv, ProcessorInv, Request
<1>2. /\ Unsignable(Request(t)) => Unsignable(Request(t))'
      /\ \A x : x \in Signed(Request(t)) => x \in Signed(Request(t))'
  BY <1>1, FoundedStays DEF IInv, Unsignable, Signed
<1>3. QED
  BY <1>2 DEF IInv, FoundFits

\* What a slot may be asked for stays fit for its message.
LEMMA MessagesStayFit ==
    ASSUME IInv, ProcessorInv',
           \A m \in Messages : InPlay(m)' => InPlay(m),
           \A s \in Slots : \/ step'[s] \notin {"search", "create", "fetch"}
                            \/ step'[s] = step[s] /\ msg'[s] = msg[s]
    PROVE  MessagesFit'
BY DEF IInv, MessagesFit

-----------------------------------------------------------------------------
(* Every step keeps the invariant                                          *)

LEMMA InitInvariant == Init => IInv
<1> SUFFICES ASSUME Init PROVE IInv
  OBVIOUS
<1>1. ProcessorInv
  BY ProcessorInitInv DEF Init
<1>2. TypeOK
  BY <1>1 DEF Init, TypeOK, ProcessorInv, SigningStates
<1>3. MessagesFit
  BY DEF Init, ProcessorInit, Consumer!Init, MessagesFit, InPlay
<1>4. QED
  BY <1>1, <1>2, <1>3 DEF Init, ProcessorInit, Consumer!Init, Chain!Init, IInv, FoundFits,
                          MempoolFits, AnswersFit, AckedAccounted

\* Both producers, the listener and the webhook, publish messages that fit.
LEMMA PublishInvariant ==
    ASSUME IInv, NEW m \in Messages, m[1] \in {Own, Sign}, Publish(m), FordefiKeeps
    PROVE  IInv'
<1>1. /\ ProcessorInv'
      /\ UNCHANGED <<chainVars, slotVars, late, failures, state, msg, attempts, acked>>
  BY PublishKeeps DEF IInv
<1>2. MempoolFrom /\ FailuresGrow
  BY <1>1 DEF chainVars, MempoolFrom, SameAnswer, FailuresGrow, IInv, ProcessorInv, ProcessorTypeOK
<1>3. TypeOK' /\ MempoolFits' /\ AnswersFit'
  BY <1>1, <1>2, AnswersStay DEF chainVars
<1>4. MessagesFit'
  <2>1. \A n \in Messages : InPlay(n)' => n = m \/ InPlay(n)
    BY PublishedInPlay DEF Publish, IInv, ProcessorInv, ProcessorTypeOK
  <2>2. QED
    BY <1>1, <2>1 DEF slotVars, IInv, MessagesFit
<1>5. FoundFits'
  BY <1>1, <1>2, FoundStays DEF slotVars, FoundFits
<1>6. AckedAccounted'
  BY <1>1, AckedStays DEF chainVars
<1>7. QED
  BY <1>1, <1>3, <1>4, <1>5, <1>6 DEF IInv

LEMMA DeliverInvariant ==
    ASSUME IInv, NEW s \in Slots, NEW m \in Messages, Deliver(s, m), FordefiKeeps
    PROVE  IInv'
<1>1. /\ ProcessorInv'
      /\ UNCHANGED <<chainVars, found, late, failures, acked>>
      /\ found[s] = NoResult
      /\ step'[s] = "submit" => attempts'[s] = 0
      /\ \A t \in Slots \ {s} : step'[t] = step[t] /\ msg'[t] = msg[t] /\ attempts'[t] = attempts[t]
  BY DeliverKeeps DEF IInv
<1>2. MempoolFrom /\ FailuresGrow
  BY <1>1 DEF chainVars, MempoolFrom, SameAnswer, FailuresGrow, IInv, ProcessorInv, ProcessorTypeOK
<1>3. TypeOK' /\ MempoolFits' /\ AnswersFit'
  BY <1>1, <1>2, AnswersStay DEF chainVars
<1>4. MessagesFit'
  <2>1. \A n \in Messages : InPlay(n)' => InPlay(n)
    BY DeliveredInPlay DEF Deliver, IInv, ProcessorInv, ProcessorTypeOK
  <2>2. step'[s] \in {"submit", "query"}
    BY DEF Deliver, FirstStep, IInv, ProcessorInv, ProcessorTypeOK
  <2>3. QED
    BY <1>1, <2>1, <2>2, MessagesStayFit
<1>5. FoundFits'
  BY <1>1, <1>2, FoundStays DEF FoundFits
<1>6. AckedAccounted'
  BY <1>1, AckedStays DEF chainVars
<1>7. QED
  BY <1>1, <1>3, <1>4, <1>5, <1>6 DEF IInv

LEMMA ReturnInvariant ==
    ASSUME IInv, NEW s \in Slots, NEW handled \in BOOLEAN, Return(s, handled), FordefiKeeps,
           handled => \/ ~Chain!Pending(Request(s))
                      \/ IsSign(s) /\ signing'[<<Own, Request(s)>>] # "none"
    PROVE  IInv'
<1>1. /\ ProcessorInv'
      /\ UNCHANGED <<status, result, failures>>
      /\ MempoolFrom
      /\ msg[s] \in Messages
      /\ acked' \subseteq acked \cup (IF handled THEN {msg[s]} ELSE {})
      /\ \A t \in Slots : step'[t] # "none" =>
            /\ step'[t] = step[t] /\ found'[t] = found[t]
            /\ msg'[t] = msg[t] /\ attempts'[t] = attempts[t]
  BY ReturnKeeps DEF IInv
<1>2. FailuresGrow
  BY <1>1 DEF FailuresGrow, IInv, ProcessorInv, ProcessorTypeOK
<1>3. TypeOK' /\ MempoolFits' /\ AnswersFit'
  BY <1>1, <1>2, AnswersStay
<1>4. MessagesFit'
  <2>1. \A n \in Messages : InPlay(n)' => InPlay(n)
    BY SettledInPlay DEF Return, IInv, ProcessorInv, ProcessorTypeOK
  <2>2. QED
    BY <1>1, <2>1, MessagesStayFit
<1>5. FoundFits'
  BY <1>1, <1>2, FoundStays DEF FoundFits
<1>6. AckedAccounted'
  <2> SUFFICES ASSUME NEW m \in acked'
               PROVE  \/ status[RequestOf[m]] # "pending"
                      \/ m[1] = Sign /\ signing'[<<Own, RequestOf[m]>>] # "none"
    BY <1>1 DEF AckedAccounted
  <2>1. CASE m \in acked
    <3>1. m \in Messages
      BY <2>1 DEF IInv, ProcessorInv, ProcessorTypeOK, Consumer!TypeOK
    <3>2. QED
      BY <2>1, <3>1, MessageParts DEF IInv, AckedAccounted, FordefiKeeps
  <2>2. CASE m \notin acked
    BY <1>1, <2>2 DEF Chain!Pending, Request, IsSign
  <2>3. QED
    BY <2>1, <2>2
<1>7. QED
  BY <1>1, <1>3, <1>4, <1>5, <1>6 DEF IInv

LEMMA FailInvariant ==
    ASSUME IInv, NEW s \in Slots, Fail(s), FordefiKeeps
    PROVE  IInv'
<1>1. /\ ProcessorInv'
      /\ UNCHANGED <<status, result, acked>>
      /\ \A m \in Messages : failures'[m] >= failures[m]
      /\ MempoolFrom
      /\ \A t \in Slots : step'[t] # "none" =>
            /\ msg'[t] = msg[t]
            /\ IF t = s THEN /\ found'[t] = NoResult
                             /\ step'[t] = FirstStep(attempts'[t])
                        ELSE /\ step'[t] = step[t] /\ found'[t] = found[t]
                             /\ attempts'[t] = attempts[t]
  BY FailKeeps DEF IInv
<1>2. FailuresGrow
  BY <1>1 DEF FailuresGrow
<1>3. TypeOK' /\ MempoolFits' /\ AnswersFit'
  BY <1>1, <1>2, AnswersStay
<1>4. MessagesFit'
  <2>1. \A n \in Messages : InPlay(n)' => InPlay(n)
    BY ThrownInPlay DEF Fail, IInv, ProcessorInv, ProcessorTypeOK
  <2>2. step'[s] \notin {"search", "create", "fetch"}
    BY <1>1 DEF FirstStep
  <2>3. QED
    BY <1>1, <2>1, <2>2, MessagesStayFit
<1>5. FoundFits'
  <2> SUFFICES ASSUME NEW t \in Slots, step'[t] = "submit"
               PROVE  (IF found[t] = NoResult THEN attempts[t] = 0 \/ Unsignable(Request(t))
                                              ELSE found[t] \in Signed(Request(t)))'
    BY DEF FoundFits
  <2>1. CASE t = s
    BY <1>1, <2>1 DEF FirstStep
  <2>2. CASE t # s
    BY <1>1, <1>2, <2>2, FoundStays
  <2>3. QED
    BY <2>1, <2>2
<1>6. AckedAccounted'
  BY <1>1, AckedStays
<1>7. QED
  BY <1>1, <1>3, <1>4, <1>5, <1>6 DEF IInv

LEMMA CrashInvariant ==
    ASSUME IInv, Crash, FordefiKeeps
    PROVE  IInv'
<1>1. /\ ProcessorInv'
      /\ UNCHANGED <<status, result, acked, failures>>
      /\ MempoolFrom
      /\ \A t \in Slots : step'[t] = "none"
  BY CrashKeeps DEF IInv
<1>2. FailuresGrow
  BY <1>1 DEF FailuresGrow, IInv, ProcessorInv, ProcessorTypeOK
<1>3. TypeOK' /\ MempoolFits' /\ AnswersFit'
  BY <1>1, <1>2, AnswersStay
<1>4. MessagesFit'
  <2>1. \A n \in Messages : InPlay(n)' => InPlay(n)
    BY ExitInPlay DEF Crash, Consumer!Crash, IInv, ProcessorInv, ProcessorTypeOK
  <2>2. QED
    BY <1>1, <2>1, MessagesStayFit
<1>5. FoundFits' /\ AckedAccounted'
  BY <1>1, AckedStays DEF FoundFits
<1>6. QED
  BY <1>1, <1>3, <1>4, <1>5 DEF IInv

LEMMA InterruptionInvariant ==
    ASSUME IInv, Interruption, FordefiKeeps
    PROVE  IInv'
<1>1. /\ ProcessorInv'
      /\ UNCHANGED <<chainVars, slotVars, late, failures, acked, msg, attempts>>
  BY InterruptionKeeps DEF IInv
<1>2. MempoolFrom /\ FailuresGrow
  BY <1>1 DEF chainVars, MempoolFrom, SameAnswer, FailuresGrow, IInv, ProcessorInv, ProcessorTypeOK
<1>3. TypeOK' /\ MempoolFits' /\ AnswersFit'
  BY <1>1, <1>2, AnswersStay DEF chainVars
<1>4. MessagesFit'
  <2>1. \A n \in Messages : InPlay(n)' => InPlay(n)
    BY InterruptedInPlay DEF Interruption, IInv, ProcessorInv, ProcessorTypeOK
  <2>2. QED
    BY <1>1, <2>1, MessagesStayFit DEF slotVars
<1>5. FoundFits'
  BY <1>1, <1>2, FoundStays DEF slotVars, FoundFits
<1>6. AckedAccounted'
  BY <1>1, AckedStays DEF chainVars
<1>7. QED
  BY <1>1, <1>3, <1>4, <1>5, <1>6 DEF IInv

\* A step inside an attempt: what comes next fits the message, and what was
\* found fits the request.
LEMMA LookupInvariant ==
    ASSUME IInv, NEW s \in Slots, NEW here \in {"query", "search", "create", "fetch"},
           NEW there \in {"search", "create", "fetch", "submit"},
           NEW x \in Results \cup {NoResult},
           At(s, here), GoTo(s, there), found' = [found EXCEPT ![s] = x],
           UNCHANGED <<chainVars, late>>, FordefiKeeps,
           there \in {"search", "create"} => msg[s][1] = Sign,
           there = "fetch" => msg[s][1] = Own,
           there # "submit" => x = NoResult,
           there = "submit" => (x = NoResult /\ Unsignable(Request(s))') \/ x \in Signed(Request(s))'
    PROVE  IInv'
<1>1. ProcessorInv'
  BY GoToKeeps DEF Steps, IInv, ProcessorInv, ProcessorTypeOK
<1>2. /\ UNCHANGED <<consumerVars, failures, status, result>>
      /\ step' = [step EXCEPT ![s] = there]
      /\ MempoolFrom
  BY DEF GoTo, chainVars, MempoolFrom, SameAnswer
<1>3. FailuresGrow
  BY <1>2 DEF FailuresGrow, IInv, ProcessorInv, ProcessorTypeOK
<1>4. TypeOK' /\ MempoolFits' /\ AnswersFit'
  BY <1>1, <1>2, <1>3, AnswersStay
<1>5. MessagesFit'
  BY <1>2 DEF consumerVars, IInv, MessagesFit, InPlay, ProcessorInv, ProcessorTypeOK
<1>6. FoundFits'
  <2> SUFFICES ASSUME NEW t \in Slots, step'[t] = "submit"
               PROVE  (IF found[t] = NoResult THEN attempts[t] = 0 \/ Unsignable(Request(t))
                                              ELSE found[t] \in Signed(Request(t)))'
    BY DEF FoundFits
  <2>1. CASE t = s
    <3>1. there = "submit" /\ found'[s] = x
      BY <1>2, <2>1 DEF IInv, ProcessorInv, ProcessorTypeOK
    <3>2. x \in Signed(Request(s))' => x # NoResult
      BY DEF Signed
    <3>3. QED
      BY <2>1, <3>1, <3>2
  <2>2. CASE t # s
    <3>1. step[t] = "submit" /\ found'[t] = found[t] /\ msg'[t] = msg[t] /\ attempts'[t] = attempts[t]
      BY <1>2, <2>2 DEF consumerVars, IInv, ProcessorInv, ProcessorTypeOK
    <3>2. QED
      BY <1>1, <1>3, <3>1, FoundStays
  <2>3. QED
    BY <2>1, <2>2
<1>7. AckedAccounted'
  BY <1>2, AckedStays DEF consumerVars
<1>8. QED
  BY <1>1, <1>4, <1>5, <1>6, <1>7 DEF IInv

\* Nothing is found before the submission.
LEMMA NothingFoundYet ==
    ASSUME IInv, NEW s \in Slots, step[s] \notin {"submit", "wait"}
    PROVE  [found EXCEPT ![s] = NoResult] = found
BY DEF IInv, ProcessorInv, FoundKept, ProcessorTypeOK

\* A slot with a next call has a message that fits.
LEMMA SlotMessage ==
    ASSUME IInv, NEW s \in Slots, step[s] # "none"
    PROVE  /\ msg[s] \in Messages
           /\ msg[s][1] \in {Own, Sign}
           /\ Request(s) \in Requests
           /\ Request(s) = msg[s][2]
           /\ msg[s] = <<msg[s][1], Request(s)>>
<1>1. state[s] # "idle" /\ msg[s] \in Messages /\ Request(s) \in Requests
  BY AnswerType DEF IInv, ProcessorInv
<1>2. InPlay(msg[s])
  BY <1>1 DEF InPlay
<1>3. QED
  BY <1>1, <1>2, MessageParts DEF IInv, MessagesFit, Request

LEMMA AskSignatureInvariant ==
    ASSUME IInv, NEW s \in Slots, AskSignature(s)
    PROVE  IInv'
<1> DEFINE x == <<Own, Request(s)>>
<1>1. At(s, "create") /\ UNCHANGED <<findable, missed>>
  BY DEF AskSignature
<1>2. x \in Results /\ Request(s) \in Requests /\ IsSign(s)
  BY <1>1, SlotMessage, MessageParts DEF At, IInv, MessagesFit, IsSign
<1>3. PICK there \in Asked(x) :
         /\ signing' = [signing EXCEPT ![x] = there]
         /\ \/ there \in {"waiting"} \cup Unknown /\ Return(s, TRUE)
            \/ /\ there \in Failed \cup {"completed"}
               /\ GoTo(s, "submit")
               /\ found' = [found EXCEPT ![s] = IF there = "completed" THEN x ELSE NoResult]
               /\ UNCHANGED <<chainVars, late>>
  BY DEF AskSignature
<1>4. FordefiKeeps /\ signing'[x] = there /\ there # "none"
  BY <1>1, <1>2, <1>3, AskedKeeps DEF IInv
<1>5. CASE Return(s, TRUE)
  BY <1>2, <1>4, <1>5, ReturnInvariant
<1>6. CASE there = "completed" /\ GoTo(s, "submit")
  <2>1. UNCHANGED <<chainVars, late>> /\ found' = [found EXCEPT ![s] = x]
    BY <1>3, <1>6 DEF Unknown
  <2>2. msg' = msg
    BY <1>6 DEF GoTo, consumerVars
  <2>3. x \in Signed(Request(s))'
    BY <1>2, <1>4, <1>6, <2>2 DEF Signed, Request
  <2>4. QED
    BY <1>1, <1>2, <1>4, <1>6, <2>1, <2>3, LookupInvariant
<1>7. CASE there \in Failed /\ GoTo(s, "submit")
  <2>1. UNCHANGED <<chainVars, late>> /\ found' = [found EXCEPT ![s] = NoResult]
    BY <1>3, <1>7 DEF Failed, Unknown
  <2>2. msg' = msg
    BY <1>7 DEF GoTo, consumerVars
  <2>3. Unsignable(Request(s))'
    BY <1>2, <1>4, <1>7, <2>2 DEF Unsignable, Request
  <2>4. QED
    BY <1>1, <1>4, <1>7, <2>1, <2>3, LookupInvariant
<1>8. QED
  BY <1>3, <1>5, <1>6, <1>7

LEMMA FetchSignatureInvariant ==
    ASSUME IInv, NEW s \in Slots, FetchSignature(s)
    PROVE  IInv'
<1>1. /\ At(s, "fetch") /\ GoTo(s, "submit")
      /\ signing[msg[s]] = "completed"
      /\ found' = [found EXCEPT ![s] = msg[s]]
      /\ UNCHANGED <<chainVars, late, fordefiVars>>
  BY DEF FetchSignature
<1>2. msg[s] = <<Own, Request(s)>> /\ msg[s] \in Results /\ Request(s) \in Requests
  <2>1. msg[s][1] = Own /\ msg[s] = <<msg[s][1], Request(s)>> /\ Request(s) \in Requests
    BY <1>1, SlotMessage DEF At, IInv, MessagesFit
  <2>2. <<Own, Request(s)>> \in Results
    BY <2>1, MessageParts
  <2>3. QED
    BY <2>1, <2>2
<1>3. FordefiKeeps
  BY <1>1, FordefiStutters DEF IInv
<1>4. msg[s] \in Signed(Request(s))'
  BY <1>1, <1>2 DEF GoTo, consumerVars, fordefiVars, Signed, Request
<1>5. QED
  BY <1>1, <1>2, <1>3, <1>4, LookupInvariant

LEMMA SubmitInvariant ==
    ASSUME IInv, NEW s \in Slots, SubmitAccepted(s) \/ SubmitRefused(s) \/ SubmitAgain(s),
           FordefiKeeps
    PROVE  IInv'
<1>1. /\ ProcessorInv'
      /\ UNCHANGED <<consumerVars, failures, found, late, status, result>>
      /\ MempoolFrom
      /\ step' = [step EXCEPT ![s] = "wait"]
  BY SubmitKeeps DEF IInv
<1>2. FailuresGrow
  BY <1>1 DEF FailuresGrow, IInv, ProcessorInv, ProcessorTypeOK
<1>3. TypeOK' /\ MempoolFits' /\ AnswersFit'
  BY <1>1, <1>2, AnswersStay
<1>4. \A t \in Slots : t # s => step'[t] = step[t]
  BY <1>1 DEF IInv, ProcessorInv, ProcessorTypeOK
<1>5. step'[s] = "wait"
  BY <1>1 DEF IInv, ProcessorInv, ProcessorTypeOK
<1>6. MessagesFit'
  BY <1>1, <1>4, <1>5 DEF consumerVars, IInv, MessagesFit, InPlay
<1>7. FoundFits'
  BY <1>1, <1>2, <1>4, <1>5, FoundStays DEF consumerVars, FoundFits
<1>8. AckedAccounted'
  BY <1>1, AckedStays DEF consumerVars
<1>9. QED
  BY <1>1, <1>3, <1>6, <1>7, <1>8 DEF IInv

\* Steps that leave the slots and the messages alone.
LEMMA RecognizeInvariant ==
    ASSUME IInv, NEW s \in Slots, Recognize(s), FordefiKeeps
    PROVE  IInv'
<1>1. /\ ProcessorInv'
      /\ UNCHANGED <<consumerVars, slotVars, late, failures, status, result>>
      /\ MempoolFrom
  BY RecognizeKeeps DEF IInv
<1>2. FailuresGrow
  BY <1>1 DEF FailuresGrow, IInv, ProcessorInv, ProcessorTypeOK
<1>3. TypeOK' /\ MempoolFits' /\ AnswersFit'
  BY <1>1, <1>2, AnswersStay
<1>4. MessagesFit'
  BY <1>1 DEF consumerVars, slotVars, IInv, MessagesFit, InPlay
<1>5. FoundFits'
  BY <1>1, <1>2, FoundStays DEF consumerVars, slotVars, FoundFits
<1>6. AckedAccounted'
  BY <1>1, AckedStays DEF consumerVars
<1>7. QED
  BY <1>1, <1>3, <1>4, <1>5, <1>6 DEF IInv

LEMMA InvocationInvariant ==
    ASSUME IInv, NEW s \in Slots, Invocation(s)
    PROVE  IInv'
<1>1. UNCHANGED fordefiVars => FordefiKeeps
  BY FordefiStutters DEF IInv
<1>2. CASE AlreadyAnswered(s) /\ UNCHANGED fordefiVars
  BY <1>1, <1>2, ReturnInvariant DEF AlreadyAnswered
<1>3. CASE NotSeenAnswered(s, IF IsSign(s) THEN "search" ELSE "fetch") /\ UNCHANGED fordefiVars
  <2> DEFINE next == IF IsSign(s) THEN "search" ELSE "fetch"
  <2>1. /\ At(s, "query") /\ GoTo(s, next)
        /\ UNCHANGED <<chainVars, late>> /\ found' = [found EXCEPT ![s] = NoResult]
    BY <1>3, NothingFoundYet DEF NotSeenAnswered, At
  <2>2. msg[s][1] \in {Own, Sign}
    BY <2>1, SlotMessage DEF At
  <2>3. next = "search" => msg[s][1] = Sign
    BY DEF IsSign
  <2>4. next = "fetch" => msg[s][1] = Own
    BY <2>2 DEF IsSign
  <2>5. next \in {"search", "fetch"}
    OBVIOUS
  <2> HIDE DEF next
  <2>6. QED
    BY <1>1, <1>3, <2>1, <2>3, <2>4, <2>5, LookupInvariant
<1>4. CASE FindVault(s)
  <2> DEFINE there == IF Request(s) \in findable THEN "create" ELSE "submit"
  <2>1. /\ At(s, "search") /\ GoTo(s, there) /\ UNCHANGED fordefiVars
        /\ UNCHANGED <<chainVars, late>> /\ found' = [found EXCEPT ![s] = NoResult]
    BY <1>4, NothingFoundYet DEF FindVault, At
  <2>2. msg[s][1] = Sign
    BY <2>1 DEF At, IInv, MessagesFit
  <2>3. there = "submit" => Unsignable(Request(s))'
    BY <2>1 DEF GoTo, consumerVars, fordefiVars, Unsignable, Request
  <2>4. there \in {"create", "submit"}
    OBVIOUS
  <2> HIDE DEF there
  <2>5. QED
    BY <1>1, <2>1, <2>2, <2>3, <2>4, LookupInvariant
<1>5. CASE AskSignature(s)
  BY <1>5, AskSignatureInvariant
<1>6. CASE FetchSignature(s)
  BY <1>6, FetchSignatureInvariant
<1>7. CASE (SubmitAccepted(s) \/ SubmitRefused(s) \/ SubmitAgain(s)) /\ UNCHANGED fordefiVars
  BY <1>1, <1>7, SubmitInvariant
<1>8. CASE Confirm(s) /\ UNCHANGED fordefiVars
  BY <1>1, <1>8, ReturnInvariant DEF Confirm, IInv, ProcessorInv, SuccessFits
<1>9. CASE SubmitWithoutHash(s) /\ UNCHANGED fordefiVars
  BY <1>1, <1>9, ReturnInvariant DEF SubmitWithoutHash
<1>10. CASE (Error(s) \/ Timeout(s)) /\ UNCHANGED fordefiVars
  BY <1>1, <1>10, FailInvariant DEF Error, Timeout
<1>11. QED
  BY <1>2, <1>3, <1>4, <1>5, <1>6, <1>7, <1>8, <1>9, <1>10 DEF Invocation, Progress, Mishap

\* Steps of Fordefi and of the webhook that publish nothing.
LEMMA NothingPublished ==
    ASSUME IInv, FordefiKeeps, late' \subseteq late,
           UNCHANGED <<consumerVars, chainVars, slotVars, failures>>
    PROVE  IInv'
<1>1. ProcessorInv'
  BY LateStarts DEF IInv
<1>2. MempoolFrom /\ FailuresGrow
  BY DEF chainVars, MempoolFrom, SameAnswer, FailuresGrow, IInv, ProcessorInv, ProcessorTypeOK
<1>3. TypeOK' /\ MempoolFits' /\ AnswersFit'
  BY <1>1, <1>2, AnswersStay DEF chainVars
<1>4. MessagesFit'
  BY DEF consumerVars, slotVars, IInv, MessagesFit, InPlay
<1>5. FoundFits'
  BY <1>1, <1>2, FoundStays DEF consumerVars, slotVars, FoundFits
<1>6. AckedAccounted'
  BY AckedStays DEF consumerVars, chainVars
<1>7. QED
  BY <1>1, <1>3, <1>4, <1>5, <1>6 DEF IInv

LEMMA FordefiInvariant ==
    ASSUME IInv, Fordefi
    PROVE  IInv'
<1>1. ASSUME NEW x \in Results, Decide(x) \/ AskElsewhere(x)
      PROVE  IInv'
  <2>1. FordefiKeeps
    BY <1>1 DEF Decide, AskElsewhere, FordefiKeeps, SigningStates, Final, Failed, Unknown, IInv, TypeOK
  <2>2. QED
    BY <1>1, <2>1, NothingPublished DEF Decide, AskElsewhere, processorVars
<1>2. ASSUME NEW x \in Results, HandleEvent(x)
      PROVE  IInv'
  <2>1. FordefiKeeps
    BY <1>2 DEF HandleEvent, FordefiKeeps, IInv, TypeOK
  <2>2. CASE Publish(x)
    <3>1. x \in Messages /\ x[1] \in {Own, Sign}
      BY <1>2, MessageParts DEF HandleEvent, CanActivate
    <3>2. QED
      BY <2>1, <2>2, <3>1, PublishInvariant
  <2>3. CASE UNCHANGED processorVars
    BY <2>1, <2>3, NothingPublished DEF processorVars
  <2>4. QED
    BY <1>2, <2>2, <2>3 DEF HandleEvent
<1>3. ASSUME NEW m \in Messages, LateAsk(m)
      PROVE  IInv'
  <2>1. <<Own, RequestOf[m]>> \in Results
    BY MessageParts
  <2>2. FordefiKeeps
    BY <1>3, <2>1, AskedKeeps DEF LateAsk, IInv
  <2>3. QED
    BY <1>3, <2>2, NothingPublished DEF LateAsk
<1>4. QED
  BY <1>1, <1>2, <1>3 DEF Fordefi

LEMMA BlockInvariant ==
    ASSUME IInv, NEW tx \in mempool, Block(tx), UNCHANGED fordefiVars
    PROVE  IInv'
<1>1. /\ ProcessorInv'
      /\ UNCHANGED <<consumerVars, slotVars, late, failures>>
      /\ mempool' \subseteq mempool
      /\ tx \in Chain!Transactions
      /\ \A r \in Requests :
            \/ status'[r] = status[r] /\ result'[r] = result[r]
            \/ /\ r = tx.request /\ status[r] = "pending"
               /\ status'[r] = tx.verdict /\ result'[r] = tx.result
  BY BlockKeeps DEF IInv
<1>2. FordefiKeeps /\ FailuresGrow
  BY <1>1, FordefiStutters DEF FailuresGrow, IInv, ProcessorInv, ProcessorTypeOK
<1>3. Founded(tx.request, tx.verdict, tx.result) /\ tx.verdict # "pending"
  BY <1>1 DEF IInv, MempoolFits, Chain!Transactions
<1>4. \A r \in Requests : \A verdict, x : Founded(r, verdict, x) => Founded(r, verdict, x)'
  BY <1>1, <1>2, FoundedStays DEF IInv
<1>5. TypeOK'
  BY <1>1 DEF fordefiVars, IInv, TypeOK, ProcessorInv
<1>6. MempoolFits'
  BY <1>1, <1>4 DEF IInv, MempoolFits, ProcessorInv, ProcessorTypeOK, Chain!TypeOK, Chain!Transactions
<1>7. AnswersFit'
  BY <1>1, <1>3, <1>4 DEF IInv, AnswersFit
<1>8. MessagesFit' /\ FoundFits'
  <2>1. MessagesFit'
    BY <1>1 DEF consumerVars, slotVars, IInv, MessagesFit, InPlay
  <2>2. FoundFits'
    BY <1>1, <1>2, FoundStays DEF consumerVars, slotVars, FoundFits
  <2>3. QED
    BY <2>1, <2>2
<1>9. AckedAccounted'
  <2>1. \A r \in Requests : status[r] # "pending" => status'[r] # "pending"
    BY <1>1
  <2>2. QED
    BY <1>1, <1>2, <2>1, AckedStays DEF consumerVars
<1>10. QED
  BY <1>1, <1>5, <1>6, <1>7, <1>8, <1>9 DEF IInv

LEMMA NextInvariant == IInv /\ [Next]_vars => IInv'
<1> SUFFICES ASSUME IInv, [Next]_vars PROVE IInv'
  OBVIOUS
<1>1. UNCHANGED fordefiVars => FordefiKeeps
  BY FordefiStutters DEF IInv
<1>2. CASE \E s \in Slots : Invocation(s)
  BY <1>2, InvocationInvariant
<1>3. CASE Fordefi
  BY <1>3, FordefiInvariant
<1>4. CASE (\E r \in Requests : Publish(<<Sign, r>>)) /\ UNCHANGED fordefiVars
  <2>1. \A r \in Requests : <<Sign, r>> \in Messages /\ <<Sign, r>>[1] = Sign
    BY MessageParts
  <2>2. QED
    BY <1>1, <1>4, <2>1, PublishInvariant
<1>5. CASE (\E s \in Slots, m \in Messages : Deliver(s, m)) /\ UNCHANGED fordefiVars
  BY <1>1, <1>5, DeliverInvariant
<1>6. CASE (\E tx \in mempool : Block(tx)) /\ UNCHANGED fordefiVars
  BY <1>6, BlockInvariant
<1>7. CASE (Interruption \/ Crash) /\ UNCHANGED fordefiVars
  BY <1>1, <1>7, InterruptionInvariant, CrashInvariant
<1>8. CASE (\E s \in Slots : Recognize(s)) /\ UNCHANGED fordefiVars
  BY <1>1, <1>8, RecognizeInvariant
<1>9. CASE UNCHANGED vars
  BY <1>1, <1>9, NothingPublished DEF vars, processorVars
<1>10. QED
  BY <1>2, <1>3, <1>4, <1>5, <1>6, <1>7, <1>8, <1>9 DEF Next, Environment

-----------------------------------------------------------------------------
(* The theorems                                                            *)

\* Every reachable state has its type and meets the inductive invariant:
\* whatever the webhook, late calls, duplicates and crashes do, what may still
\* answer a request fits it.
THEOREM Invariance == Spec => []IInv
<1>1. Init => IInv
  BY InitInvariant
<1>2. IInv /\ [Next]_vars => IInv'
  BY NextInvariant
<1>3. QED
  BY <1>1, <1>2, PTL DEF Spec

\* The variables of the handler, Fordefi and the webhook keep their types.
THEOREM TypeCorrectness == Spec => []TypeOK
<1>1. IInv => TypeOK
  BY DEF IInv
<1>2. QED
  BY <1>1, Invariance, PTL

\* A new signature message is acknowledged only when its request is answered or
\* Fordefi has its transaction; a status message only when it is answered.
THEOREM AckedOnlyAccounted == Spec => []AckedAccounted
<1>1. IInv => AckedAccounted
  BY DEF IInv
<1>2. QED
  BY <1>1, Invariance, PTL

\* A signature request is rejected only when there is no vault to sign with,
\* its transaction failed, or an invocation lost all its attempts.
THEOREM RejectedOnlyForReason == Spec => []RejectedForReason
<1>1. IInv => RejectedForReason
  BY DEF IInv, AnswersFit, Founded, RejectedForReason
<1>2. QED
  BY <1>1, Invariance, PTL

-----------------------------------------------------------------------------
(* SignatureHandler implements RequestLedger                               *)

\* A transaction that gets a state makes a signature, or changes none.
LEMMA TransactionProduces ==
    ASSUME TypeOK, FordefiKeeps, UNCHANGED <<status, result>>,
           NEW x \in Results, NEW there, signing' = [signing EXCEPT ![x] = there]
    PROVE  Ledger!Next \/ UNCHANGED Ledger!vars
<1>1. \A y \in Results : signing'[y] = IF y = x THEN there ELSE signing[y]
  BY DEF TypeOK
<1>2. CASE there = "completed"
  <2> DEFINE served == {r \in Requests : x = <<Own, r>>}
  <2>1. \A r \in Requests : Signed(r)' = IF r \in served THEN Signed(r) \cup {x} ELSE Signed(r)
    BY <1>1, <1>2 DEF Signed
  <2>2. Ledger!Produce(served, x)
    BY <2>1 DEF Ledger!Produce
  <2>3. served \in SUBSET Requests
    OBVIOUS
  <2>4. QED
    BY <2>2, <2>3 DEF Ledger!Next
<1>3. CASE there # "completed"
  <2>1. signing[x] # "completed"
    BY <1>1, <1>3 DEF FordefiKeeps, Final
  <2>2. \A r \in Requests : Signed(r)' = Signed(r)
    BY <1>1, <1>3, <2>1 DEF Signed
  <2>3. QED
    BY <2>2 DEF Ledger!vars
<1>4. QED
  BY <1>2, <1>3

\* A block answers a request with the signature made for it, or rejects it.
LEMMA BlockAnswers ==
    ASSUME IInv, NEW tx \in mempool, Block(tx), UNCHANGED fordefiVars
    PROVE  Ledger!Next \/ UNCHANGED Ledger!vars
<1>1. /\ tx \in Chain!Transactions
      /\ Founded(tx.request, tx.verdict, tx.result)
  BY DEF IInv, MempoolFits, ProcessorInv, ProcessorTypeOK, Chain!TypeOK
<1>2. \A q \in Requests : Signed(q)' = Signed(q)
  BY DEF Signed, fordefiVars
<1>3. CASE Chain!Execute(tx)
  <2>1. /\ tx.request \in Requests
        /\ status[tx.request] = "pending"
        /\ result[tx.request] = NoResult
        /\ result \in [Requests -> Results \cup {NoResult}]
    BY <1>1, <1>3 DEF Chain!Execute, Chain!Pending, Chain!Transactions, IInv, AnswersFit,
                      ProcessorInv, ProcessorTypeOK, Chain!TypeOK
  <2>2. CASE tx.verdict = "fulfilled"
    <3>1. tx.result \in Signed(tx.request) /\ tx.result \in Results
      BY <1>1, <2>2 DEF Founded, Signed
    <3>2. Ledger!Fulfil(tx.request, tx.result)
      BY <1>2, <1>3, <2>1, <2>2, <3>1 DEF Ledger!Fulfil, Chain!Execute
    <3>3. QED
      BY <2>1, <3>1, <3>2 DEF Ledger!Next
  <2>3. CASE tx.verdict = "rejected"
    <3>1. tx.result = NoResult
      BY <1>1, <2>3 DEF Founded
    <3>2. result' = result
      BY <1>3, <2>1, <3>1 DEF Chain!Execute
    <3>3. Ledger!Reject(tx.request)
      BY <1>2, <1>3, <2>1, <2>3, <3>2 DEF Ledger!Reject, Chain!Execute
    <3>4. QED
      BY <2>1, <3>3 DEF Ledger!Next
  <2>4. QED
    BY <1>1, <2>2, <2>3 DEF Chain!Transactions
<1>4. CASE Chain!FailInBlock(tx) \/ Chain!Evict(tx)
  BY <1>2, <1>4 DEF Chain!FailInBlock, Chain!Evict, Ledger!vars
<1>5. QED
  BY <1>3, <1>4 DEF Block

\* The invocations only ask for transactions.
LEMMA InvocationAnswers ==
    ASSUME IInv, NEW s \in Slots, Invocation(s)
    PROVE  Ledger!Next \/ UNCHANGED Ledger!vars
<1>1. UNCHANGED <<status, result>>
  BY DEF Invocation, Progress, Mishap, AlreadyAnswered, NotSeenAnswered, FindVault, AskSignature,
         FetchSignature, Submit, SubmitAccepted, SubmitRefused, SubmitAgain, SubmitWithoutHash,
         Confirm, Error, Timeout, Return, Fail, Release, Chain!Leave, Chain!Accept, Chain!Refuse,
         Chain!Rejoin, Chain!Rediscover, chainVars
<1>2. CASE AskSignature(s)
  <2>1. <<Own, Request(s)>> \in Results
    BY <1>2, SlotMessage, MessageParts DEF AskSignature, At
  <2>2. PICK there \in Asked(<<Own, Request(s)>>) :
           signing' = [signing EXCEPT ![<<Own, Request(s)>>] = there]
    BY <1>2 DEF AskSignature
  <2>3. FordefiKeeps
    BY <1>2, <2>1, <2>2, AskedKeeps DEF AskSignature, IInv
  <2>4. QED
    BY <1>1, <2>1, <2>2, <2>3, TransactionProduces DEF IInv
<1>3. CASE ~AskSignature(s)
  <2>1. UNCHANGED fordefiVars
    BY <1>3 DEF Invocation, Progress, FindVault, FetchSignature
  <2>2. QED
    BY <1>1, <2>1 DEF fordefiVars, Signed, Ledger!vars
<1>4. QED
  BY <1>2, <1>3

\* Fordefi decides, takes late calls, and tells the webhook.
LEMMA FordefiAnswers ==
    ASSUME IInv, Fordefi
    PROVE  Ledger!Next \/ UNCHANGED Ledger!vars
<1>1. UNCHANGED <<status, result>>
  BY DEF Fordefi, Decide, AskElsewhere, HandleEvent, LateAsk, Publish, processorVars, chainVars
<1>2. ASSUME NEW x \in Results, Decide(x) \/ AskElsewhere(x)
      PROVE  Ledger!Next \/ UNCHANGED Ledger!vars
  <2>1. FordefiKeeps
    BY <1>2 DEF Decide, AskElsewhere, FordefiKeeps, SigningStates, Final, Failed, Unknown, IInv, TypeOK
  <2>2. QED
    BY <1>1, <1>2, <2>1, TransactionProduces DEF Decide, AskElsewhere, IInv
<1>3. ASSUME NEW x \in Results, HandleEvent(x)
      PROVE  UNCHANGED Ledger!vars
  BY <1>1, <1>3 DEF HandleEvent, Signed, Ledger!vars
<1>4. ASSUME NEW m \in Messages, LateAsk(m)
      PROVE  Ledger!Next \/ UNCHANGED Ledger!vars
  <2>1. <<Own, RequestOf[m]>> \in Results
    BY MessageParts
  <2>2. FordefiKeeps
    BY <1>4, <2>1, AskedKeeps DEF LateAsk, IInv
  <2>3. QED
    BY <1>1, <1>4, <2>1, <2>2, TransactionProduces DEF LateAsk, IInv
<1>5. QED
  BY <1>2, <1>3, <1>4 DEF Fordefi

\* A signature request is answered at most once, and fulfilled only with the
\* signature Fordefi made for this deployment and this request, whatever
\* happens to messages, events, processes, calls and transactions.
THEOREM AnsweredOnceTheorem == Spec => AnsweredOnce
<1>1. Init => Ledger!Init
  BY DEF Init, ProcessorInit, Chain!Init, Ledger!Init, Signed
<1>2. IInv /\ [Next]_vars => [Ledger!Next]_(Ledger!vars)
  <2> SUFFICES ASSUME IInv, [Next]_vars
               PROVE  Ledger!Next \/ UNCHANGED Ledger!vars
    OBVIOUS
  <2>1. CASE Fordefi
    BY <2>1, FordefiAnswers
  <2>2. ASSUME NEW s \in Slots, Invocation(s)
        PROVE  Ledger!Next \/ UNCHANGED Ledger!vars
    BY <2>2, InvocationAnswers
  <2>3. ASSUME NEW tx \in mempool, Block(tx), UNCHANGED fordefiVars
        PROVE  Ledger!Next \/ UNCHANGED Ledger!vars
    BY <2>3, BlockAnswers
  <2>4. ASSUME \/ /\ \/ \E r \in Requests : Publish(<<Sign, r>>)
                     \/ \E s \in Slots, m \in Messages : Deliver(s, m)
                     \/ \E s \in Slots : Recognize(s)
                     \/ Interruption
                     \/ Crash
                  /\ UNCHANGED fordefiVars
               \/ UNCHANGED vars
        PROVE  UNCHANGED Ledger!vars
    <3>1. UNCHANGED <<status, result, signing>>
      BY <2>4 DEF Publish, Deliver, Recognize, Chain!Rejoin, Interruption, Crash, Release,
                  Chain!Leave, vars, processorVars, chainVars, fordefiVars
    <3>2. QED
      BY <3>1 DEF Signed, Ledger!vars
  <2>5. QED
    BY <2>1, <2>2, <2>3, <2>4 DEF Next, Environment
<1>3. QED
  BY <1>1, <1>2, Invariance, PTL DEF Spec, AnsweredOnce, Ledger!Spec

-----------------------------------------------------------------------------
(* SignatureHandler implements Delivery                                    *)

\* To the broker the handling of signature requests and of status messages is
\* what Delivery says of any handling: no attempt, fault or event loses a
\* message or multiplies it.
THEOREM DeliversTheorem == Spec => Consumer!Spec
<1>1. Init => Consumer!Init
  BY DEF Init, ProcessorInit
<1>2. [Next]_vars => [Consumer!Next]_(Consumer!vars)
  <2> SUFFICES ASSUME [Next]_vars
               PROVE  Consumer!Next \/ UNCHANGED consumerVars
    BY DEF consumerVars, Consumer!vars
  <2>1. ASSUME NEW s \in Slots, Invocation(s)
        PROVE  Consumer!Next \/ UNCHANGED consumerVars
    <3>1. CASE FindVault(s) \/ AskSignature(s) \/ FetchSignature(s)
      BY <3>1, ProcessorDelivers DEF FindVault, AskSignature, FetchSignature, GoTo
    <3>2. QED
      BY <2>1, <3>1, CallsDeliver DEF Invocation, Progress
  <2>2. CASE Fordefi
    <3>1. \A x \in Results : x \in Messages
      BY MessageParts
    <3>2. QED
      BY <2>2, <3>1, ProcessorDelivers DEF Fordefi, Decide, AskElsewhere, HandleEvent, LateAsk, processorVars
  <2>3. CASE Environment
    <3>1. \A r \in Requests : <<Sign, r>> \in Messages
      BY MessageParts
    <3>2. QED
      BY <2>3, <3>1, ProcessorDelivers, CallsDeliver, BlockDelivers DEF Environment
  <2>4. CASE UNCHANGED vars
    BY <2>4 DEF vars, processorVars
  <2>5. QED
    BY <2>1, <2>2, <2>3, <2>4 DEF Next
<1>3. QED
  BY <1>1, <1>2, PTL DEF Spec, Consumer!Spec
=============================================================================
