-------------------------- MODULE ProcessorProofs --------------------------
(***************************************************************************)
(* That the steps all processors share keep ProcessorInv, and what they    *)
(* leave alone: the lemmas the proofs about each processor rest on.        *)
(***************************************************************************)
EXTENDS Processor, FiniteSetTheorems, TLAPS

USE RequestOfAssumption, NoResultAssumption, RetryAttemptsAssumption

-----------------------------------------------------------------------------
(* Types                                                                   *)

\* Delivery brings its own copy of Cardinality.
LEMMA SameCardinality ==
    ASSUME NEW S
    PROVE  Consumer!Cardinality(S) = Cardinality(S)
BY DEF Consumer!Cardinality, Cardinality

LEMMA CopiesType ==
    ASSUME Consumer!TypeOK, NEW m \in Messages
    PROVE  Consumer!Copies(m) \in Nat
<1>1. IsFiniteSet(Consumer!Unsettled(m))
  BY SlotsAssumption, FS_Subset DEF Consumer!Unsettled
<1>2. Consumer!Cardinality(Consumer!Unsettled(m)) \in Nat
  BY <1>1, FS_CardinalityType, SameCardinality
<1>3. QED
  BY <1>2 DEF Consumer!Copies, Consumer!TypeOK

LEMMA SettleTypes ==
    ASSUME Consumer!TypeOK, NEW s \in Slots, NEW handled \in BOOLEAN, Consumer!Settle(s, handled)
    PROVE  Consumer!TypeOK'
<1>1. CASE Consumer!Answer(s, handled)
  BY <1>1 DEF Consumer!Answer, Consumer!TypeOK
<1>2. CASE Consumer!AnswerOnClosedChannel(s)
  BY <1>2, CopiesType
     DEF Consumer!AnswerOnClosedChannel, Consumer!Exit, Consumer!Requeue, Consumer!TypeOK
<1>3. QED
  BY <1>1, <1>2 DEF Consumer!Settle

LEMMA ThrowTypes ==
    ASSUME Consumer!TypeOK, NEW s \in Slots, Consumer!Throw(s)
    PROVE  Consumer!TypeOK'
<1>1. CASE Consumer!Retry(s)
  BY <1>1 DEF Consumer!Retry, Consumer!TypeOK
<1>2. CASE Consumer!Settle(s, FALSE)
  BY <1>2, SettleTypes
<1>3. QED
  BY <1>1, <1>2 DEF Consumer!Throw

LEMMA CrashTypes ==
    ASSUME Consumer!TypeOK, Consumer!Crash
    PROVE  Consumer!TypeOK'
BY CopiesType DEF Consumer!Crash, Consumer!Exit, Consumer!Requeue, Consumer!TypeOK

LEMMA InterruptionTypes ==
    ASSUME Consumer!TypeOK, Consumer!Interruption
    PROVE  Consumer!TypeOK'
<1>1. CASE Consumer!ConnectionLost
  BY <1>1, CopiesType
     DEF Consumer!ConnectionLost, Consumer!Close, Consumer!Requeue, Consumer!TypeOK
<1>2. ASSUME NEW q \in Losable, Consumer!ChannelLost(q)
      PROVE  Consumer!TypeOK'
  BY <1>2, CopiesType
     DEF Consumer!ChannelLost, Consumer!Close, Consumer!Requeue, Consumer!TypeOK
<1>3. ASSUME NEW q \in Losable, Consumer!ConsumerCancelled(q)
      PROVE  Consumer!TypeOK'
  BY <1>3 DEF Consumer!ConsumerCancelled, Consumer!TypeOK
<1>4. QED
  BY <1>1, <1>2, <1>3 DEF Consumer!Interruption

\* No slot begins or ends with it, and none loses its message.
LEMMA InterruptionFrame ==
    ASSUME Consumer!TypeOK, Consumer!Interruption
    PROVE  /\ UNCHANGED <<msg, attempts, acked>>
           /\ \A t \in Slots : state'[t] = "idle" <=> state[t] = "idle"
BY DEF Consumer!Interruption, Consumer!ConnectionLost, Consumer!ChannelLost,
       Consumer!ConsumerCancelled, Consumer!Close, Consumer!TypeOK

\* A slot with a step has a message, and its answer is a transaction.
LEMMA AnswerType ==
    ASSUME ProcessorTypeOK, StepsFit, NEW s \in Slots, step[s] # "none"
    PROVE  /\ state[s] # "idle"
           /\ msg[s] \in Messages
           /\ Request(s) \in Requests
           /\ Answer(s) \in Chain!Transactions
           /\ Answer(s).waiters = {s}
           /\ Answer(s).request = Request(s)
           /\ IF found[s] = NoResult
              THEN Answer(s).verdict = "rejected" /\ Answer(s).result = NoResult
              ELSE Answer(s).verdict = "fulfilled" /\ Answer(s).result = found[s]
<1>1. state[s] # "idle" /\ msg[s] \in Messages /\ Request(s) \in Requests
  BY DEF StepsFit, ProcessorTypeOK, Consumer!TypeOK, Request
<1>2. found[s] \in Results \cup {NoResult}
  BY DEF ProcessorTypeOK
<1>3. QED
  BY <1>1, <1>2 DEF Answer, Chain!RejectTx, Chain!FulfilTx, Chain!Transactions

-----------------------------------------------------------------------------
(* Frames: what the steps leave alone                                      *)

\* A slot that is not freed keeps its message; unless it throws, its attempts.
LEMMA SettleFrame ==
    ASSUME Consumer!TypeOK, NEW s \in Slots, NEW handled \in BOOLEAN, Consumer!Settle(s, handled)
    PROVE  /\ s \in Freed
           /\ state[s] # "idle"
           /\ msg[s] \in Messages
           /\ acked' \subseteq acked \cup (IF handled THEN {msg[s]} ELSE {})
           /\ \A t \in Slots \ Freed : /\ state'[t] = state[t]
                                       /\ msg'[t] = msg[t]
                                       /\ attempts'[t] = attempts[t]
BY DEF Consumer!Settle, Consumer!Answer, Consumer!AnswerOnClosedChannel, Consumer!Exit,
       Freed, Consumer!TypeOK

LEMMA ThrowFrame ==
    ASSUME Consumer!TypeOK, NEW s \in Slots, Consumer!Throw(s)
    PROVE  /\ state[s] # "idle"
           /\ msg[s] \in Messages
           /\ acked' = acked
           /\ s \notin Freed => attempts'[s] = attempts[s] - 1
           /\ s \in Freed => attempts[s] = 0 /\ attempts'[s] = 0
           /\ \A t \in Slots \ Freed : /\ state'[t] = state[t]
                                       /\ msg'[t] = msg[t]
                                       /\ t # s => attempts'[t] = attempts[t]
BY DEF Consumer!Throw, Consumer!Retry, Consumer!Settle, Consumer!Answer,
       Consumer!AnswerOnClosedChannel, Consumer!Exit, Freed, Consumer!TypeOK

\* The same answer of the same request, whoever waits for it.
SameAnswer(tx, other) ==
    /\ tx.request = other.request
    /\ tx.verdict = other.verdict
    /\ tx.result = other.result

\* What the mempool holds after a step: what it held, or the answer of a slot.
MempoolFrom ==
    \A tx \in mempool' :
        \/ \E old \in mempool : SameAnswer(tx, old)
        \/ \E t \in Slots : step[t] = "submit" /\ SameAnswer(tx, Answer(t))

\* What Return, Fail and Crash do beside the slots they free.
LEMMA ReleaseFrame ==
    ASSUME ProcessorInv, NEW slots \in SUBSET Slots,
           NEW unfinished \in SUBSET (Calling \cap slots), Release(slots, unfinished),
           \A t \in Slots \ slots : state'[t] = state[t] /\ msg'[t] = msg[t]
    PROVE  /\ Chain!TypeOK'
           /\ found' \in [Slots -> Results \cup {NoResult}]
           /\ late' \subseteq Messages
           /\ UNCHANGED <<status, result>>
           /\ MempoolFrom
           /\ WaitersFit'
           /\ SuccessFits'
<1> DEFINE posted == {Answer(t) : t \in {u \in unfinished : step[u] = "submit"}}
<1>1. \A t \in unfinished : msg[t] \in Messages
  BY AnswerType DEF ProcessorInv, Calling
<1>2. found' \in [Slots -> Results \cup {NoResult}] /\ late' \subseteq Messages
  BY <1>1 DEF Release, ProcessorInv, ProcessorTypeOK
<1>3. UNCHANGED <<status, result>>
  BY DEF Release, Chain!Leave
<1>4. mempool' = {[tx EXCEPT !.waiters = @ \ slots] : tx \in mempool \cup posted}
  BY DEF Release, Chain!Leave
<1>5. /\ \A tx \in mempool : tx \in Chain!Transactions
      /\ \A tx \in posted : tx \in Chain!Transactions /\ tx.waiters \subseteq slots
  BY AnswerType DEF ProcessorInv, ProcessorTypeOK, Chain!TypeOK
<1>6. \A tx \in mempool' :
         /\ tx \in Chain!Transactions
         /\ \E old \in mempool \cup posted : SameAnswer(tx, old) /\ tx.waiters = old.waiters \ slots
  BY <1>4, <1>5 DEF SameAnswer, Chain!Transactions
<1>7. MempoolFrom
  BY <1>6 DEF MempoolFrom
<1>8. WaitersFit'
  <2> SUFFICES ASSUME NEW tx \in mempool', NEW s \in tx.waiters
               PROVE  (state[s] # "idle" /\ Request(s) = tx.request)'
    BY DEF WaitersFit
  <2>1. PICK old \in mempool \cup posted : SameAnswer(tx, old) /\ tx.waiters = old.waiters \ slots
    BY <1>6
  <2>2. old \in mempool /\ s \in old.waiters /\ s \in Slots \ slots
    BY <1>5, <1>6, <2>1 DEF Chain!Transactions
  <2>3. QED
    BY <2>1, <2>2 DEF ProcessorInv, WaitersFit, SameAnswer, Request
<1>9. Chain!TypeOK'
  BY <1>3, <1>6 DEF Release, Chain!Leave, Chain!Tell, Chain!Outcomes, Chain!TypeOK, ProcessorInv, ProcessorTypeOK
<1>10. SuccessFits'
  BY <1>3 DEF SuccessFits, Release, Chain!Leave, Chain!Tell, Chain!Pending, Request,
              ProcessorInv, ProcessorTypeOK, Chain!TypeOK
<1>11. QED
  BY <1>2, <1>3, <1>7, <1>8, <1>9, <1>10

-----------------------------------------------------------------------------
(* The steps                                                               *)

LEMMA ProcessorInitInv == ProcessorInit => ProcessorInv
BY DEF ProcessorInit, Consumer!Init, Chain!Init, ProcessorInv, ProcessorTypeOK, Consumer!TypeOK,
       Chain!TypeOK, Chain!Statuses, Chain!Outcomes, Chain!Transactions, Steps, StepsFit,
       FoundKept, FailuresFit, WaitersFit, SuccessFits

\* What was asked for and not awaited begins.
LEMMA LateStarts ==
    ASSUME ProcessorInv, UNCHANGED <<consumerVars, chainVars, slotVars, failures>>,
           late' \subseteq late
    PROVE  ProcessorInv'
BY DEF consumerVars, chainVars, slotVars, ProcessorInv, ProcessorTypeOK, Consumer!TypeOK,
       Chain!TypeOK, StepsFit, FoundKept, FailuresFit, WaitersFit, SuccessFits, Request, Chain!Pending

LEMMA ProcessorStutters ==
    ASSUME ProcessorInv, UNCHANGED processorVars
    PROVE  ProcessorInv'
BY LateStarts DEF processorVars

LEMMA PublishKeeps ==
    ASSUME ProcessorInv, NEW m \in Messages, Publish(m)
    PROVE  /\ ProcessorInv'
           /\ UNCHANGED <<chainVars, slotVars, late, failures, state, msg, attempts, acked>>
<1> USE DEF Publish, Consumer!Publish, chainVars, slotVars, ProcessorInv
<1>1. ProcessorTypeOK'
  BY DEF ProcessorTypeOK, Consumer!TypeOK, Chain!TypeOK
<1>2. StepsFit' /\ FoundKept' /\ FailuresFit' /\ WaitersFit' /\ SuccessFits'
  BY DEF StepsFit, FoundKept, FailuresFit, WaitersFit, SuccessFits, Request, Chain!Pending
<1>3. QED
  BY <1>1, <1>2

LEMMA DeliverKeeps ==
    ASSUME ProcessorInv, NEW s \in Slots, NEW m \in Messages, Deliver(s, m)
    PROVE  /\ ProcessorInv'
           /\ UNCHANGED <<chainVars, found, late, failures, acked>>
           /\ found[s] = NoResult
           /\ state[s] = "idle"
           /\ attempts'[s] = RetryAttempts
           /\ step'[s] = "submit" => attempts'[s] = 0
           /\ \A t \in Slots \ {s} : step'[t] = step[t] /\ msg'[t] = msg[t] /\ attempts'[t] = attempts[t]
<1> USE DEF Deliver, Consumer!Deliver, FirstStep, chainVars, ProcessorInv
<1>1. ProcessorTypeOK'
  BY DEF ProcessorTypeOK, Consumer!TypeOK, Chain!TypeOK, Steps
<1>2. StepsFit' /\ FailuresFit'
  BY DEF StepsFit, FailuresFit, ProcessorTypeOK, Consumer!TypeOK
<1>3. found[s] = NoResult
  BY DEF FoundKept, StepsFit
<1>4. FoundKept'
  BY <1>3 DEF FoundKept, ProcessorTypeOK
<1>5. WaitersFit' /\ SuccessFits'
  BY DEF WaitersFit, SuccessFits, Request, Chain!Pending, ProcessorTypeOK, Consumer!TypeOK,
         Chain!TypeOK, Chain!Transactions
<1>6. QED
  BY <1>1, <1>2, <1>3, <1>4, <1>5 DEF ProcessorTypeOK, Consumer!TypeOK

LEMMA ReturnKeeps ==
    ASSUME ProcessorInv, NEW s \in Slots, NEW handled \in BOOLEAN, Return(s, handled)
    PROVE  /\ ProcessorInv'
           /\ UNCHANGED <<status, result, failures>>
           /\ MempoolFrom
           /\ msg[s] \in Messages
           /\ acked' \subseteq acked \cup (IF handled THEN {msg[s]} ELSE {})
           /\ \A t \in Slots : step'[t] # "none" =>
                 /\ step'[t] = step[t] /\ found'[t] = found[t]
                 /\ msg'[t] = msg[t] /\ attempts'[t] = attempts[t]
<1>1. PICK unfinished \in SUBSET (Calling \cap (Freed \ {s})) : Release(Freed, unfinished)
  BY DEF Return
<1>2. /\ Freed \in SUBSET Slots
      /\ unfinished \in SUBSET (Calling \cap Freed)
  BY DEF Freed
<1>3. Consumer!Settle(s, handled) /\ UNCHANGED failures /\ Consumer!TypeOK
  BY DEF Return, ProcessorInv, ProcessorTypeOK
<1>4. /\ s \in Freed
      /\ msg[s] \in Messages
      /\ acked' \subseteq acked \cup (IF handled THEN {msg[s]} ELSE {})
      /\ \A t \in Slots \ Freed : state'[t] = state[t] /\ msg'[t] = msg[t] /\ attempts'[t] = attempts[t]
  BY <1>3, SettleFrame
<1>5. /\ Chain!TypeOK' /\ found' \in [Slots -> Results \cup {NoResult}] /\ late' \subseteq Messages
      /\ UNCHANGED <<status, result>> /\ MempoolFrom /\ WaitersFit' /\ SuccessFits'
  BY <1>1, <1>2, <1>4, ReleaseFrame
<1>6. ProcessorTypeOK'
  <2>1. Consumer!TypeOK'
    BY <1>3, SettleTypes
  <2>2. step' \in [Slots -> Steps]
    BY DEF Return, ProcessorInv, ProcessorTypeOK, Steps
  <2>3. QED
    BY <1>3, <1>5, <2>1, <2>2 DEF ProcessorInv, ProcessorTypeOK
<1>7. \A t \in Slots : /\ t \in Freed => step'[t] = "none" /\ found'[t] = NoResult
                       /\ t \notin Freed => step'[t] = step[t] /\ found'[t] = found[t]
  BY <1>1 DEF Return, Release
<1>8. StepsFit' /\ FoundKept' /\ FailuresFit'
  BY <1>3, <1>4, <1>7 DEF StepsFit, FoundKept, FailuresFit, Freed, ProcessorInv
<1>9. QED
  BY <1>3, <1>4, <1>5, <1>6, <1>7, <1>8 DEF ProcessorInv

LEMMA FailKeeps ==
    ASSUME ProcessorInv, NEW s \in Slots, Fail(s)
    PROVE  /\ ProcessorInv'
           /\ UNCHANGED <<status, result, acked>>
           /\ \A m \in Messages : failures'[m] >= failures[m]
           /\ MempoolFrom
           /\ \A t \in Slots : step'[t] # "none" =>
                 /\ msg'[t] = msg[t]
                 /\ IF t = s THEN /\ found'[t] = NoResult
                                  /\ step'[t] = FirstStep(attempts'[t])
                             ELSE /\ step'[t] = step[t] /\ found'[t] = found[t]
                                  /\ attempts'[t] = attempts[t]
<1>1. PICK unfinished \in SUBSET (Calling \cap (Freed \cup {s})) : Release(Freed \cup {s}, unfinished)
  BY DEF Fail
<1>2. Freed \cup {s} \in SUBSET Slots
  BY DEF Freed
<1>3. Consumer!TypeOK /\ Consumer!Throw(s)
  BY DEF ProcessorInv, ProcessorTypeOK, Fail
<1>4. Consumer!TypeOK'
  BY <1>3, ThrowTypes
<1>5. /\ state[s] # "idle" /\ msg[s] \in Messages
      /\ acked' = acked
      /\ s \notin Freed => attempts'[s] = attempts[s] - 1
      /\ s \in Freed => attempts[s] = 0 /\ attempts'[s] = 0
      /\ \A t \in Slots \ Freed : /\ state'[t] = state[t]
                                  /\ msg'[t] = msg[t]
                                  /\ t # s => attempts'[t] = attempts[t]
  BY <1>3, ThrowFrame
<1>6. /\ failures' \in [Messages -> 0 .. RetryAttempts]
      /\ \A m \in Messages : failures'[m] >= failures[m]
      /\ failures'[msg[s]] + attempts'[s] >= RetryAttempts
  BY <1>3, <1>4, <1>5 DEF Fail, ProcessorInv, ProcessorTypeOK, Consumer!TypeOK
<1>7. /\ Chain!TypeOK' /\ found' \in [Slots -> Results \cup {NoResult}] /\ late' \subseteq Messages
      /\ UNCHANGED <<status, result>> /\ MempoolFrom /\ WaitersFit' /\ SuccessFits'
  BY <1>1, <1>2, <1>5, ReleaseFrame
<1>8. ProcessorTypeOK'
  <2>1. step' \in [Slots -> Steps]
    BY DEF Fail, FirstStep, ProcessorInv, ProcessorTypeOK, Steps
  <2>2. QED
    BY <1>4, <1>6, <1>7, <2>1 DEF ProcessorTypeOK
<1>9. \A t \in Slots :
         /\ t \in Freed => step'[t] = "none"
         /\ t \in Freed \cup {s} => found'[t] = NoResult
         /\ t = s /\ t \notin Freed => step'[t] = FirstStep(attempts'[t])
         /\ t \notin Freed \cup {s} => step'[t] = step[t] /\ found'[t] = found[t]
  BY <1>1 DEF Fail, Release
<1>10. StepsFit' /\ FoundKept'
  BY <1>5, <1>9 DEF StepsFit, FoundKept, FirstStep, Freed, ProcessorInv
<1>11. FailuresFit'
  <2> SUFFICES ASSUME NEW t \in Slots, state'[t] # "idle"
               PROVE  failures'[msg'[t]] + attempts'[t] >= RetryAttempts
    BY DEF FailuresFit
  <2>1. t \notin Freed /\ msg'[t] = msg[t] /\ state[t] # "idle" /\ msg[t] \in Messages
    BY <1>3, <1>5 DEF Freed, Consumer!TypeOK
  <2>2. CASE t = s
    BY <1>6, <2>1, <2>2
  <2>3. CASE t # s
    BY <1>3, <1>5, <1>6, <2>1, <2>3 DEF FailuresFit, ProcessorInv, ProcessorTypeOK, Consumer!TypeOK
  <2>4. QED
    BY <2>2, <2>3
<1>12. QED
  BY <1>5, <1>6, <1>7, <1>8, <1>9, <1>10, <1>11 DEF ProcessorInv

LEMMA CrashKeeps ==
    ASSUME ProcessorInv, Crash
    PROVE  /\ ProcessorInv'
           /\ UNCHANGED <<status, result, acked, failures>>
           /\ MempoolFrom
           /\ \A t \in Slots : step'[t] = "none"
<1>1. PICK unfinished \in SUBSET Calling : Release(Slots, unfinished)
  BY DEF Crash
<1>2. unfinished \in SUBSET (Calling \cap Slots)
  BY DEF Calling
<1>3. Consumer!TypeOK /\ Consumer!Crash /\ UNCHANGED failures /\ step' = [t \in Slots |-> "none"]
  BY DEF ProcessorInv, ProcessorTypeOK, Crash
<1>4. acked' = acked /\ \A t \in Slots : state'[t] = "idle"
  BY <1>3 DEF Consumer!Crash, Consumer!Exit
<1>5. /\ Chain!TypeOK' /\ found' \in [Slots -> Results \cup {NoResult}] /\ late' \subseteq Messages
      /\ UNCHANGED <<status, result>> /\ MempoolFrom /\ WaitersFit' /\ SuccessFits'
  BY <1>1, <1>2, ReleaseFrame
<1>6. Consumer!TypeOK'
  BY <1>3, CrashTypes
<1>7. StepsFit' /\ FoundKept' /\ FailuresFit'
  BY <1>1, <1>3, <1>4 DEF Release, StepsFit, FoundKept, FailuresFit
<1>8. QED
  BY <1>3, <1>4, <1>5, <1>6, <1>7 DEF ProcessorInv, ProcessorTypeOK, Steps

LEMMA InterruptionKeeps ==
    ASSUME ProcessorInv, Interruption
    PROVE  /\ ProcessorInv'
           /\ UNCHANGED <<chainVars, slotVars, late, failures, acked, msg, attempts>>
<1> USE DEF Interruption, chainVars, slotVars, ProcessorInv
<1>1. Consumer!TypeOK /\ Consumer!Interruption
  BY DEF ProcessorTypeOK
<1>2. /\ UNCHANGED <<msg, attempts, acked>>
      /\ \A t \in Slots : state'[t] = "idle" <=> state[t] = "idle"
  BY <1>1, InterruptionFrame
<1>3. ProcessorTypeOK'
  BY <1>1, InterruptionTypes DEF ProcessorTypeOK, Chain!TypeOK
<1>4. StepsFit' /\ FoundKept' /\ FailuresFit'
  BY <1>2 DEF StepsFit, FoundKept, FailuresFit
<1>5. WaitersFit' /\ SuccessFits'
  BY <1>2 DEF WaitersFit, SuccessFits, Request, Chain!Pending, ProcessorTypeOK, Chain!TypeOK,
              Chain!Transactions
<1>6. QED
  BY <1>2, <1>3, <1>4, <1>5

\* A step inside an attempt, which may keep what it has found.
LEMMA GoToKeeps ==
    ASSUME ProcessorInv, NEW s \in Slots, NEW here \in Steps \ {"none", "submit", "wait"},
           NEW there \in Steps \ {"none"}, NEW x \in Results \cup {NoResult},
           At(s, here), GoTo(s, there), UNCHANGED chainVars,
           late' \subseteq Messages, found' = [found EXCEPT ![s] = x],
           x # NoResult => there = "submit"
    PROVE  ProcessorInv'
<1> USE DEF GoTo, consumerVars, chainVars, ProcessorInv
<1>1. ProcessorTypeOK'
  BY DEF ProcessorTypeOK, Consumer!TypeOK, Chain!TypeOK
<1>2. StepsFit' /\ FoundKept' /\ FailuresFit'
  BY DEF At, StepsFit, FoundKept, FailuresFit, ProcessorTypeOK
<1>3. WaitersFit' /\ SuccessFits'
  BY DEF WaitersFit, SuccessFits, Request, Chain!Pending
<1>4. QED
  BY <1>1, <1>2, <1>3

LEMMA NotSeenAnsweredKeeps ==
    ASSUME ProcessorInv, NEW s \in Slots, NEW next \in Steps \ {"none"}, NotSeenAnswered(s, next)
    PROVE  ProcessorInv'
<1>1. found[s] = NoResult /\ found' = [found EXCEPT ![s] = NoResult]
  BY DEF NotSeenAnswered, At, ProcessorInv, FoundKept, ProcessorTypeOK
<1>2. QED
  BY <1>1, GoToKeeps DEF NotSeenAnswered, Steps, ProcessorInv, ProcessorTypeOK

\* A slot that joins a transaction in the mempool waits for its own answer.
LEMMA RejoinKeepsMempool ==
    ASSUME ProcessorInv, NEW s \in Slots, state[s] # "idle", Chain!Rejoin(Answer(s))
    PROVE  \A tx \in mempool' :
              /\ tx \in Chain!Transactions
              /\ \E old \in mempool : SameAnswer(tx, old)
              /\ \A t \in tx.waiters : state[t] # "idle" /\ Request(t) = tx.request
<1>1. \A tx \in mempool : /\ tx \in Chain!Transactions
                          /\ \A t \in tx.waiters : state[t] # "idle" /\ Request(t) = tx.request
  BY DEF ProcessorInv, WaitersFit, ProcessorTypeOK, Chain!TypeOK
<1>2. /\ Answer(s) \in Chain!Transactions
      /\ Answer(s).waiters = {s}
      /\ Answer(s).request = Request(s)
  BY AnswerType DEF ProcessorInv, StepsFit
<1>3. PICK twin \in mempool :
         /\ Chain!SameContent(Answer(s), twin)
         /\ mempool' = (mempool \ {twin})
                         \cup {[twin EXCEPT !.waiters = @ \cup Answer(s).waiters]}
  BY DEF Chain!Rejoin
<1>4. Request(s) = twin.request
  BY <1>1, <1>2, <1>3 DEF Chain!SameContent, Chain!Transactions
<1>5. SUFFICES ASSUME NEW tx \in mempool', tx \notin mempool
               PROVE  /\ tx \in Chain!Transactions
                      /\ SameAnswer(tx, twin)
                      /\ \A t \in tx.waiters : state[t] # "idle" /\ Request(t) = tx.request
  BY <1>1 DEF SameAnswer
<1>6. tx = [twin EXCEPT !.waiters = @ \cup {s}]
  BY <1>2, <1>3, <1>5
<1>7. tx.waiters = twin.waiters \cup {s} /\ SameAnswer(tx, twin) /\ tx \in Chain!Transactions
  BY <1>1, <1>6 DEF Chain!Transactions, SameAnswer
<1>8. QED
  BY <1>1, <1>4, <1>7 DEF SameAnswer

LEMMA SubmitKeeps ==
    ASSUME ProcessorInv, NEW s \in Slots,
           SubmitAccepted(s) \/ SubmitRefused(s) \/ SubmitAgain(s)
    PROVE  /\ ProcessorInv'
           /\ UNCHANGED <<consumerVars, failures, found, late, status, result>>
           /\ MempoolFrom
           /\ step' = [step EXCEPT ![s] = "wait"]
<1>1. \/ Chain!Accept(Answer(s)) \/ Chain!Refuse(Answer(s))
      \/ Chain!Rejoin(Answer(s)) \/ Chain!Rediscover(Answer(s))
  BY DEF SubmitAccepted, SubmitRefused, SubmitAgain
<1>2. /\ At(s, "submit")
      /\ step' = [step EXCEPT ![s] = "wait"]
      /\ UNCHANGED <<consumerVars, failures, found, late, status, result>>
  BY <1>1 DEF SubmitAccepted, SubmitRefused, SubmitAgain, Submit, GoTo,
              Chain!Accept, Chain!Refuse, Chain!Rejoin, Chain!Rediscover
<1>3. /\ state[s] # "idle"
      /\ Answer(s) \in Chain!Transactions
      /\ Answer(s).waiters = {s}
      /\ Answer(s).request = Request(s)
      /\ Request(s) \in Requests
  BY <1>2, AnswerType DEF At, ProcessorInv
<1>4. \A tx \in mempool' :
         /\ tx \in Chain!Transactions
         /\ \/ \E old \in mempool : SameAnswer(tx, old)
            \/ SameAnswer(tx, Answer(s))
         /\ \A t \in tx.waiters : state[t] # "idle" /\ Request(t) = tx.request
  <2>1. \A tx \in mempool : /\ tx \in Chain!Transactions
                            /\ \A t \in tx.waiters : state[t] # "idle" /\ Request(t) = tx.request
    BY DEF ProcessorInv, WaitersFit, ProcessorTypeOK, Chain!TypeOK
  <2>2. CASE mempool' = mempool \/ mempool' = mempool \cup {Answer(s)}
    BY <1>3, <2>1, <2>2 DEF SameAnswer
  <2>3. CASE Chain!Rejoin(Answer(s))
    BY <1>3, <2>3, RejoinKeepsMempool
  <2>4. QED
    BY <1>1, <2>2, <2>3 DEF Chain!Accept, Chain!Refuse, Chain!Rediscover
<1>5. /\ outcome' \in [Slots -> Chain!Outcomes]
      /\ \A t \in Slots : outcome'[t] = "success" =>
            outcome[t] = "success" \/ (t = s /\ ~Chain!Pending(Request(s)))
  BY <1>1, <1>3 DEF Chain!Accept, Chain!Refuse, Chain!Rejoin, Chain!Rediscover, Chain!Tell, Chain!Outcomes,
              Chain!Pending, Chain!Transactions, ProcessorInv, ProcessorTypeOK, Chain!TypeOK
<1>6. ProcessorTypeOK'
  BY <1>2, <1>4, <1>5 DEF consumerVars, ProcessorInv, ProcessorTypeOK, Consumer!TypeOK, Chain!TypeOK, Steps
<1>7. StepsFit' /\ FoundKept' /\ FailuresFit'
  BY <1>2, <1>3 DEF consumerVars, StepsFit, FoundKept, FailuresFit, ProcessorInv, ProcessorTypeOK
<1>8. WaitersFit' /\ SuccessFits'
  BY <1>2, <1>3, <1>4, <1>5 DEF consumerVars, WaitersFit, SuccessFits, Request, Chain!Pending, ProcessorInv
<1>9. MempoolFrom
  BY <1>2, <1>4 DEF MempoolFrom, At
<1>10. QED
  BY <1>2, <1>6, <1>7, <1>8, <1>9 DEF ProcessorInv

LEMMA RecognizeKeeps ==
    ASSUME ProcessorInv, NEW s \in Slots, Recognize(s)
    PROVE  /\ ProcessorInv'
           /\ UNCHANGED <<consumerVars, slotVars, late, failures, status, result>>
           /\ MempoolFrom
<1>1. /\ state[s] # "idle" /\ Chain!Rejoin(Answer(s))
      /\ UNCHANGED <<consumerVars, slotVars, late, failures, status, result>>
  BY DEF Recognize, At, Chain!Rejoin
<1>2. \A tx \in mempool' :
         /\ tx \in Chain!Transactions
         /\ \E old \in mempool : SameAnswer(tx, old)
         /\ \A t \in tx.waiters : state[t] # "idle" /\ Request(t) = tx.request
  BY <1>1, RejoinKeepsMempool
<1>3. /\ outcome' \in [Slots -> Chain!Outcomes]
      /\ \A t \in Slots : outcome'[t] = "success" => outcome[t] = "success"
  BY <1>1 DEF Chain!Rejoin, Chain!Tell, Chain!Outcomes, ProcessorInv, ProcessorTypeOK, Chain!TypeOK
<1> USE <1>1 DEF consumerVars, slotVars, ProcessorInv
<1>4. ProcessorTypeOK'
  BY <1>2, <1>3 DEF ProcessorTypeOK, Consumer!TypeOK, Chain!TypeOK
<1>5. StepsFit' /\ FoundKept' /\ FailuresFit'
  BY DEF StepsFit, FoundKept, FailuresFit
<1>6. WaitersFit' /\ SuccessFits'
  BY <1>2, <1>3 DEF WaitersFit, SuccessFits, Request, Chain!Pending
<1>7. MempoolFrom
  BY <1>2 DEF MempoolFrom
<1>8. QED
  BY <1>4, <1>5, <1>6, <1>7

\* A block answers at most the request of its transaction, with what that says.
LEMMA BlockKeeps ==
    ASSUME ProcessorInv, NEW tx \in mempool, Block(tx)
    PROVE  /\ ProcessorInv'
           /\ UNCHANGED <<consumerVars, slotVars, late, failures>>
           /\ mempool' \subseteq mempool
           /\ tx \in Chain!Transactions
           /\ \A r \in Requests :
                 \/ status'[r] = status[r] /\ result'[r] = result[r]
                 \/ /\ r = tx.request /\ status[r] = "pending"
                    /\ status'[r] = tx.verdict /\ result'[r] = tx.result
<1>1. /\ tx \in Chain!Transactions
      /\ \A s \in tx.waiters : state[s] # "idle" /\ Request(s) = tx.request
  BY DEF ProcessorInv, WaitersFit, ProcessorTypeOK, Chain!TypeOK
<1>2. UNCHANGED <<consumerVars, slotVars, late, failures>> /\ mempool' \subseteq mempool
  BY DEF Block, Chain!Execute, Chain!FailInBlock, Chain!Evict
<1>3. /\ status' \in [Requests -> Chain!Statuses]
      /\ result' \in [Requests -> Results \cup {NoResult}]
      /\ outcome' \in [Slots -> Chain!Outcomes]
      /\ \A r \in Requests :
            \/ status'[r] = status[r] /\ result'[r] = result[r]
            \/ /\ r = tx.request /\ status[r] = "pending"
               /\ status'[r] = tx.verdict /\ result'[r] = tx.result
      /\ \A s \in Slots : outcome'[s] = "success" =>
            outcome[s] = "success" \/ (s \in tx.waiters /\ status'[tx.request] # "pending")
  BY <1>1 DEF Block, Chain!Execute, Chain!FailInBlock, Chain!Evict, Chain!Tell, Chain!Pending,
              Chain!Statuses, Chain!Outcomes, Chain!Transactions, ProcessorInv, ProcessorTypeOK, Chain!TypeOK
<1> USE <1>2 DEF consumerVars, slotVars, ProcessorInv
<1>4. ProcessorTypeOK'
  BY <1>3 DEF ProcessorTypeOK, Consumer!TypeOK, Chain!TypeOK
<1>5. StepsFit' /\ FoundKept' /\ FailuresFit' /\ WaitersFit'
  BY DEF StepsFit, FoundKept, FailuresFit, WaitersFit, Request
<1>6. SuccessFits'
  <2>1. \A r \in Requests : status[r] # "pending" => status'[r] = status[r]
    BY <1>3
  <2>2. \A s \in Slots : state[s] # "idle" => Request(s) \in Requests
    BY DEF Request, ProcessorTypeOK, Consumer!TypeOK
  <2>3. QED
    BY <1>1, <1>3, <2>1, <2>2 DEF SuccessFits, Chain!Pending, Request
<1>7. QED
  BY <1>1, <1>3, <1>4, <1>5, <1>6

-----------------------------------------------------------------------------
(* What the steps are to the consumer                                      *)

\* An attempt that ends is a step of Delivery, and so is what the broker does.
LEMMA ProcessorDelivers ==
    /\ \A s \in Slots : Fail(s) \/ (\E handled \in BOOLEAN : Return(s, handled)) => Consumer!Next
    /\ \A m \in Messages : Publish(m) => Consumer!Next
    /\ \A s \in Slots, m \in Messages : Deliver(s, m) => Consumer!Next
    /\ Interruption \/ Crash => Consumer!Next
BY DEF Fail, Return, Publish, Deliver, Interruption, Crash, Consumer!Next, Consumer!Handle,
       Consumer!Throw, Consumer!Fault

\* The calls every attempt makes either end it or leave the message alone.
LEMMA CallsDeliver ==
    ASSUME NEW s \in Slots,
           \/ AlreadyAnswered(s) \/ (\E next : NotSeenAnswered(s, next)) \/ SubmitAccepted(s)
           \/ Confirm(s) \/ Mishap(s) \/ Timeout(s) \/ Recognize(s)
    PROVE  Consumer!Next \/ UNCHANGED consumerVars
<1>1. CASE AlreadyAnswered(s) \/ Confirm(s) \/ SubmitWithoutHash(s)
  BY <1>1, ProcessorDelivers DEF AlreadyAnswered, Confirm, SubmitWithoutHash
<1>2. CASE Error(s) \/ Timeout(s)
  BY <1>2, ProcessorDelivers DEF Error, Timeout
<1>3. CASE \/ \E next : NotSeenAnswered(s, next)
           \/ SubmitAccepted(s) \/ SubmitRefused(s) \/ SubmitAgain(s)
           \/ Recognize(s)
  BY <1>3 DEF NotSeenAnswered, SubmitAccepted, SubmitRefused, SubmitAgain, Submit, GoTo, Recognize
<1>4. QED
  BY <1>1, <1>2, <1>3 DEF Mishap

\* Blocks are no concern of it.
LEMMA BlockDelivers ==
    ASSUME NEW tx, Block(tx)
    PROVE  UNCHANGED consumerVars
BY DEF Block
=============================================================================
