--------------------------- MODULE DeliveryProofs ---------------------------
(***************************************************************************)
(* That the consumer and its attempt loop neither lose nor multiply        *)
(* messages, for any messages, queues, slots, attempts and prefetch.       *)
(***************************************************************************)
EXTENDS Delivery, FiniteSetTheorems, TLAPS

USE RetryAttemptsAssumption, SlotsAssumption, NoMessageAssumption

-----------------------------------------------------------------------------
(* Counting copies                                                         *)

LEMMA UnsettledFinite ==
    ASSUME NEW m
    PROVE  IsFiniteSet(Unsettled(m)) /\ Cardinality(Unsettled(m)) \in Nat
<1>1. IsFiniteSet(Unsettled(m))
  BY FS_Subset DEF Unsettled
<1>2. QED
  BY <1>1, FS_CardinalityType

LEMMA CopiesType ==
    ASSUME TypeOK, NEW m \in Messages
    PROVE  Copies(m) \in Nat
BY UnsettledFinite DEF Copies, TypeOK

\* With the deliveries of a message its copies stay.
LEMMA SameCopies ==
    ASSUME NEW m, ready'[m] = ready[m], Unsettled(m)' = Unsettled(m)
    PROVE  Copies(m)' = Copies(m)
BY DEF Copies

\* Putting back what no slot works on any more changes no number of copies.
LEMMA RequeueKeepsCopies ==
    ASSUME NEW closed, Requeue(closed), NEW m \in Messages, QueueOf[m] \in closed, TypeOK,
           \A s \in Slots : state'[s] = "busy" => msg'[s] # m
    PROVE  Copies(m)' = Copies(m)
<1>1. Unsettled(m)' = {}
  BY DEF Unsettled
<1>2. Cardinality(Unsettled(m))' = 0
  BY <1>1, FS_EmptySet
<1>3. ready'[m] = Copies(m)
  BY DEF Requeue
<1>4. QED
  BY <1>2, <1>3, CopiesType DEF Copies

-----------------------------------------------------------------------------
(* What each step does to the types and to the copies of a message         *)

\* The copies of m, compared with those before the step.
Kept(m) == Copies(m)' = Copies(m)

Answered(m) ==
    /\ Copies(m)' = Copies(m) - 1
    /\ \E s \in Unsettled(m) : state'[s] = "idle" /\ m \in acked' \cup dropped'

LEMMA PublishStep ==
    ASSUME TypeOK, NEW n \in Messages, Publish(n)
    PROVE  TypeOK' /\ \A m \in Messages : m = n \/ Kept(m)
<1>1. TypeOK'
  BY DEF Publish, TypeOK
<1>2. ASSUME NEW m \in Messages, m # n
      PROVE  Kept(m)
  <2>1. ready'[m] = ready[m] /\ Unsettled(m)' = Unsettled(m)
    BY <1>2 DEF Publish, TypeOK, Unsettled
  <2>2. QED
    BY <2>1, SameCopies DEF Kept
<1>3. QED
  BY <1>1, <1>2

\* A delivery moves a copy from the queue to a slot.
LEMMA DeliverStep ==
    ASSUME TypeOK, NEW s \in Slots, NEW n \in Messages, Deliver(s, n)
    PROVE  TypeOK' /\ \A m \in Messages : Kept(m)
<1>1. TypeOK'
  BY DEF Deliver, TypeOK
<1>2. ASSUME NEW m \in Messages, m # n
      PROVE  Kept(m)
  <2>1. ready'[m] = ready[m] /\ Unsettled(m)' = Unsettled(m)
    BY <1>2 DEF Deliver, TypeOK, Unsettled
  <2>2. QED
    BY <2>1, SameCopies DEF Kept
<1>3. Kept(n)
  <2>1. ready'[n] = ready[n] - 1 /\ ready[n] \in Nat
    BY DEF Deliver, TypeOK
  <2>2. Unsettled(n)' = Unsettled(n) \cup {s} /\ s \notin Unsettled(n)
    BY DEF Deliver, TypeOK, Unsettled
  <2>3. Cardinality(Unsettled(n))' = Cardinality(Unsettled(n)) + 1
    BY <2>2, UnsettledFinite, FS_AddElement
  <2>4. QED
    BY <2>1, <2>3, UnsettledFinite DEF Kept, Copies
<1>4. QED
  BY <1>1, <1>2, <1>3

LEMMA ExitStep ==
    ASSUME TypeOK, Exit
    PROVE  TypeOK' /\ \A m \in Messages : Kept(m)
<1>1. TypeOK'
  BY CopiesType DEF Exit, Requeue, TypeOK
<1>2. Requeue(Queues) /\ \A s \in Slots : state'[s] # "busy"
  BY DEF Exit
<1>3. QED
  BY <1>1, <1>2, RequeueKeepsCopies DEF Queues, Kept

\* Closing channels puts back the deliveries of their queues, and those alone.
LEMMA CloseStep ==
    ASSUME TypeOK, NEW closed, Close(closed), consumed' \subseteq Queues
    PROVE  TypeOK' /\ \A m \in Messages : Kept(m)
<1>1. TypeOK'
  BY CopiesType DEF Close, Requeue, TypeOK
<1>2. ASSUME NEW m \in Messages, QueueOf[m] \in closed
      PROVE  Kept(m)
  <2>1. \A s \in Slots : state'[s] = "busy" => msg'[s] # m
    BY <1>2 DEF Close
  <2>2. QED
    BY <1>2, <2>1, RequeueKeepsCopies DEF Close, Kept
<1>3. ASSUME NEW m \in Messages, QueueOf[m] \notin closed
      PROVE  Kept(m)
  <2>1. ready'[m] = ready[m]
    BY <1>3 DEF Close, Requeue
  <2>2. Unsettled(m)' = Unsettled(m)
    BY <1>3 DEF Close, Unsettled
  <2>3. QED
    BY <2>1, <2>2, SameCopies DEF Kept
<1>4. QED
  BY <1>1, <1>2, <1>3

LEMMA InterruptionStep ==
    ASSUME TypeOK, Interruption
    PROVE  TypeOK' /\ \A m \in Messages : Kept(m)
<1>1. CASE ConnectionLost
  BY <1>1, CloseStep DEF ConnectionLost
<1>2. ASSUME NEW q \in Losable, ChannelLost(q)
      PROVE  TypeOK' /\ \A m \in Messages : Kept(m)
  BY <1>2, CloseStep DEF ChannelLost, TypeOK
<1>3. ASSUME NEW q \in Losable, ConsumerCancelled(q)
      PROVE  TypeOK' /\ \A m \in Messages : Kept(m)
  <2>1. TypeOK'
    BY <1>3 DEF ConsumerCancelled, TypeOK
  <2>2. \A m \in Messages : Kept(m)
    BY <1>3 DEF ConsumerCancelled, Kept, Copies, Unsettled
  <2>3. QED
    BY <2>1, <2>2
<1>4. QED
  BY <1>1, <1>2, <1>3 DEF Interruption

\* An answer on the open channel settles one delivery of its message.
LEMMA AnswerStep ==
    ASSUME TypeOK, NEW s \in Slots, NEW handled \in BOOLEAN, Answer(s, handled)
    PROVE  TypeOK' /\ \A m \in Messages : Kept(m) \/ Answered(m)
<1>1. TypeOK'
  BY DEF Answer, TypeOK
<1>2. ASSUME NEW m \in Messages, m # msg[s]
      PROVE  Kept(m)
  <2>1. ready'[m] = ready[m] /\ Unsettled(m)' = Unsettled(m)
    BY <1>2 DEF Answer, TypeOK, Unsettled
  <2>2. QED
    BY <2>1, SameCopies DEF Kept
<1>3. ASSUME NEW m \in Messages, m = msg[s]
      PROVE  Answered(m)
  <2>1. ready'[m] = ready[m] /\ ready[m] \in Nat
    BY DEF Answer, TypeOK
  <2>2. Unsettled(m)' = Unsettled(m) \ {s} /\ s \in Unsettled(m)
    BY <1>3 DEF Answer, TypeOK, Unsettled
  <2>3. Cardinality(Unsettled(m))' = Cardinality(Unsettled(m)) - 1
    BY <2>2, UnsettledFinite, FS_RemoveElement
  <2>4. Copies(m)' = Copies(m) - 1
    BY <2>1, <2>3, UnsettledFinite DEF Copies
  <2>5. state'[s] = "idle" /\ m \in acked' \cup dropped'
    BY <1>3 DEF Answer, TypeOK
  <2>6. QED
    BY <2>2, <2>4, <2>5 DEF Answered
<1>4. QED
  BY <1>1, <1>2, <1>3

LEMMA SettleStep ==
    ASSUME TypeOK, NEW s \in Slots, NEW handled \in BOOLEAN, Settle(s, handled)
    PROVE  TypeOK' /\ \A m \in Messages : Kept(m) \/ Answered(m)
BY AnswerStep, ExitStep DEF Settle, AnswerOnClosedChannel

\* The attempt loop leaves the delivery as it is until it ends.
LEMMA HandleStep ==
    ASSUME TypeOK, NEW s \in Slots, Handle(s)
    PROVE  TypeOK' /\ \A m \in Messages : Kept(m) \/ Answered(m)
<1>1. CASE Retry(s)
  <2>1. TypeOK'
    BY <1>1 DEF Retry, TypeOK
  <2>2. \A m \in Messages : ready'[m] = ready[m] /\ Unsettled(m)' = Unsettled(m)
    BY <1>1 DEF Retry, Unsettled
  <2>3. QED
    BY <2>1, <2>2, SameCopies DEF Kept
<1>2. CASE \E handled \in BOOLEAN : Settle(s, handled)
  BY <1>2, SettleStep
<1>3. QED
  BY <1>1, <1>2 DEF Handle, Throw

LEMMA NextStep ==
    ASSUME TypeOK, [Next]_vars
    PROVE  TypeOK' /\ \A m \in Messages : Publish(m) \/ Kept(m) \/ Answered(m)
<1>1. ASSUME NEW n \in Messages, Publish(n)
      PROVE  TypeOK' /\ \A m \in Messages : Publish(m) \/ Kept(m)
  BY <1>1, PublishStep
<1>2. CASE Fault
  BY <1>2, InterruptionStep, ExitStep DEF Fault, Crash
<1>3. CASE UNCHANGED vars
  <2>1. \A m \in Messages : Kept(m)
    BY <1>3 DEF vars, Kept, Copies, Unsettled
  <2>2. TypeOK'
    BY <1>3 DEF vars, TypeOK
  <2>3. QED
    BY <2>1, <2>2
<1>4. QED
  BY <1>1, <1>2, <1>3, DeliverStep, HandleStep DEF Next

-----------------------------------------------------------------------------
(* The theorems                                                            *)

\* The consumer keeps its types: in particular a delivery has no more than the
\* attempts it began with, and never fewer than none.
THEOREM TypeCorrectness == Spec => []TypeOK
<1>1. Init => TypeOK
  BY DEF Init, TypeOK
<1>2. TypeOK /\ [Next]_vars => TypeOK'
  BY NextStep
<1>3. QED
  BY <1>1, <1>2, PTL DEF Spec

\* No reconnect, crash or stale invocation loses a copy of a message or makes
\* another one.
THEOREM CopiesKeptTheorem == Spec => CopiesKept
<1>1. ASSUME TypeOK, [Next]_vars, NEW m \in Messages, Copies(m)' # Copies(m)
      PROVE  \/ Publish(m)
             \/ /\ Copies(m)' = Copies(m) - 1
                /\ \E s \in Unsettled(m) : state'[s] = "idle" /\ m \in acked' \cup dropped'
  BY <1>1, NextStep DEF Kept, Answered
<1>2. TypeOK /\ [Next]_vars =>
         [\A m \in Messages : Copies(m)' # Copies(m) =>
             \/ Publish(m)
             \/ /\ Copies(m)' = Copies(m) - 1
                /\ \E s \in Unsettled(m) : state'[s] = "idle" /\ m \in acked' \cup dropped'
         ]_vars
  BY <1>1
<1>3. QED
  BY <1>2, TypeCorrectness, PTL DEF Spec, CopiesKept
=============================================================================
