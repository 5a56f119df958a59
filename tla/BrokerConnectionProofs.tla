----------------------- MODULE BrokerConnectionProofs -----------------------
(***************************************************************************)
(* Proofs about the connection of a process and the reconnection of the    *)
(* consumers, for any set of them, any number of attempts and closes.      *)
(***************************************************************************)
EXTENDS BrokerConnection, TLAPS

USE MaxReconnectAttemptsAssumption, MaxClosesAssumption
    DEF Calls, Managers, Setups

-----------------------------------------------------------------------------
(* The connection, whatever the consumers do                               *)

\* The counter of error events is right at the start.
LEMMA ManagerInitInvariant ==
    ASSUME ManagerInit, manager \in {"unused", "connect"}
    PROVE  ManagerInv /\ manager # "up"
<1>1. running \in BOOLEAN /\ recent \in BOOLEAN
      BY Zenon DEF ManagerInit
<1>2. ManagerTypeOK
      BY <1>1 DEF ManagerInit, ManagerTypeOK
<1> QED
    BY <1>2 DEF ManagerInit, ManagerInv, QuickCounted

\* It stays right when the connection is made, lost, or waited for.
LEMMA ManagerInvariant ==
    ASSUME ManagerInv, Connected \/ Closed \/ GetConnection \/ ManagerStep \/ UNCHANGED managerVars
    PROVE  ManagerInv'
<1> USE DEF ManagerInv, ManagerTypeOK, QuickCounted
<1>1. CASE Connected
      BY <1>1 DEF Connected, Remembered
<1>2. CASE Closed
      BY <1>2 DEF Closed
<1>3. CASE ConnectFails \/ Reconnect
      BY <1>3 DEF ConnectFails, Reconnect, counterVars
<1>4. CASE PeriodEnds
      BY <1>4 DEF PeriodEnds
<1>5. CASE Exit
      BY <1>5 DEF Exit, counterVars
<1>6. CASE UNCHANGED managerVars
      BY <1>6 DEF managerVars, counterVars
<1>7. CASE GetConnection
      BY <1>7 DEF GetConnection, counterVars
<1> QED
    BY <1>1, <1>2, <1>3, <1>4, <1>5, <1>6, <1>7 DEF ManagerStep, Retry, GiveUp, CloseTooMany

\* The steps that leave consumers and producers alone do not bring the
\* connection up or down.
LEMMA ManagerStepKeeps ==
    ASSUME ManagerStep \/ GetConnection \/ UNCHANGED managerVars
    PROVE  manager' = "up" <=> manager = "up"
BY DEF ManagerStep, Retry, ConnectFails, GiveUp, Reconnect, CloseTooMany, PeriodEnds,
       Exit, GetConnection, managerVars, counterVars

\* A close ends the process only after as many quick ones as there are attempts.
LEMMA ManagerGivesUp ==
    ManagerInv => (CloseTooMany => quick = MaxReconnectAttempts)
BY DEF ManagerInv, ManagerTypeOK, QuickCounted, CloseTooMany
-----------------------------------------------------------------------------
(* The consumers on it                                                     *)

\* The consumers begin as the invariant says of a connection that is down.
LEMMA InitInvariant == Init => IInv
<1> SUFFICES ASSUME Init PROVE IInv
    OBVIOUS
<1>1. ManagerInv /\ manager # "up"
      BY ManagerInitInvariant DEF Init
<1>2. TypeOK
      BY <1>1 DEF Init, TypeOK, ManagerInv
<1> QED
    BY <1>1, <1>2 DEF Init, IInv, SubscribedOnce, NoneForgotten, Calling, WhileDown

\* The connection comes up: each consumer makes its channel, and one whose
\* continuation was overtaken is called twice.
LEMMA ConnectStep ==
    ASSUME IInv, Connect
    PROVE  IInv'
<1> USE DEF Connect, Starts
<1>0. ManagerInv' /\ ManagerTypeOK' /\ manager' = "up"
      BY ManagerInvariant DEF IInv, ManagerInv, Connected
<1>1. \A c \in Consumers : WhileDown(c)
      BY DEF IInv, Connected
<1>2. TypeOK'
      BY <1>0, <1>1 DEF IInv, TypeOK, WhileDown
<1>3. ASSUME NEW c \in Consumers
      PROVE  WhileUp(c)' /\ (Calling(c)' <= IF c \in overtaken' THEN 2 ELSE 1) /\ setup'[c] # "idle"
      BY <1>1, <1>3 DEF IInv, TypeOK, WhileDown, WhileUp, Calling
<1> QED
    BY <1>0, <1>2, <1>3 DEF IInv, SubscribedOnce, NoneForgotten

\* The connection is closed: what survives is a consumer at rest, or one that
\* was overtaken.
LEMMA CloseStep == ASSUME IInv, Close PROVE IInv'
<1> USE DEF Close, Survives, Overtaken, ClosedConsuming
<1>0. ManagerInv' /\ ManagerTypeOK' /\ manager' # "up"
      BY ManagerInvariant DEF IInv, ManagerInv, Closed
<1>1. TypeOK'
  <2>1. /\ channel' \in [Consumers -> BOOLEAN]
        /\ isConsuming' \in [Consumers -> BOOLEAN]
        BY Zenon
  <2>2. channelPromise' \in [Consumers -> BOOLEAN]
        BY Zenon
  <2>3. /\ setup' \in [Consumers -> Setups]
        /\ waiting' \in [Consumers -> Calls]
        /\ subscribing' \in [Consumers -> Calls]
        /\ subscriptions' \in [Consumers -> Calls]
        OBVIOUS
  <2> QED
      BY <1>0, <2>1, <2>2, <2>3 DEF IInv, TypeOK
<1>2. ASSUME NEW c \in Consumers
      PROVE  WhileDown(c)' /\ (Calling(c)' <= IF c \in overtaken' THEN 2 ELSE 1)
  <2>1. ~channel'[c] /\ ~isConsuming'[c] /\ (channelPromise'[c] <=> Overtaken(c))
        BY <1>2, Zenon
  <2>2. subscribing'[c] = 0 /\ subscriptions'[c] = 0 /\ c \notin dead'
        BY <1>2
  <2>3. CASE Overtaken(c)
        BY <1>2, <2>1, <2>2, <2>3 DEF WhileDown, Calling
  <2>4. CASE ~Overtaken(c)
        BY <1>2, <2>1, <2>2, <2>4 DEF WhileDown, Calling
  <2> QED
      BY <2>3, <2>4
<1> QED
    BY <1>0, <1>1, <1>2 DEF IInv, SubscribedOnce, NoneForgotten

\* A step of one consumer, which takes place on an open connection and leaves
\* the others as they are.
LEMMA ConsumerStep ==
    ASSUME IInv, NEW c \in Consumers,
           CreateChannel(c) \/ AssertQueue(c) \/ Subscribe(c) \/ CloseChannel(c) \/ Cancel(c)
    PROVE  IInv'
<1> USE DEF CreateChannel, AssertQueue, Resumed, Subscribe, CloseChannel, Cancel
<1>1. manager = "up" /\ manager' = "up"
  <2>1. manager' = manager
        BY DEF managerVars
  <2>2. ~WhileDown(c)
        BY DEF IInv, TypeOK, WhileDown
  <2> QED
      BY <2>1, <2>2 DEF IInv
<1>2. WhileUp(c) /\ Calling(c) <= (IF c \in overtaken THEN 2 ELSE 1)
      BY <1>1 DEF IInv, SubscribedOnce
<1>0. ManagerInv' /\ ManagerTypeOK'
      BY ManagerInvariant DEF IInv, ManagerInv
<1>3. TypeOK'
  <2> USE <1>0, <1>1, <1>2 DEF IInv, TypeOK, WhileUp, Calling, channelVars, consumingVars
  <2>1. CASE CreateChannel(c)
        BY <2>1
  <2>2. CASE AssertQueue(c)
    <3>1. Resumed(c) \in Calls /\ subscribing[c] = 0
          BY <2>2
    <3> QED
        BY <2>2, <3>1
  <2>3. CASE Subscribe(c)
        BY <2>3
  <2>4. CASE CloseChannel(c)
        BY <2>4
  <2>5. CASE Cancel(c)
        BY <2>5
  <2> QED
      BY <2>1, <2>2, <2>3, <2>4, <2>5
<1>4. WhileUp(c)'
      BY <1>1, <1>2 DEF IInv, TypeOK, WhileUp, channelVars, consumingVars
<1>5. Calling(c)' <= IF c \in overtaken' THEN 2 ELSE 1
      BY <1>1, <1>2 DEF IInv, TypeOK, WhileUp, Calling, channelVars, consumingVars
<1>6. setup'[c] # "idle" \/ Calling(c)' > 0 \/ c \in dead'
      BY <1>1, <1>2 DEF IInv, TypeOK, NoneForgotten, WhileUp, Calling, channelVars, consumingVars
<1>7. ASSUME NEW d \in Consumers, d # c
      PROVE  /\ WhileUp(d)'
             /\ Calling(d)' <= IF d \in overtaken' THEN 2 ELSE 1
             /\ setup'[d] # "idle" \/ Calling(d)' > 0 \/ d \in dead'
      BY <1>1, <1>7 DEF IInv, TypeOK, SubscribedOnce, NoneForgotten, WhileUp, Calling, channelVars, consumingVars
<1> QED
    BY <1>0, <1>1, <1>3, <1>4, <1>5, <1>6, <1>7 DEF IInv, SubscribedOnce, NoneForgotten

\* Every step keeps the invariant; those not named above leave the consumers
\* alone, and do not bring the connection up or down.
LEMMA StepInvariant == IInv /\ [Next]_vars => IInv'
<1> SUFFICES ASSUME IInv, [Next]_vars
             PROVE  IInv'
    OBVIOUS
<1>1. CASE (ManagerStep \/ UNCHANGED managerVars) /\ UNCHANGED <<channelVars, consumingVars>>
  <2>1. ManagerInv' /\ ManagerTypeOK'
        BY <1>1, ManagerInvariant DEF IInv, ManagerInv
  <2>2. manager' = "up" <=> manager = "up"
        BY <1>1, ManagerStepKeeps
  <2> QED
      BY <1>1, <2>1, <2>2 DEF IInv, TypeOK, SubscribedOnce, NoneForgotten, Calling, WhileDown, WhileUp,
                              channelVars, consumingVars
<1> QED
    BY <1>1, ConnectStep, CloseStep, ConsumerStep DEF Next, vars

\* Every reachable state satisfies the invariant.
THEOREM Invariance == Spec => []IInv
BY InitInvariant, StepInvariant, PTL DEF Spec

\* However often the connection is closed and made again, a consumer has one
\* subscription to its channel, or two after a close that overtook initChannel.
THEOREM SubscribedOnceTheorem == Spec => []SubscribedOnce
<1>1. IInv => SubscribedOnce
      BY DEF IInv
<1> QED
    BY <1>1, Invariance, PTL

\* No order of closes and reconnections leaves a consumer on an open channel
\* without a subscription.
THEOREM NoneForgottenTheorem == Spec => []NoneForgotten
<1>1. IInv => NoneForgotten
      BY DEF IInv
<1> QED
    BY <1>1, Invariance, PTL

\* The counter of error events counts what its reset is meant to leave.
THEOREM QuickCountedTheorem == Spec => []QuickCounted
<1>1. IInv => QuickCounted
      BY DEF IInv, ManagerInv
<1> QED
    BY <1>1, Invariance, PTL

\* Only as many closes as there are attempts, each soon followed by a new
\* connection, make the process give up.
THEOREM GivesUpTheorem == Spec => GivesUpWhenQuick
<1>1. IInv => [CloseTooMany => quick = MaxReconnectAttempts]_managerVars
      BY ManagerGivesUp DEF IInv
<1> QED
    BY <1>1, Invariance, PTL DEF Spec, GivesUpWhenQuick
=============================================================================
