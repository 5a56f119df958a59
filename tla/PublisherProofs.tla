-------------------------- MODULE PublisherProofs --------------------------
(***************************************************************************)
(* Proofs about the producers on the connection of their process, for any  *)
(* number of producers, of calls that wait, of attempts and closes.        *)
(***************************************************************************)
EXTENDS Publisher, TLAPS

USE MaxReconnectAttemptsAssumption, MaxClosesAssumption, MaxCallsAssumption
    DEF Managers, Paths, Setups

\* The connection keeps its invariant, whatever the producers do, and comes up
\* or down only when they notice.
LEMMA ManagerInvariant ==
    ASSUME ManagerInv, Connected \/ Closed \/ GetConnection \/ ManagerStep \/ UNCHANGED managerVars
    PROVE  /\ ManagerInv'
           /\ GetConnection \/ ManagerStep \/ UNCHANGED managerVars =>
                 (manager' = "up" <=> manager = "up")
<1> USE DEF ManagerInv, ManagerTypeOK, QuickCounted
<1>1. ASSUME Connected PROVE ManagerInv'
      BY <1>1 DEF Connected, Remembered
<1>2. ASSUME Closed PROVE ManagerInv'
      BY <1>2 DEF Closed
<1>3. ASSUME ConnectFails \/ Reconnect \/ GetConnection PROVE ManagerInv'
      BY <1>3 DEF ConnectFails, Reconnect, GetConnection, counterVars
<1>4. ASSUME Exit PROVE ManagerInv'
      BY <1>4 DEF Exit, counterVars
<1>5. ASSUME PeriodEnds PROVE ManagerInv'
      BY <1>5 DEF PeriodEnds
<1>6. ASSUME UNCHANGED managerVars PROVE ManagerInv'
      BY <1>6 DEF managerVars, counterVars
<1>7. GetConnection \/ ManagerStep \/ UNCHANGED managerVars => (manager' = "up" <=> manager = "up")
      BY DEF ManagerStep, Retry, ConnectFails, GiveUp, Reconnect, CloseTooMany, PeriodEnds,
             Exit, GetConnection, managerVars, counterVars
<1> QED
    BY <1>1, <1>2, <1>3, <1>4, <1>5, <1>6, <1>7 DEF ManagerStep, Retry, GiveUp, CloseTooMany

\* What the invariant says of one producer.
Fits(p) ==
    /\ waiting[p] > 0 => setup[p].call # "idle"
    /\ channelPromise[p] => setup[p].call # "idle" \/ channel[p] # "none"
    /\ setup[p].call # "idle" => channelPromise[p]
    /\ setup[p].listener # "connection"
    /\ manager = "up" => setup[p].call # "connection"
    /\ manager # "up" => /\ channel[p] = "none"
                         /\ open[p] = {}
                         /\ setup[p].listener = "idle"
                         /\ setup[p].call \in {"idle", "connection"}
    /\ open[p] # {} => channel[p] # "none"
    /\ \A path \in Paths : setup[p][path] = "assert" => path \in open[p]

LEMMA Parts == IInv <=> TypeOK /\ ManagerInv /\ \A p \in Producers : Fits(p)
BY DEF IInv, PromisesKept, Fits

\* At first nobody has called publish.
LEMMA InitInvariant == Init => IInv
<1> SUFFICES ASSUME Init PROVE IInv
    OBVIOUS
<1>1. ManagerInv /\ ManagerTypeOK /\ manager # "up"
  <2>1. running \in BOOLEAN /\ recent \in BOOLEAN
        BY Zenon DEF Init, ManagerInit
  <2> QED
      BY <2>1 DEF Init, ManagerInit, ManagerInv, ManagerTypeOK, QuickCounted
<1>2. TypeOK
      BY <1>1 DEF Init, TypeOK
<1>3. ASSUME NEW p \in Producers
      PROVE  Fits(p)
      BY <1>1, <1>3 DEF Init, Fits
<1> QED
    BY <1>1, <1>2, <1>3, Parts

\* The connection comes up, and both kinds of path go on.
LEMMA ConnectStep ==
    ASSUME TypeOK, ManagerInv, \A p \in Producers : Fits(p), Connect
    PROVE  TypeOK' /\ ManagerInv' /\ \A p \in Producers : Fits(p)'
<1> USE DEF Connect
<1>1. ManagerInv' /\ ManagerTypeOK' /\ manager # "up" /\ manager' = "up"
      BY ManagerInvariant DEF ManagerInv, Connected
<1>2. ASSUME NEW p \in Producers
      PROVE  /\ setup'[p] = [listener |-> IF Listens(p) THEN "create" ELSE "idle",
                              call |-> IF Resumes(p) THEN "create" ELSE "idle"]
             /\ setup'[p] \in [Paths -> Setups]
  <2>1. setup[p].listener = "idle" /\ setup[p].call \in {"idle", "connection"}
        BY <1>1, <1>2 DEF Fits
  <2>2. setup'[p] = [listener |-> IF Listens(p) THEN "create" ELSE "idle",
                     call |-> IF Resumes(p) THEN "create" ELSE "idle"]
        BY <1>2, <2>1 DEF Resumes
  <2> QED
      BY <2>2
<1>3. TypeOK'
      BY <1>1, <1>2 DEF TypeOK
<1>4. ASSUME NEW p \in Producers
      PROVE  Fits(p)'
      BY <1>1, <1>2, <1>4 DEF Fits, Listens, Resumes
<1> QED
    BY <1>1, <1>3, <1>4

\* The connection is closed, and every producer has nothing left of it.
LEMMA CloseStep ==
    ASSUME Close, ManagerInv
    PROVE  TypeOK' /\ ManagerInv' /\ \A p \in Producers : Fits(p)'
<1> USE DEF Close, ClosedPromise
<1>1. ManagerInv' /\ ManagerTypeOK' /\ manager' # "up"
      BY ManagerInvariant DEF ManagerInv, Closed
<1>2. channelPromise' \in [Producers -> BOOLEAN]
      BY Zenon
<1>3. TypeOK'
      BY <1>1, <1>2 DEF TypeOK
<1>4. ASSUME NEW p \in Producers
      PROVE  Fits(p)'
  <2>1. ~channelPromise'[p]
        BY <1>4, Zenon
  <2> QED
      BY <1>1, <1>4, <2>1 DEF Fits
<1> QED
    BY <1>1, <1>3, <1>4

\* A step of one producer leaves the others, and the connection if there is
\* one, as they are.
LEMMA ProducerStep ==
    ASSUME TypeOK, ManagerInv, \A p \in Producers : Fits(p), NEW p \in Producers,
           \/ Publish(p) \/ PublishToo(p)
           \/ \E path \in Paths : CreateChannel(p, path) \/ AssertQueue(p, path) \/ CloseChannel(p, path)
    PROVE  TypeOK' /\ ManagerInv' /\ \A q \in Producers : Fits(q)'
<1>1. GetConnection \/ UNCHANGED managerVars
      BY DEF Publish, PublishToo, CreateChannel, AssertQueue, CloseChannel
<1>2. ManagerInv' /\ ManagerTypeOK' /\ (manager' = "up" <=> manager = "up")
      BY <1>1, ManagerInvariant DEF ManagerInv
<1>3. ASSUME NEW q \in Producers, q # p
      PROVE  Fits(q)'
      BY <1>2, <1>3 DEF TypeOK, Fits, Publish, PublishToo, CreateChannel, AssertQueue, CloseChannel
<1>4. CASE Publish(p)
  <2> USE <1>4 DEF Publish
  <2>1. /\ setup'[p].call = IF manager = "up" THEN "create" ELSE "connection"
        /\ setup'[p].listener = setup[p].listener
        /\ setup'[p] \in [Paths -> Setups]
        /\ setup' \in [Producers -> [Paths -> Setups]]
    <3>1. setup[p] \in [Paths -> Setups]
          BY DEF TypeOK
    <3> QED
        BY <3>1 DEF TypeOK
  <2>2. channelPromise' \in [Producers -> BOOLEAN] /\ channelPromise'[p]
        BY DEF TypeOK
  <2>3. waiting' \in [Producers -> 0 .. MaxCalls] /\ waiting'[p] = 1
        BY DEF TypeOK
  <2>4. TypeOK'
        BY <1>2, <2>1, <2>2, <2>3 DEF TypeOK
  <2>5. Fits(p)'
        BY <1>2, <2>1, <2>2, <2>3 DEF TypeOK, Fits
  <2> QED
      BY <1>2, <1>3, <2>4, <2>5
<1>5. CASE PublishToo(p)
      BY <1>2, <1>3, <1>5 DEF TypeOK, Fits, PublishToo
<1>6. ASSUME NEW path \in Paths, CreateChannel(p, path)
      PROVE  TypeOK' /\ Fits(p)'
  <2> USE DEF CreateChannel
  <2>1. /\ setup'[p] = [setup[p] EXCEPT ![path] = "assert"]
        /\ open'[p] = open[p] \cup {path}
        /\ channel'[p] = path
        BY <1>6 DEF TypeOK
  <2>2. setup' \in [Producers -> [Paths -> Setups]]
    <3>1. [setup[p] EXCEPT ![path] = "assert"] \in [Paths -> Setups]
          BY <1>6 DEF TypeOK
    <3> QED
        BY <1>6, <3>1 DEF TypeOK
  <2>3. TypeOK'
        BY <1>2, <1>6, <2>2 DEF TypeOK
  <2>4. manager = "up"
        BY <1>6 DEF Fits
  <2>5. Fits(p)'
        BY <1>2, <1>6, <2>1, <2>4 DEF TypeOK, Fits
  <2> QED
      BY <2>3, <2>5
<1>7. ASSUME NEW path \in Paths, AssertQueue(p, path)
      PROVE  TypeOK' /\ Fits(p)'
  <2> USE DEF AssertQueue
  <2>1. setup'[p] = [setup[p] EXCEPT ![path] = "idle"] /\ channel[p] # "none"
        BY <1>7 DEF TypeOK, Fits
  <2>2. TypeOK'
        BY <1>2, <1>7 DEF TypeOK
  <2>3. Fits(p)'
        BY <1>2, <1>7, <2>1 DEF TypeOK, Fits
  <2> QED
      BY <2>2, <2>3
<1>8. ASSUME NEW path \in Paths, CloseChannel(p, path)
      PROVE  TypeOK' /\ Fits(p)'
  <2> USE DEF CloseChannel
  <2>1. open'[p] = open[p] \ {path}
        BY <1>8 DEF TypeOK
  <2>2. TypeOK'
    <3>1. open' \in [Producers -> SUBSET Paths]
      <4>1. open[p] \ {path} \in SUBSET Paths
            BY DEF TypeOK
      <4> QED
          BY <1>8, <4>1 DEF TypeOK
    <3> QED
        BY <1>2, <1>8, <3>1 DEF TypeOK
  <2>3. Fits(p)'
        BY <1>2, <1>8, <2>1 DEF TypeOK, Fits
  <2> QED
      BY <2>2, <2>3
<1> QED
    BY <1>2, <1>3, <1>4, <1>5, <1>6, <1>7, <1>8

\* Every step keeps the invariant.
LEMMA StepInvariant == IInv /\ [Next]_vars => IInv'
<1> SUFFICES ASSUME IInv, [Next]_vars
             PROVE  TypeOK' /\ ManagerInv' /\ \A p \in Producers : Fits(p)'
    BY DEF IInv, PromisesKept, Fits
<1>1. TypeOK /\ ManagerInv /\ \A p \in Producers : Fits(p)
      BY Parts
<1>2. CASE (ManagerStep \/ UNCHANGED managerVars) /\ UNCHANGED producerVars
  <2>1. ManagerInv' /\ ManagerTypeOK' /\ (manager' = "up" <=> manager = "up")
        BY <1>1, <1>2, ManagerInvariant DEF ManagerInv
  <2> QED
      BY <1>1, <1>2, <2>1 DEF TypeOK, Fits, producerVars
<1> QED
    BY <1>1, <1>2, ConnectStep, CloseStep, ProducerStep DEF Next, vars

\* Every reachable state satisfies the invariant.
THEOREM Invariance == Spec => []IInv
BY InitInvariant, StepInvariant, PTL DEF Spec

\* No call of publish is ever given, or waits for, a promise that leads to no
\* channel.
THEOREM PromisesKeptTheorem == Spec => []PromisesKept
<1>1. IInv => PromisesKept
      BY DEF IInv
<1> QED
    BY <1>1, Invariance, PTL
=============================================================================
