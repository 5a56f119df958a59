-------------------------- MODULE BrokerConnection --------------------------
(***************************************************************************)
(* The connection of the message handler to the broker and the consumers   *)
(* on it (message-broker-library/src: connection.ts, broker.ts,            *)
(* consumer.ts): how a closed connection is made again, and how each       *)
(* consumer gets a new channel and subscribes once more.                   *)
(*                                                                         *)
(* Init is the state in which main has called start of its processors: all *)
(* of them have called consume in the same tick and wait for the channel.  *)
(*                                                                         *)
(* Several frames are handled in one read of the socket, before the        *)
(* continuations of the promises they resolve: the reply a consumer waits  *)
(* for and the close of the connection may be such frames.                 *)
(***************************************************************************)
EXTENDS ConnectionManager

CONSTANTS
    Consumers

VARIABLES
    channel,            \* whether channel is set
    channelPromise,     \* whether channelPromise is set
    isConsuming,
    setup,              \* what initConnection or initChannel waits for
    waiting,            \* calls of startConsuming that wait for the channel
    subscribing,        \* those that wait for prefetch and consume
    subscriptions,      \* those that are over: subscriptions on the channel
    dead,               \* consumers whose channel was closed, and nothing else,
                        \* or whose subscription the broker has cancelled
    overtaken           \* those the last close overtook in initChannel

channelVars == <<channel, channelPromise, isConsuming, setup>>
consumingVars == <<waiting, subscribing, subscriptions, dead, overtaken>>
vars == <<managerVars, channelVars, consumingVars>>

Calls == 0 .. 2
Setups == {"idle", "connection", "create", "assert"}

TypeOK ==
    /\ ManagerTypeOK
    /\ channel \in [Consumers -> BOOLEAN]
    /\ channelPromise \in [Consumers -> BOOLEAN]
    /\ isConsuming \in [Consumers -> BOOLEAN]
    /\ setup \in [Consumers -> Setups]
    /\ waiting \in [Consumers -> Calls]
    /\ subscribing \in [Consumers -> Calls]
    /\ subscriptions \in [Consumers -> Calls]
    /\ dead \subseteq Consumers
    /\ overtaken \subseteq Consumers

Init ==
    /\ ManagerInit
    /\ manager = "connect"
    /\ channel = [c \in Consumers |-> FALSE]
    /\ channelPromise = [c \in Consumers |-> TRUE]
    /\ isConsuming = [c \in Consumers |-> TRUE]
    /\ setup = [c \in Consumers |-> "connection"]
    /\ waiting = [c \in Consumers |-> 1]
    /\ subscribing = [c \in Consumers |-> 0]
    /\ subscriptions = [c \in Consumers |-> 0]
    /\ dead = {}
    /\ overtaken = {}

-----------------------------------------------------------------------------
(* The connection                                                          *)

\* Mutant of Starts: a consumer starts also when it is consuming.
StartsAlways(c) == channel[c] \/ channelPromise[c]

\* onConnectionEstablished of a consumer that need not make a channel first.
Starts(c) == (channel[c] \/ channelPromise[c]) /\ ~isConsuming[c]

\* 'connectionEstablished' is emitted, before whoever waits for the connection
\* goes on.
Connect ==
    /\ Connected
    /\ setup' = [c \in Consumers |->
         IF setup[c] = "connection" \/ (~channel[c] /\ ~channelPromise[c])
           THEN "create" ELSE setup[c]]
    /\ waiting' = [c \in Consumers |->
         IF Starts(c) /\ ~channel[c] THEN waiting[c] + 1 ELSE waiting[c]]
    /\ subscribing' = [c \in Consumers |->
         IF Starts(c) /\ channel[c] THEN subscribing[c] + 1 ELSE subscribing[c]]
    /\ UNCHANGED <<channel, channelPromise, isConsuming, subscriptions, dead, overtaken>>

\* The connectionEstablished listener, having made the channel, goes on after
\* the close: it starts to consume, and waits for the next connection.
Overtaken(c) == setup[c] = "assert" /\ ~channelPromise[c]

\* So does a consumer at rest, or with only the replies to consume to come.
\* Any other continuation meets a closed channel, or none, and a call whose
\* reply is not there fails: the process ends.
Survives(c) ==
    /\ setup[c] = "idle" \/ Overtaken(c)
    /\ waiting[c] = 0

\* Mutant of ClosedConsuming: stopConsuming is not called.
ClosedStillConsuming == [c \in Consumers |-> TRUE]

ClosedConsuming == [c \in Consumers |-> FALSE]

\* 'connectionClosed' is emitted: onConnectionClosed of the consumers.
Close ==
    /\ Closed
    /\ \A c \in Consumers : Survives(c)
    /\ channel' = [c \in Consumers |-> FALSE]
    /\ channelPromise' = [c \in Consumers |-> Overtaken(c)]
    /\ isConsuming' = ClosedConsuming
    /\ setup' = [c \in Consumers |-> IF Overtaken(c) THEN "connection" ELSE "idle"]
    /\ waiting' = [c \in Consumers |-> IF Overtaken(c) THEN 1 ELSE 0]
    /\ subscribing' = [c \in Consumers |-> 0]
    /\ subscriptions' = [c \in Consumers |-> 0]
    /\ dead' = {}
    /\ overtaken' = {c \in Consumers : Overtaken(c)}

-----------------------------------------------------------------------------
(* MessageBroker and MessageBrokerConsumer                                 *)

CreateChannel(c) ==
    /\ running
    /\ setup[c] = "create"
    /\ channel' = [channel EXCEPT ![c] = TRUE]
    /\ setup' = [setup EXCEPT ![c] = "assert"]
    /\ UNCHANGED <<managerVars, channelPromise, isConsuming, consumingVars>>

\* Mutant of Resumed: the listener makes the channel and leaves it at that.
ResumedNever(c) == waiting[c]

\* The calls of startConsuming that go on once the channel is there: those
\* that wait for channelPromise, or the one the listener makes now.
Resumed(c) ==
    IF channelPromise[c] THEN waiting[c] ELSE IF isConsuming[c] THEN 0 ELSE 1

AssertQueue(c) ==
    /\ running
    /\ setup[c] = "assert"
    /\ setup' = [setup EXCEPT ![c] = "idle"]
    /\ waiting' = [waiting EXCEPT ![c] = 0]
    /\ subscribing' = [subscribing EXCEPT ![c] = @ + Resumed(c)]
    /\ UNCHANGED <<managerVars, channel, channelPromise, isConsuming, subscriptions, dead, overtaken>>

Subscribe(c) ==
    /\ running
    /\ subscribing[c] > 0
    /\ subscribing' = [subscribing EXCEPT ![c] = @ - 1]
    /\ subscriptions' = [subscriptions EXCEPT ![c] = @ + 1]
    /\ UNCHANGED <<managerVars, channelVars, waiting, dead, overtaken>>

\* The broker closes the channel alone: nothing but a log line.  While the
\* consumer is being set up, its calls fail and the process ends.
CloseChannel(c) ==
    /\ running
    /\ setup[c] = "idle"
    /\ subscriptions[c] > 0
    /\ subscribing[c] = 0
    /\ subscriptions' = [subscriptions EXCEPT ![c] = 0]
    /\ dead' = dead \cup {c}
    /\ UNCHANGED <<managerVars, channelVars, waiting, subscribing, overtaken>>

\* The broker cancels the subscription, for example as the queue is deleted: the
\* callback gets a null message and returns.
Cancel(c) ==
    /\ running
    /\ subscriptions[c] > 0
    /\ subscriptions' = [subscriptions EXCEPT ![c] = 0]
    /\ dead' = dead \cup {c}
    /\ UNCHANGED <<managerVars, channelVars, waiting, subscribing, overtaken>>

-----------------------------------------------------------------------------

Next ==
    \/ Connect \/ Close
    \/ ManagerStep /\ UNCHANGED <<channelVars, consumingVars>>
    \/ \E c \in Consumers :
         CreateChannel(c) \/ AssertQueue(c) \/ Subscribe(c) \/ CloseChannel(c) \/ Cancel(c)

Spec == Init /\ [][Next]_vars

\* Calls to the broker are answered one way or the other, and timers run off.
Fairness ==
    /\ WF_vars(Connect \/ (Retry /\ UNCHANGED <<channelVars, consumingVars>>))
    /\ \A c \in Consumers :
         WF_vars(CreateChannel(c)) /\ WF_vars(AssertQueue(c)) /\ WF_vars(Subscribe(c))

FairSpec == Spec /\ Fairness

-----------------------------------------------------------------------------
(* Properties                                                              *)

\* All calls of startConsuming for a consumer on the present connection.
Calling(c) == waiting[c] + subscribing[c] + subscriptions[c]

\* A consumer subscribes once to its channel, although isConsuming is FALSE
\* after every reconnection; the prefetch limit is one per subscription.  The
\* exception is a close that overtook initChannel: the consumer then subscribes
\* twice to the next channel, and once again to those after it.
SubscribedOnce ==
    \A c \in Consumers : Calling(c) <= IF c \in overtaken THEN 2 ELSE 1

\* A consumer that is not being set up on an open connection is subscribed,
\* unless the broker closed its channel alone or cancelled the subscription: no
\* order of closes and reconnections leaves one without.
NoneForgotten ==
    manager = "up" => \A c \in Consumers :
        setup[c] # "idle" \/ Calling(c) > 0 \/ c \in dead

\* Why, as an inductive invariant: what the parts of a consumer say about each
\* other, by the state of the connection.
WhileDown(c) ==
    /\ ~channel[c]
    /\ subscribing[c] = 0 /\ subscriptions[c] = 0
    /\ c \notin dead
    /\ \/ setup[c] = "idle" /\ ~channelPromise[c] /\ ~isConsuming[c] /\ waiting[c] = 0
       \/ setup[c] = "connection" /\ channelPromise[c] /\ waiting[c] = 1 /\ (isConsuming[c] \/ c \in overtaken)

WhileUp(c) ==
    /\ setup[c] # "connection"
    /\ setup[c] # "idle" => subscribing[c] = 0 /\ subscriptions[c] = 0 /\ c \notin dead
    /\ channel[c] <=> setup[c] # "create"
    /\ setup[c] # "idle" /\ channelPromise[c] =>
         waiting[c] \in 1 .. 2 /\ (isConsuming[c] \/ c \in overtaken)
    /\ setup[c] # "idle" /\ isConsuming[c] => channelPromise[c]
    /\ setup[c] = "idle" \/ ~channelPromise[c] => waiting[c] = 0

IInv ==
    /\ TypeOK
    /\ ManagerInv
    /\ SubscribedOnce
    /\ NoneForgotten
    /\ manager # "up" => \A c \in Consumers : WhileDown(c)
    /\ manager = "up" => \A c \in Consumers : WhileUp(c)

\* The process ends, or every consumer is subscribed for good, except for one
\* whose channel was closed alone or whose subscription was cancelled: that one
\* waits for the next reconnection.
EventuallySubscribed ==
    <>[](running => \A c \in Consumers : subscriptions[c] > 0 \/ c \in dead)
=============================================================================
