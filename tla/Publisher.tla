----------------------------- MODULE Publisher -----------------------------
(***************************************************************************)
(* The producers of the listener and of the webhook                        *)
(* (message-broker-library/src: broker.ts, producer.ts) on the connection  *)
(* of their process: how a call of publish gets the channel it sends on.   *)
(*                                                                         *)
(* Two paths make a channel.  The listener of 'connectionEstablished' does *)
(* when the producer has none and nobody waits for one; getChannel does    *)
(* for a call that finds none, and further calls wait for the same promise.*)
(* A call during the first is not seen by it, so a producer may have two   *)
(* channels, one of them left over.  A channel is named by its path, which *)
(* makes one on a connection at most.                                      *)
(*                                                                         *)
(* A call that finds a channel sends on it at once, or throws if the       *)
(* channel is closed: no step here.  As in BrokerConnection the reply to   *)
(* assertQueue and the close of the connection may be read together.       *)
(***************************************************************************)
EXTENDS ConnectionManager

CONSTANTS
    Producers,
    MaxCalls        \* bound: calls of publish that wait at the same time

ASSUME MaxCallsAssumption == MaxCalls \in Nat \ {0}

VARIABLES
    channel,            \* the path of the channel that is set, or "none"
    open,               \* the paths of the channels that are open
    channelPromise,     \* whether channelPromise is set
    setup,              \* what each path waits for
    waiting             \* calls of publish that wait for channelPromise

producerVars == <<channel, open, channelPromise, setup, waiting>>
vars == <<managerVars, producerVars>>

Paths == {"listener", "call"}
Setups == {"idle", "connection", "create", "assert"}

TypeOK ==
    /\ ManagerTypeOK
    /\ channel \in [Producers -> Paths \cup {"none"}]
    /\ open \in [Producers -> SUBSET Paths]
    /\ channelPromise \in [Producers -> BOOLEAN]
    /\ setup \in [Producers -> [Paths -> Setups]]
    /\ waiting \in [Producers -> 0 .. MaxCalls]

Init ==
    /\ ManagerInit
    /\ manager = "unused"
    /\ channel = [p \in Producers |-> "none"]
    /\ open = [p \in Producers |-> {}]
    /\ channelPromise = [p \in Producers |-> FALSE]
    /\ setup = [p \in Producers |-> [path \in Paths |-> "idle"]]
    /\ waiting = [p \in Producers |-> 0]

-----------------------------------------------------------------------------
(* publish                                                                 *)

\* The first call that finds neither channel nor promise makes the promise, and
\* the first of all producers makes the connection.
Publish(p) ==
    /\ running
    /\ channel[p] = "none"
    /\ ~channelPromise[p]
    /\ channelPromise' = [channelPromise EXCEPT ![p] = TRUE]
    /\ waiting' = [waiting EXCEPT ![p] = 1]
    /\ setup' = [setup EXCEPT ![p].call = IF manager = "up" THEN "create" ELSE "connection"]
    /\ GetConnection
    /\ UNCHANGED <<channel, open>>

PublishToo(p) ==
    /\ running
    /\ channel[p] = "none"
    /\ channelPromise[p]
    /\ setup[p].call # "idle"
    /\ waiting[p] < MaxCalls
    /\ waiting' = [waiting EXCEPT ![p] = @ + 1]
    /\ UNCHANGED <<managerVars, channel, open, channelPromise, setup>>

CreateChannel(p, path) ==
    /\ running
    /\ setup[p][path] = "create"
    /\ setup' = [setup EXCEPT ![p][path] = "assert"]
    /\ channel' = [channel EXCEPT ![p] = path]
    /\ open' = [open EXCEPT ![p] = @ \cup {path}]
    /\ UNCHANGED <<managerVars, channelPromise, waiting>>

\* Those who wait for the promise send, on the channel that is set by now.
AssertQueue(p, path) ==
    /\ running
    /\ setup[p][path] = "assert"
    /\ path \in open[p]
    /\ setup' = [setup EXCEPT ![p][path] = "idle"]
    /\ waiting' = [waiting EXCEPT ![p] = IF path = "call" THEN 0 ELSE @]
    /\ UNCHANGED <<managerVars, channel, open, channelPromise>>

\* The broker closes a channel alone: nothing but a log line, unless its queue
\* is being asserted, when the process ends.
CloseChannel(p, path) ==
    /\ running
    /\ path \in open[p]
    /\ setup[p][path] = "idle"
    /\ open' = [open EXCEPT ![p] = @ \ {path}]
    /\ UNCHANGED <<managerVars, channel, channelPromise, setup, waiting>>

-----------------------------------------------------------------------------
(* The connection                                                          *)

\* Mutant of Listens: a channel is made when somebody needs it.
ListensNever(p) == FALSE

\* The listener of 'connectionEstablished' makes a channel.
Listens(p) == channel[p] = "none" /\ ~channelPromise[p]

\* Mutant of Resumes: whoever waits for the connection is left to the listener.
ResumesNever(p) == FALSE

\* getConnection returns, to getChannel, the connection it waits for.
Resumes(p) == setup[p].call = "connection"

Connect ==
    /\ Connected
    /\ setup' = [p \in Producers |->
         [listener |-> IF Listens(p) THEN "create" ELSE setup[p].listener,
          call |-> IF Resumes(p) THEN "create" ELSE setup[p].call]]
    /\ UNCHANGED <<channel, open, channelPromise, waiting>>

\* Mutant of ClosedPromise: the promise of a channel of the last connection
\* stays.
ClosedPromiseKept == channelPromise

ClosedPromise == [p \in Producers |-> FALSE]

\* A path that waits for a reply meets a closed channel, or no reply, and the
\* process ends; but the reply to assertQueue may be there.  The calls that
\* wait for it then find no channel, and throw.
Close ==
    /\ Closed
    /\ \A p \in Producers, path \in Paths : setup[p][path] \in {"idle", "assert"}
    /\ channel' = [p \in Producers |-> "none"]
    /\ open' = [p \in Producers |-> {}]
    /\ channelPromise' = ClosedPromise
    /\ setup' = [p \in Producers |-> [path \in Paths |-> "idle"]]
    /\ waiting' = [p \in Producers |-> 0]

-----------------------------------------------------------------------------

Next ==
    \/ Connect \/ Close
    \/ ManagerStep /\ UNCHANGED producerVars
    \/ \E p \in Producers :
          \/ Publish(p) \/ PublishToo(p)
          \/ \E path \in Paths : CreateChannel(p, path) \/ AssertQueue(p, path) \/ CloseChannel(p, path)

Spec == Init /\ [][Next]_vars

\* Calls to the broker are answered one way or the other, and timers run off.
Fairness ==
    /\ WF_vars(Connect \/ (Retry /\ UNCHANGED producerVars))
    /\ \A p \in Producers, path \in Paths :
         WF_vars(CreateChannel(p, path)) /\ WF_vars(AssertQueue(p, path))

FairSpec == Spec /\ Fairness

-----------------------------------------------------------------------------
(* Properties                                                              *)

\* A call waits only while the channel is being made for it, and a call to
\* come is never given a promise without a channel: it would get the null of a
\* closed connection, and so would every later one.
PromisesKept ==
    \A p \in Producers :
        /\ waiting[p] > 0 => setup[p].call # "idle"
        /\ channelPromise[p] => setup[p].call # "idle" \/ channel[p] # "none"

\* Why, as an inductive invariant: what the parts of a producer say about each
\* other.
IInv ==
    /\ TypeOK
    /\ ManagerInv
    /\ PromisesKept
    /\ \A p \in Producers :
          /\ setup[p].call # "idle" => channelPromise[p]
          /\ setup[p].listener # "connection"
          /\ manager = "up" => setup[p].call # "connection"
          /\ manager # "up" => /\ channel[p] = "none"
                               /\ open[p] = {}
                               /\ setup[p].listener = "idle"
                               /\ setup[p].call \in {"idle", "connection"}
          /\ open[p] # {} => channel[p] # "none"
          /\ \A path \in Paths : setup[p][path] = "assert" => path \in open[p]

\* A call of publish ends, unless the process does.
PublishEnds == \A p \in Producers : (waiting[p] > 0 /\ running) ~> (waiting[p] = 0 \/ ~running)

\* Every producer that has lost its channel gets another one with the next
\* connection, whether it has something to send or not; so has one whose
\* channel was closed alone.
ChannelBack ==
    \A p \in Producers :
        (manager = "up" /\ running) ~> (channel[p] # "none" \/ manager # "up" \/ ~running)
=============================================================================
