------------------------------ MODULE Delivery ------------------------------
(***************************************************************************)
(* How a request travels from its RabbitMQ queue into the message handler: *)
(* the consumer (message-broker-library/src/consumer.ts) and the attempt   *)
(* loop every processor runs for a message                                 *)
(* (message-handler/src/processors/processor.ts).  What an attempt does is *)
(* left to the modules that instantiate this one: here it throws, or it    *)
(* returns handled = TRUE or FALSE.                                        *)
(*                                                                         *)
(* A slot is one invocation of the callback channel.consume was given.     *)
(* Each queue has a channel and a consumer of its own; a connection that   *)
(* is closed takes all of them, a channel may also be closed alone, and a  *)
(* consumer cancelled.  The broker is external: a durable queue that puts  *)
(* back what a closed channel left unacknowledged.  Its order is not kept, *)
(* because the handler never relies on it.                                 *)
(***************************************************************************)
EXTENDS Integers, FiniteSets

CONSTANTS
    Messages,
    QueueOf,        \* the queue each message is published on
    Slots,          \* bound: invocations alive at the same time
    NoMessage,
    RetryAttempts,  \* Processor.retryAttempts
    Prefetch,       \* channel.prefetch, per queue
    MaxCopies,      \* bound: unsettled copies of one message
    Losable         \* bound: queues whose consumer may be lost alone

ASSUME SlotsAssumption == IsFiniteSet(Slots)
ASSUME NoMessageAssumption == NoMessage \notin Messages
ASSUME RetryAttemptsAssumption == RetryAttempts \in Nat
ASSUME PrefetchAssumption == Prefetch \in Nat \ {0}
ASSUME MaxCopiesAssumption == MaxCopies \in Nat
ASSUME LosableAssumption == Losable \subseteq {QueueOf[m] : m \in Messages}

VARIABLES
    ready,      \* copies of each message waiting in its queue
    state,      \* "idle"; "busy": on the open channel; "stale": its channel is closed
    msg,        \* the message a slot works on
    attempts,   \* the attempts it has left
    acked,      \* messages a copy of which was acknowledged
    dropped,    \* messages a copy of which was rejected without requeue
    consumed    \* the queues that have a consumer

vars == <<ready, state, msg, attempts, acked, dropped, consumed>>

Queues == {QueueOf[m] : m \in Messages}

TypeOK ==
    /\ ready \in [Messages -> Nat]
    /\ state \in [Slots -> {"idle", "busy", "stale"}]
    /\ msg \in [Slots -> Messages \cup {NoMessage}]
    /\ \A s \in Slots : state[s] # "idle" => msg[s] \in Messages
    /\ attempts \in [Slots -> 0 .. RetryAttempts]
    /\ acked \subseteq Messages
    /\ dropped \subseteq Messages
    /\ consumed \subseteq Queues

Init ==
    /\ ready = [m \in Messages |-> 0]
    /\ state = [s \in Slots |-> "idle"]
    /\ msg = [s \in Slots |-> NoMessage]
    /\ attempts = [s \in Slots |-> 0]
    /\ acked = {}
    /\ dropped = {}
    /\ consumed = Queues

-----------------------------------------------------------------------------

\* The deliveries of message m the broker waits for an answer to.
Unsettled(m) == {s \in Slots : state[s] = "busy" /\ msg[s] = m}

\* The same for a whole queue: what prefetch limits.
UnsettledOn(q) == {s \in Slots : state[s] = "busy" /\ QueueOf[msg[s]] = q}

Copies(m) == ready[m] + Cardinality(Unsettled(m))

\* Mutant of Requeue: consume with noAck, nothing is put back.
RequeueNothing(closed) == UNCHANGED ready

\* The broker puts back every delivery that the closed channels, of these
\* queues, left unanswered.
Requeue(closed) ==
    ready' = [m \in Messages |-> IF QueueOf[m] \in closed THEN Copies(m) ELSE ready[m]]

Publish(m) ==
    /\ Copies(m) < MaxCopies
    /\ ready' = [ready EXCEPT ![m] = @ + 1]
    /\ UNCHANGED <<state, msg, attempts, acked, dropped, consumed>>

\* The broker invokes the callback; let attempts = this.retryAttempts.
Deliver(s, m) ==
    /\ state[s] = "idle"
    /\ ready[m] > 0
    /\ QueueOf[m] \in consumed
    /\ Cardinality(UnsettledOn(QueueOf[m])) < Prefetch
    /\ ready' = [ready EXCEPT ![m] = @ - 1]
    /\ state' = [state EXCEPT ![s] = "busy"]
    /\ msg' = [msg EXCEPT ![s] = m]
    /\ attempts' = [attempts EXCEPT ![s] = RetryAttempts]
    /\ UNCHANGED <<acked, dropped, consumed>>

\* The process ends, with everything it was doing, and starts again.
Exit ==
    /\ Requeue(Queues)
    /\ state' = [s \in Slots |-> "idle"]
    /\ msg' = [s \in Slots |-> NoMessage]
    /\ attempts' = [s \in Slots |-> 0]
    /\ consumed' = Queues
    /\ UNCHANGED <<acked, dropped>>

\* Mutant of Answer: reject requeues the message.
AnswerRequeueing(s, handled) ==
    /\ state[s] = "busy"
    /\ acked' = IF handled THEN acked \cup {msg[s]} ELSE acked
    /\ ready' = IF handled THEN ready ELSE [ready EXCEPT ![msg[s]] = @ + 1]
    /\ state' = [state EXCEPT ![s] = "idle"]
    /\ msg' = [msg EXCEPT ![s] = NoMessage]
    /\ attempts' = [attempts EXCEPT ![s] = 0]
    /\ UNCHANGED <<dropped, consumed>>

\* channel.ack or channel.reject(message, false) on the channel it came by.
Answer(s, handled) ==
    /\ state[s] = "busy"
    /\ acked' = IF handled THEN acked \cup {msg[s]} ELSE acked
    /\ dropped' = IF handled THEN dropped ELSE dropped \cup {msg[s]}
    /\ state' = [state EXCEPT ![s] = "idle"]
    /\ msg' = [msg EXCEPT ![s] = NoMessage]
    /\ attempts' = [attempts EXCEPT ![s] = 0]
    /\ UNCHANGED <<ready, consumed>>


\* On a closed channel ack throws, the reject in its catch throws again, and
\* nothing awaits the callback: the unhandled rejection ends the process.
AnswerOnClosedChannel(s) == state[s] = "stale" /\ Exit

\* The attempt returned handled.
Settle(s, handled) == Answer(s, handled) \/ AnswerOnClosedChannel(s)

\* Mutants of Retry: the loop does not test the attempts, or does not count them.
RetryUnbounded(s) ==
    /\ state[s] # "idle"
    /\ attempts' = [attempts EXCEPT ![s] = @ - 1]
    /\ UNCHANGED <<ready, state, msg, acked, dropped, consumed>>

RetryUncounted(s) ==
    /\ state[s] # "idle"
    /\ attempts[s] > 0
    /\ UNCHANGED vars

\* The attempt threw: another one, unless the loop has run out of them and
\* returns undefined.
Retry(s) ==
    /\ state[s] # "idle"
    /\ attempts[s] > 0
    /\ attempts' = [attempts EXCEPT ![s] = @ - 1]
    /\ UNCHANGED <<ready, state, msg, acked, dropped, consumed>>

Throw(s) == Retry(s) \/ (attempts[s] = 0 /\ Settle(s, FALSE))

\* The channels of these queues are closed.  The invocations under way on them
\* are not cancelled.
Close(closed) ==
    /\ Requeue(closed)
    /\ state' = [s \in Slots |->
                    IF state[s] = "busy" /\ QueueOf[msg[s]] \in closed THEN "stale"
                                                                     ELSE state[s]]
    /\ UNCHANGED <<msg, attempts, acked, dropped>>

\* The broker closes the connection; every consumer subscribes again on the next.
ConnectionLost ==
    /\ consumed # Queues \/ \E s \in Slots : state[s] = "busy"
    /\ Close(Queues)
    /\ consumed' = Queues

\* The channel of queue q is closed alone, which is logged and no more.
ChannelLost(q) ==
    /\ q \in consumed \/ UnsettledOn(q) # {}
    /\ Close({q})
    /\ consumed' = consumed \ {q}

\* The broker cancels the consumer of q: a message null, which is ignored.  The
\* channel stays open for answers.
ConsumerCancelled(q) ==
    /\ q \in consumed
    /\ consumed' = consumed \ {q}
    /\ UNCHANGED <<ready, state, msg, attempts, acked, dropped>>

Crash ==
    /\ \E s \in Slots : state[s] # "idle"
    /\ Exit

-----------------------------------------------------------------------------

Interruption == ConnectionLost \/ \E q \in Losable : ChannelLost(q) \/ ConsumerCancelled(q)

Fault == Interruption \/ Crash

Handle(s) == Throw(s) \/ \E handled \in BOOLEAN : Settle(s, handled)

Next ==
    \/ \E m \in Messages : Publish(m)
    \/ \E s \in Slots, m \in Messages : Deliver(s, m)
    \/ \E s \in Slots : Handle(s)
    \/ Fault

Spec == Init /\ [][Next]_vars

\* The broker keeps delivering, and every attempt comes to an end.
Fairness ==
    /\ WF_vars(\E s \in Slots, m \in Messages : Deliver(s, m))
    /\ \A s \in Slots : WF_vars(Handle(s))

FairSpec == Spec /\ Fairness

-----------------------------------------------------------------------------

\* A copy of a message appears only when it is published, and disappears only
\* when a delivery of it is answered on the channel it came by: neither a
\* reconnect nor a crash, a channel closed alone, nor an invocation that outlives
\* its channel, loses a request or multiplies it (consumer.ts: noAck is false,
\* requeue is false).
CopiesKept ==
    [][\A m \in Messages : Copies(m)' # Copies(m) =>
          \/ Publish(m)
          \/ /\ Copies(m)' = Copies(m) - 1
             /\ \E s \in Unsettled(m) : state'[s] = "idle" /\ m \in acked' \cup dropped'
      ]_vars

\* When publishing and faults stop, the queues that have a consumer drain: the
\* attempt loop of processor.ts cannot hold a message, and with it a prefetch
\* slot, for ever.
QueuesDrain ==
    <>[][~(Fault \/ \E m \in Messages : Publish(m))]_vars
        => <>[](\A m \in Messages : QueueOf[m] \in consumed => Copies(m) = 0)

\* The invocations that outlived the channel of queue q.
Stale(q) == {s \in Slots : state[s] = "stale" /\ QueueOf[msg[s]] = q}

=============================================================================
