---------------------------- MODULE TxSubmission ----------------------------
(***************************************************************************)
(* How the slots of one message handler send transactions from the one     *)
(* account they share: signAndBroadcast and waitTx of WardenService        *)
(* (blockchain-library/src/index.ts), with what WardenChain leaves out.    *)
(*                                                                         *)
(* A transaction is signed for the account's sequence in the last block,   *)
(* which is read without a lock; the node takes it if that is the next one *)
(* after its mempool.  Its hash is polled for until a deadline, by one     *)
(* slot at a time: `locked'.  The deadline is set before the lock is       *)
(* waited for.                                                             *)
(*                                                                         *)
(* A tick is the second of the delays.  Calls and timers may take longer:  *)
(* ticks go on meanwhile.  A post reaches the node before its sender gives *)
(* up on it, or never.                                                     *)
(***************************************************************************)
EXTENDS Integers, Sequences, FiniteSets

CONSTANTS
    Requests,
    Results,
    NoResult,
    Slots,
    NoTx,
    Window,         \* the ticks until the deadline, 60
    MaxSequence     \* bound: transactions the node takes

ASSUME WindowAssumption == Window \in Nat /\ Window >= 3
ASSUME MaxSequenceAssumption == MaxSequence \in Nat

VARIABLES
    log,        \* the account's transactions in blocks, with ok: code 0
    pool,       \* the contents of those the node has taken, in order
    step,       \* what each slot does next
    tx,         \* the transaction it has signed
    locked,
    left,       \* the ticks until its deadline
    asleep,     \* the slots whose delay is not over
    excused     \* history: slots that waited in a crowd, or with a slow one

chainVars == <<log, pool>>
waitVars == <<locked, left, asleep, excused>>
vars == <<chainVars, step, tx, waitVars>>

Contents ==
    [request : Requests, verdict : {"fulfilled"}, result : Results]
        \cup [request : Requests, verdict : {"rejected"}, result : {NoResult}]

Transactions == [sequence : 0 .. MaxSequence, content : Contents]

ASSUME NoTxAssumption == NoTx \notin Transactions

Steps == {"idle", "signed", "posted", "queue", "look", "pause", "found"}

TypeOK ==
    /\ log \in Seq([content : Contents, ok : BOOLEAN])
    /\ pool \in Seq(Contents)
    /\ Len(log) + Len(pool) <= MaxSequence
    /\ step \in [Slots -> Steps]
    /\ tx \in [Slots -> Transactions \cup {NoTx}]
    /\ locked \in BOOLEAN
    /\ left \in [Slots -> 0 .. Window]
    /\ asleep \subseteq Slots
    /\ excused \subseteq Slots

Init ==
    /\ log = <<>>
    /\ pool = <<>>
    /\ step = [s \in Slots |-> "idle"]
    /\ tx = [s \in Slots |-> NoTx]
    /\ locked = FALSE
    /\ left = [s \in Slots |-> 0]
    /\ asleep = {}
    /\ excused = {}

-----------------------------------------------------------------------------
(* signAndBroadcast                                                        *)

GoTo(s, there) == step' = [step EXCEPT ![s] = there]

\* The call of slot s is over.
Done(s) ==
    /\ GoTo(s, "idle")
    /\ tx' = [tx EXCEPT ![s] = NoTx]
    /\ left' = [left EXCEPT ![s] = 0]
    /\ asleep' = asleep \ {s}
    /\ excused' = excused \ {s}

\* The sequence of the account in the last block.
Committed == Len(log)

\* The sequence the node accepts next.
CheckSequence == Len(log) + Len(pool)

\* Mutant of Sign: the sequence counts what is in the mempool too.
SignAhead(s, content) ==
    /\ step[s] = "idle"
    /\ GoTo(s, "signed")
    /\ tx' = [tx EXCEPT ![s] = [sequence |-> CheckSequence, content |-> content]]
    /\ UNCHANGED <<chainVars, waitVars>>

Sign(s, content) ==
    /\ step[s] = "idle"
    /\ GoTo(s, "signed")
    /\ tx' = [tx EXCEPT ![s] = [sequence |-> Committed, content |-> content]]
    /\ UNCHANGED <<chainVars, waitVars>>

\* The node takes the transaction, or refuses it; the answer has a hash.
Post(s) ==
    /\ step[s] = "signed"
    /\ GoTo(s, "posted")
    /\ IF tx[s].sequence = CheckSequence
         THEN CheckSequence < MaxSequence /\ pool' = Append(pool, tx[s].content)
         ELSE UNCHANGED pool
    /\ UNCHANGED <<log, tx, waitVars>>

\* The post or its answer is lost, or there is no hash in it.
Lose(s) ==
    /\ step[s] \in {"signed", "posted"}
    /\ Done(s)
    /\ UNCHANGED <<chainVars, locked>>

-----------------------------------------------------------------------------
(* waitTx                                                                  *)

\* Mutant of InBlock: the content is not compared.
InBlockAny(t) == t.sequence < Len(log)

\* A hash is one of the sequence and the content.
InBlock(t) == t.sequence < Len(log) /\ log[t.sequence + 1].content = t.content

Holding == {s \in Slots : step[s] \in {"look", "pause", "found"}}
Queue == {s \in Slots : step[s] = "queue"}
Waiting == Holding \cup Queue

\* Those whose deadlines are too close behind another one's to outlive it.
Crowded == \E h \in Holding : left[h] > Window - 2

Enter(s) ==
    /\ step[s] = "posted"
    /\ left' = [left EXCEPT ![s] = Window]
    /\ UNCHANGED <<chainVars, tx>>

\* Mutant of EnterLocked: the lock is not tested.
EnterAnyway(s) ==
    /\ Enter(s)
    /\ locked
    /\ GoTo(s, "look")
    /\ UNCHANGED <<locked, asleep, excused>>

EnterLocked(s) ==
    /\ Enter(s)
    /\ locked
    /\ GoTo(s, "queue")
    /\ asleep' = asleep \cup {s}
    /\ excused' = IF Crowded THEN excused \cup {s} ELSE excused
    /\ UNCHANGED locked

\* The lock is tested and set with no await in between, and there is time left
\* for a look.
EnterFree(s) ==
    /\ Enter(s)
    /\ ~locked
    /\ locked' = TRUE
    /\ GoTo(s, "look")
    /\ excused' = excused \cup Queue
    /\ UNCHANGED asleep

Awake(s, here) == step[s] = here /\ s \notin asleep

\* await delay(1000);
Sleep(s) == asleep' = asleep \cup {s}

StillLocked(s) ==
    /\ Awake(s, "queue")
    /\ locked
    /\ Sleep(s)
    /\ UNCHANGED <<chainVars, step, tx, locked, left, excused>>

Turn(s) ==
    /\ Awake(s, "queue")
    /\ ~locked
    /\ left[s] > 0
    /\ locked' = TRUE
    /\ GoTo(s, "look")
    /\ excused' = excused \cup (Queue \ {s})
    /\ UNCHANGED <<chainVars, tx, left, asleep>>

\* The deadline was over before: the loop is not entered, the lock released in
\* the step that took it, and waitTx throws.
TurnMissed(s) ==
    /\ Awake(s, "queue")
    /\ ~locked
    /\ left[s] = 0
    /\ Done(s)
    /\ UNCHANGED <<chainVars, locked>>

\* getTx finds the transaction, or throws: it is not there, or the call failed.
Look(s, found) ==
    /\ Awake(s, "look")
    /\ found => InBlock(tx[s])
    /\ GoTo(s, IF found THEN "found" ELSE "pause")
    /\ Sleep(s)
    /\ UNCHANGED <<chainVars, tx, locked, left, excused>>

\* Mutant of LookAgain: only a success ends the loop.
LookAgainEver(s) ==
    /\ Awake(s, "pause")
    /\ GoTo(s, "look")
    /\ UNCHANGED <<chainVars, tx, waitVars>>

LookAgain(s) ==
    /\ Awake(s, "pause")
    /\ left[s] > 0
    /\ GoTo(s, "look")
    /\ UNCHANGED <<chainVars, tx, waitVars>>

\* Mutant of Release: the lock is released on success only.
ReleaseFound(s) ==
    /\ Awake(s, "found") \/ (Awake(s, "pause") /\ left[s] = 0)
    /\ locked' = (step[s] # "found")
    /\ Done(s)
    /\ UNCHANGED chainVars

\* waitTx returns what it found, or throws.
Release(s) ==
    /\ Awake(s, "found") \/ (Awake(s, "pause") /\ left[s] = 0)
    /\ locked' = FALSE
    /\ Done(s)
    /\ UNCHANGED chainVars

-----------------------------------------------------------------------------
(* Time, the process and the chain                                         *)

Prompt == Waiting \subseteq asleep

Tick ==
    /\ Waiting # {}
    /\ left' = [s \in Slots |-> IF s \in Waiting /\ left[s] > 0 THEN left[s] - 1 ELSE left[s]]
    /\ asleep' = {}
    /\ excused' = IF Prompt THEN excused ELSE excused \cup Waiting
    /\ UNCHANGED <<chainVars, step, tx, locked>>

\* The process ends and starts again.
Crash ==
    /\ \E s \in Slots : step[s] # "idle"
    /\ step' = [s \in Slots |-> "idle"]
    /\ tx' = [s \in Slots |-> NoTx]
    /\ locked' = FALSE
    /\ left' = [s \in Slots |-> 0]
    /\ asleep' = {}
    /\ excused' = {}
    /\ UNCHANGED chainVars

\* The requests as the chain's query answers them.
Answers(r) == {i \in 1 .. Len(log) : log[i].ok /\ log[i].content.request = r}

\* The first of the mempool is executed; it fails when its request is answered,
\* or for reasons of its own.
Commit(ok) ==
    /\ pool # <<>>
    /\ ok => Answers(Head(pool).request) = {}
    /\ log' = Append(log, [content |-> Head(pool), ok |-> ok])
    /\ pool' = Tail(pool)
    /\ UNCHANGED <<step, tx, waitVars>>

\* The mempool drops one; those behind it cannot stay without it.
Evict ==
    /\ pool # <<>>
    /\ pool' = SubSeq(pool, 1, Len(pool) - 1)
    /\ UNCHANGED <<log, step, tx, waitVars>>

-----------------------------------------------------------------------------

NewWait(s) == EnterLocked(s) \/ EnterFree(s)

Wait(s) ==
    \/ StillLocked(s) \/ Turn(s) \/ TurnMissed(s)
    \/ \E found \in BOOLEAN : Look(s, found)
    \/ LookAgain(s) \/ Release(s)

Next ==
    \/ \E s \in Slots :
          \/ \E content \in Contents : Sign(s, content)
          \/ Post(s) \/ Lose(s) \/ NewWait(s) \/ Wait(s)
    \/ Tick
    \/ Crash
    \/ \E ok \in BOOLEAN : Commit(ok)
    \/ Evict

Spec == Init /\ [][Next]_vars

\* Calls return, timers run off and time passes; the order in which waiting
\* slots find the lock free is not assumed to be fair.
Fairness == WF_vars(Tick) /\ \A s \in Slots : WF_vars(Wait(s))

FairSpec == Spec /\ Fairness

-----------------------------------------------------------------------------
(* Properties                                                              *)

\* One slot at a time polls for its transaction, and the lock is set exactly
\* while one does: no order of timers, deadlines and crashes lets two in or
\* leaves the lock behind.
LockFits ==
    /\ locked <=> Holding # {}
    /\ \A s, t \in Holding : s = t

\* The account has one transaction in the mempool at most, however many slots
\* and earlier processes have signed: the sequence in the last block is signed
\* for, and whatever else is signed before the next block is refused.
OneAtATime == Len(pool) <= 1

\* The reason: no transaction is signed for a sequence ahead of the chain.
NeverAhead == \A s \in Slots : step[s] # "idle" => tx[s].sequence <= Committed

\* A slot gives up on its transaction without a single look only in a crowd:
\* somebody overtook it in the queue, or began to wait less than two seconds
\* before it, or the calls and timers of somebody took more than a second.
MissedInCrowd ==
    \A s \in Queue : ~locked /\ left[s] = 0 => s \in excused

\* Why, as an inductive invariant.  A slot that waits or polls has a
\* transaction; a delay is one of the queue, or follows a look.
TxFits == \A s \in Slots : step[s] # "idle" => tx[s] \in Transactions
AsleepFits == \A s \in asleep : step[s] \in {"queue", "pause", "found"}

\* The prompt ticks until h releases the lock, at most.
Rest(h) == IF left[h] = 0 /\ (step[h] = "look" \/ h \in asleep) THEN 1 ELSE left[h]

\* A slot without an excuse outlives the one that polls by two ticks: it may
\* have gone to sleep just before the lock is released.
InTime ==
    \A s \in Queue \ excused :
        /\ \A h \in Holding : left[s] >= Rest(h) + 2
        /\ locked \/ left[s] >= IF s \in asleep THEN 2 ELSE 1

IInv ==
    /\ TypeOK
    /\ TxFits
    /\ AsleepFits
    /\ LockFits
    /\ NeverAhead
    /\ OneAtATime
    /\ InTime

\* The lock is always released.
LockReleased == locked ~> ~locked

\* Every wait ends when no new ones begin; until then a slot may be overtaken
\* again and again, also after its deadline.
WaitsEnd == <>[][\A s \in Slots : ~NewWait(s)]_vars => <>[](Waiting = {})

\* WardenChain, which keeps neither sequences nor order, allows all that the
\* account goes through.
HasHash(s) == step[s] \notin {"idle", "signed"}

Fate(s) ==
    IF ~HasHash(s) THEN "none"
    ELSE IF ~InBlock(tx[s]) THEN "unknown"
    ELSE IF log[tx[s].sequence + 1].ok THEN "success" ELSE "failure"

\* The slots that have the hash of a transaction.
Waiters(t) == {s \in Slots : HasHash(s) /\ tx[s] = t}

Posted(content, slots) ==
    [waiters |-> slots, request |-> content.request,
     verdict |-> content.verdict, result |-> content.result]

StatusOf(r) ==
    IF Answers(r) = {} THEN "pending"
                       ELSE log[CHOOSE i \in Answers(r) : TRUE].content.verdict

ResultOf(r) ==
    IF Answers(r) = {} THEN NoResult
                       ELSE log[CHOOSE i \in Answers(r) : TRUE].content.result

Mempool ==
    {Posted(pool[i], Waiters([sequence |-> Len(log) + i - 1, content |-> pool[i]])) :
        i \in 1 .. Len(pool)}

Chain == INSTANCE WardenChain WITH
    MaxMempool <- MaxSequence,
    status <- [r \in Requests |-> StatusOf(r)],
    result <- [r \in Requests |-> ResultOf(r)],
    mempool <- Mempool,
    outcome <- [s \in Slots |-> Fate(s)]

\* The steps of WardenChain that s, or the chain, may take.
ChainStep ==
    \/ \E s \in Slots, others \in SUBSET Slots :
          LET t == Posted(tx[s].content, {s} \cup others) IN
          /\ tx[s] # NoTx
          /\ Chain!Accept(t) \/ Chain!Refuse(t) \/ Chain!Rejoin(t) \/ Chain!Rediscover(t)
    \/ \E slots \in SUBSET Slots : Chain!Leave(slots, {})
    \/ \E content \in Contents, slots \in SUBSET Slots :
          LET t == Posted(content, slots) IN
          Chain!Execute(t) \/ Chain!FailInBlock(t) \/ Chain!Evict(t)

AllowedByChain == Chain!Init /\ [][ChainStep]_(Chain!vars)

\* The transaction itself is in the mempool or in a block: another slot was first.
Known(t) == InBlock(t) \/ \E i \in 1 .. Len(pool) : t = [sequence |-> Len(log) + i - 1, content |-> pool[i]]

\* A transaction refused for its account sequence is not waited for: the call
\* throws, and the loop of the processors repeats the attempt without counting
\* it (message-handler/src/processors/processor.ts, 27).  But it is waited for,
\* under the lock, until the deadline, and the attempt is counted.
MismatchThrown ==
    [][\A s \in Slots : step[s] = "signed" /\ step'[s] = "posted" =>
          tx[s].sequence = CheckSequence \/ Known(tx[s])]_vars
=============================================================================
