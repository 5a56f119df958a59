------------------------- MODULE TxSubmissionProofs -------------------------
(***************************************************************************)
(* What TxSubmission promises, for any number of slots and of transactions *)
(* and any window of three seconds or more: the inductive invariant IInv   *)
(* of TxSubmission, the properties that follow from it, and that every     *)
(* step is one WardenChain allows.                                         *)
(***************************************************************************)
EXTENDS TxSubmission, SequenceTheorems, FiniteSetTheorems, TLAPS

USE WindowAssumption, MaxSequenceAssumption

-----------------------------------------------------------------------------
(* Lemmas                                                                  *)

\* The parts of the invariant about waits, and those about transactions.
WaitInv == AsleepFits /\ LockFits /\ InTime
TxInv == TxFits /\ NeverAhead /\ OneAtATime

LEMMA Parts == IInv <=> TypeOK /\ WaitInv /\ TxInv
BY DEF IInv, WaitInv, TxInv

LEMMA RestType ==
    ASSUME TypeOK, NEW h \in Slots
    PROVE  Rest(h) \in Nat
BY DEF TypeOK, Rest

\* What a transaction is.
LEMMA TxType ==
    ASSUME TypeOK, TxFits, NEW s \in Slots, step[s] # "idle"
    PROVE  /\ tx[s].sequence \in 0 .. MaxSequence
           /\ tx[s].content \in Contents
BY DEF TxFits, Transactions

\* The end of a call.
LEMMA DoneTypes ==
    ASSUME TypeOK, NEW s \in Slots, Done(s), UNCHANGED chainVars, locked' \in BOOLEAN
    PROVE  TypeOK'
BY DEF TypeOK, Done, GoTo, chainVars, Steps

\* Steps that leave the chain alone and give no slot a transaction keep what is
\* known of transactions.
LEMMA TxInvStays ==
    ASSUME TypeOK, TxInv, UNCHANGED chainVars,
           \A s \in Slots : step'[s] # "idle" => step[s] # "idle" /\ tx'[s] = tx[s]
    PROVE  TxInv'
BY DEF TxInv, TxFits, NeverAhead, OneAtATime, Committed, chainVars

\* Neither do calls outside waitTx touch what is known of waits.
LEMMA WaitInvStays ==
    ASSUME TypeOK, WaitInv, NEW s \in Slots, NEW here \in {"idle", "signed", "posted"},
           NEW there \in {"idle", "signed", "posted"},
           step[s] = here, GoTo(s, there), locked' = locked,
           \A t \in Slots \ {s} : left'[t] = left[t],
           asleep' \subseteq asleep, asleep \ {s} \subseteq asleep',
           excused' \subseteq excused, excused \ {s} \subseteq excused'
    PROVE  WaitInv'
<1>1. \A t \in Slots \ {s} : /\ step'[t] = step[t] /\ left'[t] = left[t]
                             /\ t \in asleep' <=> t \in asleep
                             /\ t \in excused' <=> t \in excused
  BY DEF GoTo, TypeOK
<1>2. step'[s] \in {"idle", "signed", "posted"} /\ s \notin asleep'
  BY DEF GoTo, TypeOK, WaitInv, AsleepFits
<1>3. Holding' = Holding /\ Queue' = Queue
  BY <1>1, <1>2 DEF Holding, Queue
<1>4. s \notin Holding \cup Queue
  BY DEF Holding, Queue
<1>5. AsleepFits' /\ LockFits'
  BY <1>1, <1>2, <1>3 DEF WaitInv, AsleepFits, LockFits, TypeOK
<1>6. \A t \in Holding : t \in Slots \ {s} /\ Rest(t)' = Rest(t)
  BY <1>1, <1>4 DEF Rest, Holding
<1>7. \A t \in Queue : t \in Slots \ {s}
  BY <1>4 DEF Queue
<1>8. InTime'
  BY <1>1, <1>3, <1>6, <1>7 DEF WaitInv, InTime
<1>9. QED
  BY <1>5, <1>8 DEF WaitInv

-----------------------------------------------------------------------------
(* Every step keeps the invariant                                          *)

LEMMA InitInvariant == Init => IInv
<1> SUFFICES ASSUME Init PROVE IInv
  OBVIOUS
<1>1. TypeOK
  <2>1. /\ log \in Seq([content : Contents, ok : BOOLEAN]) /\ pool \in Seq(Contents)
        /\ Len(log) = 0 /\ Len(pool) = 0
    BY DEF Init
  <2>2. /\ step \in [Slots -> Steps]
        /\ tx \in [Slots -> Transactions \cup {NoTx}]
        /\ left \in [Slots -> 0 .. Window]
        /\ locked = FALSE /\ asleep = {} /\ excused = {}
    BY DEF Init, Steps
  <2>3. Len(log) + Len(pool) <= MaxSequence
    BY <2>1
  <2>4. QED
    BY <2>1, <2>2, <2>3 DEF TypeOK
<1>2. Holding = {} /\ Queue = {}
  BY DEF Init, Holding, Queue
<1>3. WaitInv
  BY <1>2 DEF Init, WaitInv, AsleepFits, LockFits, InTime
<1>4. TxInv
  BY DEF Init, TxInv, TxFits, NeverAhead, OneAtATime
<1>5. QED
  BY <1>1, <1>3, <1>4 DEF IInv, WaitInv, TxInv

LEMMA SignInvariant ==
    ASSUME IInv, NEW s \in Slots, NEW content \in Contents, Sign(s, content)
    PROVE  IInv'
<1>1. Committed \in 0 .. MaxSequence /\ TypeOK /\ WaitInv /\ TxInv
  BY Parts DEF Committed, IInv, TypeOK
<1>2. TypeOK'
  BY <1>1 DEF Sign, GoTo, chainVars, waitVars, TypeOK, Steps, Transactions
<1>3. WaitInv'
  BY <1>1, WaitInvStays DEF Sign, waitVars
<1>4. TxInv'
  BY <1>1 DEF Sign, GoTo, chainVars, TxInv, TxFits, NeverAhead, OneAtATime, Committed, Transactions, TypeOK
<1>5. QED
  BY <1>2, <1>3, <1>4 DEF IInv, WaitInv, TxInv

LEMMA PostInvariant ==
    ASSUME IInv, NEW s \in Slots, Post(s)
    PROVE  IInv'
<1>1. TypeOK /\ WaitInv /\ TxInv
  BY Parts
<1>2. tx[s].sequence \in Nat /\ tx[s].sequence <= Committed /\ tx[s].content \in Contents
  BY <1>1, TxType DEF Post, TxInv, NeverAhead
<1>3. \/ pool' = pool
      \/ /\ pool' \in Seq(Contents) /\ Len(pool') = Len(pool) + 1
         /\ Len(pool) = 0 /\ Len(log) < MaxSequence
  <2>1. Len(pool) \in Nat /\ Len(log) \in Nat
    BY <1>1 DEF TypeOK
  <2>2. Append(pool, tx[s].content) \in Seq(Contents) /\ Len(Append(pool, tx[s].content)) = Len(pool) + 1
    BY <1>1, <1>2 DEF TypeOK
  <2>3. QED
    BY <1>2, <2>1, <2>2 DEF Post, CheckSequence, Committed
<1>4. TypeOK'
  BY <1>1, <1>2, <1>3 DEF Post, GoTo, waitVars, TypeOK, Steps
<1>5. WaitInv'
  BY <1>1, WaitInvStays DEF Post, waitVars
<1>6. TxInv'
  BY <1>1, <1>3 DEF Post, GoTo, TxInv, TxFits, NeverAhead, OneAtATime, Committed, TypeOK
<1>7. QED
  BY <1>4, <1>5, <1>6 DEF IInv, WaitInv, TxInv

LEMMA LoseInvariant ==
    ASSUME IInv, NEW s \in Slots, Lose(s)
    PROVE  IInv'
<1>1. TypeOK /\ WaitInv /\ TxInv
  BY Parts
<1>2. TypeOK'
  BY <1>1, DoneTypes DEF Lose, TypeOK
<1>3. WaitInv'
  <2>1. /\ GoTo(s, "idle") /\ locked' = locked
        /\ \A t \in Slots \ {s} : left'[t] = left[t]
        /\ asleep' = asleep \ {s} /\ excused' = excused \ {s}
    BY <1>1 DEF Lose, Done, TypeOK
  <2>2. QED
    BY <1>1, <2>1, WaitInvStays DEF Lose
<1>4. TxInv'
  BY <1>1, TxInvStays DEF Lose, Done, GoTo, TypeOK
<1>5. QED
  BY <1>2, <1>3, <1>4 DEF IInv, WaitInv, TxInv

\* A slot that finds the lock set has its whole window before it.
LEMMA EnterLockedInvariant ==
    ASSUME IInv, NEW s \in Slots, EnterLocked(s)
    PROVE  IInv'
<1>1. TypeOK /\ WaitInv /\ TxInv
  BY Parts
<1>2. /\ step[s] = "posted" /\ locked /\ locked' /\ s \notin Holding \cup Queue
      /\ step' = [step EXCEPT ![s] = "queue"]
      /\ left' = [left EXCEPT ![s] = Window]
      /\ asleep' = asleep \cup {s}
      /\ excused' = IF Crowded THEN excused \cup {s} ELSE excused
      /\ UNCHANGED <<chainVars, tx>>
  BY DEF EnterLocked, Enter, GoTo, Holding, Queue
<1>3. TypeOK'
  BY <1>1, <1>2 DEF chainVars, TypeOK, Steps
<1>4. TxInv'
  BY <1>1, <1>2, TxInvStays DEF TypeOK
<1>5. Holding' = Holding /\ Queue' = Queue \cup {s}
  BY <1>1, <1>2 DEF Holding, Queue, TypeOK
<1>6. AsleepFits' /\ LockFits'
  BY <1>1, <1>2, <1>5 DEF WaitInv, AsleepFits, LockFits, TypeOK
<1>7. \A h \in Holding : Rest(h)' = Rest(h) /\ left[h] \in Nat
  BY <1>1, <1>2 DEF Rest, Holding, TypeOK
<1>8. s \notin excused' => \A h \in Holding : Window >= Rest(h) + 2
  BY <1>1, <1>2, <1>7 DEF Crowded, Rest, Holding
<1>9. InTime'
  BY <1>1, <1>2, <1>5, <1>7, <1>8 DEF WaitInv, InTime, Queue, TypeOK
<1>10. QED
  BY <1>3, <1>4, <1>6, <1>9 DEF IInv, WaitInv, TxInv

\* A slot that takes the lock excuses the queue.
LEMMA LockTaken ==
    ASSUME TypeOK, WaitInv, NEW s \in Slots, step[s] \in {"posted", "queue"}, ~locked, locked' = TRUE,
           GoTo(s, "look"), asleep' = asleep, s \notin asleep, excused' = excused \cup (Queue \ {s})
    PROVE  WaitInv'
<1>1. Holding = {}
  BY DEF WaitInv, LockFits
<1>2. Holding' = {s} /\ Queue' = Queue \ {s}
  BY <1>1 DEF GoTo, Holding, Queue, TypeOK
<1>3. AsleepFits' /\ LockFits'
  BY <1>2 DEF WaitInv, AsleepFits, LockFits, GoTo, TypeOK
<1>4. InTime'
  BY <1>2 DEF InTime
<1>5. QED
  BY <1>3, <1>4 DEF WaitInv

LEMMA EnterFreeInvariant ==
    ASSUME IInv, NEW s \in Slots, EnterFree(s)
    PROVE  IInv'
<1>1. TypeOK /\ WaitInv /\ TxInv
  BY Parts
<1>2. TypeOK'
  BY <1>1 DEF EnterFree, Enter, GoTo, chainVars, Queue, TypeOK, Steps
<1>3. WaitInv'
  <2>1. s \notin asleep /\ Queue \ {s} = Queue
    BY <1>1 DEF EnterFree, Enter, WaitInv, AsleepFits, Queue
  <2>2. QED
    BY <1>1, <2>1, LockTaken DEF EnterFree, Enter
<1>4. TxInv'
  BY <1>1, TxInvStays DEF EnterFree, Enter, GoTo, TypeOK
<1>5. QED
  BY <1>2, <1>3, <1>4 DEF IInv, WaitInv, TxInv

LEMMA TurnInvariant ==
    ASSUME IInv, NEW s \in Slots, Turn(s)
    PROVE  IInv'
<1>1. TypeOK /\ WaitInv /\ TxInv
  BY Parts
<1>2. TypeOK'
  BY <1>1 DEF Turn, Awake, GoTo, chainVars, Queue, TypeOK, Steps
<1>3. WaitInv'
  BY <1>1, LockTaken DEF Turn, Awake
<1>4. TxInv'
  BY <1>1, TxInvStays DEF Turn, Awake, GoTo, TypeOK
<1>5. QED
  BY <1>2, <1>3, <1>4 DEF IInv, WaitInv, TxInv

\* The lock is set: nobody's wait gets shorter.
LEMMA StillLockedInvariant ==
    ASSUME IInv, NEW s \in Slots, StillLocked(s)
    PROVE  IInv'
<1>1. TypeOK /\ WaitInv /\ TxInv
  BY Parts
<1>2. /\ step[s] = "queue" /\ locked /\ asleep' = asleep \cup {s}
      /\ UNCHANGED <<chainVars, step, tx, locked, left, excused>>
  BY DEF StillLocked, Awake, Sleep
<1>3. TypeOK'
  BY <1>1, <1>2 DEF chainVars, TypeOK
<1>4. TxInv'
  BY <1>1, <1>2, TxInvStays
<1>5. Holding' = Holding /\ Queue' = Queue /\ s \notin Holding
  BY <1>2 DEF Holding, Queue
<1>6. AsleepFits' /\ LockFits'
  BY <1>1, <1>2, <1>5 DEF WaitInv, AsleepFits, LockFits
<1>7. \A h \in Holding : Rest(h)' = Rest(h)
  BY <1>2, <1>5 DEF Rest
<1>8. InTime'
  BY <1>1, <1>2, <1>5, <1>7 DEF WaitInv, InTime
<1>9. QED
  BY <1>3, <1>4, <1>6, <1>8 DEF IInv, WaitInv, TxInv

LEMMA TurnMissedInvariant ==
    ASSUME IInv, NEW s \in Slots, TurnMissed(s)
    PROVE  IInv'
<1>1. TypeOK /\ WaitInv /\ TxInv
  BY Parts
<1>2. step[s] = "queue" /\ ~locked /\ Done(s) /\ UNCHANGED <<chainVars, locked>>
  BY DEF TurnMissed, Awake
<1>3. TypeOK'
  BY <1>1, <1>2, DoneTypes DEF TypeOK
<1>4. TxInv'
  BY <1>1, <1>2, TxInvStays DEF Done, GoTo, TypeOK
<1>5. Holding = {} /\ Holding' = {} /\ Queue' = Queue \ {s}
  BY <1>1, <1>2 DEF Done, GoTo, Holding, Queue, WaitInv, LockFits, TypeOK
<1>6. AsleepFits' /\ LockFits'
  BY <1>1, <1>2, <1>5 DEF Done, GoTo, WaitInv, AsleepFits, LockFits, TypeOK
<1>7. InTime'
  BY <1>1, <1>2, <1>5 DEF Done, WaitInv, InTime, Queue, TypeOK
<1>8. QED
  BY <1>3, <1>4, <1>6, <1>7 DEF IInv, WaitInv, TxInv

LEMMA LookInvariant ==
    ASSUME IInv, NEW s \in Slots, NEW found \in BOOLEAN, Look(s, found)
    PROVE  IInv'
<1>1. TypeOK /\ WaitInv /\ TxInv
  BY Parts
<1>2. /\ step[s] = "look" /\ s \notin asleep /\ asleep' = asleep \cup {s}
      /\ step'[s] \in {"pause", "found"}
      /\ \A t \in Slots \ {s} : step'[t] = step[t]
      /\ step' \in [Slots -> Steps]
      /\ UNCHANGED <<chainVars, tx, locked, left, excused>>
  BY <1>1 DEF Look, Awake, Sleep, GoTo, TypeOK, Steps
<1>3. TypeOK'
  BY <1>1, <1>2 DEF chainVars, TypeOK
<1>4. TxInv'
  BY <1>1, <1>2, TxInvStays
<1>5. Holding' = Holding /\ Queue' = Queue /\ s \in Holding
  BY <1>2 DEF Holding, Queue
<1>6. AsleepFits' /\ LockFits'
  BY <1>1, <1>2, <1>5 DEF WaitInv, AsleepFits, LockFits, TypeOK
<1>7. \A h \in Holding : Rest(h)' = Rest(h)
  BY <1>2, <1>5 DEF Rest, Holding
<1>8. \A t \in Queue : t # s
  BY <1>2 DEF Queue
<1>9. InTime'
  BY <1>1, <1>2, <1>5, <1>7, <1>8 DEF WaitInv, InTime
<1>10. QED
  BY <1>3, <1>4, <1>6, <1>9 DEF IInv, WaitInv, TxInv

LEMMA LookAgainInvariant ==
    ASSUME IInv, NEW s \in Slots, LookAgain(s)
    PROVE  IInv'
<1>1. TypeOK /\ WaitInv /\ TxInv
  BY Parts
<1>2. /\ step[s] = "pause" /\ s \notin asleep /\ left[s] > 0
      /\ step'[s] = "look"
      /\ \A t \in Slots \ {s} : step'[t] = step[t]
      /\ step' \in [Slots -> Steps]
      /\ UNCHANGED <<chainVars, tx, locked, left, asleep, excused>>
  BY <1>1 DEF LookAgain, Awake, GoTo, waitVars, TypeOK, Steps
<1>3. TypeOK'
  BY <1>1, <1>2 DEF chainVars, TypeOK
<1>4. TxInv'
  BY <1>1, <1>2, TxInvStays
<1>5. Holding' = Holding /\ Queue' = Queue
  BY <1>2 DEF Holding, Queue
<1>6. AsleepFits' /\ LockFits'
  BY <1>1, <1>2, <1>5 DEF WaitInv, AsleepFits, LockFits, TypeOK
<1>7. \A h \in Holding : Rest(h)' = Rest(h)
  BY <1>1, <1>2 DEF Rest, Holding, TypeOK
<1>8. InTime'
  BY <1>1, <1>2, <1>5, <1>7 DEF WaitInv, InTime
<1>9. QED
  BY <1>3, <1>4, <1>6, <1>8 DEF IInv, WaitInv, TxInv

\* The lock is released: those in the queue had two ticks more.
LEMMA ReleaseInvariant ==
    ASSUME IInv, NEW s \in Slots, Release(s)
    PROVE  IInv'
<1>1. TypeOK /\ WaitInv /\ TxInv
  BY Parts
<1>2. s \in Holding /\ Done(s) /\ locked' = FALSE /\ UNCHANGED chainVars
  BY DEF Release, Awake, Holding
<1>3. TypeOK'
  BY <1>1, <1>2, DoneTypes
<1>4. TxInv'
  BY <1>1, <1>2, TxInvStays DEF Done, GoTo, TypeOK
<1>5. Holding = {s} /\ Holding' = {} /\ Queue' = Queue /\ s \notin Queue
  BY <1>1, <1>2 DEF Done, GoTo, Holding, Queue, WaitInv, LockFits, TypeOK
<1>6. AsleepFits' /\ LockFits'
  BY <1>1, <1>2, <1>5 DEF Done, GoTo, WaitInv, AsleepFits, LockFits, TypeOK
<1>7. \A t \in Queue : /\ left'[t] = left[t] /\ left[t] \in Nat
                       /\ t \in excused' <=> t \in excused
  BY <1>1, <1>2, <1>5 DEF Done, Queue, TypeOK
<1>8. \A t \in Queue \ excused : left[t] >= 2
  <2>1. Rest(s) \in Nat
    BY <1>1, RestType
  <2>2. \A t \in Queue \ excused : left[t] >= Rest(s) + 2
    BY <1>1, <1>2 DEF WaitInv, InTime
  <2>3. QED
    BY <1>7, <2>1, <2>2
<1>9. InTime'
  BY <1>5, <1>7, <1>8 DEF InTime
<1>10. QED
  BY <1>3, <1>4, <1>6, <1>9 DEF IInv, WaitInv, TxInv

\* A prompt tick brings the one that polls as much closer to its end as those
\* in the queue to theirs.
LEMMA TickInvariant ==
    ASSUME IInv, Tick
    PROVE  IInv'
<1>1. TypeOK /\ WaitInv /\ TxInv
  BY Parts
<1>2. /\ left' = [s \in Slots |-> IF s \in Waiting /\ left[s] > 0 THEN left[s] - 1 ELSE left[s]]
      /\ asleep' = {}
      /\ excused' = IF Prompt THEN excused ELSE excused \cup Waiting
      /\ UNCHANGED <<chainVars, step, tx, locked>>
  BY DEF Tick
<1>3. TypeOK'
  BY <1>1, <1>2 DEF chainVars, Waiting, Holding, Queue, TypeOK
<1>4. TxInv'
  BY <1>1, <1>2, TxInvStays
<1>5. Holding' = Holding /\ Queue' = Queue
  BY <1>2 DEF Holding, Queue
<1>6. AsleepFits' /\ LockFits'
  BY <1>1, <1>2, <1>5 DEF WaitInv, AsleepFits, LockFits
<1>7. InTime'
  <2> SUFFICES ASSUME NEW s \in Queue \ excused'
               PROVE  /\ \A h \in Holding : left'[s] >= Rest(h)' + 2
                      /\ locked \/ left'[s] >= 1
    BY <1>2, <1>5 DEF InTime
  <2>1. Prompt /\ s \in Slots /\ s \in asleep /\ s \in Queue \ excused /\ s \in Waiting
    BY <1>2 DEF Prompt, Waiting, Queue
  <2>2. left[s] \in Nat /\ left'[s] = IF left[s] > 0 THEN left[s] - 1 ELSE left[s]
    BY <1>1, <1>2, <2>1 DEF TypeOK
  <2>3. locked \/ left'[s] >= 1
    BY <1>1, <2>1, <2>2 DEF WaitInv, InTime
  <2>4. ASSUME NEW h \in Holding
        PROVE  left'[s] >= Rest(h)' + 2
    <3>1. h \in Slots /\ h \in asleep /\ h \in Waiting /\ step[h] # "look"
      BY <1>1, <2>1, <2>4 DEF Prompt, Waiting, Holding, WaitInv, AsleepFits
    <3>2. left[h] \in Nat /\ left'[h] = IF left[h] > 0 THEN left[h] - 1 ELSE left[h]
      BY <1>1, <1>2, <3>1 DEF TypeOK
    <3>3. Rest(h) = (IF left[h] = 0 THEN 1 ELSE left[h]) /\ Rest(h)' = left'[h]
      BY <1>2, <3>1 DEF Rest
    <3>4. left[s] >= Rest(h) + 2
      BY <1>1, <2>1, <2>4 DEF WaitInv, InTime
    <3>5. QED
      BY <2>2, <3>2, <3>3, <3>4
  <2>5. QED
    BY <2>3, <2>4
<1>8. QED
  BY <1>3, <1>4, <1>6, <1>7 DEF IInv, WaitInv, TxInv

LEMMA CrashInvariant ==
    ASSUME IInv, Crash
    PROVE  IInv'
<1>1. TypeOK /\ TxInv
  BY Parts
<1>2. TypeOK'
  <2>1. /\ log' = log /\ pool' = pool
        /\ step' \in [Slots -> Steps]
        /\ tx' \in [Slots -> Transactions \cup {NoTx}]
        /\ left' \in [Slots -> 0 .. Window]
        /\ locked' = FALSE /\ asleep' = {} /\ excused' = {}
    BY DEF Crash, chainVars, Steps
  <2>2. QED
    BY <1>1, <2>1 DEF TypeOK
<1>3. TxInv'
  BY <1>1 DEF Crash, chainVars, TxInv, TxFits, NeverAhead, OneAtATime
<1>4. Holding' = {} /\ Queue' = {}
  BY DEF Crash, Holding, Queue
<1>5. WaitInv'
  BY <1>4 DEF Crash, WaitInv, AsleepFits, LockFits, InTime
<1>6. QED
  BY <1>2, <1>3, <1>5 DEF IInv, WaitInv, TxInv

\* The waits do not depend on the chain.
LEMMA ChainMoves ==
    ASSUME WaitInv, UNCHANGED <<step, tx, waitVars>>
    PROVE  WaitInv'
BY DEF waitVars, WaitInv, AsleepFits, LockFits, InTime, Holding, Queue, Rest

LEMMA CommitInvariant ==
    ASSUME IInv, NEW ok \in BOOLEAN, Commit(ok)
    PROVE  IInv'
<1>1. TypeOK /\ WaitInv /\ TxInv
  BY Parts
<1>2. /\ Head(pool) \in Contents
      /\ Tail(pool) \in Seq(Contents)
      /\ Len(Tail(pool)) = Len(pool) - 1
  BY <1>1 DEF Commit, TypeOK
<1>3. /\ log' \in Seq([content : Contents, ok : BOOLEAN])
      /\ Len(log') = Len(log) + 1
  BY <1>1, <1>2 DEF Commit, TypeOK
<1>4. TypeOK'
  BY <1>1, <1>2, <1>3 DEF Commit, waitVars, TypeOK
<1>5. TxInv'
  <2>1. NeverAhead'
    BY <1>1, <1>3, TxType DEF Commit, TxInv, NeverAhead, Committed, TypeOK
  <2>2. QED
    BY <1>1, <1>2, <2>1 DEF Commit, TxInv, TxFits, OneAtATime, TypeOK
<1>6. QED
  BY <1>1, <1>4, <1>5, ChainMoves DEF Commit, IInv, WaitInv, TxInv

LEMMA EvictInvariant ==
    ASSUME IInv, Evict
    PROVE  IInv'
<1>1. TypeOK /\ WaitInv /\ TxInv
  BY Parts
<1>2. pool' \in Seq(Contents) /\ Len(pool') = Len(pool) - 1
  <2>1. Len(pool) \in Nat \ {0} /\ \A i \in 1 .. Len(pool) : pool[i] \in Contents
    BY <1>1 DEF Evict, TypeOK
  <2>2. 1 \in Int /\ Len(pool) - 1 \in Int /\ \A i \in 1 .. Len(pool) - 1 : pool[i] \in Contents
    BY <2>1
  <2>3. /\ SubSeq(pool, 1, Len(pool) - 1) \in Seq(Contents)
        /\ Len(SubSeq(pool, 1, Len(pool) - 1)) =
              IF 1 <= Len(pool) - 1 THEN (Len(pool) - 1) - 1 + 1 ELSE 0
    BY <2>2, SubSeqProperties
  <2>4. /\ pool' \in Seq(Contents)
        /\ Len(pool') = IF 1 <= Len(pool) - 1 THEN (Len(pool) - 1) - 1 + 1 ELSE 0
    BY <2>3, Zenon DEF Evict
  <2>5. \A n \in Nat \ {0} : (IF 1 <= n - 1 THEN (n - 1) - 1 + 1 ELSE 0) = n - 1
    OBVIOUS
  <2>6. QED
    BY <2>1, <2>4, <2>5, Zenon
<1>3. TypeOK'
  BY <1>1, <1>2 DEF Evict, waitVars, TypeOK
<1>4. TxInv'
  BY <1>1, <1>2 DEF Evict, TxInv, TxFits, NeverAhead, Committed, OneAtATime, TypeOK
<1>5. QED
  BY <1>1, <1>3, <1>4, ChainMoves DEF Evict, IInv, WaitInv, TxInv

LEMMA NextInvariant == IInv /\ [Next]_vars => IInv'
<1> SUFFICES ASSUME IInv, [Next]_vars PROVE IInv'
  OBVIOUS
<1>1. CASE \E s \in Slots, content \in Contents : Sign(s, content)
  BY <1>1, SignInvariant
<1>2. CASE \E s \in Slots : Post(s) \/ Lose(s)
  BY <1>2, PostInvariant, LoseInvariant
<1>3. CASE \E s \in Slots : NewWait(s)
  BY <1>3, EnterLockedInvariant, EnterFreeInvariant DEF NewWait
<1>4. CASE \E s \in Slots : StillLocked(s) \/ Turn(s) \/ TurnMissed(s)
  BY <1>4, StillLockedInvariant, TurnInvariant, TurnMissedInvariant
<1>5. CASE \E s \in Slots, found \in BOOLEAN : Look(s, found)
  BY <1>5, LookInvariant
<1>6. CASE \E s \in Slots : LookAgain(s) \/ Release(s)
  BY <1>6, LookAgainInvariant, ReleaseInvariant
<1>7. CASE Tick \/ Crash \/ Evict
  BY <1>7, TickInvariant, CrashInvariant, EvictInvariant
<1>8. CASE \E ok \in BOOLEAN : Commit(ok)
  BY <1>8, CommitInvariant
<1>9. CASE UNCHANGED vars
  BY <1>9 DEF vars, chainVars, waitVars, IInv, TypeOK, TxFits, AsleepFits, LockFits, NeverAhead,
              Committed, OneAtATime, InTime, Holding, Queue, Rest
<1>10. QED
  BY <1>1, <1>2, <1>3, <1>4, <1>5, <1>6, <1>7, <1>8, <1>9 DEF Next, Wait

-----------------------------------------------------------------------------
(* The theorems                                                            *)

\* The inductive invariant holds in every reachable state.
THEOREM Invariance == Spec => []IInv
<1>1. QED
  BY InitInvariant, NextInvariant, PTL DEF Spec

\* The lock of waitTx is set exactly while one slot polls.
THEOREM LockExclusive == Spec => []LockFits
<1>1. IInv => LockFits
  BY DEF IInv
<1>2. QED
  BY <1>1, Invariance, PTL

\* However many slots sign, the mempool holds one transaction of the account.
THEOREM OneTransactionAtATime == Spec => []OneAtATime
<1>1. IInv => OneAtATime
  BY DEF IInv
<1>2. QED
  BY <1>1, Invariance, PTL

\* Only a slot in a crowd gives up on its transaction without a look for it.
THEOREM MissedOnlyInCrowd == Spec => []MissedInCrowd
<1>1. IInv => MissedInCrowd
  BY DEF IInv, TypeOK, InTime, MissedInCrowd, Queue
<1>2. QED
  BY <1>1, Invariance, PTL

\* The slot that polls has a bounded number of prompt ticks left: no step gives
\* it more, and each of them is one less.
HoldRunsOut ==
    [][\A h \in Holding \cap Holding' :
          Rest(h)' <= Rest(h) /\ (Tick /\ Prompt => Rest(h)' < Rest(h))]_vars

\* A step of another slot leaves the time of the one that polls alone.
LEMMA OthersRest ==
    ASSUME IInv, NEW h \in Slots, step'[h] = step[h], left'[h] = left[h], h \in asleep' <=> h \in asleep
    PROVE  Rest(h)' <= Rest(h)
<1>1. Rest(h)' = Rest(h)
  BY DEF Rest
<1>2. QED
  BY <1>1, RestType DEF IInv

LEMMA TickRest ==
    ASSUME IInv, Tick, NEW h \in Holding
    PROVE  Rest(h)' <= Rest(h) /\ (Prompt => Rest(h)' < Rest(h))
<1>1. /\ h \in Slots /\ step'[h] = step[h] /\ asleep' = {}
      /\ left[h] \in Nat /\ left'[h] = IF left[h] > 0 THEN left[h] - 1 ELSE left[h]
  BY DEF Tick, Waiting, Holding, IInv, TypeOK
<1>2. Prompt => h \in asleep /\ step[h] # "look"
  BY DEF Prompt, Waiting, Holding, IInv, AsleepFits
<1>3. Rest(h)' = IF left'[h] = 0 /\ step[h] = "look" THEN 1 ELSE left'[h]
  BY <1>1 DEF Rest
<1>4. QED
  BY <1>1, <1>2, <1>3 DEF Rest

LEMMA StepRest ==
    ASSUME IInv, [Next]_vars, NEW h \in Holding \cap Holding'
    PROVE  Rest(h)' <= Rest(h) /\ (Tick /\ Prompt => Rest(h)' < Rest(h))
<1> USE DEF IInv, TypeOK
<1>1. CASE Tick
  BY <1>1, TickRest
<1>2. h \in Slots /\ step[h] \in {"look", "pause", "found"} /\ step'[h] \in {"look", "pause", "found"}
  BY DEF Holding
<1>3. ASSUME ~Tick
      PROVE  Rest(h)' <= Rest(h)
  <2>1. ASSUME NEW s \in Slots, NEW content \in Contents, Sign(s, content)
        PROVE  Rest(h)' <= Rest(h)
    BY <1>2, <2>1, OthersRest DEF Sign, GoTo, waitVars
  <2>2. ASSUME NEW s \in Slots, Post(s) \/ Lose(s)
        PROVE  Rest(h)' <= Rest(h)
    BY <1>2, <2>2, OthersRest DEF Post, Lose, Done, GoTo, waitVars
  <2>3. ASSUME NEW s \in Slots, NewWait(s)
        PROVE  Rest(h)' <= Rest(h)
    BY <1>2, <2>3, OthersRest DEF NewWait, EnterLocked, EnterFree, Enter, GoTo
  <2>4. ASSUME NEW s \in Slots, StillLocked(s) \/ Turn(s) \/ TurnMissed(s)
        PROVE  Rest(h)' <= Rest(h)
    BY <1>2, <2>4, OthersRest DEF StillLocked, Turn, TurnMissed, Awake, Sleep, Done, GoTo
  <2>5. ASSUME NEW s \in Slots, NEW found \in BOOLEAN, Look(s, found)
        PROVE  Rest(h)' <= Rest(h)
    <3>1. CASE s = h
      BY <1>2, <2>5, <3>1 DEF Look, Awake, Sleep, GoTo, Rest
    <3>2. CASE s # h
      BY <1>2, <2>5, <3>2, OthersRest DEF Look, Awake, Sleep, GoTo
    <3>3. QED
      BY <3>1, <3>2
  <2>6. ASSUME NEW s \in Slots, LookAgain(s)
        PROVE  Rest(h)' <= Rest(h)
    <3>1. CASE s = h
      BY <1>2, <2>6, <3>1 DEF LookAgain, Awake, GoTo, waitVars, Rest
    <3>2. CASE s # h
      BY <1>2, <2>6, <3>2, OthersRest DEF LookAgain, Awake, GoTo, waitVars
    <3>3. QED
      BY <3>1, <3>2
  <2>7. ASSUME NEW s \in Slots, Release(s)
        PROVE  Rest(h)' <= Rest(h)
    BY <1>2, <2>7, OthersRest DEF Release, Done, GoTo
  <2>8. ~Crash
    BY <1>2 DEF Crash
  <2>9. CASE Evict \/ (\E ok \in BOOLEAN : Commit(ok)) \/ UNCHANGED vars
    BY <1>2, <2>9, OthersRest DEF Evict, Commit, vars, waitVars
  <2>10. QED
    BY <1>3, <2>1, <2>2, <2>3, <2>4, <2>5, <2>6, <2>7, <2>8, <2>9 DEF Next, Wait
<1>4. QED
  BY <1>1, <1>3

\* The lock is held for a bounded time: while the calls and timers of those who
\* wait are prompt, a slot that polls releases it within its window, whatever
\* the others, the chain and its own looks do.
THEOREM HoldsEnd == Spec => HoldRunsOut
<1>1. IInv /\ [Next]_vars =>
        [\A h \in Holding \cap Holding' :
            Rest(h)' <= Rest(h) /\ (Tick /\ Prompt => Rest(h)' < Rest(h))]_vars
  BY StepRest
<1>2. QED
  BY <1>1, Invariance, PTL DEF Spec, HoldRunsOut

-----------------------------------------------------------------------------
(* TxSubmission implements WardenChain                                     *)

\* WardenChain counts as this module does.
LEMMA SameCardinality ==
    ASSUME NEW S
    PROVE  Chain!Cardinality(S) = Cardinality(S)
BY DEF Chain!Cardinality, Cardinality

\* The chain answers a request once.
OneAnswer == \A r \in Requests : \A i, j \in Answers(r) : i = j

\* The transaction that is next, if the mempool has it.
NextTx == [sequence |-> Len(log), content |-> pool[1]]

\* With one transaction at a time the mempool is empty or a singleton.
LEMMA MempoolShape ==
    /\ Len(pool) = 0 => Mempool = {}
    /\ (Len(pool) = 0 => Mempool = {})'
    /\ Len(log) \in Nat /\ Len(pool) = 1 => Mempool = {Posted(pool[1], Waiters(NextTx))}
    /\ (Len(log) \in Nat /\ Len(pool) = 1 => Mempool = {Posted(pool[1], Waiters(NextTx))})'
<1>1. Len(pool) = 0 => 1 .. Len(pool) = {}
  OBVIOUS
<1>2. Len(pool') = 0 => 1 .. Len(pool') = {}
  OBVIOUS
<1>3. Len(pool) = 1 => 1 .. Len(pool) = {1}
  OBVIOUS
<1>4. Len(pool') = 1 => 1 .. Len(pool') = {1}
  OBVIOUS
<1>5. Len(log) \in Nat => Len(log) + 1 - 1 = Len(log)
  OBVIOUS
<1>6. Len(log') \in Nat => Len(log') + 1 - 1 = Len(log')
  OBVIOUS
<1>7. QED
  BY <1>1, <1>2, <1>3, <1>4, <1>5, <1>6 DEF Mempool, NextTx

\* Answers on the chain stay while its blocks do.
LEMMA SameAnswers ==
    ASSUME log' = log
    PROVE  \A r : /\ Answers(r)' = Answers(r)
                  /\ StatusOf(r)' = StatusOf(r)
                  /\ ResultOf(r)' = ResultOf(r)
BY DEF Answers, StatusOf, ResultOf

\* Who has the hash of what decides all that waits.
HashesKept == \A s \in Slots : /\ HasHash(s)' <=> HasHash(s)
                               /\ HasHash(s) => tx'[s] = tx[s]

LEMMA NothingSeen ==
    ASSUME UNCHANGED chainVars, HashesKept
    PROVE  UNCHANGED Chain!vars
<1>1. log' = log /\ pool' = pool
  BY DEF chainVars
<1>2. \A s \in Slots : Fate(s)' = Fate(s)
  BY <1>1 DEF HashesKept, Fate, InBlock
<1>3. \A t : Waiters(t)' = Waiters(t)
  BY DEF HashesKept, Waiters
<1>4. Mempool' = Mempool
  BY <1>1, <1>3 DEF Mempool
<1>5. QED
  BY <1>1, <1>2, <1>4, SameAnswers DEF Chain!vars

\* An obvious fact that no prover sees among others.
LEMMA ZeroOrOne == \A n \in Nat : n <= 1 => n = 0 \/ n = 1
OBVIOUS

\* A slot gives up, or its process ends.
LEMMA LeavesChain ==
    ASSUME IInv, UNCHANGED chainVars, NEW slots \in SUBSET Slots,
           \A s \in slots : ~HasHash(s)',
           \A s \in Slots \ slots : (HasHash(s)' <=> HasHash(s)) /\ tx'[s] = tx[s]
    PROVE  Chain!Leave(slots, {})
<1>1. log' = log /\ pool' = pool
  BY DEF chainVars
<1>2. \A s \in Slots : Fate(s)' = IF s \in slots THEN "none" ELSE Fate(s)
  BY <1>1 DEF Fate, InBlock
<1>3. \A t : Waiters(t)' = Waiters(t) \ slots
  BY DEF Waiters
<1>4. \A t : Posted(pool[1], Waiters(t) \ slots) = [Posted(pool[1], Waiters(t)) EXCEPT !.waiters = @ \ slots]
  BY DEF Posted
<1>5. /\ Mempool' = {[t EXCEPT !.waiters = @ \ slots] : t \in Mempool \cup {}}
      /\ Cardinality(Mempool') <= MaxSequence
  <2>1. Len(pool) \in Nat /\ Len(log) \in Nat /\ Len(pool) <= 1 /\ Len(log) + Len(pool) <= MaxSequence
    BY DEF IInv, TypeOK, OneAtATime
  <2>2. CASE Len(pool) = 0
    <3>1. Mempool = {} /\ Mempool' = {}
      BY <1>1, <2>2, MempoolShape
    <3>2. QED
      BY <3>1, FS_EmptySet
  <2>3. CASE Len(pool) = 1
    <3>1. /\ Mempool = {Posted(pool[1], Waiters(NextTx))}
          /\ Mempool' = {Posted(pool[1], Waiters(NextTx)')}
      BY <1>1, <2>1, <2>3, MempoolShape DEF NextTx, Posted, Waiters
    <3>2. Waiters(NextTx)' = Waiters(NextTx) \ slots
      BY <1>1, <1>3 DEF NextTx, Waiters
    <3>3. Mempool' = {[t EXCEPT !.waiters = @ \ slots] : t \in Mempool \cup {}}
      <4> DEFINE next == Posted(pool[1], Waiters(NextTx))
      <4>1. Mempool \cup {} = {next} /\ Mempool' = {[next EXCEPT !.waiters = @ \ slots]}
        BY <1>4, <3>1, <3>2
      <4> HIDE DEF next
      <4>2. {[t EXCEPT !.waiters = @ \ slots] : t \in {next}} = {[next EXCEPT !.waiters = @ \ slots]}
        OBVIOUS
      <4>3. QED
        BY <4>1, <4>2, Zenon
    <3>4. Cardinality(Mempool') = 1
      BY <3>1, FS_Singleton
    <3>5. Cardinality(Mempool') <= MaxSequence
      BY <2>1, <2>3, <3>4
    <3>6. QED
      BY <3>3, <3>5
  <2>4. Len(pool) = 0 \/ Len(pool) = 1
    BY <2>1, ZeroOrOne, Zenon
  <2>5. QED
    BY <2>2, <2>3, <2>4, Zenon
<1>6. Chain!Tell(slots, "none")
  BY <1>2 DEF Chain!Tell
<1>7. QED
  BY <1>1, <1>5, <1>6, SameAnswers, SameCardinality DEF Chain!Leave, Chain!WithinBound

\* What a slot that posts changes: it is one more that has the hash.
LEMMA OneMoreHash ==
    ASSUME IInv, NEW s \in Slots, Post(s)
    PROVE  /\ tx[s] = [sequence |-> tx[s].sequence, content |-> tx[s].content]
           /\ tx[s].content \in Contents
           /\ tx[s].sequence \in Nat /\ tx[s].sequence <= Len(log)
           /\ Len(log) \in Nat /\ Len(pool) \in Nat /\ Len(pool) <= 1
           /\ log' = log /\ tx' = tx
           /\ \A r : Waiters(r)' = IF r = tx[s] THEN Waiters(r) \cup {s} ELSE Waiters(r)
           /\ \A o \in Slots \ {s} : Fate(o)' = Fate(o)
           /\ ~InBlock(tx[s]) => Fate(s)' = "unknown"
           /\ InBlock(tx[s]) => Fate(s)' = IF log[tx[s].sequence + 1].ok THEN "success" ELSE "failure"
<1>1. tx[s] \in Transactions /\ tx[s].sequence <= Len(log)
  BY DEF Post, IInv, TxFits, NeverAhead, Committed
<1>2. /\ tx[s] = [sequence |-> tx[s].sequence, content |-> tx[s].content]
      /\ tx[s].content \in Contents
      /\ tx[s].sequence \in Nat
  BY <1>1 DEF Transactions
<1>3. Len(log) \in Nat /\ Len(pool) \in Nat /\ Len(pool) <= 1
  BY DEF IInv, TypeOK, OneAtATime
<1>4. log' = log /\ tx' = tx
  BY DEF Post
<1>5. /\ HasHash(s)' /\ ~HasHash(s)
      /\ \A o \in Slots \ {s} : HasHash(o)' <=> HasHash(o)
  BY DEF Post, GoTo, HasHash, IInv, TypeOK
<1>6. \A r : Waiters(r)' = IF r = tx[s] THEN Waiters(r) \cup {s} ELSE Waiters(r)
  BY <1>4, <1>5 DEF Waiters
<1>7. \A o \in Slots \ {s} : Fate(o)' = Fate(o)
  BY <1>4, <1>5 DEF Fate, InBlock
<1>8. /\ ~InBlock(tx[s]) => Fate(s)' = "unknown"
      /\ InBlock(tx[s]) => Fate(s)' = IF log[tx[s].sequence + 1].ok THEN "success" ELSE "failure"
  BY <1>4, <1>5 DEF Fate, InBlock
<1>9. QED
  BY <1>1, <1>2, <1>3, <1>4, <1>6, <1>7, <1>8

\* The node takes it.
LEMMA TakenByNode ==
    ASSUME IInv, NEW s \in Slots, Post(s), tx[s].sequence = CheckSequence
    PROVE  Chain!Accept(Posted(tx[s].content, {s} \cup Waiters(tx[s])))
<1> DEFINE posted == Posted(tx[s].content, {s} \cup Waiters(tx[s]))
<1>1. Len(pool) = 0 /\ tx[s].sequence = Len(log)
  <2>1. /\ tx[s].sequence \in Nat /\ tx[s].sequence <= Len(log)
        /\ Len(log) \in Nat /\ Len(pool) \in Nat
    BY OneMoreHash
  <2>2. QED
    BY <2>1 DEF CheckSequence
<1>2. pool' = Append(pool, tx[s].content) /\ Len(log) < MaxSequence
  BY <1>1, OneMoreHash DEF Post, CheckSequence
<1>3. Len(pool') = 1 /\ pool'[1] = tx[s].content
  BY <1>1, <1>2, OneMoreHash DEF IInv, TypeOK
<1>4. NextTx' = tx[s]
  <2>1. log' = log /\ tx[s] = [sequence |-> tx[s].sequence, content |-> tx[s].content]
    BY OneMoreHash
  <2>2. QED
    BY <1>1, <1>3, <2>1 DEF NextTx
<1>5. Mempool = {} /\ Mempool' = {posted}
  <2>1. Mempool' = {Posted(pool'[1], Waiters(NextTx)')}
    BY <1>3, OneMoreHash, MempoolShape DEF NextTx, Posted, Waiters
  <2>2. Waiters(NextTx)' = {s} \cup Waiters(tx[s])
    BY <1>4, OneMoreHash DEF Waiters
  <2>3. QED
    BY <1>1, <1>3, <2>1, <2>2, MempoolShape
<1>6. Cardinality(Mempool') <= MaxSequence
  <2>1. Cardinality(Mempool') = 1
    BY <1>5, FS_Singleton
  <2>2. QED
    BY <1>2, <2>1, OneMoreHash
<1>7. Chain!Tell(posted.waiters, "unknown")
  <2>1. ~InBlock(tx[s])
    BY <1>1, OneMoreHash DEF InBlock
  <2>2. \A o \in Waiters(tx[s]) : o \in Slots /\ Fate(o) = "unknown"
    BY <2>1 DEF Waiters, Fate
  <2>3. posted.waiters = {s} \cup Waiters(tx[s])
    BY DEF Posted
  <2>4. \A o \in Slots : Fate(o)' = IF o \in posted.waiters THEN "unknown" ELSE Fate(o)
    BY <2>1, <2>2, <2>3, OneMoreHash
  <2>5. QED
    BY <2>4 DEF Chain!Tell
<1> HIDE DEF posted
<1>8. QED
  BY <1>5, <1>6, <1>7, SameAnswers, SameCardinality, OneMoreHash DEF Chain!Accept, Chain!WithinBound, posted

\* It is in a block already.
LEMMA FoundInBlock ==
    ASSUME IInv, OneAnswer, NEW s \in Slots, Post(s), InBlock(tx[s])
    PROVE  Chain!Rediscover(Posted(tx[s].content, {s}))
<1> DEFINE posted == Posted(tx[s].content, {s})
           i == tx[s].sequence + 1
<1>1. tx[s].sequence < Len(log) /\ log[i].content = tx[s].content /\ i \in 1 .. Len(log)
  <2>1. /\ tx[s].sequence \in Nat /\ tx[s].sequence <= Len(log)
        /\ Len(log) \in Nat /\ Len(pool) \in Nat
    BY OneMoreHash
  <2>2. QED
    BY <2>1 DEF InBlock
<1>2. pool' = pool
  BY <1>1, OneMoreHash DEF Post, CheckSequence
<1>3. Mempool' = Mempool
  <2>1. Len(pool) = 0 \/ Len(pool) = 1
    BY OneMoreHash, ZeroOrOne, Zenon
  <2>2. CASE Len(pool) = 0
    BY <1>2, <2>2, MempoolShape
  <2>3. CASE Len(pool) = 1
    <3>1. NextTx' = NextTx /\ NextTx # tx[s]
      <4>1. log' = log /\ NextTx.sequence = Len(log) /\ Len(log) \in Nat
        BY OneMoreHash DEF NextTx
      <4>2. QED
        BY <1>1, <1>2, <4>1 DEF NextTx
    <3>2. Waiters(NextTx)' = Waiters(NextTx)
      BY <3>1, OneMoreHash DEF Waiters
    <3>3. QED
      BY <1>2, <2>3, <3>2, OneMoreHash, MempoolShape DEF NextTx, Posted, Waiters
  <2>4. QED
    BY <2>1, <2>2, <2>3
<1>4. posted.waiters = {s} /\ posted.request = tx[s].content.request
      /\ posted.verdict = tx[s].content.verdict /\ posted.result = tx[s].content.result
  BY DEF Posted
<1>5. posted.request \in Requests
  BY <1>4, OneMoreHash DEF Contents
<1>6. ASSUME log[i].ok
      PROVE  /\ StatusOf(posted.request) = posted.verdict
             /\ ResultOf(posted.request) = posted.result
  <2>1. i \in Answers(posted.request)
    BY <1>1, <1>4, <1>6 DEF Answers
  <2>2. (CHOOSE j \in Answers(posted.request) : TRUE) = i
    BY <1>5, <2>1 DEF OneAnswer
  <2>3. QED
    BY <1>1, <1>4, <2>1, <2>2 DEF StatusOf, ResultOf
<1>7. Chain!Tell(posted.waiters, IF log[i].ok THEN "success" ELSE "failure")
  <2>1. \A o \in Slots : Fate(o)' = IF o \in posted.waiters THEN (IF log[i].ok THEN "success" ELSE "failure") ELSE Fate(o)
    BY <1>4, OneMoreHash
  <2>2. QED
    BY <2>1 DEF Chain!Tell
<1> HIDE DEF posted, i
<1>8. QED
  BY <1>3, <1>5, <1>6, <1>7, SameAnswers, OneMoreHash DEF Chain!Rediscover, posted

\* It is the one in the mempool.
LEMMA FoundInMempool ==
    ASSUME IInv, NEW s \in Slots, Post(s), Len(pool) = 1, tx[s] = NextTx
    PROVE  Chain!Rejoin(Posted(tx[s].content, {s}))
<1> DEFINE posted == Posted(tx[s].content, {s})
           twin == Posted(tx[s].content, Waiters(tx[s]))
<1>1. tx[s].sequence = Len(log) /\ tx[s].content = pool[1]
  BY DEF NextTx
<1>2. pool' = pool
  BY <1>1, OneMoreHash DEF Post, CheckSequence
<1>3. Waiters(NextTx)' = Waiters(tx[s]) \cup {s}
  <2>1. log' = log /\ tx' = tx /\ Waiters(tx[s])' = Waiters(tx[s]) \cup {s}
    BY OneMoreHash DEF Waiters
  <2>2. NextTx' = tx'[s]
    BY <1>2, <2>1 DEF NextTx
  <2>3. QED
    BY <2>1, <2>2 DEF Waiters
<1>4. Mempool = {twin} /\ Mempool' = {Posted(tx[s].content, Waiters(tx[s]) \cup {s})}
  <2>1. Mempool' = {Posted(pool[1], Waiters(NextTx)')}
    BY <1>2, OneMoreHash, MempoolShape DEF NextTx, Posted, Waiters
  <2>2. QED
    BY <1>1, <1>3, <2>1, OneMoreHash, MempoolShape
<1>5. Chain!SameContent(posted, twin)
  BY DEF Posted, Chain!SameContent
<1>6. Posted(tx[s].content, Waiters(tx[s]) \cup {s}) = [twin EXCEPT !.waiters = @ \cup posted.waiters]
  BY DEF Posted
<1>7. Chain!Tell(posted.waiters, "unknown")
  <2>1. ~InBlock(tx[s])
    BY <1>1, OneMoreHash DEF InBlock
  <2>2. posted.waiters = {s}
    BY DEF Posted
  <2>3. \A o \in Slots : Fate(o)' = IF o \in posted.waiters THEN "unknown" ELSE Fate(o)
    BY <2>1, <2>2, OneMoreHash
  <2>4. QED
    BY <2>3 DEF Chain!Tell
<1> HIDE DEF posted, twin
<1>8. /\ twin \in Mempool
      /\ Mempool' = (Mempool \ {twin}) \cup {[twin EXCEPT !.waiters = @ \cup posted.waiters]}
  BY <1>4, <1>6
<1>9. QED
  BY <1>5, <1>7, <1>8, SameAnswers, OneMoreHash DEF Chain!Rejoin, posted

\* It is refused, and nowhere.
LEMMA RefusedByNode ==
    ASSUME IInv, NEW s \in Slots, Post(s), tx[s].sequence # CheckSequence,
           ~InBlock(tx[s]), Len(pool) = 1 => tx[s] # NextTx
    PROVE  Chain!Refuse(Posted(tx[s].content, {s}))
<1>1. pool' = pool
  BY DEF Post
<1>2. Mempool' = Mempool
  <2>1. Len(pool) = 0 \/ Len(pool) = 1
    BY OneMoreHash, ZeroOrOne, Zenon
  <2>2. CASE Len(pool) = 0
    BY <1>1, <2>2, MempoolShape
  <2>3. CASE Len(pool) = 1
    <3>1. NextTx' = NextTx /\ NextTx # tx[s]
      BY <1>1, <2>3, OneMoreHash DEF NextTx
    <3>2. Waiters(NextTx)' = Waiters(NextTx)
      BY <3>1, OneMoreHash DEF Waiters
    <3>3. QED
      BY <1>1, <2>3, <3>2, OneMoreHash, MempoolShape DEF NextTx, Posted, Waiters
  <2>4. QED
    BY <2>1, <2>2, <2>3
<1>3. Posted(tx[s].content, {s}).waiters = {s}
  BY DEF Posted
<1>4. \A o \in Slots : Fate(o)' = IF o \in {s} THEN "unknown" ELSE Fate(o)
  BY OneMoreHash
<1>5. Chain!Tell({s}, "unknown")
  BY <1>4 DEF Chain!Tell
<1>6. QED
  BY <1>2, <1>3, <1>5, SameAnswers, OneMoreHash DEF Chain!Refuse

\* What a block changes: it has one transaction more, the only one of the mempool.
LEMMA OneMoreInBlock ==
    ASSUME IInv, NEW ok \in BOOLEAN, Commit(ok)
    PROVE  /\ Len(log) \in Nat /\ pool[1] \in Contents
           /\ Mempool = {Posted(pool[1], Waiters(NextTx))} /\ Mempool' = {}
           /\ Len(log') = Len(log) + 1
           /\ \A i \in 1 .. Len(log) : log'[i] = log[i]
           /\ log'[Len(log) + 1] = [content |-> pool[1], ok |-> ok]
           /\ step' = step /\ tx' = tx
           /\ ok => Answers(pool[1].request) = {}
<1>1. /\ log \in Seq([content : Contents, ok : BOOLEAN]) /\ pool \in Seq(Contents)
      /\ Len(log) \in Nat /\ Len(pool) \in Nat /\ Len(pool) <= 1
  BY DEF IInv, TypeOK, OneAtATime
<1>2. Len(pool) = 1
  <2>1. Len(pool) # 0
    BY <1>1 DEF Commit
  <2>2. QED
    BY <1>1, <2>1, ZeroOrOne, Zenon
<1>3. pool[1] \in Contents /\ Head(pool) = pool[1] /\ Len(Tail(pool)) = 0
  <2>1. pool[1] \in Contents
    BY <1>1, <1>2, ElementOfSeq
  <2>2. pool # <<>> /\ Head(pool) = pool[1] /\ Len(Tail(pool)) = Len(pool) - 1
    BY <1>1, HeadTailProperties DEF Commit
  <2>3. QED
    BY <1>2, <2>1, <2>2
<1>4. [content |-> pool[1], ok |-> ok] \in [content : Contents, ok : BOOLEAN]
  BY <1>3
<1>5. log' = Append(log, [content |-> pool[1], ok |-> ok]) /\ pool' = Tail(pool)
  BY <1>3 DEF Commit
<1>6. /\ Len(log') = Len(log) + 1
      /\ \A i \in 1 .. Len(log) : log'[i] = log[i]
      /\ log'[Len(log) + 1] = [content |-> pool[1], ok |-> ok]
  BY <1>1, <1>4, <1>5, AppendProperties
<1>7. Mempool = {Posted(pool[1], Waiters(NextTx))}
  BY <1>1, <1>2, MempoolShape
<1>8. Mempool' = {}
  BY <1>3, <1>5, MempoolShape
<1>9. QED
  BY <1>1, <1>3, <1>6, <1>7, <1>8 DEF Commit

\* Those who wait for it find it from now on.
LEMMA FateTold ==
    ASSUME IInv, NEW ok \in BOOLEAN, Commit(ok)
    PROVE  Chain!Tell(Waiters(NextTx), IF ok THEN "success" ELSE "failure")
<1> DEFINE found == IF ok THEN "success" ELSE "failure"
<1>1. ASSUME NEW s \in Slots
      PROVE  Fate(s)' = IF s \in Waiters(NextTx) THEN found ELSE Fate(s)
  <2>1. CASE ~HasHash(s)
    <3>1. ~HasHash(s)'
      BY <2>1, OneMoreInBlock DEF HasHash
    <3>2. QED
      BY <2>1, <3>1 DEF Fate, Waiters
  <2>2. CASE HasHash(s)
    <3>1. HasHash(s)' /\ tx'[s] = tx[s]
      BY <2>2, OneMoreInBlock DEF HasHash
    <3>2. /\ tx[s] = [sequence |-> tx[s].sequence, content |-> tx[s].content]
          /\ tx[s].sequence \in Nat /\ tx[s].sequence <= Len(log) /\ Len(log) \in Nat
      BY <2>2 DEF HasHash, IInv, TypeOK, TxFits, NeverAhead, Committed, Transactions
    <3>3. CASE tx[s].sequence < Len(log)
      <4>1. tx[s] # NextTx
        BY <3>2, <3>3 DEF NextTx
      <4>2. tx[s].sequence + 1 \in 1 .. Len(log) /\ tx[s].sequence < Len(log) + 1
        BY <3>2, <3>3
      <4>3. log'[tx[s].sequence + 1] = log[tx[s].sequence + 1] /\ Len(log') = Len(log) + 1
        BY <4>2, OneMoreInBlock
      <4>4. InBlock(tx[s])' <=> InBlock(tx[s])
        BY <3>1, <3>3, <4>2, <4>3 DEF InBlock
      <4>5. QED
        BY <2>2, <3>1, <4>1, <4>3, <4>4 DEF Fate, Waiters, InBlock
    <3>4. CASE tx[s].sequence = Len(log)
      <4>1. /\ ~InBlock(tx[s])
            /\ tx[s].sequence < Len(log) + 1
        BY <3>2, <3>4 DEF InBlock
      <4>2. tx[s] = NextTx <=> tx[s].content = pool[1]
        BY <3>2, <3>4 DEF NextTx
      <4>3. log'[tx[s].sequence + 1] = [content |-> pool[1], ok |-> ok] /\ Len(log') = Len(log) + 1
        BY <3>4, OneMoreInBlock
      <4>4. InBlock(tx[s])' <=> tx[s] = NextTx
        BY <3>1, <4>1, <4>2, <4>3 DEF InBlock
      <4>5. QED
        BY <2>2, <3>1, <4>1, <4>3, <4>4 DEF Fate, Waiters, InBlock
    <3>5. QED
      BY <3>2, <3>3, <3>4
  <2>3. QED
    BY <2>1, <2>2
<1>2. QED
  BY <1>1 DEF Chain!Tell

\* It answers its request, unless it failed.
LEMMA AnswersTold ==
    ASSUME IInv, NEW ok \in BOOLEAN, Commit(ok), NEW r \in Requests
    PROVE  IF ok /\ r = pool[1].request
             THEN /\ Answers(r) = {} /\ Answers(r)' = {Len(log) + 1}
                  /\ StatusOf(r)' = pool[1].verdict /\ ResultOf(r)' = pool[1].result
             ELSE /\ Answers(r)' = Answers(r)
                  /\ StatusOf(r)' = StatusOf(r) /\ ResultOf(r)' = ResultOf(r)
<1> DEFINE last == Len(log) + 1
<1>1. 1 .. Len(log') = 1 .. Len(log) \cup {last} /\ last \notin 1 .. Len(log)
  <2>1. Len(log) \in Nat /\ Len(log') = Len(log) + 1
    BY OneMoreInBlock
  <2>2. QED
    BY <2>1
<1>2. /\ \A i \in 1 .. Len(log) : log'[i] = log[i]
      /\ log'[last] = [content |-> pool[1], ok |-> ok]
      /\ ok => Answers(pool[1].request) = {}
  BY OneMoreInBlock
<1> HIDE DEF last
<1>3. Answers(r)' = IF ok /\ r = pool[1].request THEN Answers(r) \cup {last} ELSE Answers(r)
  BY <1>1, <1>2 DEF Answers
<1>4. CASE ok /\ r = pool[1].request
  <2>1. Answers(r) = {} /\ Answers(r)' = {last}
    BY <1>2, <1>3, <1>4
  <2>2. (CHOOSE i \in {last} : TRUE) = last
    OBVIOUS
  <2>3. QED
    BY <1>2, <1>4, <2>1, <2>2 DEF StatusOf, ResultOf, last
<1>5. CASE ~(ok /\ r = pool[1].request)
  <2>1. Answers(r)' = Answers(r)
    BY <1>3, <1>5
  <2>2. CASE Answers(r) = {}
    BY <1>5, <2>1, <2>2 DEF StatusOf, ResultOf
  <2>3. CASE Answers(r) # {}
    <3>1. PICK i : i = CHOOSE j \in Answers(r) : TRUE
      OBVIOUS
    <3>2. i \in 1 .. Len(log)
      BY <2>3, <3>1 DEF Answers
    <3>3. QED
      BY <1>2, <1>5, <2>1, <2>3, <3>1, <3>2 DEF StatusOf, ResultOf
  <2>4. QED
    BY <2>2, <2>3
<1>6. QED
  BY <1>4, <1>5

\* The block executes it, or fails it.
LEMMA Committing ==
    ASSUME IInv, NEW ok \in BOOLEAN, Commit(ok)
    PROVE  LET t == Posted(pool[1], Waiters(NextTx)) IN
           IF ok THEN Chain!Execute(t) ELSE Chain!FailInBlock(t)
<1> DEFINE t == Posted(pool[1], Waiters(NextTx))
<1>1. /\ t.waiters = Waiters(NextTx) /\ t.request = pool[1].request
      /\ t.verdict = pool[1].verdict /\ t.result = pool[1].result
  BY DEF Posted
<1>2. t.request \in Requests
  BY <1>1, OneMoreInBlock DEF Contents
<1>3. t \in Mempool /\ Mempool' = Mempool \ {t}
  BY OneMoreInBlock
<1>4. Chain!Tell(t.waiters, IF ok THEN "success" ELSE "failure")
  BY <1>1, FateTold
<1>5. CASE ok
  <2>1. StatusOf(t.request) = "pending"
    BY <1>1, <1>2, <1>5, AnswersTold DEF StatusOf
  <2>2. \A r \in Requests : /\ StatusOf(r)' = IF r = t.request THEN t.verdict ELSE StatusOf(r)
                            /\ ResultOf(r)' = IF r = t.request THEN t.result ELSE ResultOf(r)
    BY <1>1, <1>5, AnswersTold
  <2> HIDE DEF t
  <2>3. QED
    BY <1>2, <1>3, <1>4, <1>5, <2>1, <2>2 DEF Chain!Execute, Chain!Pending, t
<1>6. CASE ~ok
  <2>1. \A r \in Requests : StatusOf(r)' = StatusOf(r) /\ ResultOf(r)' = ResultOf(r)
    BY <1>6, AnswersTold
  <2> HIDE DEF t
  <2>2. QED
    BY <1>3, <1>4, <1>6, <2>1 DEF Chain!FailInBlock, t
<1>7. QED
  BY <1>5, <1>6

\* The mempool drops it.
LEMMA Evicting ==
    ASSUME IInv, Evict
    PROVE  pool[1] \in Contents /\ Chain!Evict(Posted(pool[1], Waiters(NextTx)))
<1>1. /\ pool \in Seq(Contents) /\ Len(log) \in Nat
      /\ Len(pool) \in Nat /\ Len(pool) <= 1
  BY DEF IInv, TypeOK, OneAtATime
<1>2. Len(pool) = 1
  <2>1. Len(pool) # 0
    BY <1>1 DEF Evict
  <2>2. QED
    BY <1>1, <2>1, ZeroOrOne, Zenon
<1>3. pool[1] \in Contents
  BY <1>1, <1>2
<1>4. Len(pool') = 0
  BY <1>2 DEF Evict
<1>5. Mempool = {Posted(pool[1], Waiters(NextTx))} /\ Mempool' = {}
  BY <1>1, <1>2, <1>4, MempoolShape
<1>6. log' = log /\ \A s \in Slots : Fate(s)' = Fate(s)
  BY DEF Evict, Fate, HasHash, InBlock
<1>7. QED
  BY <1>3, <1>5, <1>6, SameAnswers DEF Chain!Evict

\* The chain answers a request once.
LEMMA OneAnswerKept ==
    ASSUME IInv, OneAnswer, [Next]_vars
    PROVE  OneAnswer'
<1>1. CASE \E ok \in BOOLEAN : Commit(ok)
  BY <1>1, AnswersTold DEF OneAnswer
<1>2. CASE log' = log
  BY <1>2, SameAnswers DEF OneAnswer
<1>3. QED
  BY <1>1, <1>2 DEF Next, Wait, NewWait, Sign, Post, Lose, EnterLocked, EnterFree, Enter, StillLocked, Turn,
     TurnMissed, Look, LookAgain, Release, Tick, Crash, Evict, vars, chainVars

\* Every step is one of WardenChain, or is not seen there.
LEMMA StepAllowed ==
    ASSUME IInv, OneAnswer, Next
    PROVE  ChainStep \/ UNCHANGED Chain!vars
<1>1. ASSUME NEW s \in Slots, Post(s)
      PROVE  ChainStep
  <2>1. tx[s] # NoTx /\ {s} \cup {} = {s} /\ Waiters(tx[s]) \in SUBSET Slots
    BY <1>1, NoTxAssumption DEF Post, IInv, TxFits, Waiters
  <2>2. \/ Chain!Accept(Posted(tx[s].content, {s} \cup Waiters(tx[s])))
        \/ Chain!Refuse(Posted(tx[s].content, {s} \cup {}))
        \/ Chain!Rejoin(Posted(tx[s].content, {s} \cup {}))
        \/ Chain!Rediscover(Posted(tx[s].content, {s} \cup {}))
    BY <1>1, <2>1, TakenByNode, FoundInBlock, FoundInMempool, RefusedByNode
  <2>3. QED
    BY <2>1, <2>2 DEF ChainStep
<1>2. ASSUME NEW slots \in SUBSET Slots, UNCHANGED chainVars,
             \A s \in slots : step'[s] = "idle",
             \A s \in Slots \ slots : step'[s] = step[s] /\ tx'[s] = tx[s]
      PROVE  ChainStep
  BY <1>2, LeavesChain DEF HasHash, ChainStep
<1>3. ASSUME NEW s \in Slots, Lose(s) \/ TurnMissed(s) \/ Release(s)
      PROVE  ChainStep
  <2>1. /\ UNCHANGED chainVars /\ {s} \in SUBSET Slots
        /\ \A o \in {s} : step'[o] = "idle"
        /\ \A o \in Slots \ {s} : step'[o] = step[o] /\ tx'[o] = tx[o]
    BY <1>3 DEF Lose, TurnMissed, Release, Done, GoTo, IInv, TypeOK
  <2>2. QED
    BY <1>2, <2>1, Zenon
<1>4. CASE Crash
  BY <1>2, <1>4 DEF Crash
<1>5. ASSUME NEW s \in Slots, NEW content \in Contents, Sign(s, content)
      PROVE  UNCHANGED Chain!vars
  BY <1>5, NothingSeen DEF Sign, GoTo, HashesKept, HasHash, IInv, TypeOK
<1>6. ASSUME NEW s \in Slots,
             \/ NewWait(s) \/ StillLocked(s) \/ Turn(s) \/ LookAgain(s)
             \/ \E found \in BOOLEAN : Look(s, found)
      PROVE  UNCHANGED Chain!vars
  <2>1. UNCHANGED chainVars /\ tx' = tx /\ HasHash(s)
    BY <1>6 DEF NewWait, EnterLocked, EnterFree, Enter, StillLocked, Turn, LookAgain, Look, Awake, HasHash
  <2>2. /\ step'[s] \notin {"idle", "signed"}
        /\ \A o \in Slots \ {s} : step'[o] = step[o]
    BY <1>6 DEF NewWait, EnterLocked, EnterFree, Enter, StillLocked, Turn, LookAgain, Look, Awake, GoTo, IInv, TypeOK
  <2>3. QED
    BY <2>1, <2>2, NothingSeen DEF HashesKept, HasHash
<1>7. CASE Tick
  BY <1>7, NothingSeen DEF Tick, HashesKept, HasHash
<1>8. ASSUME NEW ok \in BOOLEAN, Commit(ok)
      PROVE  ChainStep
  <2>1. pool[1] \in Contents /\ Waiters(NextTx) \in SUBSET Slots
    BY <1>8, OneMoreInBlock DEF Waiters
  <2>2. QED
    BY <1>8, <2>1, Committing DEF ChainStep
<1>9. CASE Evict
  <2>1. Waiters(NextTx) \in SUBSET Slots
    BY DEF Waiters
  <2>2. QED
    BY <1>9, <2>1, Evicting DEF ChainStep
<1>10. QED
  BY <1>1, <1>3, <1>4, <1>5, <1>6, <1>7, <1>8, <1>9 DEF Next, Wait

\* In the beginning nothing is answered, posted or waited for.
LEMMA StartAllowed == Init => Chain!Init /\ OneAnswer
<1> SUFFICES ASSUME Init PROVE Chain!Init /\ OneAnswer
  OBVIOUS
<1>1. Len(log) = 0 /\ Len(pool) = 0 /\ \A s \in Slots : step[s] = "idle"
  BY DEF Init
<1>2. \A r : Answers(r) = {}
  BY <1>1 DEF Answers
<1>3. Mempool = {}
  BY <1>1, MempoolShape
<1>4. \A s \in Slots : Fate(s) = "none"
  BY <1>1 DEF Fate, HasHash
<1>5. QED
  BY <1>2, <1>3, <1>4 DEF Chain!Init, OneAnswer, StatusOf, ResultOf

\* WardenChain allows every step: what the message handler's models assume of
\* the chain is what the account's sequences, the mempool and the lock of
\* waitTx make of it.
THEOREM ChainAllows == Spec => AllowedByChain
<1>1. Init => Chain!Init /\ OneAnswer
  BY StartAllowed
<1>2. IInv /\ OneAnswer /\ [Next]_vars => OneAnswer'
  BY OneAnswerKept
<1>3. IInv /\ OneAnswer /\ [Next]_vars => [ChainStep]_(Chain!vars)
  <2> SUFFICES ASSUME IInv, OneAnswer, [Next]_vars
               PROVE  ChainStep \/ UNCHANGED Chain!vars
    OBVIOUS
  <2>1. CASE Next
    BY <2>1, StepAllowed
  <2>2. CASE UNCHANGED vars
    BY <2>2, NothingSeen DEF vars, chainVars, HashesKept, HasHash
  <2>3. QED
    BY <2>1, <2>2
<1>4. QED
  BY <1>1, <1>2, <1>3, Invariance, PTL DEF Spec, AllowedByChain
=============================================================================
