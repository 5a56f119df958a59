---------------------------- MODULE RequestPoller ----------------------------
(***************************************************************************)
(* How the listener finds pending requests and queues them: the generators *)
(* pollPendingKeyRequests and pollPendingSignatureRequests of              *)
(* WardenService (blockchain-library/src/index.ts), which differ in the    *)
(* key the second one looks up, and the loop of the listener's processors  *)
(* around them (blockchain-listener/src/processors/processor.ts).          *)
(*                                                                         *)
(* A request is named by its id, which the chain counts up.  Of the message *)
(* handler only its effect is here: it answers the request of a message,   *)
(* or the message goes without an answer (consumer.ts).                    *)
(***************************************************************************)
EXTENDS Integers, FiniteSets

CONSTANTS
    MaxId,        \* bound: requests that are made
    MaxRestarts,  \* bound: restarts of the listener
    PageLimit,    \* the limit of the query, 100
    NeedsKey,     \* TRUE for signature requests
    Answerable    \* those the handler does not fail to answer for ever, as
                  \* often as it gets them; the others it may

ASSUME MaxIdAssumption == MaxId \in Nat
ASSUME MaxRestartsAssumption == MaxRestarts \in Nat
ASSUME PageLimitAssumption == PageLimit \in Nat \ {0}
ASSUME NeedsKeyAssumption == NeedsKey \in BOOLEAN
ASSUME AnswerableAssumption == Answerable \subseteq 1 .. MaxId

VARIABLES
    status,     \* the requests on the chain
    queued,     \* pending ones whose message is in the queue, or has left it with
                \* something under way that may still answer them
    cache,      \* the ids in the Map
    fresh,      \* those taken less than the retention time ago, by any run
    forgotten,  \* those of fresh that an earlier run took, and this one did not
    page,       \* what is left to do of the page that was read
    current,    \* the request in the hands of the generator or of handle
    step,       \* what is done next
    restarts    \* how often the process was started again

vars == <<status, queued, cache, fresh, forgotten, page, current, step, restarts>>

Requests == 1 .. MaxId
NoRequest == 0

Pending == {r \in Requests : status[r] = "pending"}

Steps == {"sweep", "read", "page", "key", "send"}

TypeOK ==
    /\ status \in [Requests -> {"none", "pending", "answered"}]
    /\ queued \subseteq Pending
    /\ cache \subseteq Requests
    /\ fresh \subseteq Requests
    /\ forgotten \subseteq fresh
    /\ page \subseteq Requests
    /\ current \in Requests \cup {NoRequest}
    /\ step \in Steps
    /\ restarts \in 0 .. MaxRestarts

Init ==
    /\ status = [r \in Requests |-> "none"]
    /\ queued = {}
    /\ cache = {}
    /\ fresh = {}
    /\ forgotten = {}
    /\ page = {}
    /\ current = NoRequest
    /\ step = "sweep"
    /\ restarts = 0

-----------------------------------------------------------------------------
(* The generator                                                           *)

\* Mutant of FirstPage: the page is one request short.
ShortPage == {r \in Pending : Cardinality({q \in Pending : q <= r}) < PageLimit}

\* What a query of the pending requests returns.
FirstPage == {r \in Pending : Cardinality({q \in Pending : q < r}) < PageLimit}

\* Mutant of Sweep: an entry goes only when its request is seen answered.
SweepAnswered ==
    /\ step = "sweep"
    /\ \E seen \in SUBSET (cache \ Pending) : cache' = cache \ seen
    /\ step' = "read"
    /\ UNCHANGED <<status, queued, fresh, forgotten, page, current, restarts>>

\* Mutant of Sweep: a query that fails counts as answered.
SweepUnknown ==
    /\ step = "sweep"
    /\ \E seen \in SUBSET cache : cache' = (cache \cap fresh) \ seen
    /\ step' = "read"
    /\ UNCHANGED <<status, queued, fresh, forgotten, page, current, restarts>>

\* An entry is deleted when its request is seen answered or its time is over.
\* The query of a request may fail, and says nothing then.
Sweep ==
    /\ step = "sweep"
    /\ \E seen \in SUBSET (cache \ Pending) : cache' = (cache \cap fresh) \ seen
    /\ step' = "read"
    /\ UNCHANGED <<status, queued, fresh, forgotten, page, current, restarts>>

Read ==
    /\ step = "read"
    /\ page' = FirstPage
    /\ step' = IF FirstPage = {} THEN "sweep" ELSE "page"
    /\ UNCHANGED <<status, queued, cache, fresh, forgotten, current, restarts>>

ReadFails ==
    /\ step = "read"
    /\ step' = "sweep"
    /\ UNCHANGED <<status, queued, cache, fresh, forgotten, page, current, restarts>>

\* The next request of the page, or the end of it.
Ended == step = "page" /\ page = {}

IsNext(r) == step = "page" /\ r \in page /\ \A q \in page : r <= q

TurnPage ==
    /\ Ended
    /\ step' = "sweep"
    /\ UNCHANGED <<status, queued, cache, fresh, forgotten, page, current, restarts>>

Skip(r) ==
    /\ IsNext(r)
    /\ r \in cache
    /\ page' = page \ {r}
    /\ UNCHANGED <<status, queued, cache, fresh, forgotten, current, step, restarts>>

Take(r) ==
    /\ IsNext(r)
    /\ r \notin cache
    /\ cache' = cache \cup {r}
    /\ fresh' = fresh \cup {r}
    /\ forgotten' = forgotten \ {r}
    /\ page' = page \ {r}
    /\ current' = r
    /\ step' = IF NeedsKey THEN "key" ELSE "send"
    /\ UNCHANGED <<status, queued, restarts>>

KeyFound ==
    /\ step = "key"
    /\ step' = "send"
    /\ UNCHANGED <<status, queued, cache, fresh, forgotten, page, current, restarts>>

\* if (!key) continue;
KeyNotFound ==
    /\ step = "key"
    /\ step' = "page"
    /\ current' = NoRequest
    /\ UNCHANGED <<status, queued, cache, fresh, forgotten, page, restarts>>

-----------------------------------------------------------------------------
(* handle                                                                  *)

\* sendToQueue returns true, or false when its buffer is full: the message is
\* in it all the same, but the loop calls handle again.  A message is lost if
\* the connection is, before the buffer is written; the handler does nothing with
\* one whose request is answered.
Send(full, lost) ==
    /\ step = "send"
    /\ queued' = IF lost THEN queued ELSE queued \cup ({current} \cap Pending)
    /\ step' = IF full THEN "send" ELSE "page"
    /\ current' = IF full THEN current ELSE NoRequest
    /\ UNCHANGED <<status, cache, fresh, forgotten, page, restarts>>

\* publish rejects: nothing catches that before start, which begins again with
\* a new generator.
SendFails ==
    /\ step = "send"
    /\ page' = {}
    /\ current' = NoRequest
    /\ step' = "sweep"
    /\ UNCHANGED <<status, queued, cache, fresh, forgotten, restarts>>

\* The process ends, at any time, and is started again with an empty cache: the
\* times that run are forgotten.
Restart ==
    /\ restarts < MaxRestarts
    /\ restarts' = restarts + 1
    /\ cache' = {}
    /\ forgotten' = fresh
    /\ page' = {}
    /\ current' = NoRequest
    /\ step' = "sweep"
    /\ UNCHANGED <<status, queued, fresh>>

-----------------------------------------------------------------------------
(* Time and the chain                                                      *)

\* The retention time of r is over; the entry of r in the cache, if it is there,
\* tells.
Expire(r) ==
    /\ r \in fresh
    /\ fresh' = fresh \ {r}
    /\ forgotten' = forgotten \ {r}
    /\ UNCHANGED <<status, queued, cache, page, current, step, restarts>>

Arrive(r) ==
    /\ status[r] = "none"
    /\ \A q \in Requests : q < r => status[q] # "none"
    /\ status' = [status EXCEPT ![r] = "pending"]
    /\ UNCHANGED <<queued, cache, fresh, forgotten, page, current, step, restarts>>

\* The handler's transaction with the answer of r is in a block.
Answer(r) ==
    /\ r \in queued
    /\ status' = [status EXCEPT ![r] = "answered"]
    /\ queued' = queued \ {r}
    /\ UNCHANGED <<cache, fresh, forgotten, page, current, step, restarts>>

\* The last message about r is settled, acknowledged or rejected without
\* requeue, and nothing it has led to will answer r.
Drop(r) ==
    /\ r \in queued
    /\ queued' = queued \ {r}
    /\ UNCHANGED <<status, cache, fresh, forgotten, page, current, step, restarts>>

-----------------------------------------------------------------------------

Poll ==
    \/ Sweep \/ Read \/ ReadFails \/ TurnPage
    \/ \E r \in Requests : Skip(r) \/ Take(r)
    \/ KeyFound \/ KeyNotFound

Handle == (\E full, lost \in BOOLEAN : Send(full, lost)) \/ SendFails

Next ==
    \/ Poll
    \/ Handle
    \/ Restart
    \/ \E r \in Requests : Expire(r) \/ Arrive(r) \/ Answer(r) \/ Drop(r)

Spec == Init /\ [][Next]_vars

\* The loop runs on, time passes, no query fails and no message is lost for
\* ever; for the queries of Sweep not even that is needed.  The handler may drop
\* a message about an answerable request any number of times, but not each one.
Fairness ==
    /\ WF_vars(Poll \/ Handle)
    /\ SF_vars(Read)
    /\ \A r \in Requests : SF_vars(current = r /\ KeyFound) /\ SF_vars(current = r /\ Send(FALSE, FALSE))
    /\ \A r \in Requests : WF_vars(Expire(r))
    /\ \A r \in Answerable : SF_vars(Answer(r))

FairSpec == Spec /\ Fairness

-----------------------------------------------------------------------------
(* Properties                                                              *)

\* Within its retention time a request is taken once by one run of the process,
\* also if it is answered and leaves the cache early: a page is read after the
\* sweep, so what the sweep has seen answered is not on it.  Only a restart, after
\* which the cache is empty (index.ts, 33), takes a request again in that time,
\* and once.
OncePerRetention == [][\A r \in Requests : Take(r) => r \notin fresh \ forgotten]_vars

\* Why, as an inductive invariant: a request whose time runs is in the cache,
\* was forgotten, or was answered before the page was read; pages are held after
\* the sweep only, and hold nothing that was not made.
IInv ==
    /\ TypeOK
    /\ step \in {"key", "send"} => current # NoRequest
    /\ \A r \in cache \cup page : status[r] # "none"
    /\ step \in {"sweep", "read"} => page = {}
    /\ cache \cap forgotten = {}
    /\ \A r \in fresh \ (cache \cup forgotten) : status[r] = "answered" /\ r \notin page

\* Request r is about to be sent to the queue.
HandedOut(r) == current = r /\ step = "send"

\* A pending request is handed out again and again until it is answered, as
\* long as it is on the first page: what KeyHandler and SignatureHandler rely
\* on when a message was dropped or lost.  A failed look-up of its key, a failed
\* send or a restart may cost it one turn, but never all.
HandedOutUntilAnswered ==
    \A r \in Requests : []<>(r \notin FirstPage \/ HandedOut(r))

\* Requests that are never answered hold no other one up, as long as they
\* leave room for one on the page; what is not on it moves up in its turn.
NoneHeldUp ==
    \A r \in Answerable :
        Cardinality((1 .. r) \ Answerable) < PageLimit
            => status[r] = "pending" ~> status[r] = "answered"

\* The cache forgets what is answered, also when no query about it succeeds.
CacheForgets ==
    \A r \in Requests : (r \in cache /\ status[r] = "answered") ~> r \notin cache
=============================================================================
