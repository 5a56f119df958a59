------------------------- MODULE RequestPollerProofs -------------------------
(***************************************************************************)
(* Proofs about the poll loop of the listener, for any number of requests, *)
(* any page limit and any number of restarts.                              *)
(***************************************************************************)
EXTENDS RequestPoller, TLAPS

USE MaxIdAssumption, MaxRestartsAssumption, PageLimitAssumption, NeedsKeyAssumption
    DEF Requests, NoRequest, Steps

\* What a query returns is pending: no answered request is ever on a page
\* that has just been read.
LEMMA PageIsPending == FirstPage \subseteq {r \in Requests : status[r] = "pending"}
BY DEF FirstPage, Pending

\* The loop begins in a state of the invariant.
LEMMA InitInvariant == Init => IInv
BY DEF Init, IInv, TypeOK, Pending

\* Every step of the loop, of time and of the chain keeps the invariant.  A
\* request that leaves the cache in its time was seen answered, and no page is
\* held then; the next page is read after that.  A restart forgets them all.
LEMMA StepInvariant == IInv /\ [Next]_vars => IInv'
<1> SUFFICES ASSUME IInv, [Next]_vars
             PROVE  IInv'
    OBVIOUS
<1> USE DEF IInv, TypeOK, Pending
<1>1. CASE Sweep
  <2>1. cache' \subseteq cache /\ page = {}
        BY <1>1 DEF Sweep
  <2>2. \A r \in fresh \ (cache' \cup forgotten) : status[r] = "answered"
    <3> TAKE r \in fresh \ (cache' \cup forgotten)
    <3>1. CASE r \notin cache
          BY <3>1
    <3>2. CASE r \in cache
          BY <1>1, <3>2 DEF Sweep
    <3> QED
        BY <3>1, <3>2
  <2> QED
      BY <1>1, <2>1, <2>2 DEF Sweep
<1>2. CASE Read
      BY <1>2, PageIsPending DEF Read
<1>3. CASE ReadFails
      BY <1>3 DEF ReadFails
<1>4. CASE TurnPage
      BY <1>4 DEF TurnPage, Ended
<1>5. ASSUME NEW r \in Requests, Skip(r)
      PROVE  IInv'
      BY <1>5 DEF Skip, IsNext
<1>6. ASSUME NEW r \in Requests, Take(r)
      PROVE  IInv'
      BY <1>6 DEF Take, IsNext
<1>7. CASE KeyFound
      BY <1>7 DEF KeyFound
<1>8. CASE KeyNotFound
      BY <1>8 DEF KeyNotFound
<1>9. ASSUME NEW full \in BOOLEAN, NEW lost \in BOOLEAN, Send(full, lost)
      PROVE  IInv'
      BY <1>9 DEF Send
<1>10. CASE SendFails
      BY <1>10 DEF SendFails
<1>11. CASE Restart
      BY <1>11 DEF Restart
<1>12. ASSUME NEW r \in Requests, Expire(r)
      PROVE  IInv'
      BY <1>12 DEF Expire
<1>13. ASSUME NEW r \in Requests, Arrive(r)
      PROVE  IInv'
      BY <1>13 DEF Arrive
<1>14. ASSUME NEW r \in Requests, Answer(r)
      PROVE  IInv'
      BY <1>14 DEF Answer
<1>15. ASSUME NEW r \in Requests, Drop(r)
      PROVE  IInv'
      BY <1>15 DEF Drop
<1>16. CASE UNCHANGED vars
      BY <1>16 DEF vars
<1> QED
    BY <1>1, <1>2, <1>3, <1>4, <1>5, <1>6, <1>7, <1>8, <1>9, <1>10, <1>11,
       <1>12, <1>13, <1>14, <1>15, <1>16 DEF Next, Poll, Handle

\* Every reachable state of the listener satisfies the invariant.
THEOREM Invariance == Spec => []IInv
BY InitInvariant, StepInvariant, PTL DEF Spec

\* A request is taken from a page only when its retention time is over or was
\* never begun, or when a restart of the process has forgotten it since it was
\* last taken: every message about it beyond the first in that time costs a
\* restart, whatever the chain, the handler and the queries do in between.
THEOREM TakenOnce == Spec => OncePerRetention
<1>1. IInv => \A r \in Requests : Take(r) => r \notin fresh \ forgotten
      BY DEF IInv, Take, IsNext
<1>2. IInv /\ [Next]_vars
        => [\A r \in Requests : Take(r) => r \notin fresh \ forgotten]_vars
      BY <1>1
<1> QED
    BY <1>2, Invariance, PTL DEF Spec, OncePerRetention
=============================================================================
