---------------------------- MODULE RequestLedger ----------------------------
(***************************************************************************)
(* What the keychain operator promises for one kind of request, key or     *)
(* signature: a request is answered at most once, it is fulfilled only     *)
(* with a result that the key provider had already made for it, and that   *)
(* result stays made.  KeyHandler and SignatureHandler implement it.       *)
(***************************************************************************)
CONSTANTS
    Requests,
    Results,
    NoResult

VARIABLES
    status,     \* the request on the chain
    result,     \* what a fulfilled request was answered with
    made        \* the results the key provider has made for each request

vars == <<status, result, made>>

Init ==
    /\ status = [r \in Requests |-> "pending"]
    /\ result = [r \in Requests |-> NoResult]
    /\ made = [r \in Requests |-> {}]

\* One effect at the key provider may serve several requests.
Produce(served, x) ==
    /\ made' = [r \in Requests |-> IF r \in served THEN made[r] \cup {x} ELSE made[r]]
    /\ UNCHANGED <<status, result>>

Fulfil(r, x) ==
    /\ status[r] = "pending"
    /\ x \in made[r]
    /\ status' = [status EXCEPT ![r] = "fulfilled"]
    /\ result' = [result EXCEPT ![r] = x]
    /\ UNCHANGED made

Reject(r) ==
    /\ status[r] = "pending"
    /\ status' = [status EXCEPT ![r] = "rejected"]
    /\ UNCHANGED <<result, made>>

Next ==
    \/ \E served \in SUBSET Requests, x \in Results : Produce(served, x)
    \/ \E r \in Requests :
          \/ \E x \in Results : Fulfil(r, x)
          \/ Reject(r)

Spec == Init /\ [][Next]_vars
=============================================================================
