------------------------- MODULE MCSignatureHandler -------------------------
(***************************************************************************)
(* One request of this deployment, and a second deployment whose requests  *)
(* have the same numbers.                                                  *)
(***************************************************************************)
EXTENDS SignatureHandler, TLC

MCMessages == (Deployments \cup {Sign}) \X Requests
MCRequestOf == [m \in MCMessages |-> m[2]]
MCResults == Deployments \X Requests
MCQueueOf ==
    [m \in MCMessages |-> IF m[1] = Sign THEN "new_signatures" ELSE "signature_statuses"]

SlotSymmetry == Permutations(Slots)
=============================================================================
