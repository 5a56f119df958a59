----------------------------- MODULE MCDelivery -----------------------------
(***************************************************************************)
(* A message on the key queue, of which two copies compete for its         *)
(* prefetch, and one on the signature queue; slots for a stale invocation  *)
(* beside a live one of each.                                              *)
(***************************************************************************)
EXTENDS Delivery, TLC

CONSTANTS k1, g1

MCMessages == {k1, g1}
MCQueueOf == (k1 :> "keys") @@ (g1 :> "signatures")
=============================================================================
