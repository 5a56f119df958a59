---------------------------- MODULE MCKeyHandler ----------------------------
(***************************************************************************)
(* Two requests of one creator, number 1 and number 10: a search for the   *)
(* name of the first finds the vault of the second too.                    *)
(***************************************************************************)
EXTENDS KeyHandler, TLC

CONSTANTS k1, k10

PartialHits == (k1 :> {k1, k10}) @@ (k10 :> {k10})
OnlyHits == (k1 :> {k1})

MCRequestOf == [m \in Messages |-> m]
MCQueueOf == [m \in Messages |-> "new_keys"]

Symmetry == Permutations(Slots) \cup Permutations(Results)
=============================================================================
