------------------------- MODULE MCSessionController -------------------------
(***************************************************************************)
(* Values for model checking SessionController.                            *)
(***************************************************************************)
EXTENDS SessionController, TLC

CONSTANTS c1, c2, c3, A, B, W, L

\* Calls are only ever compared; sound for the safety properties checked here.
CallSymmetry == Permutations(Calls)
=============================================================================
