------------------------ MODULE MCSessionCoordinator ------------------------
(***************************************************************************)
(* Instances of SessionCoordinator for TLC: the prompts are model values,    *)
(* s1 a steer and the others interchangeable "queue" prompts.                *)
(***************************************************************************)
EXTENDS SessionCoordinator, TLC

CONSTANTS q1, q2, s1

QueuePermutations == Permutations({q1, q2})
=============================================================================
