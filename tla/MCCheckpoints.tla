---------------------------- MODULE MCCheckpoints ----------------------------
(* Instances of Checkpoints: files and small contents are interchangeable.  *)
EXTENDS Checkpoints, TLC

CONSTANTS f1, f2, a, b, big, c1

Symmetry == Permutations({f1, f2}) \cup Permutations({a, b})
==============================================================================
