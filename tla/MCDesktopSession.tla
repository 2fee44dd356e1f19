--------------------------- MODULE MCDesktopSession ---------------------------
(***************************************************************************)
(* Instances of DesktopSession for TLC: sessions x and y, providers p and q.  *)
(***************************************************************************)
EXTENDS DesktopSession, TLC

CONSTANTS x, y, p, q, c1, c2

Symmetry == Permutations({x, y}) \cup Permutations({p, q}) \cup Permutations({c1, c2})
===============================================================================
