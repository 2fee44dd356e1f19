---------------------------- MODULE MCWorkspace ----------------------------
(* ContextEpoch with two directories, a name that an ignore file lists, a  *)
(* budget that cuts the richest file, and two processes on one session.    *)
EXTENDS ContextEpoch

CONSTANTS d1, d2, r1, r2

MCDirs == {d1, d2}

MCNames == {"code", "gen"}

MCPathOrder == <<<<d1, "code">>, <<d1, "gen">>, <<d2, "code">>, <<d2, "gen">>>>

Tree(c) == [p \in MCDirs \X MCNames |-> IF p[1] = d1 THEN c ELSE 0]

Table(p, n) == [q \in MCDirs \X MCNames |-> IF p = q THEN n ELSE 0]

(* The index alone, over a table with a row of a directory that has gone;   *)
(* one process whose scan is over; two processes on the session.           *)
MCStarts ==
    {[tree |-> Tree(2), table |-> Table(<<d2, "code">>, 1), scanned |-> FALSE,
      open |-> {}, changes |-> 3, errors |-> 1, folds |-> 0],
     [tree |-> Tree(2), table |-> Table(<<d1, "code">>, 1), scanned |-> TRUE,
      open |-> {r1}, changes |-> 2, errors |-> 1, folds |-> 1],
     [tree |-> Tree(0), table |-> Table(<<d1, "code">>, 0), scanned |-> TRUE,
      open |-> {r1, r2}, changes |-> 2, errors |-> 0, folds |-> 0]}
=============================================================================
