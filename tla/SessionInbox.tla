---------------------------- MODULE SessionInbox ----------------------------
(***************************************************************************)
(* What a session promises its clients about prompts, without tasks, locks   *)
(* or rows: accepted prompts wait in a FIFO, one activity is open at a time, *)
(* a prompt gets its place among the messages once and for good, and only a  *)
(* steer may get its place inside another prompt's activity.                 *)
(* SessionCoordinator implements it while its entry is not torn out.         *)
(***************************************************************************)
EXTENDS Integers, Sequences, FiniteSets

CONSTANTS Inputs, Steers, None

VARIABLES
    inbox,      \* accepted prompts waiting, oldest first
    open,       \* the prompt whose activity is open
    place       \* a prompt's place among the messages, 0 while it has none

vars == <<inbox, open, place>>

Placed == {i \in Inputs : place[i] # 0}

Init ==
    /\ inbox = <<>>
    /\ open = None
    /\ place = [i \in Inputs |-> 0]

Accept(i) ==
    /\ \A k \in DOMAIN inbox : inbox[k] # i
    /\ i # open
    /\ IF open = None
         THEN open' = i /\ UNCHANGED inbox
         ELSE inbox' = Append(inbox, i) /\ UNCHANGED open
    /\ UNCHANGED place

Say ==
    /\ open # None
    /\ place[open] = 0
    /\ place' = [place EXCEPT ![open] = Cardinality(Placed) + 1]
    /\ UNCHANGED <<inbox, open>>

(* Some waiting steers get the next places, in any order.                    *)
Steer ==
    /\ open # None
    /\ place[open] # 0
    /\ \E S \in SUBSET (Steers \ Placed) :
         /\ place' \in [Inputs -> 0 .. Cardinality(Inputs)]
         /\ \A i \in Inputs \ S : place'[i] = place[i]
         /\ {place'[i] : i \in S} =
              Cardinality(Placed) + 1 .. Cardinality(Placed) + Cardinality(S)
    /\ UNCHANGED <<inbox, open>>

Close ==
    /\ open # None
    /\ IF inbox = <<>>
         THEN open' = None /\ UNCHANGED inbox
         ELSE open' = Head(inbox) /\ inbox' = Tail(inbox)
    /\ UNCHANGED place

Abort ==
    /\ inbox' = <<>>
    /\ UNCHANGED <<open, place>>

Next == (\E i \in Inputs : Accept(i)) \/ Say \/ Steer \/ Close \/ Abort

Spec == Init /\ [][Next]_vars
=============================================================================
