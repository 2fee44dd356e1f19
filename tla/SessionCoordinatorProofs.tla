---------------------- MODULE SessionCoordinatorProofs ----------------------
(***************************************************************************)
(* Theorems about SessionCoordinator for every set of inputs and every       *)
(* bound: its types, the exclusion of parallel drains, the absence of        *)
(* stranded queue items, that no input becomes a message twice, the order of *)
(* the messages, and the implementation of SessionInbox.                     *)
(***************************************************************************)
EXTENDS SessionCoordinator, FiniteSetTheorems, SequenceTheorems, TLAPS

-----------------------------------------------------------------------------
(* Facts about the data.                                                     *)

(* The queue after a push is not empty, and what is popped from it and what   *)
(* is left of it have the right types.                                        *)
LEMMA PushThenPop ==
    ASSUME queued \in Seq(Inputs), NEW i \in Inputs
    PROVE  /\ Append(queued, i) \in Seq(Inputs)
           /\ Head(Append(queued, i)) \in Inputs
           /\ Tail(Append(queued, i)) \in Seq(Inputs)
  BY AppendProperties, HeadTailProperties

(* The number of steers a fold promotes, and the rank of each among them,     *)
(* are natural numbers.                                                       *)
LEMMA FoldCounts ==
    ASSUME NEW i, NEW s
    PROVE  /\ Cardinality(Foldable(i)) \in Nat
           /\ Cardinality({t \in Foldable(i) : admitted[t] <= admitted[s]}) \in Nat
  <1>1. Foldable(i) \subseteq Inputs
    BY SteersAssumption DEF Foldable
  <1>2. {t \in Foldable(i) : admitted[t] <= admitted[s]} \subseteq Inputs
    BY <1>1
  <1>3. IsFiniteSet(Foldable(i)) /\ IsFiniteSet({t \in Foldable(i) : admitted[t] <= admitted[s]})
    BY <1>1, <1>2, FS_Subset, InputsAssumption
  <1>4. QED
    BY <1>3, FS_CardinalityType

(* So a fold leaves counters in the counters.                                 *)
LEMMA FoldTypes ==
    ASSUME NEW i \in Inputs, seq \in Nat, promoted \in [Inputs -> Nat], FoldSteers(i)
    PROVE  seq' \in Nat /\ promoted' \in [Inputs -> Nat]
  <1>1. seq' = seq + Cardinality(Foldable(i))
    BY DEF FoldSteers
  <1>2. seq' \in Nat
    <2>1. Cardinality(Foldable(i)) \in Nat
      BY FoldCounts, Zenon
    <2>2. QED
      BY <1>1, <2>1
  <1> DEFINE rank == [s \in Inputs |-> Cardinality({t \in Foldable(i) : admitted[t] <= admitted[s]})]
  <1>3. \A s \in Inputs : rank[s] \in Nat
    BY FoldCounts
  <1>4. promoted' = [s \in Inputs |-> IF s \in Foldable(i) THEN seq + rank[s] ELSE promoted[s]]
    BY DEF FoldSteers
  <1> HIDE DEF rank
  <1>5. QED
    BY <1>2, <1>3, <1>4

-----------------------------------------------------------------------------
(* Type correctness, one group of variables at a time.                       *)

(* A step keeps the types of the map's entry. *)
LEMMA MapTypesStep == MapTypes /\ [Next]_vars => MapTypes'
  <1> SUFFICES ASSUME MapTypes, [Next]_vars PROVE MapTypes'
    OBVIOUS
  <1> USE DEF MapTypes, mapVars
  <1>1. ASSUME NEW i \in Inputs, Build(i) PROVE MapTypes'
    <2>1. CASE live
      BY <1>1, <2>1 DEF Build
    <2>2. CASE ~live
      <3>1. live' \in BOOLEAN
        BY <1>1, <2>2, Zenon DEF Build
      <3>2. QED
        BY <1>1, <2>2, <3>1 DEF Build
    <2>3. QED
      BY <2>1, <2>2
  <1>2. ASSUME NEW i \in Inputs, Enqueue(i) PROVE MapTypes'
    BY <1>2, PushThenPop DEF Enqueue
  <1>3. ASSUME NEW i \in Inputs, Settle(i) PROVE MapTypes'
    <2>1. queued # <<>> => Head(queued) \in Inputs /\ Tail(queued) \in Seq(Inputs)
      BY HeadTailProperties
    <2>2. QED
      BY <1>3, <2>1 DEF Settle
  <1>4. ASSUME NEW i \in Inputs, RouterParks(i) PROVE MapTypes'
    BY <1>4 DEF RouterParks
  <1>5. ASSUME Abort \/ Reply PROVE MapTypes'
    <2>1. live' \in BOOLEAN /\ down' \in BOOLEAN
      BY <1>5, Zenon DEF Abort, Reply
    <2>2. /\ UNCHANGED <<life, active>>
          /\ queued' = queued \/ queued' = <<>>
          /\ pending' = pending \/ pending' = None
      BY <1>5, Zenon DEF Abort, Reply
    <2>3. <<>> \in Seq(Inputs)
      OBVIOUS
    <2>4. QED
      BY <2>1, <2>2, <2>3, Zenon
  <1>6. ASSUME RemoveEntry, down' \in BOOLEAN PROVE MapTypes'
    <2>1. live' \in BOOLEAN
      BY <1>6, Zenon DEF RemoveEntry
    <2>2. QED
      BY <1>6, <2>1 DEF RemoveEntry
  <1>7. ASSUME Evict PROVE MapTypes'
    <2>1. live' \in BOOLEAN
      BY <1>7, Zenon DEF Evict
    <2>2. QED
      BY <1>7, <2>1 DEF Evict
  <1>8. ASSUME RemoveSession \/ DeleteRoute PROVE MapTypes'
    BY <1>6, <1>8 DEF RemoveSession, DeleteRoute
  <1>9. ASSUME Shutdown PROVE MapTypes'
    <2>1. down' \in BOOLEAN
      BY <1>9, Zenon DEF Shutdown
    <2>2. QED
      BY <1>6, <1>9, <2>1 DEF Shutdown
  <1>10. ASSUME UNCHANGED mapVars PROVE MapTypes'
    BY <1>10
  <1>11. QED
    BY <1>1, <1>2, <1>3, <1>4, <1>5, <1>7, <1>8, <1>9, <1>10
    DEF Next, CallStep, TurnStep, StreamStep, AwaitStep, vars, Lookup, CheckCap, Admit,
        Begin, BeginFails, Boundary, FoldSteers, StreamEnds, ToolRound, Ask,
        AwaitCancelled, AwaitAnswered, Panics, DeleteRows

(* A step keeps the types of the rows. *)
LEMMA RowTypesStep == RowTypes /\ [Next]_vars => RowTypes'
  <1> SUFFICES ASSUME RowTypes, [Next]_vars PROVE RowTypes'
    OBVIOUS
  <1> USE DEF RowTypes, rowVars
  <1>1. ASSUME NEW i \in Inputs, Admit(i) PROVE RowTypes'
    BY <1>1 DEF Admit
  <1>2. ASSUME NEW i \in Inputs, Begin(i) PROVE RowTypes'
    BY <1>2 DEF Begin
  <1>3. ASSUME NEW i \in Inputs, FoldSteers(i) PROVE RowTypes'
    BY <1>3, FoldTypes DEF FoldSteers
  <1>4. ASSUME DeleteRows PROVE RowTypes'
    <2>1. hasRow' \in BOOLEAN
      BY <1>4, Zenon DEF DeleteRows
    <2>2. QED
      BY <1>4, <2>1 DEF DeleteRows
  <1>5. ASSUME UNCHANGED rowVars PROVE RowTypes'
    BY <1>5
  <1>6. QED
    BY <1>1, <1>2, <1>3, <1>4, <1>5
    DEF Next, CallStep, TurnStep, StreamStep, AwaitStep, vars, Lookup, Build, CheckCap,
        Enqueue, BeginFails, Boundary, StreamEnds, ToolRound, Ask, AwaitCancelled,
        AwaitAnswered, Panics, RouterParks, Settle, Abort, Reply, Evict, RemoveSession,
        DeleteRoute, Shutdown

(* A step keeps the types of calls and turns. *)
LEMMA TaskTypesStep == MapTypes /\ TaskTypes /\ [Next]_vars => TaskTypes'
  <1> SUFFICES ASSUME MapTypes, TaskTypes, [Next]_vars PROVE TaskTypes'
    OBVIOUS
  <1> USE DEF TaskTypes, turnVars, CallSteps, TurnSteps, Running, Oneshot
  <1>1. ASSUME NEW i \in Inputs, Lookup(i) \/ Build(i) \/ CheckCap(i) \/ Admit(i) PROVE TaskTypes'
    BY <1>1 DEF Lookup, Build, CheckCap, Admit, CallTo
  <1>2. ASSUME NEW i \in Inputs, Enqueue(i) PROVE TaskTypes'
    <2>1. call' \in [Inputs -> CallSteps]
      BY <1>2 DEF Enqueue, CallTo
    <2>2. UNCHANGED <<rounds, cancelled, prompt>>
      BY <1>2 DEF Enqueue, histVars
    <2>3. CASE UNCHANGED <<turn, owner>>
      BY <2>1, <2>2, <2>3
    <2>4. ASSUME NEW first \in Inputs, Goto(first, "begin"),
                 owner' = [owner EXCEPT ![first] = life]
          PROVE  turn' \in [Inputs -> TurnSteps] /\ owner' \in [Inputs -> Nat]
      BY <2>4 DEF Goto, MapTypes
    <2>5. Head(Append(queued, i)) \in Inputs
      BY PushThenPop DEF MapTypes
    <2>6. QED
      BY <1>2, <2>1, <2>2, <2>3, <2>4, <2>5 DEF Enqueue
  <1>3. ASSUME NEW i \in Inputs, Begin(i) \/ BeginFails(i) \/ Boundary(i) \/ FoldSteers(i)
        PROVE  TaskTypes'
    BY <1>3 DEF Begin, BeginFails, Boundary, FoldSteers, Goto
  <1>4. ASSUME NEW i \in Inputs, StreamStep(i) PROVE TaskTypes'
    BY <1>4 DEF StreamStep, StreamEnds, ToolRound, Ask, Goto
  <1>5. ASSUME NEW i \in Inputs, AwaitStep(i) \/ Panics(i) PROVE TaskTypes'
    BY <1>5 DEF AwaitStep, AwaitCancelled, AwaitAnswered, Panics, Goto
  <1>6. ASSUME NEW i \in Inputs, RouterParks(i) PROVE TaskTypes'
    BY <1>6 DEF RouterParks
  <1>7. ASSUME NEW i \in Inputs, Settle(i) PROVE TaskTypes'
    <2>1. UNCHANGED <<call, rounds, cancelled, prompt>>
      BY <1>7 DEF Settle
    <2>2. CASE Goto(i, "done") /\ UNCHANGED owner
      BY <2>1, <2>2 DEF Goto
    <2>3. ASSUME NEW next \in Inputs,
                 turn' = [turn EXCEPT ![i] = "done", ![next] = "begin"],
                 owner' = [owner EXCEPT ![next] = owner[i]]
          PROVE  turn' \in [Inputs -> TurnSteps] /\ owner' \in [Inputs -> Nat]
      BY <2>3
    <2>4. queued # <<>> => Head(queued) \in Inputs
      BY HeadTailProperties DEF MapTypes
    <2>5. QED
      BY <1>7, <2>1, <2>2, <2>3, <2>4 DEF Settle
  <1>8. ASSUME Abort \/ Reply \/ Evict \/ DeleteRows PROVE TaskTypes'
    BY <1>8 DEF Abort, Reply, Evict, DeleteRows, MapTypes
  <1>9. ASSUME RemoveEntry, CancelActive \/ UNCHANGED cancelled PROVE TaskTypes'
    BY <1>9 DEF RemoveEntry, CancelActive, MapTypes
  <1>10. ASSUME UNCHANGED vars PROVE TaskTypes'
    BY <1>10 DEF vars
  <1>11. QED
    BY <1>1, <1>2, <1>3, <1>4, <1>5, <1>6, <1>7, <1>8, <1>9, <1>10
    DEF Next, CallStep, TurnStep, RemoveSession, DeleteRoute, Shutdown

(* A step keeps the types of the history variables. *)
LEMMA HistTypesStep == MapTypes /\ HistTypes /\ [Next]_vars => HistTypes'
  <1> SUFFICES ASSUME MapTypes, HistTypes, [Next]_vars PROVE HistTypes'
    OBVIOUS
  <1> USE DEF HistTypes, histVars
  <1>1. ASSUME NEW i \in Inputs, Lookup(i) PROVE HistTypes'
    BY <1>1 DEF Lookup
  <1>2. ASSUME NEW i \in Inputs, Begin(i) \/ BeginFails(i) \/ FoldSteers(i) PROVE HistTypes'
    BY <1>2 DEF Begin, BeginFails, FoldSteers
  <1>3. Waiting \subseteq Inputs
    BY DEF Waiting, Elements, MapTypes
  <1>4. ASSUME Abort PROVE HistTypes'
    BY <1>3, <1>4 DEF Abort
  <1>5. ASSUME RemoveEntry PROVE HistTypes'
    BY <1>3, <1>5 DEF RemoveEntry
  <1>6. ASSUME UNCHANGED histVars PROVE HistTypes'
    BY <1>6
  <1>7. QED
    BY <1>1, <1>2, <1>4, <1>5, <1>6
    DEF Next, CallStep, TurnStep, StreamStep, AwaitStep, vars, Build, CheckCap, Admit,
        Enqueue, Boundary, StreamEnds, ToolRound, Ask, AwaitCancelled, AwaitAnswered, Panics,
        RouterParks, Settle, Reply, Evict, DeleteRows, RemoveSession, DeleteRoute, Shutdown

(* Every variable keeps its type, for every set of inputs and every bound. *)
THEOREM TypeCorrect == Spec => []TypeOK
  <1>1. Init => TypeOK
    <2> SUFFICES ASSUME Init PROVE TypeOK
      OBVIOUS
    <2>1. live \in BOOLEAN /\ down \in BOOLEAN /\ hasRow \in BOOLEAN
      BY Zenon DEF Init
    <2>2. MapTypes
      BY <2>1 DEF Init, MapTypes
    <2>3. RowTypes
      BY <2>1 DEF Init, RowTypes
    <2>4. TaskTypes
      BY DEF Init, TaskTypes, CallSteps, TurnSteps, Running, Oneshot
    <2>5. HistTypes
      BY DEF Init, HistTypes
    <2>6. QED
      BY <2>2, <2>3, <2>4, <2>5 DEF TypeOK
  <1>2. TypeOK /\ [Next]_vars => TypeOK'
    BY MapTypesStep, RowTypesStep, TaskTypesStep, HistTypesStep DEF TypeOK
  <1>3. QED
    BY <1>1, <1>2, PTL DEF Spec

-----------------------------------------------------------------------------
(* The queue as a set, under the operations the drain and its callers use.   *)

(* A push adds its element at the end. *)
LEMMA ElementsOfPush ==
    ASSUME NEW q \in Seq(Inputs), NEW i \in Inputs
    PROVE  /\ Elements(Append(q, i)) = Elements(q) \cup {i}
           /\ (\A k, l \in DOMAIN q : q[k] = q[l] => k = l) /\ i \notin Elements(q)
                => \A k, l \in DOMAIN Append(q, i) : Append(q, i)[k] = Append(q, i)[l] => k = l
  <1>1. /\ DOMAIN Append(q, i) = DOMAIN q \cup {Len(q) + 1}
        /\ \A k \in DOMAIN q : Append(q, i)[k] = q[k]
        /\ Append(q, i)[Len(q) + 1] = i
    BY AppendProperties
  <1>2. QED
    BY <1>1 DEF Elements

(* A pop takes the head, and what is left was there before and is not the head *)
(* again.                                                                      *)
LEMMA ElementsOfPop ==
    ASSUME NEW q \in Seq(Inputs), q # <<>>, \A k, l \in DOMAIN q : q[k] = q[l] => k = l
    PROVE  /\ Head(q) \in Elements(q)
           /\ Tail(q) \in Seq(Inputs)
           /\ Elements(Tail(q)) \subseteq Elements(q) \ {Head(q)}
           /\ \A k, l \in DOMAIN Tail(q) : Tail(q)[k] = Tail(q)[l] => k = l
  <1>1. /\ Len(q) \in Nat \ {0}
        /\ DOMAIN q = 1 .. Len(q)
        /\ Head(q) = q[1]
        /\ Tail(q) \in Seq(Inputs)
        /\ DOMAIN Tail(q) = 1 .. Len(q) - 1
        /\ \A k \in 1 .. Len(q) - 1 : Tail(q)[k] = q[k + 1]
    BY HeadTailProperties, EmptySeq, LenProperties
  <1>2. \A k \in DOMAIN Tail(q) : k + 1 \in DOMAIN q /\ 1 \in DOMAIN q /\ Tail(q)[k] = q[k + 1]
    BY <1>1
  <1>3. \A k \in DOMAIN Tail(q) : Tail(q)[k] \in Elements(q) \ {Head(q)}
    <2> SUFFICES ASSUME NEW k \in DOMAIN Tail(q) PROVE Tail(q)[k] \in Elements(q) \ {Head(q)}
      OBVIOUS
    <2>1. k + 1 # 1
      BY <1>1
    <2>2. QED
      BY <1>1, <1>2, <2>1 DEF Elements
  <1>4. \A k, l \in DOMAIN Tail(q) : Tail(q)[k] = Tail(q)[l] => k = l
    BY <1>1, <1>2
  <1>5. Head(q) \in Elements(q)
    BY <1>1 DEF Elements
  <1>6. QED
    BY <1>1, <1>3, <1>4, <1>5 DEF Elements
-----------------------------------------------------------------------------
(* The drain invariant.                                                      *)

(* A turn that moves on without settling keeps the invariant. *)
LEMMA TurnMovesOn ==
    ASSUME TypeOK, DrainInv, NEW i \in Inputs, IsRunning(i),
           NEW pc \in Running, Goto(i, pc),
           UNCHANGED <<live, active, queued, call, orphaned>>
    PROVE  DrainInv'
  <1>1. /\ turn'[i] \in Running
        /\ turn[i] # "none"
        /\ \A j \in Inputs \ {i} : turn'[j] = turn[j]
    BY DEF Goto, TypeOK, TaskTypes, IsRunning, IsDead, Running
  <1>2. \A j \in Inputs : /\ (IsRunning(j))' <=> IsRunning(j)
                          /\ (IsDead(j))' <=> IsDead(j)
    BY <1>1 DEF IsRunning, IsDead, Running
  <1>3. Elements(queued) \subseteq Inputs
    BY DEF Elements, TypeOK, MapTypes
  <1>4. (SlotHasDrain /\ FreeSlotNoWork /\ OneDrain)'
    BY <1>2 DEF DrainInv, SlotHasDrain, FreeSlotNoWork, OneDrain
  <1>5. (QueuedWaits /\ QueuedOnce /\ CallBeforeTurn)'
    BY <1>1, <1>3 DEF DrainInv, QueuedWaits, QueuedOnce, CallBeforeTurn, Elements
  <1>6. QED
    BY <1>4, <1>5 DEF DrainInv

(* A panic ends a running turn in its slot, which stays taken. *)
LEMMA PanicKeeps ==
    ASSUME TypeOK, DrainInv, NEW i \in Inputs, Panics(i)
    PROVE  DrainInv'
  <1>1. /\ turn' = [turn EXCEPT ![i] = "dead"]
        /\ IsRunning(i)
        /\ UNCHANGED <<live, active, queued, call, orphaned>>
    BY DEF Panics, Goto, IsRunning, Running, mapVars, histVars
  <1>2. \A j \in Inputs : turn'[j] = IF j = i THEN "dead" ELSE turn[j]
    BY <1>1 DEF TypeOK, TaskTypes
  <1>3. turn[i] # "none" /\ Elements(queued) \subseteq Inputs
    BY <1>1 DEF IsRunning, Running, Elements, TypeOK, MapTypes
  <1>4. (SlotHasDrain /\ FreeSlotNoWork /\ OneDrain)'
    BY <1>1, <1>2 DEF DrainInv, SlotHasDrain, FreeSlotNoWork, OneDrain, IsRunning, IsDead, Running
  <1>5. (QueuedWaits /\ QueuedOnce /\ CallBeforeTurn)'
    BY <1>1, <1>2, <1>3 DEF DrainInv, QueuedWaits, QueuedOnce, CallBeforeTurn, Elements
  <1>6. QED
    BY <1>4, <1>5 DEF DrainInv

(* A call that has not reached its third phase keeps it too. *)
LEMMA CallMovesOn ==
    ASSUME TypeOK, DrainInv, NEW i \in Inputs, call[i] # "ok",
           NEW pc \in CallSteps \ {"ok"}, CallTo(i, pc),
           UNCHANGED <<live, active, queued, turn, orphaned>>
    PROVE  DrainInv'
  <1>1. /\ call'[i] # "ok"
        /\ \A j \in Inputs \ {i} : call'[j] = call[j]
    BY DEF CallTo, TypeOK, TaskTypes
  <1>2. Elements(queued) \subseteq Inputs
    BY DEF Elements, TypeOK, MapTypes
  <1>3. \A j \in Elements(queued) : j # i
    BY DEF DrainInv, QueuedWaits
  <1>4. (SlotHasDrain /\ FreeSlotNoWork /\ OneDrain)'
    BY DEF DrainInv, SlotHasDrain, FreeSlotNoWork, OneDrain, IsRunning, IsDead
  <1>5. (QueuedWaits /\ QueuedOnce /\ CallBeforeTurn)'
    BY <1>1, <1>2, <1>3 DEF DrainInv, QueuedWaits, QueuedOnce, CallBeforeTurn, Elements
  <1>6. QED
    BY <1>4, <1>5 DEF DrainInv

(* Building an entry starts from a state in which nothing ran. *)
LEMMA BuildKeeps ==
    ASSUME TypeOK, DrainInv, NEW i \in Inputs, Build(i)
    PROVE  DrainInv'
  <1>1. CASE live
    BY <1>1, CallMovesOn DEF Build, CallSteps, mapVars, turnVars, histVars
  <1>2. CASE ~live
    <2>1. /\ queued' = <<>> /\ active' = None
          /\ UNCHANGED <<turn, orphaned>>
          /\ call' = [call EXCEPT ![i] = "cap"]
      BY <1>2, Zenon DEF Build, CallTo, turnVars, histVars
    <2>2. (SlotHasDrain /\ FreeSlotNoWork)'
      BY <2>1 DEF SlotHasDrain, FreeSlotNoWork
    <2>3. OneDrain'
      BY <1>2, <2>1 DEF DrainInv, OneDrain, IsRunning, IsDead
    <2>4. (QueuedWaits /\ QueuedOnce)'
      BY <2>1 DEF QueuedWaits, QueuedOnce, Elements
    <2>5. call[i] # "ok"
      BY DEF Build
    <2>6. CallBeforeTurn'
      BY <2>1, <2>5 DEF DrainInv, CallBeforeTurn, TypeOK, TaskTypes
    <2>7. QED
      BY <2>2, <2>3, <2>4, <2>6 DEF DrainInv
  <1>3. QED
    BY <1>1, <1>2

(* The third phase either finds no entry, or queues behind the slot's turn,   *)
(* or starts the only turn there is.                                          *)
LEMMA EnqueueKeeps ==
    ASSUME TypeOK, DrainInv, NEW i \in Inputs, Enqueue(i)
    PROVE  DrainInv'
  <1> USE DEF TypeOK, MapTypes, TaskTypes
  <1>1. call[i] = "enqueue" /\ turn[i] = "none" /\ i \notin Elements(queued)
    BY DEF Enqueue, DrainInv, CallBeforeTurn, QueuedWaits
  <1>2. Elements(queued) \subseteq Inputs
    BY DEF Elements
  <1>3. CASE ~live
    <2>1. CallTo(i, "err") /\ UNCHANGED <<live, active, queued, turn, orphaned>>
      BY <1>3, Zenon DEF Enqueue, histVars
    <2>2. QED
      BY <1>1, <2>1, CallMovesOn DEF CallSteps
  <1>4. CASE live /\ active # None
    <2>1. /\ queued' = Append(queued, i)
          /\ call' = [call EXCEPT ![i] = "ok"]
          /\ UNCHANGED <<live, active, turn, orphaned>>
      BY <1>4, Zenon DEF Enqueue, CallTo, histVars
    <2>2. (SlotHasDrain /\ OneDrain)'
      BY <2>1 DEF DrainInv, SlotHasDrain, OneDrain, IsRunning, IsDead
    <2>3. FreeSlotNoWork'
      BY <1>4, <2>1 DEF FreeSlotNoWork
    <2>4. Elements(queued') = Elements(queued) \cup {i}
      BY <2>1, ElementsOfPush
    <2>5. QueuedOnce'
      BY <1>1, <2>1, ElementsOfPush DEF DrainInv, QueuedOnce
    <2>6. (QueuedWaits /\ CallBeforeTurn)'
      BY <1>1, <1>2, <2>1, <2>4 DEF DrainInv, QueuedWaits, CallBeforeTurn, Elements
    <2>7. QED
      BY <2>2, <2>3, <2>5, <2>6 DEF DrainInv
  <1>5. CASE live /\ active = None
    <2>1. queued = <<>>
      BY <1>5 DEF DrainInv, FreeSlotNoWork
    <2>2. Append(queued, i) = <<i>>
      BY <2>1
    <2>3. /\ queued' = <<>>
          /\ active' = i
          /\ turn' = [turn EXCEPT ![i] = "begin"]
          /\ call' = [call EXCEPT ![i] = "ok"]
          /\ UNCHANGED <<live, orphaned>>
      BY <1>5, <2>2 DEF Enqueue, Goto, CallTo, histVars
    <2>4. (SlotHasDrain /\ FreeSlotNoWork)'
      BY <2>3, InputsAssumption DEF SlotHasDrain, FreeSlotNoWork, IsRunning, IsDead, Running
    <2>5. OneDrain'
      BY <1>5, <2>3, InputsAssumption DEF DrainInv, OneDrain, IsRunning, IsDead, Running
    <2>6. (QueuedWaits /\ QueuedOnce)'
      BY <2>3 DEF QueuedWaits, QueuedOnce, Elements
    <2>7. CallBeforeTurn'
      BY <2>3 DEF DrainInv, CallBeforeTurn
    <2>8. QED
      BY <2>4, <2>5, <2>6, <2>7 DEF DrainInv
  <1>6. QED
    BY <1>3, <1>4, <1>5

(* Settlement frees the slot only when nothing waits, and otherwise hands it   *)
(* to an input that has not had its turn.                                      *)
LEMMA SettleKeeps ==
    ASSUME TypeOK, DrainInv, NEW i \in Inputs, Settle(i)
    PROVE  DrainInv'
  <1> USE DEF TypeOK, MapTypes, TaskTypes
  <1>1. turn[i] = "settle" /\ IsRunning(i) /\ i \notin Elements(queued)
    BY DEF Settle, DrainInv, QueuedWaits, IsRunning, IsDead, Running
  <1>2. Elements(queued) \subseteq Inputs
    BY DEF Elements
  <1>3. CASE ~live
    <2>1. turn' = [turn EXCEPT ![i] = "done"] /\ UNCHANGED <<live, active, queued, call, orphaned>>
      BY <1>3, Zenon DEF Settle, Goto, histVars
    <2>2. (SlotHasDrain /\ FreeSlotNoWork /\ OneDrain)'
      BY <1>1, <1>3, <2>1 DEF DrainInv, SlotHasDrain, FreeSlotNoWork, OneDrain
    <2>3. (QueuedWaits /\ QueuedOnce /\ CallBeforeTurn)'
      BY <1>1, <1>2, <2>1 DEF DrainInv, QueuedWaits, QueuedOnce, CallBeforeTurn, Elements
    <2>4. QED
      BY <2>2, <2>3 DEF DrainInv
  <1>4. CASE live /\ queued = <<>>
    <2>1. /\ turn' = [turn EXCEPT ![i] = "done"]
          /\ active' = None
          /\ UNCHANGED <<live, queued, call, orphaned>>
      BY <1>4, Zenon DEF Settle, Goto, histVars
    <2>2. (SlotHasDrain /\ FreeSlotNoWork)'
      BY <1>4, <2>1 DEF SlotHasDrain, FreeSlotNoWork
    <2>3. OneDrain'
      BY <1>1, <2>1 DEF DrainInv, OneDrain, IsRunning, IsDead, Running
    <2>4. (QueuedWaits /\ QueuedOnce)'
      BY <1>4, <2>1 DEF QueuedWaits, QueuedOnce, Elements
    <2>5. CallBeforeTurn'
      BY <1>1, <2>1 DEF DrainInv, CallBeforeTurn
    <2>6. QED
      BY <2>2, <2>3, <2>4, <2>5 DEF DrainInv
  <1>5. CASE live /\ queued # <<>>
    <2> DEFINE h == Head(queued)
    <2>1. /\ h \in Elements(queued)
          /\ Elements(Tail(queued)) \subseteq Elements(queued) \ {h}
          /\ \A k, l \in DOMAIN Tail(queued) : Tail(queued)[k] = Tail(queued)[l] => k = l
      BY <1>5, ElementsOfPop DEF DrainInv, QueuedOnce
    <2>2. h \in Inputs /\ h # i /\ call[h] = "ok" /\ turn[h] = "none"
      BY <1>1, <1>2, <2>1 DEF DrainInv, QueuedWaits
    <2>3. /\ turn' = [turn EXCEPT ![i] = "done", ![h] = "begin"]
          /\ active' = h
          /\ queued' = Tail(queued)
          /\ UNCHANGED <<live, call, orphaned>>
      BY <1>5, Zenon DEF Settle, histVars
    <2> HIDE DEF h
    <2>4. /\ turn'[i] = "done"
          /\ turn'[h] = "begin"
          /\ \A j \in Inputs \ {i, h} : turn'[j] = turn[j]
      BY <2>2, <2>3
    <2>5. (SlotHasDrain /\ FreeSlotNoWork)'
      BY <2>2, <2>3, <2>4, InputsAssumption DEF SlotHasDrain, FreeSlotNoWork, IsRunning, IsDead, Running
    <2>6. OneDrain'
      BY <1>1, <1>5, <2>3, <2>4 DEF DrainInv, OneDrain, IsRunning, IsDead, Running
    <2>7. QueuedWaits'
      <3>1. Elements(queued)' \subseteq Elements(queued) \ {i, h}
        BY <1>1, <2>1, <2>3 DEF Elements
      <3>2. QED
        BY <1>2, <2>3, <2>4, <3>1 DEF DrainInv, QueuedWaits
    <2>8. QueuedOnce'
      BY <2>1, <2>3 DEF QueuedOnce
    <2>9. CallBeforeTurn'
      BY <1>1, <2>2, <2>3, <2>4 DEF DrainInv, CallBeforeTurn
    <2>10. QED
      BY <2>5, <2>6, <2>7, <2>8, <2>9 DEF DrainInv
  <1>6. QED
    BY <1>3, <1>4, <1>5

(* Taking an entry out marks the turns that ran as orphaned. *)
LEMMA RemoveEntryKeeps ==
    ASSUME TypeOK, DrainInv, RemoveEntry
    PROVE  DrainInv'
  <1>1. /\ ~live' /\ queued' = <<>>
        /\ orphaned' = orphaned \cup {i \in Inputs : IsRunning(i)}
        /\ UNCHANGED <<call, turn>>
    BY DEF RemoveEntry
  <1>2. (SlotHasDrain /\ FreeSlotNoWork /\ QueuedWaits /\ QueuedOnce)'
    BY <1>1 DEF SlotHasDrain, FreeSlotNoWork, QueuedWaits, QueuedOnce, Elements
  <1>3. OneDrain'
    BY <1>1 DEF OneDrain, IsRunning, IsDead
  <1>4. CallBeforeTurn'
    BY <1>1 DEF DrainInv, CallBeforeTurn
  <1>5. QED
    BY <1>2, <1>3, <1>4 DEF DrainInv

(* Every step keeps the drain invariant. *)
LEMMA DrainStep == TypeOK /\ DrainInv /\ [Next]_vars => DrainInv'
  <1> SUFFICES ASSUME TypeOK, DrainInv, [Next]_vars PROVE DrainInv'
    OBVIOUS
  <1>1. ASSUME NEW i \in Inputs, Lookup(i) \/ CheckCap(i) \/ Admit(i) PROVE DrainInv'
    BY <1>1, CallMovesOn DEF Lookup, CheckCap, Admit, CallSteps, mapVars, turnVars, histVars
  <1>2. ASSUME NEW i \in Inputs, Begin(i) \/ BeginFails(i) \/ Boundary(i) \/ FoldSteers(i) PROVE DrainInv'
    BY <1>2, TurnMovesOn DEF Begin, BeginFails, Boundary, FoldSteers, IsRunning, IsDead, Running, mapVars, histVars
  <1>3. ASSUME NEW i \in Inputs, StreamStep(i) \/ AwaitStep(i) PROVE DrainInv'
    BY <1>3, TurnMovesOn
    DEF StreamStep, AwaitStep, StreamEnds, ToolRound, Ask, AwaitCancelled, AwaitAnswered,
        IsRunning, IsDead, Running, mapVars, histVars
  <1>4. ASSUME UNCHANGED <<live, active, queued, call, turn, orphaned>> PROVE DrainInv'
    BY <1>4 DEF DrainInv, SlotHasDrain, FreeSlotNoWork, OneDrain, QueuedWaits, QueuedOnce,
                CallBeforeTurn, IsRunning, IsDead, Elements
  <1>5. ASSUME NEW i \in Inputs, RouterParks(i) PROVE DrainInv'
    BY <1>4, <1>5 DEF RouterParks, histVars
  <1>6. ASSUME Reply \/ DeleteRows PROVE DrainInv'
    BY <1>4, <1>6, Zenon DEF Reply, DeleteRows, mapVars, turnVars, histVars
  <1>7. ASSUME Abort PROVE DrainInv'
    <2>1. queued' = <<>> /\ UNCHANGED <<live, active, call, turn, orphaned>>
      BY <1>7 DEF Abort
    <2>2. (SlotHasDrain /\ FreeSlotNoWork /\ OneDrain /\ CallBeforeTurn)'
      BY <2>1 DEF DrainInv, SlotHasDrain, FreeSlotNoWork, OneDrain, CallBeforeTurn, IsRunning, IsDead
    <2>3. (QueuedWaits /\ QueuedOnce)'
      BY <2>1 DEF QueuedWaits, QueuedOnce, Elements
    <2>4. QED
      BY <2>2, <2>3 DEF DrainInv
  <1>8. ASSUME Evict PROVE DrainInv'
    <2>1. ~live' /\ live /\ active = None /\ UNCHANGED <<active, queued, call, turn, orphaned>>
      BY <1>8 DEF Evict, Idle, turnVars, histVars
    <2>2. QED
      BY <2>1, InputsAssumption
      DEF DrainInv, SlotHasDrain, FreeSlotNoWork, OneDrain, QueuedWaits, QueuedOnce,
          CallBeforeTurn, IsRunning, IsDead, Elements
  <1>9. CASE UNCHANGED vars
    BY <1>4, <1>9 DEF vars, mapVars, turnVars, histVars
  <1>10. QED
    BY <1>1, <1>2, <1>3, <1>5, <1>6, <1>7, <1>8, <1>9, BuildKeeps, EnqueueKeeps, PanicKeeps,
       SettleKeeps, RemoveEntryKeeps
    DEF Next, CallStep, TurnStep, RemoveSession, DeleteRoute, Shutdown

(* The drain invariant holds in every reachable state, for every number of     *)
(* inputs, backlog and rebuilds, and through aborts, evictions and removals.   *)
THEOREM DrainInvariant == Spec => []DrainInv
  <1>1. Init => DrainInv
    BY DEF Init, DrainInv, SlotHasDrain, FreeSlotNoWork, OneDrain, QueuedWaits, QueuedOnce,
           CallBeforeTurn, IsRunning, IsDead, Running, Elements
  <1>2. QED
    BY <1>1, DrainStep, TypeCorrect, PTL DEF Spec

(* No two turns of a session run at once, and a running turn owns the slot of  *)
(* the live entry, unless its entry was torn out under it.                     *)
THEOREM NoParallelDrains == Spec => []OneDrain
  BY DrainInvariant, PTL DEF DrainInv

(* Nothing is stranded in a live entry's queue: a running turn owns the slot   *)
(* and will pop it, unless a panicking tool has ended that turn.              *)
THEOREM NothingStranded == Spec => []NoStrandedInput
  <1>1. DrainInv => NoStrandedInput
    BY DEF DrainInv, SlotHasDrain, FreeSlotNoWork, NoStrandedInput
  <1>2. QED
    BY <1>1, DrainInvariant, PTL

(* The invariant of the coordinator's runs: types, the drain, and no input that  *)
(* nobody will pop, whether or not sessions are deleted meanwhile.              *)
THEOREM CoordinatorInvariant == Spec => []Inv
  BY TypeCorrect, DrainInvariant, NothingStranded, PTL DEF Inv

(* An input becomes a message at most once. *)
THEOREM NeverPromotedTwice == Spec => PromotedOnce
  <1>1. TypeOK /\ [Next]_vars => [\A i \in Inputs : promoted[i] # 0 => promoted'[i] = promoted[i]]_vars
    <2> SUFFICES ASSUME TypeOK, Next
                 PROVE  \A i \in Inputs : promoted[i] # 0 => promoted'[i] = promoted[i]
      OBVIOUS
    <2>1. CASE UNCHANGED promoted
      BY <2>1
    <2>2. ASSUME NEW j \in Inputs, Begin(j)
          PROVE  \A i \in Inputs : promoted[i] # 0 => promoted'[i] = promoted[i]
      BY <2>2 DEF Begin, Pending, TypeOK, RowTypes
    <2>3. ASSUME NEW j \in Inputs, FoldSteers(j)
          PROVE  \A i \in Inputs : promoted[i] # 0 => promoted'[i] = promoted[i]
      BY <2>3 DEF FoldSteers, Foldable, Pending
    <2>4. QED
      BY <2>1, <2>2, <2>3
      DEF Next, CallStep, TurnStep, StreamStep, AwaitStep, rowVars, Lookup, Build, CheckCap,
          Admit, Enqueue, BeginFails, Boundary, StreamEnds, ToolRound, Ask, AwaitCancelled,
          AwaitAnswered, Panics, RouterParks, Settle, Abort, Reply, Evict, DeleteRows,
          RemoveSession, DeleteRoute, Shutdown
  <1>2. QED
    BY <1>1, TypeCorrect, PTL DEF Spec, PromotedOnce

-----------------------------------------------------------------------------
(* The order of the messages.                                                *)

(* A rank by distinct numbers runs through 1..Cardinality(S), in their order. *)
RankIn(S, f, s) == Cardinality({t \in S : f[t] <= f[s]})

LEMMA RanksOf ==
  ASSUME NEW S, IsFiniteSet(S), NEW f \in [S -> Nat],
         \A s, t \in S : f[s] = f[t] => s = t
  PROVE  /\ Cardinality(S) \in Nat
         /\ \A s \in S : RankIn(S, f, s) \in 1..Cardinality(S)
         /\ \A s, t \in S : f[s] < f[t] => RankIn(S, f, s) < RankIn(S, f, t)
         /\ \A j \in 1..Cardinality(S) : \E s \in S : RankIn(S, f, s) = j
  <1> DEFINE Upto(s) == {t \in S : f[t] <= f[s]}
             c == Cardinality(S)
  <1>0. \A s, t \in S : f[s] \in Nat /\ f[t] \in Nat
    OBVIOUS
  <1>1. c \in Nat
    BY FS_CardinalityType
  <1>2. ASSUME NEW s \in S
        PROVE  IsFiniteSet(Upto(s)) /\ Cardinality(Upto(s)) \in 1..c
    <2>1. Upto(s) \in SUBSET S /\ s \in Upto(s)
      BY <1>0
    <2>2. IsFiniteSet(Upto(s)) /\ Cardinality(Upto(s)) <= c
      BY <2>1, FS_Subset
    <2>3. Cardinality(Upto(s)) \in Nat /\ Cardinality(Upto(s)) # 0
      BY <2>1, <2>2, FS_CardinalityType, FS_EmptySet
    <2>4. QED
      BY <1>1, <2>2, <2>3
  <1>3. ASSUME NEW s \in S, NEW t \in S, f[s] < f[t]
        PROVE  Cardinality(Upto(s)) < Cardinality(Upto(t))
    <2>1. Upto(s) \in SUBSET Upto(t) /\ t \in Upto(t) /\ t \notin Upto(s)
      BY <1>0, <1>3
    <2>2. Cardinality(Upto(s)) <= Cardinality(Upto(t)) /\ Cardinality(Upto(t)) # Cardinality(Upto(s))
      BY <1>2, <2>1, FS_Subset
    <2>3. QED
      BY <1>2, <2>2
  <1> DEFINE rank == [s \in S |-> Cardinality(Upto(s))]
  <1>4. rank \in Injection(S, 1..c)
    <2>1. rank \in [S -> 1..c]
      BY <1>2
    <2>2. ASSUME NEW s \in S, NEW t \in S, rank[s] = rank[t] PROVE s = t
      <3>1. Cardinality(Upto(s)) = Cardinality(Upto(t)) /\ Cardinality(Upto(s)) \in Nat
        BY <1>1, <1>2, <2>2
      <3> HIDE DEF Upto
      <3>2. ~(f[s] < f[t])
        BY <1>3, <3>1
      <3>3. ~(f[t] < f[s])
        BY <1>3, <3>1
      <3>4. QED
        BY <1>0, <3>2, <3>3
    <2>3. QED
      BY <2>1, <2>2 DEF Injection, IsInjective
  <1>5. rank \in Surjection(S, 1..c)
    <2>1. IsFiniteSet(1..c) /\ Cardinality(1..c) = c
      BY <1>1, FS_Interval
    <2>2. QED
      BY <1>4, <2>1, FS_Injection
  <1>6. \A j \in 1..c : \E s \in S : Cardinality(Upto(s)) = j
    BY <1>5 DEF Surjection
  <1>7. \A s \in S : RankIn(S, f, s) = Cardinality(Upto(s))
    BY DEF RankIn
  <1> HIDE DEF Upto
  <1>8. QED
    BY <1>1, <1>2, <1>3, <1>6, <1>7

(* Sequences are given out once, rows before messages.                        *)
Numbered ==
    \A i \in Inputs :
        /\ admitted[i] <= seq /\ promoted[i] <= seq
        /\ promoted[i] # 0 => admitted[i] # 0
        /\ promoted[i] # 0 <=> opener[i] # None
        /\ call[i] \in {"enqueue", "ok"} => admitted[i] # 0
        /\ call[i] \in {"idle", "build", "cap", "admit"} => admitted[i] = 0

Distinct ==
    \A i, j \in Inputs : i # j =>
        /\ admitted[i] # 0 => admitted[i] # admitted[j]
        /\ promoted[i] # 0 => promoted[i] # promoted[j]

(* An activity belongs to the input that opened it, and what it folded was      *)
(* admitted later.                                                            *)
Activity == {"boundary", "fold", "stream", "await"}

Opened ==
    \A i \in Inputs :
        /\ turn[i] \in Activity => opener[i] = i
        /\ opener[i] # None => opener[opener[i]] = opener[i] /\ admitted[opener[i]] <= admitted[i]

(* A fold leaves no pending steer behind that was admitted before one it took.  *)
Folded ==
    \A j \in Inputs, s \in Steers :
        opener[j] # None /\ admitted[s] # 0 /\ promoted[s] = 0 /\ admitted[s] > admitted[opener[j]]
            => admitted[s] > admitted[j]

RowOrder == Numbered /\ Distinct /\ Opened /\ Folded /\ ChainInAdmissionOrder

LEMMA AdmitKeepsOrder ==
  ASSUME TypeOK, RowOrder, NEW i \in Inputs, Admit(i)
  PROVE  RowOrder'
  <1>0. seq \in Nat /\ admitted \in [Inputs -> Nat] /\ promoted \in [Inputs -> Nat]
        /\ opener \in [Inputs -> Inputs \cup {None}] /\ call \in [Inputs -> CallSteps]
        /\ UNCHANGED <<promoted, opener, turn>> /\ call[i] = "admit"
    BY DEF TypeOK, RowTypes, TaskTypes, HistTypes, Admit, turnVars, histVars
  <1>1. admitted[i] = 0 /\ promoted[i] = 0 /\ opener[i] = None
    BY <1>0 DEF RowOrder, Numbered
  <1>2. \A j \in Inputs : opener[j] # i
    BY <1>1, InputsAssumption DEF RowOrder, Opened
  <1>3. CASE hasRow
    <2>1. /\ seq' = seq + 1 /\ admitted'[i] = seq + 1 /\ call'[i] = "enqueue"
          /\ \A j \in Inputs \ {i} : admitted'[j] = admitted[j] /\ call'[j] = call[j]
      BY <1>0, <1>3 DEF Admit, CallTo
    <2>2. \A j \in Inputs : admitted[j] <= seq /\ promoted[j] <= seq /\ admitted[j] \in Nat /\ promoted[j] \in Nat
      BY <1>0 DEF RowOrder, Numbered
    <2>3. Numbered'
      BY <1>0, <1>1, <2>1, <2>2 DEF RowOrder, Numbered
    <2>4. Distinct'
      BY <1>0, <2>1, <2>2 DEF RowOrder, Distinct
    <2>5. Opened'
      BY <1>0, <1>1, <1>2, <2>1 DEF RowOrder, Opened
    <2>6. Folded'
      <3> SUFFICES ASSUME NEW j \in Inputs, NEW s \in Steers, opener[j] # None, promoted[s] = 0,
                          admitted'[s] # 0, admitted'[s] > admitted'[opener[j]]
                   PROVE  admitted'[s] > admitted'[j]
        BY <1>0 DEF Folded
      <3>1. j # i /\ opener[j] \in Inputs \ {i} /\ s \in Inputs
        BY <1>0, <1>1, <1>2, SteersAssumption
      <3>2. CASE s = i
        BY <1>0, <2>1, <2>2, <3>1, <3>2
      <3>3. CASE s # i
        BY <2>1, <3>1, <3>3 DEF RowOrder, Folded
      <3>4. QED
        BY <3>2, <3>3
    <2>7. ChainInAdmissionOrder'
      BY <1>0, <1>1, <2>1 DEF RowOrder, ChainInAdmissionOrder
    <2>8. QED
      BY <2>3, <2>4, <2>5, <2>6, <2>7 DEF RowOrder
  <1>4. CASE ~hasRow
    <2>1. /\ UNCHANGED <<seq, admitted>> /\ call'[i] = "err"
          /\ \A j \in Inputs \ {i} : call'[j] = call[j]
      BY <1>0, <1>4 DEF Admit, CallTo
    <2>2. QED
      BY <1>0, <2>1 DEF RowOrder, Numbered, Distinct, Opened, Folded, ChainInAdmissionOrder
  <1>5. QED
    BY <1>3, <1>4

LEMMA BeginKeepsOrder ==
  ASSUME TypeOK, RowOrder, NEW i \in Inputs, Begin(i)
  PROVE  RowOrder'
  <1>0. seq \in Nat /\ admitted \in [Inputs -> Nat] /\ promoted \in [Inputs -> Nat]
        /\ opener \in [Inputs -> Inputs \cup {None}] /\ turn \in [Inputs -> TurnSteps]
        /\ UNCHANGED <<admitted, call>>
    BY DEF TypeOK, RowTypes, TaskTypes, HistTypes, Begin
  <1>1. CASE Pending(i)
    <2>1. /\ seq' = seq + 1 /\ promoted'[i] = seq + 1 /\ opener'[i] = i
          /\ \A j \in Inputs \ {i} : promoted'[j] = promoted[j] /\ opener'[j] = opener[j] /\ turn'[j] = turn[j]
      BY <1>0, <1>1 DEF Begin, Goto
    <2>2. \A j \in Inputs : admitted[j] <= seq /\ promoted[j] <= seq /\ admitted[j] \in Nat /\ promoted[j] \in Nat
      BY <1>0 DEF RowOrder, Numbered
    <2>3. admitted[i] # 0 /\ promoted[i] = 0 /\ opener[i] = None
      BY <1>0, <1>1 DEF Pending, RowOrder, Numbered
    <2>4. \A j \in Inputs : opener[j] # i
      BY <2>3, InputsAssumption DEF RowOrder, Opened
    <2>5. Numbered'
      BY <1>0, <2>1, <2>2, <2>3, InputsAssumption DEF RowOrder, Numbered
    <2>6. Distinct'
      BY <1>0, <2>1, <2>2 DEF RowOrder, Distinct
    <2>7. Opened'
      BY <1>0, <2>1, <2>2, <2>4, InputsAssumption DEF RowOrder, Opened
    <2>8. Folded'
      <3> SUFFICES ASSUME NEW j \in Inputs, NEW s \in Steers, opener'[j] # None, promoted'[s] = 0,
                          admitted[s] # 0, admitted[s] > admitted[opener'[j]]
                   PROVE  admitted[s] > admitted[j]
        BY <1>0 DEF Folded
      <3>1. s \in Inputs /\ promoted[s] = 0
        BY <1>0, <2>1, <2>2, SteersAssumption
      <3>2. QED
        BY <2>1, <3>1 DEF RowOrder, Folded
    <2>9. ChainInAdmissionOrder'
      BY <1>0, <2>1, <2>4 DEF RowOrder, ChainInAdmissionOrder
    <2>10. QED
      BY <2>5, <2>6, <2>7, <2>8, <2>9 DEF RowOrder
  <1>2. CASE ~Pending(i)
    <2>1. UNCHANGED <<seq, promoted, opener>> /\ \A j \in Inputs : turn'[j] \in Activity => turn[j] \in Activity
      BY <1>0, <1>2 DEF Begin, Goto, Activity
    <2>2. QED
      BY <1>0, <2>1 DEF RowOrder, Numbered, Distinct, Opened, Folded, ChainInAdmissionOrder
  <1>3. QED
    BY <1>1, <1>2

(* What a fold does to the rows.                                              *)
LEMMA FoldOf ==
  ASSUME TypeOK, RowOrder, NEW i \in Inputs, FoldSteers(i)
  PROVE  /\ opener[i] = i /\ admitted[i] # 0 /\ i \notin Foldable(i)
         /\ Foldable(i) \subseteq Inputs /\ IsFiniteSet(Foldable(i)) /\ Cardinality(Foldable(i)) \in Nat
         /\ \A s \in Foldable(i) :
              s \in Steers /\ hasRow /\ admitted[s] > admitted[i] /\ promoted[s] = 0 /\ opener[s] = None /\ opener'[s] = i
         /\ \A s \in Steers : hasRow /\ admitted[s] > admitted[i] /\ promoted[s] = 0 => s \in Foldable(i)
         /\ \A s \in Inputs \ Foldable(i) : promoted'[s] = promoted[s] /\ opener'[s] = opener[s]
         /\ seq' = seq + Cardinality(Foldable(i))
         /\ \A s \in Foldable(i) : promoted'[s] \in seq + 1 .. seq'
         /\ \A s, t \in Foldable(i) : admitted[s] < admitted[t] => promoted'[s] < promoted'[t]
         /\ \A n \in seq + 1 .. seq' : \E s \in Foldable(i) : promoted'[s] = n
         /\ UNCHANGED <<admitted, call, hasRow>>
         /\ \A j \in Inputs : turn'[j] \in Activity => turn[j] \in Activity
  <1> DEFINE S == Foldable(i)
             Rank(s) == Cardinality({t \in S : admitted[t] <= admitted[s]})
  <1>0. seq \in Nat /\ admitted \in [Inputs -> Nat] /\ promoted \in [Inputs -> Nat]
        /\ opener \in [Inputs -> Inputs \cup {None}] /\ turn \in [Inputs -> TurnSteps]
        /\ UNCHANGED <<admitted, call, hasRow>> /\ turn[i] = "fold"
    BY DEF TypeOK, RowTypes, TaskTypes, HistTypes, FoldSteers
  <1>1. opener[i] = i
    BY <1>0 DEF RowOrder, Opened, Activity
  <1>2. promoted[i] # 0 /\ admitted[i] # 0
    BY <1>1, InputsAssumption DEF RowOrder, Numbered
  <1>3. S \subseteq Inputs /\ IsFiniteSet(S) /\ Cardinality(S) \in Nat
    <2>1. S \in SUBSET Inputs
      BY SteersAssumption DEF Foldable
    <2>2. QED
      BY <2>1, InputsAssumption, FS_Subset, FS_CardinalityType
  <1>4. \A s \in S : s \in Steers /\ hasRow /\ admitted[s] > admitted[i] /\ promoted[s] = 0 /\ admitted[s] # 0 /\ s \in Inputs
    BY SteersAssumption DEF Foldable, Pending
  <1>5. \A s \in S : opener[s] = None
    BY <1>0, <1>4 DEF RowOrder, Numbered
  <1>6. /\ seq' = seq + Cardinality(S)
        /\ promoted' = [s \in Inputs |-> IF s \in S THEN seq + Rank(s) ELSE promoted[s]]
        /\ opener' = [s \in Inputs |-> IF s \in S THEN i ELSE opener[s]]
    BY DEF FoldSteers
  <1>7. \A s \in Steers : hasRow /\ admitted[s] > admitted[i] /\ promoted[s] = 0 => s \in S
    BY <1>0, SteersAssumption DEF Foldable, Pending
  <1>8. \A j \in Inputs : turn'[j] \in Activity => turn[j] \in Activity
    BY <1>0 DEF FoldSteers, Goto, Activity
  <1> HIDE DEF S
  <1> DEFINE f == [s \in S |-> admitted[s]]
  <1>9. f \in [S -> Nat] /\ \A s, t \in S : f[s] = f[t] => s = t
    BY <1>0, <1>3, <1>4 DEF RowOrder, Distinct
  <1>10. \A s \in S : {t \in S : f[t] <= f[s]} = {t \in S : admitted[t] <= admitted[s]}
    OBVIOUS
  <1>11. /\ \A s \in S : Rank(s) \in 1..Cardinality(S)
         /\ \A s, t \in S : admitted[s] < admitted[t] => Rank(s) < Rank(t)
         /\ \A j \in 1..Cardinality(S) : \E s \in S : Rank(s) = j
    <2>1. \A s \in S : f[s] = admitted[s] /\ Rank(s) = RankIn(S, f, s)
      BY <1>10 DEF RankIn
    <2> HIDE DEF f
    <2>2. /\ \A s \in S : RankIn(S, f, s) \in 1..Cardinality(S)
          /\ \A s, t \in S : f[s] < f[t] => RankIn(S, f, s) < RankIn(S, f, t)
          /\ \A j \in 1..Cardinality(S) : \E s \in S : RankIn(S, f, s) = j
      BY <1>3, <1>9, RanksOf
    <2> HIDE DEF Rank
    <2>3. QED
      BY <2>1, <2>2
  <1> HIDE DEF Rank
  <1>12. \A s \in S : promoted'[s] = seq + Rank(s) /\ opener'[s] = i
    BY <1>3, <1>6
  <1>13. \A s \in Inputs \ S : promoted'[s] = promoted[s] /\ opener'[s] = opener[s]
    BY <1>6
  <1>14. \A s \in S : promoted'[s] \in seq + 1 .. seq'
    BY <1>0, <1>3, <1>6, <1>11, <1>12
  <1>15. \A s, t \in S : admitted[s] < admitted[t] => promoted'[s] < promoted'[t]
    BY <1>0, <1>11, <1>12
  <1>16. ASSUME NEW n \in seq + 1 .. seq' PROVE \E s \in S : promoted'[s] = n
    <2>1. n - seq \in 1..Cardinality(S) /\ n \in Int
      BY <1>0, <1>3, <1>6
    <2>2. PICK s \in S : Rank(s) = n - seq
      BY <1>11, <2>1
    <2>3. QED
      BY <1>0, <1>12, <2>1, <2>2
  <1>17. i \notin S
    BY <1>2, <1>4
  <1>18. QED
    BY <1>0, <1>1, <1>2, <1>3, <1>4, <1>5, <1>6, <1>7, <1>8, <1>12, <1>13, <1>14, <1>15, <1>16, <1>17 DEF S

LEMMA FoldKeepsOrder ==
  ASSUME TypeOK, RowOrder, NEW i \in Inputs, FoldSteers(i)
  PROVE  RowOrder'
  <1> DEFINE S == Foldable(i)
  <1>0. seq \in Nat /\ admitted \in [Inputs -> Nat] /\ promoted \in [Inputs -> Nat]
        /\ opener \in [Inputs -> Inputs \cup {None}] /\ i # None
    BY InputsAssumption DEF TypeOK, RowTypes, HistTypes
  <1>1. /\ opener[i] = i /\ admitted[i] # 0 /\ i \notin S /\ S \subseteq Inputs /\ Cardinality(S) \in Nat
        /\ \A s \in S : s \in Steers /\ hasRow /\ admitted[s] > admitted[i] /\ promoted[s] = 0 /\ opener[s] = None /\ opener'[s] = i
        /\ \A s \in Steers : hasRow /\ admitted[s] > admitted[i] /\ promoted[s] = 0 => s \in S
        /\ \A s \in Inputs \ S : promoted'[s] = promoted[s] /\ opener'[s] = opener[s]
        /\ seq' = seq + Cardinality(S)
        /\ \A s \in S : promoted'[s] \in seq + 1 .. seq'
        /\ \A s, t \in S : admitted[s] < admitted[t] => promoted'[s] < promoted'[t]
        /\ UNCHANGED <<admitted, call, hasRow>>
        /\ \A j \in Inputs : turn'[j] \in Activity => turn[j] \in Activity
    BY FoldOf
  <1> HIDE DEF S
  <1>2. \A j \in Inputs : admitted[j] <= seq /\ promoted[j] <= seq /\ admitted[j] \in Nat /\ promoted[j] \in Nat
    BY <1>0 DEF RowOrder, Numbered
  <1>3. \A s \in S : promoted'[s] > seq /\ promoted'[s] <= seq' /\ promoted'[s] \in Nat /\ promoted'[s] # 0 /\ admitted[s] # 0
    BY <1>0, <1>1, <1>2
  <1>4. seq <= seq' /\ seq' \in Nat
    BY <1>0, <1>1
  <1>5. Numbered'
    <2> SUFFICES ASSUME NEW j \in Inputs
                 PROVE  /\ admitted[j] <= seq' /\ promoted'[j] <= seq'
                        /\ promoted'[j] # 0 => admitted[j] # 0
                        /\ promoted'[j] # 0 <=> opener'[j] # None
                        /\ call[j] \in {"enqueue", "ok"} => admitted[j] # 0
                        /\ call[j] \in {"idle", "build", "cap", "admit"} => admitted[j] = 0
      BY <1>1 DEF Numbered
    <2>1. CASE j \in S
      BY <1>0, <1>1, <1>2, <1>3, <1>4, <2>1 DEF RowOrder, Numbered
    <2>2. CASE j \notin S
      BY <1>0, <1>1, <1>2, <1>4, <2>2 DEF RowOrder, Numbered
    <2>3. QED
      BY <2>1, <2>2
  <1>6. Distinct'
    <2> SUFFICES ASSUME NEW j \in Inputs, NEW k \in Inputs, j # k
                 PROVE  /\ admitted[j] # 0 => admitted[j] # admitted[k]
                        /\ promoted'[j] # 0 => promoted'[j] # promoted'[k]
      BY <1>1 DEF Distinct
    <2>1. admitted[j] # 0 => admitted[j] # admitted[k]
      BY DEF RowOrder, Distinct
    <2>2. CASE j \in S /\ k \in S
      <3>1. admitted[j] < admitted[k] \/ admitted[k] < admitted[j]
        BY <1>2, <1>3, <2>1, <2>2
      <3>2. QED
        BY <1>1, <1>3, <2>1, <2>2, <3>1
    <2>3. CASE j \in S /\ k \notin S
      BY <1>0, <1>1, <1>2, <1>3, <2>1, <2>3
    <2>4. CASE j \notin S /\ k \in S
      BY <1>0, <1>1, <1>2, <1>3, <2>1, <2>4
    <2>5. CASE j \notin S /\ k \notin S
      BY <1>1, <2>1, <2>5 DEF RowOrder, Distinct
    <2>6. QED
      BY <2>2, <2>3, <2>4, <2>5
  <1>7. Opened'
    <2> SUFFICES ASSUME NEW j \in Inputs
                 PROVE  /\ turn'[j] \in Activity => opener'[j] = j
                        /\ opener'[j] # None => opener'[opener'[j]] = opener'[j] /\ admitted[opener'[j]] <= admitted[j]
      BY <1>1 DEF Opened
    <2>1. CASE j \in S
      <3>1. opener'[j] = i /\ opener'[i] = i /\ admitted[i] <= admitted[j]
        BY <1>1, <1>2, <2>1
      <3>2. turn[j] \notin Activity
        BY <1>1, <2>1, InputsAssumption DEF RowOrder, Opened
      <3>3. QED
        BY <1>1, <3>1, <3>2
    <2>2. CASE j \notin S
      <3>1. opener'[j] = opener[j] /\ (opener[j] # None => opener[j] \notin S /\ opener[j] \in Inputs)
        BY <1>0, <1>1, <2>2 DEF RowOrder, Opened
      <3>2. QED
        BY <1>1, <3>1 DEF RowOrder, Opened
    <2>3. QED
      BY <2>1, <2>2
  <1>8. Folded'
    <2> SUFFICES ASSUME NEW j \in Inputs, NEW s \in Steers, opener'[j] # None, promoted'[s] = 0,
                        admitted[s] # 0, admitted[s] > admitted[opener'[j]]
                 PROVE  admitted[s] > admitted[j]
      BY <1>1 DEF Folded
    <2>1. s \in Inputs \ S /\ promoted[s] = 0
      BY <1>1, <1>3, SteersAssumption
    <2>2. CASE j \in S
      BY <1>1, <2>1, <2>2
    <2>3. CASE j \notin S
      BY <1>1, <2>1, <2>3 DEF RowOrder, Folded
    <2>4. QED
      BY <2>2, <2>3
  <1>9. ChainInAdmissionOrder'
    <2> SUFFICES ASSUME NEW j \in Inputs, NEW k \in Inputs, opener'[j] # None, opener'[j] = opener'[k],
                        admitted[j] < admitted[k]
                 PROVE  promoted'[j] < promoted'[k]
      BY <1>1 DEF ChainInAdmissionOrder
    <2>1. CASE j \in S /\ k \in S
      BY <1>1, <2>1
    <2>2. CASE j \in S /\ k \notin S
      <3>1. opener[k] = i /\ admitted[j] > admitted[opener[k]] /\ promoted[j] = 0 /\ j \in Steers /\ admitted[j] # 0
        BY <1>1, <1>3, <2>2
      <3>2. admitted[j] > admitted[k]
        BY <1>0, <3>1 DEF RowOrder, Folded
      <3>3. QED
        BY <1>2, <3>2
    <2>3. CASE j \notin S /\ k \in S
      BY <1>0, <1>1, <1>2, <1>3, <2>3
    <2>4. CASE j \notin S /\ k \notin S
      BY <1>1, <2>4 DEF RowOrder, ChainInAdmissionOrder
    <2>5. QED
      BY <2>1, <2>2, <2>3, <2>4
  <1>10. QED
    BY <1>5, <1>6, <1>7, <1>8, <1>9 DEF RowOrder

(* Every step keeps the rows and the messages in order.                        *)
LEMMA RowOrderStep ==
  ASSUME TypeOK, DrainInv, RowOrder, [Next]_vars
  PROVE  RowOrder'
  <1>0. turn \in [Inputs -> TurnSteps] /\ call \in [Inputs -> CallSteps] /\ queued \in Seq(Inputs)
    BY DEF TypeOK, TaskTypes, MapTypes
  <1>1. ASSUME UNCHANGED <<seq, admitted, promoted, opener>>,
               \A j \in Inputs : turn'[j] \in Activity => turn[j] \in Activity,
               \A j \in Inputs :
                  /\ call'[j] \in {"enqueue", "ok"} => call[j] \in {"enqueue", "ok"}
                  /\ call'[j] \in {"idle", "build", "cap", "admit"} => call[j] \in {"idle", "build", "cap", "admit"}
        PROVE  RowOrder'
    BY <1>1 DEF RowOrder, Numbered, Distinct, Opened, Folded, ChainInAdmissionOrder
  <1>2. ASSUME NEW i \in Inputs, Lookup(i) \/ Build(i) \/ CheckCap(i) PROVE RowOrder'
    <2>1. UNCHANGED <<seq, admitted, promoted, opener, turn>>
      BY <1>2 DEF Lookup, Build, CheckCap, rowVars, turnVars, histVars
    <2>2. /\ call[i] \in {"idle", "build", "cap"} /\ call'[i] \in {"build", "cap", "admit", "err"}
          /\ \A j \in Inputs \ {i} : call'[j] = call[j]
      BY <1>0, <1>2 DEF Lookup, Build, CheckCap, CallTo
    <2>3. QED
      BY <1>1, <2>1, <2>2
  <1>3. ASSUME NEW i \in Inputs, Enqueue(i) PROVE RowOrder'
    <2>1. UNCHANGED <<seq, admitted, promoted, opener>>
      BY <1>3 DEF Enqueue, rowVars, histVars
    <2>2. call[i] = "enqueue" /\ call'[i] \in {"ok", "err"} /\ \A j \in Inputs \ {i} : call'[j] = call[j]
      BY <1>0, <1>3 DEF Enqueue, CallTo
    <2>3. \A j \in Inputs : turn'[j] \in Activity => turn[j] \in Activity
      BY <1>0, <1>3 DEF Enqueue, Goto, Activity
    <2>4. QED
      BY <1>1, <2>1, <2>2, <2>3
  <1>4. ASSUME NEW i \in Inputs, BeginFails(i) \/ Boundary(i) \/ StreamStep(i) \/ AwaitStep(i) \/ Panics(i) PROVE RowOrder'
    <2>1. UNCHANGED <<seq, admitted, promoted, opener, call>>
      BY <1>4 DEF BeginFails, Boundary, StreamStep, AwaitStep, StreamEnds, ToolRound, Ask,
                  AwaitCancelled, AwaitAnswered, Panics, rowVars, histVars
    <2>2. \A j \in Inputs : turn'[j] \in Activity => turn[j] \in Activity
      BY <1>0, <1>4 DEF BeginFails, Boundary, StreamStep, AwaitStep, StreamEnds, ToolRound, Ask,
                  AwaitCancelled, AwaitAnswered, Panics, Goto, Activity
    <2>3. QED
      BY <1>1, <2>1, <2>2
  <1>5. ASSUME NEW i \in Inputs, Settle(i) PROVE RowOrder'
    <2>1. UNCHANGED <<seq, admitted, promoted, opener, call>>
      BY <1>5 DEF Settle, rowVars, histVars
    <2>2. \A j \in Inputs : turn'[j] \in Activity => turn[j] \in Activity
      BY <1>0, <1>5 DEF Settle, Goto, Activity
    <2>3. QED
      BY <1>1, <2>1, <2>2
  <1>6. CASE UNCHANGED <<seq, admitted, promoted, opener, turn, call>>
    BY <1>1, <1>6
  <1>7. QED
    BY <1>2, <1>3, <1>4, <1>5, <1>6, AdmitKeepsOrder, BeginKeepsOrder, FoldKeepsOrder
    DEF Next, CallStep, TurnStep, vars, rowVars, turnVars, histVars, RouterParks, Abort, Reply, Evict,
        DeleteRows, RemoveSession, DeleteRoute, Shutdown, RemoveEntry

-----------------------------------------------------------------------------
(* Accepted inputs until they are messages.                                  *)

(* An accepted input is settled when it is a message, or when an abort, a       *)
(* failure or a removal has excused it.                                       *)
Settled(j) == promoted[j] # 0 \/ j \in dropped \cup failed \cup orphaned

(* After a deletion no row is written, after a shutdown no call begins; until   *)
(* then no entry is torn out under a turn.                                    *)
Gone        == ~hasRow \/ down
NothingTorn == ~Gone => orphaned = {}
EmptyEntry  == ~live => queued = <<>> /\ active = None

(* What is accepted and not settled waits in the queue, or in the slot for its  *)
(* turn to begin; a shutdown settles what others may have seen accepted.        *)
Accounted ==
    ~Gone => \A j \in Inputs : call[j] = "ok" => Settled(j) \/ j \in Elements(queued) \/ turn[j] = "begin"
SettledAtShutdown == hasRow /\ down => \A i \in Inputs : \A j \in before[i] : Settled(j)

SeenAccepted == \A i \in Inputs : \A j \in before[i] : call[j] = "ok" /\ i # j /\ call[i] # "idle"

(* An input stands behind all it has seen accepted and that are not settled.    *)
Ahead(j, i) == \/ turn[j] = "begin"
               \/ \E k, l \in DOMAIN queued : queued[l] = j /\ queued[k] = i /\ l < k
Behind ==
    ~Gone => \A i \in Inputs \ Steers : \A j \in before[i] :
               Settled(j) \/ (turn[i] # "begin" /\ (i \in Elements(queued) => Ahead(j, i)))

WaitOrder ==
    /\ NothingTorn /\ EmptyEntry /\ Accounted /\ SettledAtShutdown /\ SeenAccepted /\ Behind
    /\ AcceptedOrder

LEMMA WaitTypes ==
  ASSUME TypeOK
  PROVE  /\ queued \in Seq(Inputs) /\ turn \in [Inputs -> TurnSteps] /\ call \in [Inputs -> CallSteps]
         /\ promoted \in [Inputs -> Nat] /\ before \in [Inputs -> SUBSET Inputs] /\ seq \in Nat
         /\ live \in BOOLEAN /\ hasRow \in BOOLEAN /\ down \in BOOLEAN
         /\ orphaned \subseteq Inputs /\ Elements(queued) \subseteq Inputs
  <1>1. queued \in Seq(Inputs)
    BY DEF TypeOK, MapTypes
  <1>2. Elements(queued) \subseteq Inputs
    BY <1>1 DEF Elements
  <1>3. QED
    BY <1>1, <1>2 DEF TypeOK, MapTypes, TaskTypes, RowTypes, HistTypes

(* What is settled stays so, and neither a deletion nor a shutdown is undone.    *)
LEMMA SettledStays ==
  ASSUME TypeOK, [Next]_vars
  PROVE  /\ \A j \in Inputs : promoted[j] # 0 => promoted'[j] = promoted[j]
         /\ dropped \subseteq dropped' /\ failed \subseteq failed' /\ orphaned \subseteq orphaned'
         /\ \A j \in Inputs : Settled(j) => Settled(j)'
         /\ hasRow' => hasRow
         /\ down => down'
         /\ Gone => Gone'
  <1>1. \A j \in Inputs : promoted[j] # 0 => promoted'[j] = promoted[j]
    <2>1. CASE UNCHANGED promoted
      BY <2>1
    <2>2. ASSUME NEW i \in Inputs, Begin(i) PROVE \A j \in Inputs : promoted[j] # 0 => promoted'[j] = promoted[j]
      BY <2>2 DEF Begin, Pending, TypeOK, RowTypes
    <2>3. ASSUME NEW i \in Inputs, FoldSteers(i) PROVE \A j \in Inputs : promoted[j] # 0 => promoted'[j] = promoted[j]
      BY <2>3 DEF FoldSteers, Foldable, Pending
    <2>4. QED
      BY <2>1, <2>2, <2>3
      DEF Next, vars, CallStep, TurnStep, StreamStep, AwaitStep, rowVars, Lookup, Build, CheckCap,
          Admit, Enqueue, BeginFails, Boundary, StreamEnds, ToolRound, Ask, AwaitCancelled,
          AwaitAnswered, Panics, RouterParks, Settle, Abort, Reply, Evict, DeleteRows,
          RemoveSession, DeleteRoute, Shutdown
  <1>2. dropped \subseteq dropped' /\ failed \subseteq failed' /\ orphaned \subseteq orphaned'
    <2>1. CASE UNCHANGED <<dropped, failed, orphaned>>
      BY <2>1
    <2>2. CASE Abort \/ RemoveEntry
      BY <2>2 DEF Abort, RemoveEntry
    <2>3. ASSUME NEW i \in Inputs, BeginFails(i) PROVE dropped \subseteq dropped' /\ failed \subseteq failed' /\ orphaned \subseteq orphaned'
      BY <2>3 DEF BeginFails
    <2>4. QED
      BY <2>1, <2>2, <2>3
      DEF Next, vars, CallStep, TurnStep, StreamStep, AwaitStep, histVars, Lookup, Build, CheckCap,
          Admit, Enqueue, Begin, Boundary, FoldSteers, StreamEnds, ToolRound, Ask, AwaitCancelled,
          AwaitAnswered, Panics, RouterParks, Settle, Reply, Evict, DeleteRows,
          RemoveSession, DeleteRoute, Shutdown
  <1>3. (hasRow' => hasRow) /\ (down => down')
    <2>1. CASE UNCHANGED <<hasRow, down>>
      BY <2>1
    <2>2. CASE DeleteRows \/ Shutdown
      BY <2>2 DEF DeleteRows, Shutdown, mapVars, rowVars
    <2>3. QED
      BY <2>1, <2>2
      DEF Next, vars, CallStep, TurnStep, StreamStep, AwaitStep, mapVars, rowVars, Lookup, Build, CheckCap,
          Admit, Enqueue, Begin, BeginFails, Boundary, FoldSteers, StreamEnds, ToolRound, Ask, AwaitCancelled,
          AwaitAnswered, Panics, RouterParks, Settle, Abort, Reply, Evict,
          RemoveSession, DeleteRoute
  <1>4. QED
    BY <1>1, <1>2, <1>3 DEF Settled, Gone

(* The parts of the order that a step can disturb only where it is said.        *)
LEMMA RestOfOrder ==
  ASSUME TypeOK, DrainInv, RowOrder, WaitOrder, [Next]_vars, ~Shutdown,
         \A i \in Inputs : before'[i] = before[i] \/ Lookup(i),
         \A j \in Inputs : call[j] = "ok" => call'[j] = "ok",
         \A j \in Inputs : call[j] # "idle" => call'[j] # "idle",
         \A i \in Inputs \ Steers : promoted'[i] = promoted[i]
  PROVE  (SettledAtShutdown /\ SeenAccepted /\ AcceptedOrder)'
  <1>0. /\ before \in [Inputs -> SUBSET Inputs]
        /\ \A i \in Inputs : before'[i] = before[i] \/ (Lookup(i) /\ before'[i] = {j \in Inputs : call[j] = "ok"})
        /\ \A i \in Inputs : Lookup(i) => call[i] = "idle" /\ call'[i] # "idle" /\ ~down /\ UNCHANGED <<down, promoted>>
    BY WaitTypes DEF Lookup, CallTo, mapVars, rowVars
  <1>1. SeenAccepted'
    BY <1>0 DEF SeenAccepted, WaitOrder
  <1>2. SettledAtShutdown'
    <2> SUFFICES ASSUME hasRow', down', NEW i \in Inputs, NEW j \in before'[i] PROVE Settled(j)'
      BY DEF SettledAtShutdown
    <2>1. down
      BY DEF Next, vars, CallStep, TurnStep, StreamStep, AwaitStep, mapVars, Lookup, Build, CheckCap,
          Admit, Enqueue, Begin, BeginFails, Boundary, FoldSteers, StreamEnds, ToolRound, Ask, AwaitCancelled,
          AwaitAnswered, Panics, RouterParks, Settle, Abort, Reply, Evict, DeleteRows, RemoveSession, DeleteRoute
    <2>2. hasRow /\ before'[i] = before[i]
      BY <1>0, <2>1, SettledStays
    <2>3. Settled(j) /\ j \in Inputs
      BY <1>0, <2>1, <2>2 DEF WaitOrder, SettledAtShutdown
    <2>4. QED
      BY <2>3, SettledStays
  <1>3. AcceptedOrder'
    <2> SUFFICES ASSUME NEW i \in Inputs \ Steers, NEW j \in before'[i] \ (dropped' \cup failed' \cup orphaned'),
                        promoted'[i] # 0
                 PROVE  promoted'[j] # 0 /\ promoted'[j] < promoted'[i]
      BY DEF AcceptedOrder
    <2>1. promoted[i] # 0 /\ promoted'[i] = promoted[i]
      OBVIOUS
    <2>2. call[i] # "idle"
      BY <2>1, WaitTypes DEF RowOrder, Numbered
    <2>3. before'[i] = before[i]
      BY <1>0, <2>2
    <2>4. j \in Inputs /\ promoted[j] # 0 /\ promoted[j] < promoted[i]
      BY <1>0, <2>1, <2>3, SettledStays DEF WaitOrder, AcceptedOrder
    <2>5. QED
      BY <2>1, <2>4, SettledStays
  <1>4. QED
    BY <1>1, <1>2, <1>3

(* A step that leaves the queue alone, and takes an input out of the slot's      *)
(* first step only when it is settled.                                        *)
LEMMA QueueAlone ==
  ASSUME TypeOK, DrainInv, WaitOrder, [Next]_vars, UNCHANGED <<queued, orphaned>>,
         \A j \in Inputs : call'[j] = "ok" => call[j] = "ok",
         \A j \in Inputs : turn'[j] = "begin" => turn[j] = "begin",
         \A j \in Inputs : turn[j] = "begin" => turn'[j] = "begin" \/ Settled(j)' \/ Gone',
         \A i \in Inputs : before'[i] = before[i] \/ (i \notin Elements(queued) /\ turn[i] # "begin")
  PROVE  (NothingTorn /\ Accounted /\ Behind)'
  <1> SUFFICES ASSUME ~Gone' PROVE (NothingTorn /\ Accounted /\ Behind)'
    BY DEF NothingTorn, Accounted, Behind
  <1>0. ~Gone /\ \A j \in Inputs : Settled(j) => Settled(j)'
    BY SettledStays
  <1>1. NothingTorn'
    BY <1>0 DEF WaitOrder, NothingTorn
  <1>2. Accounted'
    BY <1>0 DEF WaitOrder, Accounted, Elements
  <1>3. Behind'
    <2> SUFFICES ASSUME NEW i \in Inputs \ Steers, NEW j \in before'[i], ~Settled(j)'
                 PROVE  turn'[i] # "begin" /\ (i \in Elements(queued) => Ahead(j, i)')
      BY DEF Behind, Elements
    <2>1. CASE before'[i] = before[i]
      <3>1. j \in Inputs /\ ~Settled(j)
        BY <1>0, <2>1, WaitTypes
      <3>2. turn[i] # "begin" /\ (i \in Elements(queued) => Ahead(j, i))
        BY <1>0, <2>1, <3>1 DEF WaitOrder, Behind
      <3>3. turn[j] = "begin" => turn'[j] = "begin"
        BY <3>1
      <3>4. Ahead(j, i) => Ahead(j, i)'
        BY <3>3 DEF Ahead
      <3>5. QED
        BY <3>2, <3>4
    <2>2. CASE i \notin Elements(queued) /\ turn[i] # "begin"
      BY <2>2
    <2>3. QED
      BY <2>1, <2>2
  <1>4. QED
    BY <1>1, <1>2, <1>3

LEMMA EmptyEntryStep ==
  ASSUME TypeOK, DrainInv, WaitOrder, [Next]_vars
  PROVE  EmptyEntry'
  <1>0. EmptyEntry /\ live \in BOOLEAN
    BY WaitTypes DEF WaitOrder
  <1>1. CASE UNCHANGED <<live, queued, active>>
    BY <1>0, <1>1 DEF EmptyEntry
  <1>2. ASSUME NEW i \in Inputs, Build(i) PROVE EmptyEntry'
    BY <1>0, <1>2 DEF Build, EmptyEntry, mapVars
  <1>3. ASSUME NEW i \in Inputs, Enqueue(i) \/ Settle(i) PROVE EmptyEntry'
    BY <1>0, <1>3 DEF Enqueue, Settle, EmptyEntry
  <1>4. CASE Abort \/ Evict \/ RemoveEntry
    BY <1>0, <1>4 DEF Abort, Evict, Idle, RemoveEntry, EmptyEntry
  <1>5. QED
    BY <1>1, <1>2, <1>3, <1>4
    DEF Next, vars, CallStep, TurnStep, StreamStep, AwaitStep, mapVars, Lookup, CheckCap,
        Admit, Begin, BeginFails, Boundary, FoldSteers, StreamEnds, ToolRound, Ask, AwaitCancelled,
        AwaitAnswered, Panics, RouterParks, Reply, DeleteRows, RemoveSession, DeleteRoute, Shutdown

LEMMA EnqueueInOrder ==
  ASSUME TypeOK, DrainInv, RowOrder, WaitOrder, NEW i \in Inputs, Enqueue(i)
  PROVE  (NothingTorn /\ Accounted /\ Behind)'
  <1>0. /\ UNCHANGED <<promoted, dropped, failed, orphaned, before, hasRow, down>>
        /\ call[i] = "enqueue" /\ call'[i] \in {"ok", "err"} /\ \A j \in Inputs \ {i} : call'[j] = call[j]
    BY WaitTypes DEF Enqueue, CallTo, rowVars, histVars
  <1>1. (\A j \in Inputs : Settled(j)' <=> Settled(j)) /\ (Gone' <=> Gone)
    BY <1>0 DEF Settled, Gone
  <1> SUFFICES ASSUME ~Gone PROVE (NothingTorn /\ Accounted /\ Behind)'
    BY <1>1 DEF NothingTorn, Accounted, Behind
  <1>2. NothingTorn'
    BY <1>0, <1>1 DEF WaitOrder, NothingTorn
  <1>3. orphaned = {} /\ \A j \in Inputs : turn[j] = "begin" => live /\ active = j
    BY DEF WaitOrder, NothingTorn, DrainInv, OneDrain, IsRunning, Running
  <1>4. \A k \in DOMAIN queued : queued[k] # i /\ k \in 1..Len(queued) /\ Len(queued) \in Nat
    BY <1>0, WaitTypes DEF DrainInv, QueuedWaits, Elements
  <1>5. turn[i] = "none"
    BY <1>0 DEF DrainInv, CallBeforeTurn
  <1>6. \A j \in before[i] : call[j] = "ok" /\ i # j /\ j \in Inputs
    BY WaitTypes DEF WaitOrder, SeenAccepted
  <1>7. CASE ~live
    <2>1. UNCHANGED <<queued, turn>> /\ call'[i] = "err"
      BY <1>7, WaitTypes DEF Enqueue, CallTo
    <2>2. Accounted'
      BY <1>0, <1>1, <2>1 DEF WaitOrder, Accounted, Elements
    <2>3. Behind'
      <3>1. \A j, k : Ahead(j, k)' <=> Ahead(j, k)
        BY <2>1 DEF Ahead
      <3>2. QED
        BY <1>0, <1>1, <2>1, <3>1, WaitTypes DEF WaitOrder, Behind, Elements
    <2>4. QED
      BY <1>2, <2>2, <2>3
  <1>8. CASE live /\ active # None
    <2>1. queued' = Append(queued, i) /\ turn' = turn
      BY <1>8 DEF Enqueue
    <2>2. /\ DOMAIN queued' = 1..Len(queued) + 1 /\ queued'[Len(queued) + 1] = i
          /\ \A k \in DOMAIN queued : k \in DOMAIN queued' /\ queued'[k] = queued[k] /\ k < Len(queued) + 1
          /\ \A k \in DOMAIN queued' : (k \in DOMAIN queued /\ queued'[k] = queued[k]) \/ k = Len(queued) + 1
      BY <2>1, WaitTypes
    <2>3. Len(queued) + 1 \in DOMAIN queued'
      BY <2>2, WaitTypes
    <2>4. \A j \in Elements(queued) : j \in Elements(queued')
      BY <2>2 DEF Elements
    <2>5. i \in Elements(queued') /\ \A j \in Elements(queued') : j = i \/ j \in Elements(queued)
      BY <2>2, <2>3 DEF Elements
    <2>6. Accounted'
      <3>1. \A j \in Inputs : call'[j] = "ok" => Settled(j) \/ j \in Elements(queued') \/ turn[j] = "begin"
        BY <1>0, <2>4, <2>5 DEF WaitOrder, Accounted
      <3>2. QED
        BY <1>1, <2>1, <3>1 DEF Accounted, Elements
    <2>7. Behind'
      <3> SUFFICES ASSUME NEW k \in Inputs \ Steers, NEW j \in before[k], ~Settled(j)
                   PROVE  turn[k] # "begin" /\ (k \in Elements(queued') => Ahead(j, k)')
        BY <1>0, <1>1, <2>1, WaitTypes DEF Behind, Elements
      <3>0. j \in Inputs
        BY WaitTypes
      <3>1. turn[k] # "begin" /\ (k \in Elements(queued) => Ahead(j, k))
        BY DEF WaitOrder, Behind
      <3>2. Ahead(j, k) => Ahead(j, k)'
        BY <2>1, <2>2 DEF Ahead
      <3>3. k = i => Ahead(j, k)'
        <4> SUFFICES ASSUME k = i, turn[j] # "begin" PROVE Ahead(j, i)'
          BY <2>1 DEF Ahead
        <4>1. j \in Elements(queued)
          BY <1>6 DEF WaitOrder, Accounted
        <4>2. QED
          BY <2>2, <2>3, <4>1 DEF Ahead, Elements
      <3>4. QED
        BY <2>5, <3>1, <3>2, <3>3
    <2>8. QED
      BY <1>2, <2>6, <2>7
  <1>9. CASE live /\ active = None
    <2>1. queued = <<>>
      BY <1>9 DEF DrainInv, FreeSlotNoWork
    <2>2. Head(Append(queued, i)) = i /\ Tail(Append(queued, i)) = <<>>
      BY <2>1
    <2>3. queued' = <<>> /\ turn'[i] = "begin" /\ \A j \in Inputs \ {i} : turn'[j] = turn[j]
      BY <1>9, <2>2, WaitTypes DEF Enqueue, Goto
    <2>4. \A j \in Inputs : call[j] = "ok" => Settled(j)
      BY <1>3, <1>9, <2>1, InputsAssumption DEF WaitOrder, Accounted, Elements
    <2>5. Accounted'
      BY <1>0, <1>1, <2>3, <2>4 DEF Accounted
    <2>6. Behind'
      <3>1. \A k \in Inputs : \A j \in before[k] : j \in Inputs /\ Settled(j)
        BY <2>4, WaitTypes DEF WaitOrder, SeenAccepted
      <3>2. QED
        BY <1>0, <1>1, <3>1 DEF Behind
    <2>7. QED
      BY <1>2, <2>5, <2>6
  <1>10. QED
    BY <1>7, <1>8, <1>9, WaitTypes

LEMMA SettleInOrder ==
  ASSUME TypeOK, DrainInv, RowOrder, WaitOrder, NEW i \in Inputs, Settle(i)
  PROVE  (NothingTorn /\ Accounted /\ Behind)'
  <1>0. UNCHANGED <<promoted, dropped, failed, orphaned, before, hasRow, down, call>> /\ turn[i] = "settle"
    BY DEF Settle, rowVars, histVars
  <1>1. (\A j \in Inputs : Settled(j)' <=> Settled(j)) /\ (Gone' <=> Gone)
    BY <1>0 DEF Settled, Gone
  <1> SUFFICES ASSUME ~Gone PROVE (NothingTorn /\ Accounted /\ Behind)'
    BY <1>1 DEF NothingTorn, Accounted, Behind
  <1>2. NothingTorn'
    BY <1>0, <1>1 DEF WaitOrder, NothingTorn
  <1>3. live /\ active = i /\ \A j \in Inputs : turn[j] # "begin"
    BY <1>0 DEF WaitOrder, NothingTorn, DrainInv, OneDrain, IsRunning, Running
  <1>4. CASE queued = <<>>
    <2>1. queued' = queued /\ \A j \in Inputs : turn'[j] # "begin"
      BY <1>3, <1>4, WaitTypes DEF Settle, Goto
    <2>2. \A j \in Inputs : call[j] = "ok" => Settled(j)
      BY <1>3, <1>4 DEF WaitOrder, Accounted, Elements
    <2>3. Accounted'
      BY <1>0, <1>1, <2>2 DEF Accounted
    <2>4. Behind'
      <3>1. \A k \in Inputs : \A j \in before[k] : j \in Inputs /\ Settled(j)
        BY <2>2, WaitTypes DEF WaitOrder, SeenAccepted
      <3>2. QED
        BY <1>0, <1>1, <3>1 DEF Behind
    <2>5. QED
      BY <1>2, <2>3, <2>4
  <1>5. CASE queued # <<>>
    <2> DEFINE h == Head(queued)
    <2>1. queued' = Tail(queued) /\ turn' = [turn EXCEPT ![i] = "done", ![h] = "begin"]
      BY <1>3, <1>5 DEF Settle
    <2>2. /\ Len(queued) \in Nat /\ 1 \in DOMAIN queued /\ h = queued[1] /\ h \in Inputs
          /\ \A k \in DOMAIN queued' : k \in Int /\ k + 1 \in DOMAIN queued /\ k + 1 # 1 /\ queued'[k] = queued[k + 1]
          /\ \A k \in DOMAIN queued : k \in Int /\ (k = 1 \/ (k > 1 /\ k - 1 \in DOMAIN queued' /\ queued'[k - 1] = queued[k]))
      <3>1. /\ queued \in Seq(Inputs) /\ Len(queued) \in Nat /\ DOMAIN queued = 1..Len(queued) /\ Len(queued) # 0
            /\ h = queued[1]
        BY <1>5, WaitTypes
      <3>2. /\ queued' \in Seq(Inputs) /\ Len(queued') = Len(queued) - 1
            /\ \A k \in 1..Len(queued') : queued'[k] = queued[k + 1]
        BY <1>5, <2>1, <3>1, HeadTailProperties
      <3>3. DOMAIN queued' = 1..Len(queued) - 1
        BY <3>2
      <3>4. \A k \in 1..Len(queued) - 1 : queued'[k] = queued[k + 1]
        BY <3>2
      <3>5. \A k \in DOMAIN queued' : k \in Int /\ k + 1 \in DOMAIN queued /\ k + 1 # 1 /\ queued'[k] = queued[k + 1]
        BY <3>1, <3>3, <3>4
      <3>6. ASSUME NEW k \in DOMAIN queued, k # 1 PROVE k > 1 /\ k - 1 \in DOMAIN queued' /\ queued'[k - 1] = queued[k]
        <4>1. k \in Int /\ k - 1 \in 1..Len(queued) - 1 /\ (k - 1) + 1 = k
          BY <3>1, <3>6
        <4>2. QED
          BY <3>3, <3>4, <4>1
      <3>7. QED
        BY <3>1, <3>5, <3>6
    <2>3. \A k, l \in DOMAIN queued : queued[k] = queued[l] => k = l
      BY DEF DrainInv, QueuedOnce
    <2> HIDE DEF h
    <2>4. h # i
      BY <1>0, <2>2 DEF DrainInv, QueuedWaits, Elements
    <2>5. turn'[h] = "begin" /\ \A j \in Inputs \ {h} : turn'[j] # "begin"
      BY <1>3, <2>1, <2>2, <2>4, WaitTypes
    <2>6. ASSUME NEW j \in Elements(queued) PROVE j = h \/ j \in Elements(queued')
      <3>1. PICK k \in DOMAIN queued : queued[k] = j
        BY DEF Elements
      <3>2. CASE k = 1
        BY <2>2, <3>1, <3>2
      <3>3. CASE k - 1 \in DOMAIN queued' /\ queued'[k - 1] = j
        BY <3>3 DEF Elements
      <3>4. QED
        BY <2>2, <3>1, <3>2, <3>3
    <2>7. \A j \in Elements(queued') : j # h /\ j \in Elements(queued)
      BY <2>2, <2>3 DEF Elements
    <2>8. Accounted'
      <3>1. \A j \in Inputs : call[j] = "ok" => Settled(j) \/ j \in Elements(queued') \/ turn'[j] = "begin"
        BY <1>3, <2>5, <2>6 DEF WaitOrder, Accounted
      <3>2. QED
        BY <1>0, <1>1, <3>1 DEF Accounted, Elements
    <2>9. Behind'
      <3> SUFFICES ASSUME NEW k \in Inputs \ Steers, NEW j \in before[k], ~Settled(j)
                   PROVE  turn'[k] # "begin" /\ (k \in Elements(queued') => Ahead(j, k)')
        BY <1>0, <1>1, WaitTypes DEF Behind, Elements
      <3>0. j \in Inputs
        BY WaitTypes
      <3>1. k \in Elements(queued) => \E a, b \in DOMAIN queued : queued[b] = j /\ queued[a] = k /\ b < a
        BY <1>3, <3>0 DEF WaitOrder, Behind, Ahead
      <3>2. k # h
        <4>1. h \in Elements(queued)
          BY <2>2 DEF Elements
        <4>2. QED
          BY <2>2, <2>3, <3>1, <4>1
      <3>3. ASSUME k \in Elements(queued') PROVE Ahead(j, k)'
        <4>1. PICK a \in DOMAIN queued, b \in DOMAIN queued : queued[b] = j /\ queued[a] = k /\ b < a
          BY <2>7, <3>1, <3>3
        <4>2. CASE b = 1
          BY <2>2, <2>5, <4>1, <4>2 DEF Ahead
        <4>3. CASE b # 1
          <5>1. a # 1 /\ a - 1 \in DOMAIN queued' /\ queued'[a - 1] = k /\ b - 1 \in DOMAIN queued' /\ queued'[b - 1] = j
            BY <2>2, <4>1, <4>3
          <5>2. b - 1 < a - 1
            BY <2>2, <4>1
          <5>3. QED
            BY <5>1, <5>2 DEF Ahead
        <4>4. QED
          BY <4>2, <4>3
      <3>4. QED
        BY <2>5, <3>2, <3>3
    <2>10. QED
      BY <1>2, <2>8, <2>9
  <1>6. QED
    BY <1>4, <1>5

LEMMA BeginInOrder ==
  ASSUME TypeOK, DrainInv, RowOrder, WaitOrder, NEW i \in Inputs, Begin(i)
  PROVE  (NothingTorn /\ Accounted /\ Behind /\ SettledAtShutdown /\ SeenAccepted /\ AcceptedOrder)'
  <1>0. /\ UNCHANGED <<queued, orphaned, dropped, failed, before, call, hasRow, down, admitted>>
        /\ turn[i] = "begin" /\ turn'[i] \in {"boundary", "settle"} /\ \A j \in Inputs \ {i} : turn'[j] = turn[j]
    BY WaitTypes DEF Begin, Goto, mapVars
  <1>1. [Next]_vars
    BY DEF Next, TurnStep
  <1>2. \A j \in Inputs : Settled(j) => Settled(j)'
    BY <1>1, SettledStays
  <1>3. call[i] = "ok" /\ admitted[i] # 0
    BY <1>0 DEF DrainInv, CallBeforeTurn, RowOrder, Numbered
  <1>4. CASE Pending(i)
    <2>1. /\ promoted'[i] = seq + 1 /\ \A j \in Inputs \ {i} : promoted'[j] = promoted[j]
          /\ promoted[i] = 0 /\ hasRow
      BY <1>4, WaitTypes DEF Begin, Pending
    <2>2. Settled(i)'
      BY <2>1, WaitTypes DEF Settled
    <2>3. ASSUME i \notin Steers, NEW j \in before[i] PROVE Settled(j) /\ j # i /\ j \in Inputs
      <3>1. j # i /\ j \in Inputs
        BY <2>3, WaitTypes DEF WaitOrder, SeenAccepted
      <3>2. CASE down
        BY <2>1, <2>3, <3>1, <3>2 DEF WaitOrder, SettledAtShutdown
      <3>3. CASE ~down
        BY <1>0, <2>1, <2>3, <3>1, <3>3 DEF WaitOrder, Behind, Gone
      <3>4. QED
        BY <3>1, <3>2, <3>3
    <2>4. AcceptedOrder'
      <3> SUFFICES ASSUME NEW k \in Inputs \ Steers, NEW j \in before[k] \ (dropped \cup failed \cup orphaned),
                          promoted'[k] # 0
                   PROVE  promoted'[j] # 0 /\ promoted'[j] < promoted'[k]
        BY <1>0 DEF AcceptedOrder
      <3>1. CASE k = i
        BY <2>1, <2>3, <3>1, WaitTypes DEF Settled, RowOrder, Numbered
      <3>2. CASE k # i
        <4>1. promoted[k] # 0 /\ promoted'[k] = promoted[k] /\ j \in Inputs
          BY <2>1, <3>2, WaitTypes
        <4>2. promoted[j] # 0 /\ promoted[j] < promoted[k]
          BY <4>1 DEF WaitOrder, AcceptedOrder
        <4>3. QED
          BY <2>1, <4>1, <4>2
      <3>3. QED
        BY <3>1, <3>2
    <2>5. (NothingTorn /\ Accounted /\ Behind)'
      BY <1>0, <1>1, <2>2, QueueAlone
    <2>6. (SettledAtShutdown /\ SeenAccepted)'
      BY <1>0, <1>2, WaitTypes DEF WaitOrder, SettledAtShutdown, SeenAccepted
    <2>7. QED
      BY <2>4, <2>5, <2>6
  <1>5. CASE ~Pending(i)
    <2>1. UNCHANGED promoted
      BY <1>5 DEF Begin
    <2>2. Settled(i)' \/ Gone'
      BY <1>0, <1>3, <1>5, <2>1 DEF Pending, Settled, Gone
    <2>3. (NothingTorn /\ Accounted /\ Behind)'
      BY <1>0, <1>1, <2>2, QueueAlone
    <2>4. (SettledAtShutdown /\ SeenAccepted /\ AcceptedOrder)'
      BY <1>0, <1>2, <2>1, WaitTypes DEF WaitOrder, SettledAtShutdown, SeenAccepted, AcceptedOrder
    <2>5. QED
      BY <2>3, <2>4
  <1>6. QED
    BY <1>4, <1>5

LEMMA AbortInOrder ==
  ASSUME TypeOK, DrainInv, WaitOrder, Abort
  PROVE  (NothingTorn /\ Accounted /\ Behind)'
  <1>0. /\ UNCHANGED <<orphaned, failed, before, call, hasRow, down, promoted, turn>>
        /\ queued' = <<>> /\ dropped' = dropped \cup Waiting
    BY DEF Abort, rowVars
  <1>1. \A j \in Elements(queued) : Settled(j)'
    BY <1>0 DEF Waiting, Settled
  <1>2. \A j : Settled(j) => Settled(j)'
    BY <1>0 DEF Settled
  <1>3. NothingTorn'
    BY <1>0 DEF WaitOrder, NothingTorn, Gone
  <1>4. Accounted'
    BY <1>0, <1>1, <1>2 DEF WaitOrder, Accounted, Gone
  <1>5. Behind'
    <2> SUFFICES ASSUME ~Gone, NEW k \in Inputs \ Steers, NEW j \in before[k], ~Settled(j)'
                 PROVE  turn[k] # "begin"
      BY <1>0 DEF Behind, Elements, Gone
    <2>1. QED
      BY <1>2 DEF WaitOrder, Behind
  <1>6. QED
    BY <1>3, <1>4, <1>5

LEMMA BuildInOrder ==
  ASSUME TypeOK, DrainInv, WaitOrder, NEW i \in Inputs, Build(i)
  PROVE  (NothingTorn /\ Accounted /\ Behind)'
  <1>1. queued' = queued
    BY WaitTypes DEF Build, mapVars, WaitOrder, EmptyEntry
  <1>2. /\ UNCHANGED <<orphaned, before, turn>> /\ call[i] = "build" /\ call'[i] = "cap"
        /\ \A j \in Inputs \ {i} : call'[j] = call[j]
    BY WaitTypes DEF Build, CallTo, turnVars, histVars
  <1>3. [Next]_vars
    BY DEF Next, CallStep
  <1>4. QED
    BY <1>1, <1>2, <1>3, QueueAlone

LEMMA ShutdownInOrder ==
  ASSUME TypeOK, DrainInv, WaitOrder, Shutdown
  PROVE  (NothingTorn /\ Accounted /\ Behind /\ SettledAtShutdown /\ SeenAccepted /\ AcceptedOrder)'
  <1>0. /\ UNCHANGED <<failed, before, call, hasRow, promoted, turn>>
        /\ down' = TRUE /\ down = FALSE
        /\ dropped' = dropped \cup Waiting
        /\ orphaned' = orphaned \cup {j \in Inputs : IsRunning(j)}
    BY WaitTypes DEF Shutdown, RemoveEntry, rowVars
  <1>1. (NothingTorn /\ Accounted /\ Behind)'
    BY <1>0 DEF NothingTorn, Accounted, Behind, Gone
  <1>2. SettledAtShutdown'
    <2> SUFFICES ASSUME hasRow, NEW i \in Inputs, NEW j \in before[i] PROVE Settled(j)'
      BY <1>0 DEF SettledAtShutdown
    <2>1. j \in Inputs /\ call[j] = "ok"
      BY WaitTypes DEF WaitOrder, SeenAccepted
    <2>2. Settled(j) \/ j \in Elements(queued) \/ turn[j] = "begin"
      BY <1>0, <2>1 DEF WaitOrder, Accounted, Gone
    <2>3. QED
      BY <1>0, <2>1, <2>2 DEF Settled, Waiting, IsRunning, Running
  <1>3. (SeenAccepted /\ AcceptedOrder)'
    BY <1>0 DEF WaitOrder, SeenAccepted, AcceptedOrder
  <1>4. QED
    BY <1>1, <1>2, <1>3

LEMMA WaitOrderStep ==
  ASSUME TypeOK, DrainInv, RowOrder, WaitOrder, [Next]_vars
  PROVE  WaitOrder'
  <1>0. /\ call \in [Inputs -> CallSteps] /\ turn \in [Inputs -> TurnSteps] /\ before \in [Inputs -> SUBSET Inputs]
        /\ EmptyEntry'
    BY WaitTypes, EmptyEntryStep
  <1> USE DEF WaitOrder
  <1>1. ASSUME (NothingTorn /\ Accounted /\ Behind)', ~Shutdown, UNCHANGED promoted,
               \A i \in Inputs : before'[i] = before[i] \/ Lookup(i),
               \A j \in Inputs : call[j] = "ok" => call'[j] = "ok",
               \A j \in Inputs : call[j] # "idle" => call'[j] # "idle"
        PROVE  WaitOrder'
    BY <1>0, <1>1, RestOfOrder
  <1>2. ASSUME NEW i \in Inputs, Lookup(i) PROVE WaitOrder'
    <2>1. UNCHANGED <<queued, orphaned, promoted, turn, down>> /\ ~down
      BY <1>2 DEF Lookup, mapVars, rowVars, turnVars
    <2>2. /\ call[i] = "idle" /\ call'[i] \in {"cap", "build", "err"} /\ \A j \in Inputs \ {i} : call'[j] = call[j]
          /\ \A j \in Inputs \ {i} : before'[j] = before[j]
      BY <1>0, <1>2 DEF Lookup, CallTo
    <2>3. i \notin Elements(queued) /\ turn[i] # "begin"
      BY <2>2 DEF DrainInv, QueuedWaits, CallBeforeTurn
    <2>4. (NothingTorn /\ Accounted /\ Behind)'
      BY <2>1, <2>2, <2>3, QueueAlone
    <2>5. ~Shutdown
      BY <2>1 DEF Shutdown
    <2>6. QED
      BY <1>1, <1>2, <2>1, <2>2, <2>4, <2>5
  <1>3. ASSUME NEW i \in Inputs, CheckCap(i) \/ Admit(i) PROVE WaitOrder'
    <2>1. UNCHANGED <<queued, orphaned, promoted, turn, down, before>>
      BY <1>3 DEF CheckCap, Admit, mapVars, rowVars, turnVars, histVars
    <2>2. call[i] \in {"cap", "admit"} /\ call'[i] \in {"admit", "err", "enqueue"} /\ \A j \in Inputs \ {i} : call'[j] = call[j]
      BY <1>0, <1>3 DEF CheckCap, Admit, CallTo
    <2>3. (NothingTorn /\ Accounted /\ Behind)'
      BY <2>1, <2>2, QueueAlone
    <2>4. ~Shutdown
      BY <2>1 DEF Shutdown
    <2>5. QED
      BY <1>1, <2>1, <2>2, <2>3, <2>4
  <1>4. ASSUME NEW i \in Inputs, Build(i) PROVE WaitOrder'
    <2>1. UNCHANGED <<promoted, before, down>> /\ call[i] = "build" /\ call'[i] = "cap" /\ \A j \in Inputs \ {i} : call'[j] = call[j]
      BY <1>0, <1>4 DEF Build, CallTo, mapVars, rowVars, histVars
    <2>2. ~Shutdown
      BY <2>1 DEF Shutdown
    <2>3. QED
      BY <1>1, <1>4, <2>1, <2>2, BuildInOrder
  <1>5. ASSUME NEW i \in Inputs, Enqueue(i) PROVE WaitOrder'
    <2>1. /\ UNCHANGED <<promoted, before, down>> /\ call[i] = "enqueue" /\ call'[i] \in {"ok", "err"}
          /\ \A j \in Inputs \ {i} : call'[j] = call[j]
      BY <1>0, <1>5 DEF Enqueue, CallTo, rowVars, histVars
    <2>2. ~Shutdown
      BY <2>1 DEF Shutdown
    <2>3. QED
      BY <1>1, <1>5, <2>1, <2>2, EnqueueInOrder
  <1>6. ASSUME NEW i \in Inputs, BeginFails(i) PROVE WaitOrder'
    <2>1. /\ UNCHANGED <<queued, orphaned, promoted, before, call, down, hasRow, admitted>>
          /\ turn[i] = "begin" /\ turn'[i] = "settle" /\ \A j \in Inputs \ {i} : turn'[j] = turn[j]
          /\ failed' = IF Pending(i) THEN failed \cup {i} ELSE failed
      BY <1>0, <1>6 DEF BeginFails, Goto, mapVars, rowVars
    <2>2. admitted[i] # 0
      BY <2>1 DEF DrainInv, CallBeforeTurn, RowOrder, Numbered
    <2>3. Settled(i)' \/ Gone'
      BY <2>1, <2>2 DEF Pending, Settled, Gone
    <2>4. (NothingTorn /\ Accounted /\ Behind)'
      BY <2>1, <2>3, QueueAlone
    <2>5. ~Shutdown
      BY <2>1 DEF Shutdown
    <2>6. QED
      BY <1>1, <2>1, <2>4, <2>5
  <1>7. ASSUME NEW i \in Inputs, Boundary(i) \/ StreamStep(i) \/ AwaitStep(i) \/ Panics(i) PROVE WaitOrder'
    <2>1. /\ UNCHANGED <<queued, orphaned, promoted, before, call, down>>
          /\ turn[i] # "begin" /\ turn'[i] # "begin" /\ \A j \in Inputs \ {i} : turn'[j] = turn[j]
      BY <1>0, <1>7 DEF Boundary, StreamStep, AwaitStep, StreamEnds, ToolRound, Ask, AwaitCancelled,
                        AwaitAnswered, Panics, Goto, mapVars, rowVars, histVars
    <2>2. (NothingTorn /\ Accounted /\ Behind)'
      BY <2>1, QueueAlone
    <2>3. ~Shutdown
      BY <2>1 DEF Shutdown
    <2>4. QED
      BY <1>1, <2>1, <2>2, <2>3
  <1>8. ASSUME NEW i \in Inputs, FoldSteers(i) PROVE WaitOrder'
    <2>1. /\ UNCHANGED <<queued, orphaned, before, call, down>>
          /\ turn[i] = "fold" /\ turn'[i] = "stream" /\ \A j \in Inputs \ {i} : turn'[j] = turn[j]
      BY <1>0, <1>8 DEF FoldSteers, Goto, mapVars
    <2>2. \A j \in Inputs \ Steers : promoted'[j] = promoted[j]
      BY <1>8 DEF FoldSteers, Foldable
    <2>3. (NothingTorn /\ Accounted /\ Behind)'
      BY <2>1, QueueAlone
    <2>4. ~Shutdown
      BY <2>1 DEF Shutdown
    <2>5. QED
      BY <1>0, <2>1, <2>2, <2>3, <2>4, RestOfOrder
  <1>9. ASSUME NEW i \in Inputs, Settle(i) PROVE WaitOrder'
    <2>1. UNCHANGED <<promoted, before, down, call>>
      BY <1>9 DEF Settle, rowVars, histVars
    <2>2. ~Shutdown
      BY <1>9 DEF Settle, Shutdown, IsRunning, RemoveEntry, WaitOrder, NothingTorn
    <2>3. QED
      BY <1>1, <1>9, <2>1, <2>2, SettleInOrder
  <1>10. CASE UNCHANGED <<queued, orphaned, promoted, turn, down, call, before>>
    <2>1. (NothingTorn /\ Accounted /\ Behind)'
      BY <1>10, QueueAlone
    <2>2. CASE ~Shutdown
      BY <1>1, <1>10, <2>1, <2>2
    <2>3. CASE Shutdown
      BY <1>0, <2>3, ShutdownInOrder
    <2>4. QED
      BY <2>2, <2>3
  <1>11. CASE Abort
    <2>1. UNCHANGED <<promoted, before, call>> /\ ~Shutdown
      BY <1>11 DEF Abort, rowVars, Shutdown
    <2>2. QED
      BY <1>1, <1>11, <2>1, AbortInOrder
  <1>12. CASE RemoveSession \/ DeleteRoute
    <2>1. UNCHANGED <<promoted, before, call, down>> /\ ~hasRow /\ ~hasRow'
      BY <1>12 DEF RemoveSession, DeleteRoute, Deleted, RemoveEntry, rowVars
    <2>2. (NothingTorn /\ Accounted /\ Behind)'
      BY <2>1 DEF NothingTorn, Accounted, Behind, Gone
    <2>3. CASE ~Shutdown
      BY <1>1, <2>1, <2>2, <2>3
    <2>4. CASE Shutdown
      BY <1>0, <2>4, ShutdownInOrder
    <2>5. QED
      BY <2>3, <2>4
  <1>13. CASE Shutdown
    BY <1>0, <1>13, ShutdownInOrder
  <1>14. QED
    <2>1. ASSUME NEW i \in Inputs, RouterParks(i) PROVE WaitOrder'
      BY <1>10, <2>1 DEF RouterParks, rowVars, histVars
    <2>2. ASSUME NEW i \in Inputs, Begin(i) PROVE WaitOrder'
      BY <1>0, <2>2, BeginInOrder
    <2>3. CASE Reply \/ Evict \/ DeleteRows
      <3>1. UNCHANGED <<queued, orphaned, promoted, turn, down, call, before>>
        BY <2>3 DEF Reply, Evict, DeleteRows, mapVars, rowVars, turnVars, histVars
      <3>2. QED
        BY <1>10, <3>1
    <2>4. CASE UNCHANGED vars
      BY <1>10, <2>4 DEF vars, mapVars, rowVars, turnVars, histVars
    <2>5. QED
      BY <1>2, <1>3, <1>4, <1>5, <1>6, <1>7, <1>8, <1>9, <1>11, <1>12, <1>13, <2>1, <2>2, <2>3, <2>4
      DEF Next, CallStep, TurnStep

LEMMA OrderAtStart == Init => RowOrder /\ WaitOrder
  <1> SUFFICES ASSUME Init PROVE RowOrder /\ WaitOrder
    OBVIOUS
  <1>1. RowOrder
    BY DEF Init, RowOrder, Numbered, Distinct, Opened, Folded, ChainInAdmissionOrder, Activity
  <1>2. WaitOrder
    BY DEF Init, WaitOrder, NothingTorn, EmptyEntry, Accounted, SettledAtShutdown, SeenAccepted, Behind,
           AcceptedOrder, Gone, Elements
  <1>3. QED
    BY <1>1, <1>2

(* Prompts become messages in the order in which clients saw them accepted, and   *)
(* the messages of one activity stand in the order in which they were admitted.  *)
THEOREM PromptsInOrder == Spec => []PromptOrder
  <1>1. Init => RowOrder /\ WaitOrder
    BY OrderAtStart
  <1>2. TypeOK /\ DrainInv /\ RowOrder /\ WaitOrder /\ [Next]_vars => (RowOrder /\ WaitOrder)'
    BY RowOrderStep, WaitOrderStep
  <1>3. RowOrder /\ WaitOrder => PromptOrder
    BY DEF RowOrder, WaitOrder, PromptOrder
  <1>4. QED
    BY <1>1, <1>2, <1>3, TypeCorrect, DrainInvariant, PTL DEF Spec

-----------------------------------------------------------------------------
(* The inbox that is promised to clients.                                    *)

(* Messages by number, and the place of each of them.                         *)
Messages(f)   == {j \in Inputs : f[j] # 0}
PlaceIn(f, i) == Cardinality({j \in Inputs : 0 < f[j] /\ f[j] <= f[i]})

LEMMA PlacesOf ==
  ASSUME NEW f \in [Inputs -> Nat], NEW i \in Inputs
  PROVE  PlaceIn(f, i) \in 0..Cardinality(Inputs) /\ (PlaceIn(f, i) = 0 <=> f[i] = 0)
  <1> DEFINE S == {j \in Inputs : 0 < f[j] /\ f[j] <= f[i]}
  <1>1. S \in SUBSET Inputs
    OBVIOUS
  <1>2. IsFiniteSet(S) /\ Cardinality(S) <= Cardinality(Inputs) /\ Cardinality(S) \in Nat /\ Cardinality(Inputs) \in Nat
    BY <1>1, InputsAssumption, FS_Subset, FS_CardinalityType
  <1>3. S = {} <=> f[i] = 0
    <2>1. f[i] # 0 => i \in S
      OBVIOUS
    <2>2. f[i] = 0 => S = {}
      OBVIOUS
    <2>3. QED
      BY <2>1, <2>2
  <1>4. Cardinality(S) = 0 <=> f[i] = 0
    BY <1>2, <1>3, FS_EmptySet
  <1>5. PlaceIn(f, i) = Cardinality(S)
    BY DEF PlaceIn
  <1> HIDE DEF S
  <1>6. QED
    BY <1>2, <1>4, <1>5

(* New messages, numbered above all others, take the next places, and leave the   *)
(* others where they are.                                                     *)
LEMMA PlacesAdded ==
  ASSUME NEW f \in [Inputs -> Nat], NEW g \in [Inputs -> Nat], NEW S \in SUBSET Inputs, NEW n \in Nat,
         \A j \in Inputs : f[j] <= n,
         \A s \in S : f[s] = 0 /\ g[s] > n,
         \A j \in Inputs \ S : g[j] = f[j],
         \A s, t \in S : g[s] = g[t] => s = t
  PROVE  /\ \A j \in Inputs \ S : PlaceIn(g, j) = PlaceIn(f, j)
         /\ {PlaceIn(g, s) : s \in S} =
              Cardinality(Messages(f)) + 1 .. Cardinality(Messages(f)) + Cardinality(S)
         /\ Cardinality(Messages(f)) \in Nat
  <1> DEFINE M == Messages(f)
             h == [s \in S |-> g[s]]
             c == Cardinality(M)
  <1>0. \A j \in Inputs : f[j] \in Nat /\ g[j] \in Nat
    OBVIOUS
  <1>1. IsFiniteSet(M) /\ IsFiniteSet(S) /\ c \in Nat /\ Cardinality(S) \in Nat
    <2>1. M \in SUBSET Inputs
      BY DEF Messages
    <2>2. QED
      BY <2>1, InputsAssumption, FS_Subset, FS_CardinalityType
  <1>2. ASSUME NEW j \in Inputs \ S PROVE PlaceIn(g, j) = PlaceIn(f, j)
    <2>1. {k \in Inputs : 0 < g[k] /\ g[k] <= g[j]} = {k \in Inputs : 0 < f[k] /\ f[k] <= f[j]}
      <3>1. ASSUME NEW k \in Inputs PROVE (0 < g[k] /\ g[k] <= g[j]) <=> (0 < f[k] /\ f[k] <= f[j])
        <4>1. CASE k \in S
          BY <1>0, <4>1
        <4>2. CASE k \notin S
          BY <4>2
        <4>3. QED
          BY <4>1, <4>2
      <3>2. QED
        BY <3>1
    <2>2. QED
      BY <2>1 DEF PlaceIn
  <1>3. ASSUME NEW s \in S PROVE PlaceIn(g, s) = c + RankIn(S, h, s) /\ RankIn(S, h, s) \in Nat
    <2> DEFINE T == {t \in S : h[t] <= h[s]}
    <2>1. {k \in Inputs : 0 < g[k] /\ g[k] <= g[s]} = M \cup T
      <3>1. ASSUME NEW k \in Inputs PROVE (0 < g[k] /\ g[k] <= g[s]) <=> (k \in M \/ k \in T)
        <4>1. CASE k \in S
          BY <1>0, <4>1 DEF Messages
        <4>2. CASE k \notin S
          <5>1. g[k] = f[k] /\ f[k] <= n /\ g[s] > n
            BY <4>2
          <5>2. QED
            BY <1>0, <4>2, <5>1 DEF Messages
        <4>3. QED
          BY <4>1, <4>2
      <3>2. M \cup T \subseteq Inputs
        BY DEF Messages
      <3> HIDE DEF M, T
      <3>3. QED
        BY <3>1, <3>2
    <2>2. M \cap T = {}
      BY DEF Messages
    <2>3. T \in SUBSET S
      OBVIOUS
    <2>4. IsFiniteSet(T) /\ Cardinality(T) \in Nat
      BY <1>1, <2>3, FS_Subset, FS_CardinalityType
    <2>5. RankIn(S, h, s) = Cardinality(T)
      BY DEF RankIn
    <2>6. PlaceIn(g, s) = Cardinality(M \cup T)
      BY <2>1 DEF PlaceIn
    <2> HIDE DEF M, T
    <2>7. Cardinality(M \cup T) = Cardinality(M) + Cardinality(T)
      <3>1. Cardinality(M \cup T) = Cardinality(M) + Cardinality(T) - Cardinality(M \cap T)
        BY <1>1, <2>4, FS_Union
      <3>2. Cardinality(M \cap T) = 0
        BY <2>2, FS_EmptySet
      <3>3. QED
        BY <1>1, <2>4, <3>1, <3>2
    <2>8. QED
      BY <2>4, <2>5, <2>6, <2>7
  <1>4. h \in [S -> Nat] /\ \A s, t \in S : h[s] = h[t] => s = t
    OBVIOUS
  <1> HIDE DEF M, h, c
  <1>5. /\ \A s \in S : RankIn(S, h, s) \in 1..Cardinality(S)
        /\ \A m \in 1..Cardinality(S) : \E s \in S : RankIn(S, h, s) = m
    BY <1>1, <1>4, RanksOf
  <1>6. {PlaceIn(g, s) : s \in S} = c + 1 .. c + Cardinality(S)
    <2>1. ASSUME NEW s \in S PROVE PlaceIn(g, s) \in c + 1 .. c + Cardinality(S)
      BY <1>1, <1>3, <1>5
    <2>2. ASSUME NEW p \in c + 1 .. c + Cardinality(S) PROVE \E s \in S : PlaceIn(g, s) = p
      <3>1. p - c \in 1..Cardinality(S) /\ p \in Int
        BY <1>1
      <3>2. PICK s \in S : RankIn(S, h, s) = p - c
        BY <1>5, <3>1
      <3>3. QED
        BY <1>1, <1>3, <3>1, <3>2
    <2>3. QED
      BY <2>1, <2>2
  <1>7. QED
    BY <1>1, <1>2, <1>6 DEF M, c

LEMMA PlaceIs ==
  /\ \A i \in Inputs : Place[i] = PlaceIn(promoted, i)
  /\ \A i \in Inputs : Place'[i] = PlaceIn(promoted', i)
  /\ Place = [i \in Inputs |-> PlaceIn(promoted, i)]
  /\ Place' = [i \in Inputs |-> PlaceIn(promoted', i)]
  BY DEF Place, PlaceIn

(* The instance has the same Cardinality under a name of its own.            *)
LEMMA SameCardinality == \A S : Inbox!Cardinality(S) = Cardinality(S)
  BY DEF Inbox!Cardinality, Cardinality

LEMMA PlacedIs ==
  ASSUME TypeOK
  PROVE  Inbox!Placed = Messages(promoted)
  <1>1. \A i \in Inputs : Place[i] # 0 <=> promoted[i] # 0
    BY PlaceIs, PlacesOf DEF TypeOK, RowTypes
  <1>2. QED
    BY <1>1 DEF Inbox!Placed, Messages

LEMMA InboxInit == Init => Inbox!Init
  <1> SUFFICES ASSUME Init PROVE Inbox!Init
    OBVIOUS
  <1>1. promoted \in [Inputs -> Nat] /\ \A i \in Inputs : promoted[i] = 0
    BY DEF Init
  <1>2. Place = [i \in Inputs |-> 0]
    BY <1>1, PlaceIs, PlacesOf
  <1>3. QED
    BY <1>2 DEF Init, Inbox!Init

(* The session is neither deleted nor shut down.                              *)
Kept == hasRow /\ ~down

LEMMA KeptStep ==
  ASSUME MayForce = FALSE, Kept, [Next]_vars
  PROVE  Kept'
  <1>1. CASE UNCHANGED <<hasRow, down>>
    BY <1>1 DEF Kept
  <1>2. CASE DeleteRows \/ Shutdown
    BY <1>2 DEF DeleteRows, Shutdown
  <1>3. QED
    BY <1>1, <1>2
    DEF Next, vars, CallStep, TurnStep, StreamStep, AwaitStep, mapVars, rowVars, Lookup, Build, CheckCap,
        Admit, Enqueue, Begin, BeginFails, Boundary, FoldSteers, StreamEnds, ToolRound, Ask, AwaitCancelled,
        AwaitAnswered, Panics, RouterParks, Settle, Abort, Reply, Evict, RemoveSession, DeleteRoute

LEMMA PlaceStays ==
  ASSUME UNCHANGED promoted
  PROVE  UNCHANGED Place
  BY PlaceIs DEF Place

LEMMA EnqueueAccepts ==
  ASSUME TypeOK, DrainInv, NEW i \in Inputs, Enqueue(i)
  PROVE  [Inbox!Next]_(Inbox!vars)
  <1>1. UNCHANGED Place /\ call[i] = "enqueue"
    BY PlaceStays DEF Enqueue, rowVars
  <1>2. turn[i] = "none" /\ \A k \in DOMAIN queued : queued[k] # i
    BY <1>1 DEF DrainInv, CallBeforeTurn, QueuedWaits, Elements
  <1>3. CASE ~live
    BY <1>1, <1>3 DEF Enqueue, Inbox!vars
  <1>4. CASE live /\ active # None
    <2>1. i # active
      BY <1>2, <1>4 DEF DrainInv, SlotHasDrain, IsRunning, IsDead, Running
    <2>2. queued' = Append(queued, i) /\ active' = active
      BY <1>4 DEF Enqueue
    <2>3. QED
      BY <1>1, <1>2, <1>4, <2>1, <2>2 DEF Inbox!Next, Inbox!Accept
  <1>5. CASE live /\ active = None
    <2>1. queued = <<>>
      BY <1>5 DEF DrainInv, FreeSlotNoWork
    <2>2. Head(Append(queued, i)) = i /\ Tail(Append(queued, i)) = <<>>
      BY <2>1
    <2>3. queued' = queued /\ active' = i /\ i # None
      BY <1>5, <2>1, <2>2, InputsAssumption DEF Enqueue
    <2>4. QED
      BY <1>1, <1>2, <1>5, <2>3 DEF Inbox!Next, Inbox!Accept
  <1>6. QED
    BY <1>3, <1>4, <1>5, WaitTypes

(* A running turn owns the slot.                                              *)
LEMMA RunningIsOpen ==
  ASSUME DrainInv, WaitOrder, Kept, NEW i \in Inputs, IsRunning(i)
  PROVE  live /\ active = i /\ active # None
  BY InputsAssumption DEF DrainInv, OneDrain, Kept, WaitOrder, NothingTorn, Gone

LEMMA BeginSays ==
  ASSUME TypeOK, DrainInv, RowOrder, WaitOrder, Kept, NEW i \in Inputs, Begin(i)
  PROVE  [Inbox!Next]_(Inbox!vars)
  <1>1. active = i /\ active # None /\ UNCHANGED <<queued, active>>
    BY RunningIsOpen DEF Begin, IsRunning, Running, mapVars
  <1>2. CASE ~Pending(i)
    BY <1>1, <1>2, PlaceStays DEF Begin, Inbox!vars
  <1>3. CASE Pending(i)
    <2>1. /\ promoted \in [Inputs -> Nat] /\ promoted' \in [Inputs -> Nat] /\ seq \in Nat
          /\ promoted[i] = 0 /\ promoted'[i] = seq + 1 /\ \A j \in Inputs \ {i} : promoted'[j] = promoted[j]
          /\ \A j \in Inputs : promoted[j] <= seq
      BY <1>3 DEF Begin, Pending, TypeOK, RowTypes, RowOrder, Numbered
    <2>2. /\ \A j \in Inputs \ {i} : PlaceIn(promoted', j) = PlaceIn(promoted, j)
          /\ {PlaceIn(promoted', s) : s \in {i}} =
               Cardinality(Messages(promoted)) + 1 .. Cardinality(Messages(promoted)) + Cardinality({i})
          /\ Cardinality(Messages(promoted)) \in Nat
      <3>1. {i} \in SUBSET Inputs /\ \A s, t \in {i} : promoted'[s] = promoted'[t] => s = t
        OBVIOUS
      <3>2. \A s \in {i} : promoted[s] = 0 /\ promoted'[s] > seq
        BY <2>1
      <3>3. QED
        BY <2>1, <3>1, <3>2, PlacesAdded
    <2>3. PlaceIn(promoted', i) = Cardinality(Messages(promoted)) + 1
      <3>1. Cardinality({i}) = 1
        BY FS_Singleton
      <3>2. PlaceIn(promoted', i) \in {PlaceIn(promoted', s) : s \in {i}}
        OBVIOUS
      <3>3. QED
        BY <2>2, <3>1, <3>2
    <2>4. Place[i] = 0
      BY <2>1, PlaceIs, PlacesOf
    <2>5. Place' = [Place EXCEPT ![i] = Cardinality(Inbox!Placed) + 1]
      BY <2>2, <2>3, PlaceIs, PlacedIs
    <2>6. QED
      BY <1>1, <2>4, <2>5, SameCardinality DEF Inbox!Next, Inbox!Say
  <1>4. QED
    BY <1>2, <1>3

LEMMA FoldSteersIn ==
  ASSUME TypeOK, DrainInv, RowOrder, WaitOrder, Kept, NEW i \in Inputs, FoldSteers(i)
  PROVE  [Inbox!Next]_(Inbox!vars)
  <1> DEFINE S == Foldable(i)
  <1>1. active = i /\ active # None /\ UNCHANGED <<queued, active>>
    BY RunningIsOpen DEF FoldSteers, IsRunning, Running, mapVars
  <1>2. /\ opener[i] = i /\ S \subseteq Inputs /\ Cardinality(S) \in Nat
        /\ \A s \in S : s \in Steers /\ promoted[s] = 0
        /\ \A s \in Inputs \ S : promoted'[s] = promoted[s]
        /\ \A s \in S : promoted'[s] \in seq + 1 .. seq'
        /\ \A s, t \in S : admitted[s] < admitted[t] => promoted'[s] < promoted'[t]
        /\ \A s \in S : admitted[s] > admitted[i]
    BY FoldOf
  <1> HIDE DEF S
  <1>3. /\ promoted \in [Inputs -> Nat] /\ seq \in Nat /\ admitted \in [Inputs -> Nat]
        /\ seq' \in Nat /\ promoted' \in [Inputs -> Nat] /\ promoted[i] # 0
        /\ \A j \in Inputs : promoted[j] <= seq
    BY <1>2, FoldTypes, InputsAssumption DEF TypeOK, RowTypes, RowOrder, Numbered
  <1>4. /\ \A j \in Inputs \ S : PlaceIn(promoted', j) = PlaceIn(promoted, j)
        /\ {PlaceIn(promoted', s) : s \in S} =
             Cardinality(Messages(promoted)) + 1 .. Cardinality(Messages(promoted)) + Cardinality(S)
    <2>1. \A s \in S : promoted[s] = 0 /\ promoted'[s] > seq
      BY <1>2, <1>3
    <2>2. ASSUME NEW s \in S, NEW t \in S, promoted'[s] = promoted'[t] PROVE s = t
      <3>1. s \in Inputs /\ t \in Inputs /\ admitted[s] \in Nat /\ admitted[t] \in Nat /\ admitted[i] \in Nat
        BY <1>2, <1>3
      <3>2. ~(admitted[s] < admitted[t]) /\ ~(admitted[t] < admitted[s])
        BY <1>2, <1>3, <2>2, <3>1
      <3>3. admitted[s] = admitted[t] /\ admitted[s] # 0
        BY <1>2, <3>1, <3>2
      <3>4. QED
        BY <3>1, <3>3 DEF RowOrder, Distinct
    <2>3. S \in SUBSET Inputs
      BY <1>2
    <2>4. QED
      BY <1>2, <1>3, <2>1, <2>2, <2>3, PlacesAdded
  <1>5. Place[i] # 0
    BY <1>3, PlaceIs, PlacesOf
  <1>6. S \in SUBSET (Steers \ Inbox!Placed)
    BY <1>2, PlacedIs DEF Messages
  <1>7. Place' \in [Inputs -> 0..Cardinality(Inputs)] /\ \A j \in Inputs \ S : Place'[j] = Place[j]
    BY <1>3, <1>4, PlaceIs, PlacesOf
  <1>8. {Place'[s] : s \in S} =
          Cardinality(Inbox!Placed) + 1 .. Cardinality(Inbox!Placed) + Cardinality(S)
    <2>1. {Place'[s] : s \in S} = {PlaceIn(promoted', s) : s \in S}
      BY <1>2, PlaceIs
    <2>2. QED
      BY <1>4, <2>1, PlacedIs
  <1>9. QED
    BY <1>1, <1>5, <1>6, <1>7, <1>8, SameCardinality DEF Inbox!Next, Inbox!Steer

LEMMA InboxStep ==
  ASSUME TypeOK, DrainInv, RowOrder, WaitOrder, Kept, Kept', [Next]_vars
  PROVE  [Inbox!Next]_(Inbox!vars)
  <1>1. ASSUME UNCHANGED <<queued, active, promoted>> PROVE [Inbox!Next]_(Inbox!vars)
    BY <1>1, PlaceStays DEF Inbox!vars
  <1>2. ASSUME NEW i \in Inputs, Build(i) PROVE [Inbox!Next]_(Inbox!vars)
    <2>1. UNCHANGED <<queued, active, promoted>>
      BY <1>2, WaitTypes DEF Build, mapVars, rowVars, WaitOrder, EmptyEntry
    <2>2. QED
      BY <1>1, <2>1
  <1>3. ASSUME NEW i \in Inputs, Settle(i) PROVE [Inbox!Next]_(Inbox!vars)
    <2>1. live /\ active = i /\ active # None /\ UNCHANGED Place
      BY <1>3, RunningIsOpen, PlaceStays DEF Settle, IsRunning, Running, rowVars
    <2>2. \/ queued = <<>> /\ active' = None /\ queued' = queued
          \/ queued # <<>> /\ active' = Head(queued) /\ queued' = Tail(queued)
      BY <1>3, <2>1 DEF Settle
    <2>3. QED
      BY <2>1, <2>2 DEF Inbox!Next, Inbox!Close
  <1>4. CASE Abort
    BY <1>4, PlaceStays DEF Abort, rowVars, Inbox!Next, Inbox!Abort
  <1>5. CASE RemoveSession \/ DeleteRoute \/ Shutdown \/ DeleteRows
    BY <1>5 DEF RemoveSession, DeleteRoute, Shutdown, DeleteRows, Deleted, Kept
  <1>6. ASSUME NEW i \in Inputs,
               \/ Lookup(i) \/ CheckCap(i) \/ Admit(i) \/ BeginFails(i) \/ Boundary(i)
               \/ StreamStep(i) \/ AwaitStep(i) \/ Panics(i) \/ RouterParks(i)
        PROVE  UNCHANGED <<queued, active, promoted>>
    BY <1>6 DEF Lookup, CheckCap, Admit, BeginFails, Boundary, StreamStep, StreamEnds, ToolRound, Ask,
                AwaitStep, AwaitCancelled, AwaitAnswered, Panics, RouterParks, mapVars, rowVars
  <1>7. CASE Reply \/ Evict \/ UNCHANGED vars
    <2>1. UNCHANGED <<queued, active, promoted>>
      BY <1>7 DEF Reply, Evict, vars, mapVars, rowVars
    <2>2. QED
      BY <1>1, <2>1
  <1>8. QED
    BY <1>1, <1>2, <1>3, <1>4, <1>5, <1>6, <1>7, EnqueueAccepts, BeginSays, FoldSteersIn
    DEF Next, CallStep, TurnStep

(* The coordinator implements the inbox its clients are promised: as long as the   *)
(* session is neither deleted nor shut down, every step of a call, a turn, the    *)
(* router, an abort, an eviction or a rebuild is one of SessionInbox's steps or   *)
(* changes nothing of it.                                                    *)
THEOREM InboxImplemented == Spec /\ []Kept => ImplementsInbox
  <1>1. Init => RowOrder /\ WaitOrder /\ Inbox!Init
    BY OrderAtStart, InboxInit
  <1>2. TypeOK /\ DrainInv /\ RowOrder /\ WaitOrder /\ [Next]_vars => (RowOrder /\ WaitOrder)'
    BY RowOrderStep, WaitOrderStep
  <1>3. TypeOK /\ DrainInv /\ RowOrder /\ WaitOrder /\ Kept /\ Kept' /\ [Next]_vars
          => [Inbox!Next]_(Inbox!vars)
    BY InboxStep
  <1>4. QED
    BY <1>1, <1>2, <1>3, TypeCorrect, DrainInvariant, PTL DEF Spec, ImplementsInbox, Inbox!Spec

(* A session that nobody may delete or shut down always keeps that promise.      *)
THEOREM InboxKept == MayForce = FALSE => (Spec => ImplementsInbox)
  <1> SUFFICES ASSUME MayForce = FALSE PROVE Spec => ImplementsInbox
    OBVIOUS
  <1>1. Init => Kept
    BY DEF Init, Kept
  <1>2. Kept /\ [Next]_vars => Kept'
    BY KeptStep
  <1>3. Spec => []Kept
    BY <1>1, <1>2, PTL DEF Spec
  <1>4. QED
    BY <1>3, InboxImplemented
================================================================================
