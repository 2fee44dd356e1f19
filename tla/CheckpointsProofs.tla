--------------------------- MODULE CheckpointsProofs ---------------------------
(***************************************************************************)
(* What a turn leaves behind: the snapshots of the workspace (Checkpoints) and *)
(* the row of the answer (ProviderStream).                                    *)
(*                                                                         *)
(* For any files and contents, any number of operations at once and any      *)
(* failures of them: a snapshot nothing interfered with is the workspace it was *)
(* taken of, a restore nothing interfered with does exactly what it should; a   *)
(* revert has stored what it replaces, and an unrevert brings it back.          *)
(*                                                                         *)
(* For any answer of any provider, cut into chunks in any way, and broken off,  *)
(* garbled or aborted anywhere: the row that is stored is the answer, or a      *)
(* beginning of it, and a turn that came to its end is charged for it.         *)
(***************************************************************************)
EXTENDS Checkpoints, ProviderStream, FiniteSetTheorems, TLAPS

-----------------------------------------------------------------------------
(* Types.                                                                    *)

(* Row numbers are given out once.                                            *)
Numbered == \A r \in rows : r.id <= stored
Types    == TypeOK /\ Numbered

LEMMA BoundsTypes ==
  /\ MaxRows \in Nat /\ MaxEdits \in Nat
  /\ Small \cap Large = {} /\ Absent \notin Small \cup Large /\ Turn \notin Calls
  /\ Empty \in Tree /\ Empty \in Workspace /\ Idle \in Ops
  <1>1. /\ MaxRows \in Nat /\ MaxEdits \in Nat
        /\ Small \cap Large = {} /\ Absent \notin Small \cup Large /\ Turn \notin Calls
    BY ContentsAssumption, BoundsAssumption
  <1>2. Empty \in Tree /\ Empty \in Workspace
    BY DEF Empty, Tree, Workspace
  <1>3. Idle \in Ops
    BY <1>1, <1>2 DEF Idle, Ops, Kinds, OfTurn
  <1>4. QED
    BY <1>1, <1>2, <1>3

(* What the fields of an operation are.                                      *)
LEMMA FieldTypes ==
  ASSUME TypeOK, NEW a \in Actors
  PROVE  /\ op[a] \in Ops /\ op[a].kind \in Kinds /\ op[a].undo \in BOOLEAN
         /\ op[a].target \in Tree /\ op[a].row \in 0..MaxRows /\ op[a].tree \in Tree
         /\ op[a].todo \subseteq Files /\ op[a].doomed \subseteq Files
  <1>1. op[a] \in Ops
    BY DEF TypeOK
  <1>2. QED
    BY <1>1 DEF Ops

LEMMA RowTypes ==
  ASSUME TypeOK, NEW r \in rows
  PROVE  r \in Row /\ r.id \in RowIds /\ r.id \in 1..MaxRows /\ r.kind \in Kinds /\ r.tree \in Tree
  <1>1. r \in Row
    BY DEF TypeOK
  <1>2. QED
    BY <1>1 DEF Row, RowIds

(* An operation that changes keeps the rest of the record.                    *)
LEMMA OpTypes ==
  ASSUME TypeOK, NEW a \in Actors, NEW x \in Ops, op' = [op EXCEPT ![a] = x]
  PROVE  op' \in [Actors -> Ops] /\ op'[a] = x /\ \A b \in Actors \ {a} : op'[b] = op[b]
  BY DEF TypeOK

LEMMA StagedType ==
  ASSUME TypeOK, NEW a \in Actors, NEW f \in Files
  PROVE  Staged(a, f) \in Small \cup {Absent}
  BY FieldTypes DEF Staged, IsLarge, TypeOK, Workspace, Tree

(* What an operation becomes at each of its steps.                            *)
Tracks(a, kind, target, own) ==
  [pc |-> "track", kind |-> kind, undo |-> FALSE, target |-> target, row |-> own, tree |-> index, todo |-> Files,
   doomed |-> {}]
Undoes(r) == [Idle EXCEPT !.pc = "restore", !.undo = TRUE, !.target = r.tree, !.row = r.id, !.todo = Files]
At(a, pc) == [op[a] EXCEPT !.pc = pc]
Restores(a) == [op[a] EXCEPT !.pc = "restore", !.tree = Empty, !.todo = Files]
Visited(a, f) == [op[a] EXCEPT !.todo = @ \ {f}]
Looked(a, f) == [op[a] EXCEPT !.todo = @ \ {f}, !.doomed = {g \in {f} : ws[g] \in Small}]
Removed(a) == [op[a] EXCEPT !.doomed = {}]
TrackedAt(a, f) == [op[a] EXCEPT !.tree[f] = Staged(a, f), !.todo = @ \ {f}]

PCs == {"idle", "track", "record", "restore", "note", "drop", "clear"}

LEMMA Records ==
  ASSUME TypeOK, NEW a \in Actors, NEW f \in Files
  PROVE  /\ \A pc \in PCs :
              /\ At(a, pc) \in Ops /\ At(a, pc).pc = pc /\ At(a, pc).kind = op[a].kind
              /\ At(a, pc).undo = op[a].undo /\ At(a, pc).target = op[a].target
              /\ At(a, pc).row = op[a].row /\ At(a, pc).tree = op[a].tree /\ At(a, pc).todo = op[a].todo
              /\ At(a, pc).doomed = op[a].doomed
         /\ Restores(a) \in Ops /\ Restores(a).pc = "restore" /\ Restores(a).undo = op[a].undo
         /\ Restores(a).target = op[a].target /\ Restores(a).todo = Files /\ Restores(a).doomed = op[a].doomed
         /\ Visited(a, f) \in Ops /\ Visited(a, f).pc = op[a].pc /\ Visited(a, f).undo = op[a].undo
         /\ Visited(a, f).target = op[a].target /\ Visited(a, f).todo = op[a].todo \ {f}
         /\ Visited(a, f).kind = op[a].kind /\ Visited(a, f).doomed = op[a].doomed
         /\ Looked(a, f) \in Ops /\ Looked(a, f).pc = op[a].pc /\ Looked(a, f).undo = op[a].undo
         /\ Looked(a, f).target = op[a].target /\ Looked(a, f).todo = op[a].todo \ {f}
         /\ Looked(a, f).kind = op[a].kind /\ Looked(a, f).doomed = {g \in {f} : ws[g] \in Small}
         /\ Removed(a) \in Ops /\ Removed(a).pc = op[a].pc /\ Removed(a).undo = op[a].undo
         /\ Removed(a).target = op[a].target /\ Removed(a).todo = op[a].todo
         /\ Removed(a).kind = op[a].kind /\ Removed(a).doomed = {}
         /\ TrackedAt(a, f) \in Ops /\ TrackedAt(a, f).pc = op[a].pc /\ TrackedAt(a, f).undo = op[a].undo
         /\ TrackedAt(a, f).kind = op[a].kind
         /\ TrackedAt(a, f).todo = op[a].todo \ {f} /\ TrackedAt(a, f).doomed = op[a].doomed
         /\ TrackedAt(a, f).tree = [op[a].tree EXCEPT ![f] = Staged(a, f)]
  <1>0. op[a] \in Ops /\ op[a].tree \in Tree /\ op[a].todo \subseteq Files
    BY FieldTypes
  <1>1. ASSUME NEW pc \in PCs
        PROVE  /\ At(a, pc) \in Ops /\ At(a, pc).pc = pc /\ At(a, pc).kind = op[a].kind
               /\ At(a, pc).undo = op[a].undo /\ At(a, pc).target = op[a].target
               /\ At(a, pc).row = op[a].row /\ At(a, pc).tree = op[a].tree /\ At(a, pc).todo = op[a].todo
               /\ At(a, pc).doomed = op[a].doomed
    BY <1>0, <1>1 DEF At, Ops, PCs
  <1>2. /\ Restores(a) \in Ops /\ Restores(a).pc = "restore" /\ Restores(a).undo = op[a].undo
        /\ Restores(a).target = op[a].target /\ Restores(a).todo = Files /\ Restores(a).doomed = op[a].doomed
    BY <1>0, BoundsTypes DEF Restores, Ops
  <1>3. /\ Visited(a, f) \in Ops /\ Visited(a, f).pc = op[a].pc /\ Visited(a, f).undo = op[a].undo
        /\ Visited(a, f).target = op[a].target /\ Visited(a, f).todo = op[a].todo \ {f}
        /\ Visited(a, f).kind = op[a].kind /\ Visited(a, f).doomed = op[a].doomed
    BY <1>0 DEF Visited, Ops
  <1>7. /\ Looked(a, f) \in Ops /\ Looked(a, f).pc = op[a].pc /\ Looked(a, f).undo = op[a].undo
        /\ Looked(a, f).target = op[a].target /\ Looked(a, f).todo = op[a].todo \ {f}
        /\ Looked(a, f).kind = op[a].kind /\ Looked(a, f).doomed = {g \in {f} : ws[g] \in Small}
    BY <1>0 DEF Looked, Ops
  <1>8. /\ Removed(a) \in Ops /\ Removed(a).pc = op[a].pc /\ Removed(a).undo = op[a].undo
        /\ Removed(a).target = op[a].target /\ Removed(a).todo = op[a].todo
        /\ Removed(a).kind = op[a].kind /\ Removed(a).doomed = {}
    BY <1>0 DEF Removed, Ops
  <1>4. [op[a].tree EXCEPT ![f] = Staged(a, f)] \in Tree
    BY <1>0, StagedType DEF Tree
  <1>5. /\ TrackedAt(a, f) \in Ops /\ TrackedAt(a, f).pc = op[a].pc /\ TrackedAt(a, f).undo = op[a].undo
        /\ TrackedAt(a, f).kind = op[a].kind
        /\ TrackedAt(a, f).todo = op[a].todo \ {f} /\ TrackedAt(a, f).doomed = op[a].doomed
        /\ TrackedAt(a, f).tree = [op[a].tree EXCEPT ![f] = Staged(a, f)]
    BY <1>0, <1>4 DEF TrackedAt, Ops
  <1>6. QED
    BY <1>1, <1>2, <1>3, <1>5, <1>7, <1>8

LEMMA TracksTypes ==
  ASSUME TypeOK, NEW a, NEW kind \in Kinds, NEW target \in Tree, NEW own \in 0..MaxRows
  PROVE  /\ Tracks(a, kind, target, own) \in Ops /\ Tracks(a, kind, target, own).pc = "track"
         /\ Tracks(a, kind, target, own).kind = kind /\ ~Tracks(a, kind, target, own).undo
         /\ Tracks(a, kind, target, own).todo = Files /\ Tracks(a, kind, target, own).doomed = {}
  BY DEF Tracks, Ops, TypeOK

LEMMA UndoesTypes ==
  ASSUME TypeOK, NEW r \in rows
  PROVE  /\ Undoes(r) \in Ops /\ Undoes(r).pc = "restore" /\ Undoes(r).undo
         /\ Undoes(r).target = r.tree /\ Undoes(r).todo = Files /\ Undoes(r).doomed = {}
  <1>1. r.tree \in Tree /\ r.id \in 0..MaxRows
    BY RowTypes
  <1>2. Empty \in Tree
    BY BoundsTypes
  <1>3. QED
    BY <1>1, <1>2 DEF Undoes, Idle, Ops, Kinds, OfTurn

(* One operation moves: the others stay where they are.                       *)
Moves(a, x) == op' = [op EXCEPT ![a] = x]

LEMMA Shapes ==
  ASSUME TypeOK, NEW a \in Actors
  PROVE  /\ TrackFile(a) => \E f \in op[a].todo : f \in Files /\ Moves(a, TrackedAt(a, f))
         /\ TrackEnds(a) => Moves(a, At(a, "record"))
         /\ BeginRestore(a) => Moves(a, Restores(a))
         /\ CheckoutFile(a) =>
              \E f \in op[a].todo : /\ f \in Files /\ op[a].target[f] # Absent
                                    /\ ws' = [ws EXCEPT ![f] = op[a].target[f]] /\ Moves(a, Visited(a, f))
         /\ LooksAt(a) =>
              \E f \in op[a].todo : f \in Files /\ op[a].target[f] = Absent /\ Moves(a, Looked(a, f))
         /\ RemoveFile(a) =>
              \E f \in op[a].doomed : /\ f \in Files /\ ws' = [ws EXCEPT ![f] = Absent] /\ Moves(a, Removed(a))
         /\ RestoreEnds(a) => Moves(a, At(a, IF op[a].undo THEN "drop" ELSE "note"))
         /\ Drop(a) => Moves(a, At(a, "clear"))
         /\ Unrevert(a) => \E r \in Newest({"revert_backup"}) : r \in rows /\ index' = r.tree /\ Moves(a, Undoes(r))
         /\ Revert(a) => \E r \in Newest(OfTurn) : r \in rows /\ Moves(a, Tracks(a, "revert_backup", r.tree, r.id))
         /\ Finish(a) => Moves(a, Idle)
  <1>0. op \in [Actors -> Ops] /\ op[a].todo \subseteq Files /\ op[a].doomed \subseteq Files /\ op[a] \in Ops
    BY FieldTypes DEF TypeOK
  <1>1. TrackFile(a) => \E f \in op[a].todo : f \in Files /\ Moves(a, TrackedAt(a, f))
    BY <1>0 DEF TrackFile, Moves, TrackedAt, Ops
  <1>2. TrackEnds(a) => Moves(a, At(a, "record"))
    BY <1>0 DEF TrackEnds, Moves, At
  <1>3. BeginRestore(a) => Moves(a, Restores(a))
    BY <1>0 DEF BeginRestore, Moves, Restores, Ops
  <1>4. CheckoutFile(a) =>
          \E f \in op[a].todo : /\ f \in Files /\ op[a].target[f] # Absent
                                /\ ws' = [ws EXCEPT ![f] = op[a].target[f]] /\ Moves(a, Visited(a, f))
    BY <1>0 DEF CheckoutFile, Moves, Visited
  <1>5. LooksAt(a) =>
          \E f \in op[a].todo : f \in Files /\ op[a].target[f] = Absent /\ Moves(a, Looked(a, f))
    BY <1>0 DEF LooksAt, CheckedOut, Moves, Looked, Ops
  <1>12. RemoveFile(a) =>
           \E f \in op[a].doomed : /\ f \in Files /\ ws' = [ws EXCEPT ![f] = Absent] /\ Moves(a, Removed(a))
    BY <1>0 DEF RemoveFile, Moves, Removed
  <1>6. RestoreEnds(a) => Moves(a, At(a, IF op[a].undo THEN "drop" ELSE "note"))
    BY <1>0 DEF RestoreEnds, Moves, At
  <1>7. Drop(a) => Moves(a, At(a, "clear"))
    BY <1>0 DEF Drop, Moves, At
  <1>8. Unrevert(a) => \E r \in Newest({"revert_backup"}) : r \in rows /\ index' = r.tree /\ Moves(a, Undoes(r))
    BY <1>0 DEF Unrevert, Moves, Undoes, Newest
  <1>9. Revert(a) => \E r \in Newest(OfTurn) : r \in rows /\ Moves(a, Tracks(a, "revert_backup", r.tree, r.id))
    BY <1>0 DEF Revert, TrackFrom, Moves, Tracks, Newest
  <1>10. Finish(a) => Moves(a, Idle)
    BY DEF Finish, Moves
  <1>11. QED
    BY <1>1, <1>2, <1>3, <1>4, <1>5, <1>6, <1>7, <1>8, <1>9, <1>10, <1>12

(* What an operation keeps of its beginning at each of its stages.             *)
StageOK(a) ==
    /\ op[a].pc = "track" => ~op[a].undo
    /\ op[a].pc = "record" => op[a].todo = {} /\ ~op[a].undo
    /\ op[a].pc \in {"drop", "note"} => op[a].todo = {}
    /\ op[a].pc = "drop" => op[a].undo
    /\ op[a].pc # "restore" => op[a].doomed = {}
    /\ a = Turn /\ op[a].pc # "idle" => op[a].kind \in OfTurn
    /\ a \in Calls /\ op[a].pc \in {"track", "record"} => op[a].kind = "revert_backup"
Stages == \A a \in Actors : StageOK(a)

LEMMA StagesStep == TypeOK /\ Stages /\ [Next]_vars => Stages'
  <1> SUFFICES ASSUME TypeOK, Stages, [Next]_vars PROVE Stages'
    OBVIOUS
  <1>1. ASSUME NEW a \in Actors, NEW x \in Ops, Moves(a, x),
               /\ x.pc = "track" => ~x.undo
               /\ x.pc = "record" => x.todo = {} /\ ~x.undo
               /\ x.pc \in {"drop", "note"} => x.todo = {}
               /\ x.pc = "drop" => x.undo
               /\ x.pc # "restore" => x.doomed = {}
               /\ a = Turn /\ x.pc # "idle" => x.kind \in OfTurn
               /\ a \in Calls /\ x.pc \in {"track", "record"} => x.kind = "revert_backup"
        PROVE  Stages'
    <2>1. op'[a] = x /\ \A b \in Actors \ {a} : op'[b] = op[b]
      BY <1>1 DEF Moves, TypeOK
    <2>2. StageOK(a)'
      BY <1>1, <2>1 DEF StageOK
    <2>3. \A b \in Actors \ {a} : StageOK(b)'
      BY <2>1 DEF StageOK, Stages
    <2>4. QED
      BY <2>2, <2>3 DEF Stages
  <1>2. CASE TurnStart \/ PreStep \/ PostStep
    <2>1. PICK kind \in OfTurn : Checkpoint(kind)
      BY <1>2 DEF TurnStart, PreStep, PostStep, OfTurn
    <2>2. Turn \in Actors /\ kind \in Kinds /\ Empty \in Tree /\ 0 \in 0..MaxRows /\ Turn \notin Calls
      BY BoundsTypes DEF Actors, Kinds
    <2>3. Moves(Turn, Tracks(Turn, kind, Empty, 0))
      BY <2>1 DEF Checkpoint, TrackFrom, Moves, Tracks
    <2> DEFINE x == Tracks(Turn, kind, Empty, 0)
    <2>4. x \in Ops /\ x.pc = "track" /\ x.kind = kind /\ ~x.undo /\ x.doomed = {}
      BY <2>2, TracksTypes
    <2>5. Moves(Turn, x)
      BY <2>3
    <2> HIDE DEF x
    <2>6. QED
      BY <1>1, <2>2, <2>4, <2>5
  <1>3. ASSUME NEW c \in Calls, Revert(c) PROVE Stages'
    <2>0. c \in Actors /\ c # Turn
      BY BoundsTypes DEF Actors
    <2>1. PICK target \in Tree, own \in 0..MaxRows : Moves(c, Tracks(c, "revert_backup", target, own))
      <3>1. PICK r \in rows : Moves(c, Tracks(c, "revert_backup", r.tree, r.id))
        BY <1>3, <2>0, Shapes
      <3>2. r.tree \in Tree /\ r.id \in 0..MaxRows
        BY RowTypes
      <3>3. QED
        BY <3>1, <3>2
    <2>2. "revert_backup" \in Kinds
      BY DEF Kinds
    <2> DEFINE x == Tracks(c, "revert_backup", target, own)
    <2>3. x \in Ops /\ x.pc = "track" /\ x.kind = "revert_backup" /\ ~x.undo /\ x.doomed = {}
      BY <2>0, <2>2, TracksTypes
    <2>4. Moves(c, x)
      BY <2>1
    <2> HIDE DEF x
    <2>5. QED
      BY <1>1, <2>0, <2>3, <2>4
  <1>4. ASSUME NEW c \in Calls, Unrevert(c) PROVE Stages'
    <2>0. c \in Actors /\ c # Turn
      BY BoundsTypes DEF Actors
    <2>1. PICK r \in rows : Moves(c, Undoes(r))
      BY <1>4, <2>0, Shapes
    <2>2. QED
      BY <1>1, <2>0, <2>1, UndoesTypes
  <1>5. ASSUME NEW a \in Actors, TrackFile(a) PROVE Stages'
    <2>1. PICK f \in Files : Moves(a, TrackedAt(a, f))
      BY <1>5, Shapes
    <2>2. StageOK(a) /\ op[a].pc = "track"
      BY <1>5 DEF Stages, TrackFile
    <2> DEFINE x == TrackedAt(a, f)
    <2>3. x \in Ops /\ x.pc = "track" /\ x.undo = op[a].undo /\ x.kind = op[a].kind /\ x.doomed = op[a].doomed
      BY <2>2, Records
    <2>4. /\ ~op[a].undo /\ op[a].doomed = {} /\ (a = Turn => op[a].kind \in OfTurn)
          /\ (a \in Calls => op[a].kind = "revert_backup")
      BY <2>2 DEF StageOK
    <2>5. Moves(a, x)
      BY <2>1
    <2> HIDE DEF x
    <2>6. QED
      BY <1>1, <2>3, <2>4, <2>5
  <1>6. ASSUME NEW a \in Actors, NEW pc \in PCs, Moves(a, At(a, pc)),
               \/ op[a].pc = "track" /\ pc = "record" /\ op[a].todo = {}
               \/ op[a].pc = "restore" /\ op[a].todo = {} /\ op[a].doomed = {} /\ pc = (IF op[a].undo THEN "drop" ELSE "note")
               \/ op[a].pc = "drop" /\ pc = "clear"
        PROVE  Stages'
    <2>1. /\ At(a, pc) \in Ops /\ At(a, pc).pc = pc /\ At(a, pc).kind = op[a].kind
          /\ At(a, pc).undo = op[a].undo /\ At(a, pc).todo = op[a].todo /\ At(a, pc).doomed = op[a].doomed
      BY FieldTypes DEF At, Ops, PCs
    <2>2. StageOK(a)
      BY DEF Stages
    <2>3. QED
      BY <1>1, <1>6, <2>1, <2>2 DEF StageOK
  <1>7. ASSUME NEW a \in Actors, TrackEnds(a) PROVE Stages'
    BY <1>6, <1>7, Shapes DEF TrackEnds, PCs
  <1>8. ASSUME NEW c \in Calls, BeginRestore(c) PROVE Stages'
    <2>0. c \in Actors /\ c # Turn
      BY BoundsTypes DEF Actors
    <2>1. Restores(c) \in Ops /\ Restores(c).pc = "restore"
      BY <2>0, FieldTypes, BoundsTypes DEF Restores, Ops
    <2>2. QED
      BY <1>1, <1>8, <2>0, <2>1, Shapes
  <1>9. ASSUME NEW c \in Calls, CheckoutFile(c) \/ LooksAt(c) \/ RemoveFile(c) PROVE Stages'
    <2>0. c \in Actors /\ c # Turn
      BY BoundsTypes DEF Actors
    <2>1. PICK f \in Files : Moves(c, Visited(c, f)) \/ Moves(c, Looked(c, f)) \/ Moves(c, Removed(c))
      BY <1>9, <2>0, Shapes
    <2>2. op[c].pc = "restore"
      BY <1>9 DEF CheckoutFile, LooksAt, RemoveFile
    <2>3. /\ Visited(c, f) \in Ops /\ Visited(c, f).pc = "restore"
          /\ Looked(c, f) \in Ops /\ Looked(c, f).pc = "restore"
          /\ Removed(c) \in Ops /\ Removed(c).pc = "restore"
      BY <2>0, <2>2, Records
    <2>4. QED
      BY <1>1, <2>0, <2>1, <2>3
  <1>10. ASSUME NEW c \in Calls, RestoreEnds(c) \/ Drop(c) PROVE Stages'
    <2>0. c \in Actors /\ op[c].undo \in BOOLEAN
      BY FieldTypes DEF Actors
    <2>1. QED
      BY <1>6, <1>10, <2>0, Shapes DEF RestoreEnds, Drop, PCs
  <1>11. ASSUME NEW a \in Actors, Finish(a) PROVE Stages'
    <2>1. Idle \in Ops /\ Idle.pc = "idle" /\ Idle.doomed = {}
      BY BoundsTypes DEF Idle
    <2>2. QED
      BY <1>1, <1>11, <2>1, Shapes
  <1>12. CASE UNCHANGED op
    BY <1>12 DEF Stages, StageOK
  <1>13. QED
    BY <1>2, <1>3, <1>4, <1>5, <1>7, <1>8, <1>9, <1>10, <1>11, <1>12
    DEF Next, Actors, vars, Edit, Fails, Record, TrackFails, Backup, Note, Clear

LEMMA BeginsTypes ==
  ASSUME TypeOK, NEW a \in Actors, Begins(a)
  PROVE  before' \in [Actors -> Workspace] /\ alone' \subseteq Actors
  BY DEF Begins, TypeOK

LEMMA FinishTypes ==
  ASSUME TypeOK, NEW a \in Actors, Finish(a)
  PROVE  before' \in [Actors -> Workspace] /\ alone' \subseteq Actors /\ op' \in [Actors -> Ops]
  <1>1. op' \in [Actors -> Ops]
    BY BoundsTypes DEF Finish, TypeOK
  <1>2. before' \in [Actors -> Workspace] /\ alone' \subseteq Actors
    BY BoundsTypes DEF Finish, TypeOK
  <1>3. QED
    BY <1>1, <1>2

LEMMA StoreTypes ==
  ASSUME Types, NEW a \in Actors, Store(a)
  PROVE  /\ rows' \subseteq Row /\ stored' \in 0..MaxRows /\ truth' \in [RowIds -> SUBSET Workspace]
         /\ \A r, s \in rows' : r.id = s.id => r = s
         /\ \A r \in rows' : r.id <= stored'
         /\ stored' = stored + 1
  <1> DEFINE new == [id |-> stored + 1, kind |-> op[a].kind, tree |-> op[a].tree]
  <1>0. stored \in 0..MaxRows /\ MaxRows \in Nat /\ stored < MaxRows /\ stored' = stored + 1
        /\ rows' = rows \cup {new} /\ rows \subseteq Row
    BY BoundsTypes DEF Types, TypeOK, Store
  <1>1. stored + 1 \in RowIds /\ stored' \in 0..MaxRows
    BY <1>0 DEF RowIds
  <1>2. new \in Row /\ new.id = stored + 1
    BY <1>1, FieldTypes DEF Row, Types
  <1>3. \A r \in rows : r.id \in Nat /\ r.id <= stored
    BY <1>0, RowTypes DEF Types, Numbered
  <1>4. truth' \in [RowIds -> SUBSET Workspace]
    <2>1. before[a] \in Workspace
      BY DEF Types, TypeOK
    <2>2. (IF a \in alone THEN {before[a]} ELSE {}) \in SUBSET Workspace
      BY <2>1
    <2>3. QED
      BY <2>2 DEF Store, Types, TypeOK
  <1> HIDE DEF new
  <1>5. \A r, s \in rows' : r.id = s.id => r = s
    BY <1>0, <1>2, <1>3 DEF Types, TypeOK
  <1>6. \A r \in rows' : r.id <= stored'
    BY <1>0, <1>2, <1>3
  <1>7. QED
    BY <1>0, <1>1, <1>2, <1>4, <1>5, <1>6

LEMMA TypesStep == Types /\ Stages /\ [Next]_vars => Types'
  <1> SUFFICES ASSUME Types, Stages, [Next]_vars PROVE Types'
    OBVIOUS
  <1>0. TypeOK
    BY DEF Types
  <1> USE DEF Types
  <1>1. ASSUME NEW a \in Actors, NEW x \in Ops, Moves(a, x) PROVE op' \in [Actors -> Ops]
    BY <1>0, <1>1 DEF Moves, TypeOK
  <1>2. ASSUME NEW f \in Files, Edit(f) PROVE Types'
    <2>1. ws' \in Workspace
      BY <1>0, <1>2 DEF Edit, TypeOK, Workspace
    <2>2. edits' \in 0..MaxEdits
      BY <1>0, <1>2, BoundsTypes DEF Edit, TypeOK
    <2>3. QED
      BY <1>2, <2>1, <2>2 DEF Edit, TypeOK, Numbered
  <1>3. CASE TurnStart \/ PreStep \/ PostStep
    <2>1. PICK kind \in OfTurn : Checkpoint(kind)
      BY <1>3 DEF TurnStart, PreStep, PostStep, OfTurn
    <2>2. Turn \in Actors /\ kind \in Kinds /\ Empty \in Tree /\ 0 \in 0..MaxRows
      BY BoundsTypes DEF Actors, Kinds
    <2>3. op' \in [Actors -> Ops]
      BY <1>0, <1>1, <2>1, <2>2, TracksTypes DEF Checkpoint, TrackFrom, Moves, Tracks
    <2>4. before' \in [Actors -> Workspace] /\ alone' \subseteq Actors
      BY <1>0, <2>1, <2>2, BeginsTypes DEF Checkpoint
    <2>5. QED
      BY <2>1, <2>3, <2>4 DEF Checkpoint, TypeOK, Numbered
  <1>4. ASSUME NEW c \in Calls, Revert(c) PROVE Types'
    <2>0. c \in Actors
      BY DEF Actors
    <2>1. op' \in [Actors -> Ops]
      <3>1. PICK r \in rows : Moves(c, Tracks(c, "revert_backup", r.tree, r.id))
        BY <1>0, <1>4, <2>0, Shapes
      <3>2. r.tree \in Tree /\ r.id \in 0..MaxRows /\ "revert_backup" \in Kinds
        BY <1>0, RowTypes DEF Kinds
      <3>3. QED
        BY <1>0, <1>1, <2>0, <3>1, <3>2, TracksTypes
    <2>2. before' \in [Actors -> Workspace] /\ alone' \subseteq Actors
      BY <1>0, <1>4, <2>0, BeginsTypes DEF Revert
    <2>3. QED
      BY <1>4, <2>1, <2>2 DEF Revert, TypeOK, Numbered
  <1>5. ASSUME NEW c \in Calls, Unrevert(c) PROVE Types'
    <2>0. c \in Actors
      BY DEF Actors
    <2>1. op' \in [Actors -> Ops] /\ index' \in Tree
      <3>1. PICK r \in rows : index' = r.tree /\ Moves(c, Undoes(r))
        BY <1>0, <1>5, <2>0, Shapes
      <3>2. QED
        BY <1>0, <1>1, <2>0, <3>1, UndoesTypes, RowTypes
    <2>2. before' \in [Actors -> Workspace] /\ alone' \subseteq Actors
      BY <1>0, <1>5, <2>0, BeginsTypes DEF Unrevert
    <2>3. QED
      BY <1>5, <2>1, <2>2 DEF Unrevert, TypeOK, Numbered
  <1>6. ASSUME NEW a \in Actors, TrackFile(a) PROVE Types'
    <2>1. PICK f \in Files : Moves(a, TrackedAt(a, f))
      BY <1>0, <1>6, Shapes
    <2>3. op' \in [Actors -> Ops]
      BY <1>0, <1>1, <2>1, Records
    <2>2. QED
      BY <1>6, <2>3 DEF TrackFile, TypeOK, Numbered
  <1>7. ASSUME NEW a \in Actors, TrackEnds(a) PROVE Types'
    <2>1. op' \in [Actors -> Ops] /\ index' \in Tree
      <3>1. At(a, "record") \in Ops
        BY <1>0, FieldTypes DEF At, Ops
      <3>2. QED
        BY <1>0, <1>1, <1>7, <3>1, Shapes, FieldTypes DEF TrackEnds
    <2>2. QED
      BY <1>7, <2>1 DEF TrackEnds, TypeOK, Numbered
  <1>8. ASSUME NEW c \in Actors, BeginRestore(c) PROVE op' \in [Actors -> Ops] /\ index' \in Tree
    <2>1. Restores(c) \in Ops
      BY <1>0, FieldTypes, BoundsTypes DEF Restores, Ops
    <2>2. QED
      BY <1>0, <1>1, <1>8, <2>1, Shapes, FieldTypes DEF BeginRestore
  <1>9. ASSUME NEW c \in Calls, TrackFails(c) PROVE Types'
    <2>1. op' \in [Actors -> Ops] /\ index' \in Tree
      BY <1>8, <1>9 DEF TrackFails, Actors
    <2>2. QED
      BY <1>9, <2>1 DEF TrackFails, TypeOK, Numbered
  <1>10. ASSUME NEW c \in Calls, Backup(c) PROVE Types'
    <2>1. op' \in [Actors -> Ops] /\ index' \in Tree
      BY <1>8, <1>10 DEF Backup, Actors
    <2>2. CASE Store(c) /\ UNCHANGED alone
      <3>1. c \in Actors
        BY DEF Actors
      <3>2. QED
        BY <1>10, <2>1, <2>2, <3>1, StoreTypes DEF Backup, TypeOK, Numbered
    <2>3. CASE alone' = alone \ {c} /\ UNCHANGED <<rows, stored, truth>>
      BY <1>10, <2>1, <2>3 DEF Backup, TypeOK, Numbered
    <2>4. QED
      BY <1>10, <2>2, <2>3 DEF Backup
  <1>11. CASE Record
    <2>1. Turn \in Actors
      BY DEF Actors
    <2>2. op[Turn].kind \in OfTurn
      BY <1>11, <2>1 DEF Record, Stages, StageOK
    <2>3. QED
      BY <1>0, <1>11, <2>1, <2>2, StoreTypes, FinishTypes DEF Record, TypeOK, Numbered
  <1>12. ASSUME NEW c \in Calls, CheckoutFile(c) PROVE Types'
    <2>1. PICK f \in Files : ws' = [ws EXCEPT ![f] = op[c].target[f]] /\ Moves(c, Visited(c, f))
      BY <1>0, <1>12, Shapes DEF Actors
    <2>2. op' \in [Actors -> Ops]
      BY <1>0, <1>1, <2>1, Records DEF Actors
    <2>3. ws' \in Workspace
      BY <1>0, <2>1, FieldTypes DEF Actors, TypeOK, Workspace, Tree
    <2>4. QED
      BY <1>12, <2>2, <2>3 DEF CheckoutFile, TypeOK, Numbered
  <1>19. ASSUME NEW c \in Calls, LooksAt(c) PROVE Types'
    <2>1. PICK f \in Files : Moves(c, Looked(c, f))
      BY <1>0, <1>19, Shapes DEF Actors
    <2>2. op' \in [Actors -> Ops]
      BY <1>0, <1>1, <2>1, Records DEF Actors
    <2>3. QED
      BY <1>19, <2>2 DEF LooksAt, TypeOK, Numbered
  <1>13. ASSUME NEW c \in Calls, RemoveFile(c) PROVE Types'
    <2>1. PICK f \in Files : ws' = [ws EXCEPT ![f] = Absent] /\ Moves(c, Removed(c))
      BY <1>0, <1>13, Shapes DEF Actors
    <2>2. op' \in [Actors -> Ops]
      BY <1>0, <1>1, <2>1, Records DEF Actors
    <2>3. ws' \in Workspace
      BY <1>0, <2>1 DEF TypeOK, Workspace
    <2>4. QED
      BY <1>13, <2>2, <2>3 DEF RemoveFile, TypeOK, Numbered
  <1>14. ASSUME NEW c \in Calls, RestoreEnds(c) PROVE Types'
    <2>1. At(c, IF op[c].undo THEN "drop" ELSE "note") \in Ops /\ c \in Actors
      BY <1>0, FieldTypes DEF At, Ops, Actors
    <2>2. op' \in [Actors -> Ops]
      BY <1>0, <1>1, <1>14, <2>1, Shapes
    <2>3. QED
      BY <1>14, <2>2 DEF RestoreEnds, TypeOK, Numbered
  <1>15. ASSUME NEW c \in Calls, Drop(c) PROVE Types'
    <2>1. At(c, "clear") \in Ops /\ c \in Actors
      BY <1>0, FieldTypes DEF At, Ops, Actors
    <2>2. op' \in [Actors -> Ops]
      BY <1>0, <1>1, <1>15, <2>1, Shapes
    <2>3. truth' \in [RowIds -> SUBSET Workspace]
      BY <1>0, <1>15 DEF Drop, TypeOK
    <2>4. rows' \subseteq rows
      BY <1>15 DEF Drop
    <2>5. QED
      BY <1>15, <2>2, <2>3, <2>4 DEF Drop, TypeOK, Numbered
  <1>16. ASSUME NEW a \in Actors, Note(a) \/ Clear(a) \/ Fails(a) PROVE Types'
    <2>1. Finish(a) /\ pointer' \in BOOLEAN
      BY <1>0, <1>16 DEF Note, Clear, Fails, TypeOK
    <2>2. UNCHANGED <<ws, index, rows, taken, stored, edits, truth>>
      BY <1>16 DEF Note, Clear, Fails
    <2>3. QED
      BY <1>0, <2>1, <2>2, FinishTypes DEF TypeOK, Numbered
  <1>17. CASE UNCHANGED vars
    BY <1>17 DEF vars, TypeOK, Numbered
  <1>18. QED
    BY <1>2, <1>3, <1>4, <1>5, <1>6, <1>7, <1>9, <1>10, <1>11, <1>12, <1>13, <1>14, <1>15, <1>16, <1>17, <1>19
    DEF Next, Actors

-----------------------------------------------------------------------------
(* An operation that nothing interferes with.                                 *)

(* It is the only one under way.                                              *)
Solo == \A a \in alone : op[a].pc # "idle" /\ \A b \in Actors \ {a} : op[b].pc = "idle"

(* While it takes a snapshot the workspace is what it was when it began, and what *)
(* has been visited is in the tree.                                           *)
Tracking(a) ==
    op[a].pc \in {"track", "record"} =>
        /\ ws = before[a]
        /\ \A f \in Files \ op[a].todo : ~IsLarge(f) => op[a].tree[f] = ws[f]

(* A revert that restores has its backup.                                     *)
BackedUp(a) ==
    op[a].pc \in {"restore", "note"} /\ ~op[a].undo =>
        \E r \in rows : r.kind = "revert_backup" /\ \A f \in Files :
            before[a][f] \notin Large => r.tree[f] = before[a][f]

(* An unrevert restores the last backup.  A restore has left alone what it has   *)
(* not visited, is about to remove one file at most, and is exact of the rest.    *)
Restored(a) ==
    op[a].pc \in {"restore", "note", "drop"} =>
        /\ op[a].undo => \A r \in LastBackup : r.tree = op[a].target
        /\ \A f \in op[a].todo : ws[f] = before[a][f]
        /\ \A f \in op[a].doomed : f \notin op[a].todo /\ RestoredAs(a, f) = Absent
        /\ \A f, g \in op[a].doomed : f = g
        /\ \A f \in Files \ (op[a].todo \cup op[a].doomed) : ws[f] = RestoredAs(a, f)

Safe == /\ Solo /\ SnapshotFaithful
        /\ \A a \in alone : Tracking(a) /\ BackedUp(a) /\ Restored(a)

LEMMA MovesAlone ==
  ASSUME TypeOK, Solo, NEW a \in Actors, NEW x \in Ops, Moves(a, x), op[a].pc # "idle",
         alone' \subseteq alone, x.pc = "idle" => a \notin alone'
  PROVE  Solo' /\ alone' \subseteq {a} /\ op'[a] = x
  <1>1. op'[a] = x /\ \A b \in Actors \ {a} : op'[b] = op[b]
    BY DEF Moves, TypeOK
  <1>2. alone' \subseteq {a} /\ alone \subseteq Actors
    BY DEF Solo, TypeOK
  <1>3. QED
    BY <1>1, <1>2 DEF Solo

LEMMA BeginsAlone ==
  ASSUME TypeOK, NEW a \in Actors, NEW x \in Ops, Moves(a, x), op[a].pc = "idle", x.pc # "idle", Begins(a)
  PROVE  Solo' /\ alone' \subseteq {a} /\ op'[a] = x /\ before'[a] = ws
  <1>1. op'[a] = x /\ \A b \in Actors \ {a} : op'[b] = op[b]
    BY DEF Moves, TypeOK
  <1>2. before'[a] = ws /\ alone' \subseteq {a} /\ (a \in alone' => Busy = {})
    BY DEF Begins, TypeOK
  <1>3. QED
    BY <1>1, <1>2 DEF Solo, Busy

(* A row that is stored is a true snapshot, or is not known to be one.            *)
LEMMA StoreFaithful ==
  ASSUME Types, Stages, Safe, NEW a \in Actors, Store(a), op[a].pc = "record"
  PROVE  /\ SnapshotFaithful'
         /\ a \in alone => \E r \in rows' : r.kind = op[a].kind /\ \A f \in Files :
                               before[a][f] \notin Large => r.tree[f] = before[a][f]
  <1> DEFINE new == [id |-> stored + 1, kind |-> op[a].kind, tree |-> op[a].tree]
  <1>0. stored \in 0..MaxRows /\ rows' = rows \cup {new} /\ stored + 1 \in RowIds
        /\ truth' = [truth EXCEPT ![stored + 1] = IF a \in alone THEN {before[a]} ELSE {}]
        /\ truth \in [RowIds -> SUBSET Workspace]
    BY BoundsTypes DEF Types, TypeOK, Store, RowIds
  <1>1. new.id = stored + 1 /\ new.kind = op[a].kind /\ new.tree = op[a].tree
    OBVIOUS
  <1>2. a \in alone => \A f \in Files : before[a][f] \notin Large => op[a].tree[f] = before[a][f]
    <2>1. op[a].todo = {}
      BY DEF Stages, StageOK
    <2>2. QED
      BY <2>1 DEF Safe, Tracking, IsLarge
  <1>3. \A r \in rows : r.id \in RowIds /\ r.id # stored + 1
    BY <1>0, RowTypes DEF Types, Numbered
  <1>4. \A r \in rows : truth'[r.id] = truth[r.id]
    BY <1>0, <1>3
  <1>5. truth'[new.id] = IF a \in alone THEN {before[a]} ELSE {}
    BY <1>0, <1>1
  <1> HIDE DEF new
  <1>6. SnapshotFaithful'
    BY <1>0, <1>1, <1>2, <1>4, <1>5 DEF Safe, SnapshotFaithful
  <1>7. QED
    BY <1>0, <1>1, <1>2, <1>6

LEMMA SafeStep == Types /\ Stages /\ Safe /\ [Next]_vars => Safe'
  <1> SUFFICES ASSUME Types, Stages, Safe, [Next]_vars PROVE Safe'
    OBVIOUS
  <1>0. TypeOK /\ Solo /\ SnapshotFaithful /\ alone \subseteq Actors
    BY DEF Types, TypeOK, Safe
  <1>1. ASSUME UNCHANGED <<rows, truth>> PROVE SnapshotFaithful'
    BY <1>0, <1>1 DEF SnapshotFaithful
  <1>2. ASSUME NEW f \in Files, Edit(f) PROVE Safe'
    BY <1>1, <1>2 DEF Edit, Safe, Solo
  <1>3. ASSUME NEW a \in Actors, NEW x \in Ops, Moves(a, x), op[a].pc = "idle", Begins(a),
               x.pc = "track", x.todo = Files, UNCHANGED <<ws, rows, truth>>
        PROVE  Safe'
    <2>1. Solo' /\ alone' \subseteq {a} /\ op'[a] = x /\ before'[a] = ws
      BY <1>0, <1>3, BeginsAlone
    <2>2. Tracking(a)' /\ BackedUp(a)' /\ Restored(a)'
      BY <1>3, <2>1 DEF Tracking, BackedUp, Restored
    <2>3. QED
      BY <1>1, <1>3, <2>1, <2>2 DEF Safe
  <1>4. CASE TurnStart \/ PreStep \/ PostStep
    <2>1. PICK kind \in OfTurn : Checkpoint(kind)
      BY <1>4 DEF TurnStart, PreStep, PostStep, OfTurn
    <2>2. Turn \in Actors /\ kind \in Kinds /\ Empty \in Tree /\ 0 \in 0..MaxRows
      BY BoundsTypes DEF Actors, Kinds
    <2> DEFINE x == Tracks(Turn, kind, Empty, 0)
    <2>3. Moves(Turn, x)
      BY <2>1 DEF Checkpoint, TrackFrom, Moves, Tracks
    <2>4. x \in Ops /\ x.pc = "track" /\ x.todo = Files
      BY <1>0, <2>2, TracksTypes
    <2>5. op[Turn].pc = "idle" /\ Begins(Turn) /\ UNCHANGED <<ws, rows, truth>>
      BY <2>1 DEF Checkpoint
    <2> HIDE DEF x
    <2>6. QED
      BY <1>3, <2>2, <2>3, <2>4, <2>5
  <1>5. ASSUME NEW c \in Calls, Revert(c) PROVE Safe'
    <2>1. c \in Actors
      BY DEF Actors
    <2>2. PICK target \in Tree, own \in 0..MaxRows : Moves(c, Tracks(c, "revert_backup", target, own))
      <3>1. PICK r \in rows : Moves(c, Tracks(c, "revert_backup", r.tree, r.id))
        BY <1>0, <1>5, <2>1, Shapes
      <3>2. r.tree \in Tree /\ r.id \in 0..MaxRows
        BY <1>0, RowTypes
      <3>3. QED
        BY <3>1, <3>2
    <2> DEFINE x == Tracks(c, "revert_backup", target, own)
    <2>3. x \in Ops /\ x.pc = "track" /\ x.todo = Files
      <3>1. "revert_backup" \in Kinds
        BY DEF Kinds
      <3>2. QED
        BY <1>0, <2>1, <3>1, TracksTypes
    <2>4. Moves(c, x) /\ op[c].pc = "idle" /\ Begins(c) /\ UNCHANGED <<ws, rows, truth>>
      BY <1>5, <2>2 DEF Revert
    <2> HIDE DEF x
    <2>5. QED
      BY <1>3, <2>1, <2>3, <2>4
  <1>6. ASSUME NEW c \in Calls, Unrevert(c) PROVE Safe'
    <2>1. c \in Actors /\ op[c].pc = "idle" /\ Begins(c) /\ UNCHANGED <<ws, rows, truth>>
      BY <1>6 DEF Actors, Unrevert
    <2>2. PICK r \in Newest({"revert_backup"}) : r \in rows /\ Moves(c, Undoes(r))
      BY <1>0, <1>6, <2>1, Shapes
    <2>3. /\ Undoes(r) \in Ops /\ Undoes(r).pc = "restore" /\ Undoes(r).target = r.tree
          /\ Undoes(r).todo = Files /\ Undoes(r).doomed = {}
      BY <1>0, <2>2, UndoesTypes
    <2>4. Solo' /\ alone' \subseteq {c} /\ op'[c] = Undoes(r) /\ before'[c] = ws
      BY <1>0, <2>1, <2>2, <2>3, BeginsAlone
    <2>5. \A s \in LastBackup : s.tree = r.tree
      <3> SUFFICES ASSUME NEW s \in LastBackup PROVE s = r
        OBVIOUS
      <3>1. s \in rows /\ s.kind = "revert_backup" /\ r.kind = "revert_backup" /\ s.id <= r.id /\ r.id <= s.id
        BY <2>2 DEF LastBackup, Newest
      <3>2. s.id \in 1..MaxRows /\ r.id \in 1..MaxRows /\ MaxRows \in Nat
        BY <1>0, <2>2, <3>1, RowTypes, BoundsTypes
      <3>3. s.id = r.id
        BY <3>1, <3>2
      <3>4. QED
        BY <1>0, <2>2, <3>1, <3>3 DEF TypeOK
    <2>6. LastBackup' = LastBackup
      BY <2>1 DEF LastBackup
    <2>7. Restored(c)'
      BY <2>1, <2>3, <2>4, <2>5, <2>6 DEF Restored
    <2>8. Tracking(c)' /\ BackedUp(c)'
      <3>1. Undoes(r).undo
        BY <1>0, <2>2, UndoesTypes
      <3>2. QED
        BY <2>3, <2>4, <3>1 DEF Tracking, BackedUp
    <2>9. QED
      BY <1>1, <2>1, <2>4, <2>7, <2>8 DEF Safe
  <1>7. ASSUME NEW a \in Actors, TrackFile(a) PROVE Safe'
    <2>1. op[a].pc = "track" /\ UNCHANGED <<ws, before, alone, rows, truth>>
      BY <1>7 DEF TrackFile
    <2>2. PICK f \in Files : Moves(a, TrackedAt(a, f))
      BY <1>0, <1>7, Shapes
    <2> DEFINE x == TrackedAt(a, f)
    <2>3. /\ x \in Ops /\ x.pc = "track" /\ x.todo = op[a].todo \ {f}
          /\ x.tree = [op[a].tree EXCEPT ![f] = Staged(a, f)]
      BY <1>0, <2>1, Records
    <2>4. Moves(a, x)
      BY <2>2
    <2> HIDE DEF x
    <2>5. Solo' /\ alone' \subseteq {a} /\ op'[a] = x
      BY <1>0, <2>1, <2>3, <2>4, MovesAlone
    <2>6. a \in alone => Tracking(a)'
      <3> SUFFICES ASSUME a \in alone PROVE Tracking(a)'
        OBVIOUS
      <3>1. ws = before[a] /\ \A g \in Files \ op[a].todo : ~IsLarge(g) => op[a].tree[g] = ws[g]
        BY <2>1 DEF Safe, Tracking
      <3>2. op[a].tree \in [Files -> Small \cup {Absent}]
        BY <1>0, FieldTypes DEF Tree
      <3>3. \A g \in Files \ x.todo : ~IsLarge(g) => x.tree[g] = ws[g]
        BY <2>3, <3>1, <3>2 DEF Staged
      <3>4. QED
        BY <2>1, <2>5, <3>1, <3>3 DEF Tracking, IsLarge
    <2>7. BackedUp(a)' /\ Restored(a)'
      BY <2>3, <2>5 DEF BackedUp, Restored
    <2>8. QED
      BY <1>1, <2>1, <2>5, <2>6, <2>7 DEF Safe
  <1>8. ASSUME NEW a \in Actors, TrackEnds(a) PROVE Safe'
    <2>1. op[a].pc = "track" /\ op[a].todo = {} /\ UNCHANGED <<ws, before, alone, rows, truth>> /\ Moves(a, At(a, "record"))
      BY <1>0, <1>8, Shapes DEF TrackEnds
    <2> DEFINE x == At(a, "record")
    <2>2. x \in Ops /\ x.pc = "record" /\ x.todo = op[a].todo /\ x.tree = op[a].tree
      BY <1>0, FieldTypes DEF At, Ops
    <2>3. Moves(a, x)
      BY <2>1
    <2> HIDE DEF x
    <2>4. Solo' /\ alone' \subseteq {a} /\ op'[a] = x
      BY <1>0, <2>1, <2>2, <2>3, MovesAlone
    <2>5. a \in alone => Tracking(a)'
      BY <2>1, <2>2, <2>4 DEF Safe, Tracking, IsLarge
    <2>6. BackedUp(a)' /\ Restored(a)'
      BY <2>2, <2>4 DEF BackedUp, Restored
    <2>7. QED
      BY <1>1, <2>1, <2>4, <2>5, <2>6 DEF Safe
  <1>9. ASSUME NEW a \in Actors, NEW x \in Ops, Moves(a, x), op[a].pc # "idle", alone' \subseteq alone \ {a},
               SnapshotFaithful'
        PROVE  Safe'
    <2>1. Solo' /\ alone' \subseteq {a}
      BY <1>0, <1>9, MovesAlone
    <2>2. alone' = {}
      BY <1>9, <2>1
    <2>3. QED
      BY <1>9, <2>1, <2>2 DEF Safe
  <1>10. ASSUME NEW c \in Actors
         PROVE  /\ Restores(c) \in Ops /\ Restores(c).pc = "restore" /\ (Restores(c).undo <=> op[c].undo)
                /\ Restores(c).todo = Files /\ Restores(c).doomed = op[c].doomed
    BY <1>0, FieldTypes, BoundsTypes DEF Restores, Ops
  <1>11. ASSUME NEW c \in Calls, TrackFails(c) PROVE Safe'
    <2>1. c \in Actors /\ op[c].pc # "idle" /\ alone' \subseteq alone \ {c} /\ UNCHANGED <<rows, truth>> /\ BeginRestore(c)
      BY <1>11 DEF TrackFails, Actors
    <2>2. Moves(c, Restores(c))
      BY <1>0, <2>1, Shapes
    <2>3. QED
      BY <1>1, <1>9, <1>10, <2>1, <2>2
  <1>12. ASSUME NEW c \in Calls, Backup(c) PROVE Safe'
    <2>1. c \in Actors /\ op[c].pc = "record" /\ BeginRestore(c) /\ UNCHANGED <<ws, before>>
      BY <1>12 DEF Backup, Actors
    <2>2. Moves(c, Restores(c))
      BY <1>0, <2>1, Shapes
    <2>3. CASE Store(c) /\ UNCHANGED alone
      <3>1. Solo' /\ alone' \subseteq {c} /\ op'[c] = Restores(c)
        BY <1>0, <1>10, <2>1, <2>2, <2>3, MovesAlone
      <3>2. ~op[c].undo /\ op[c].kind = "revert_backup" /\ op[c].doomed = {}
        BY <2>1 DEF Stages, StageOK
      <3>3. /\ SnapshotFaithful'
            /\ c \in alone => \E r \in rows' : r.kind = op[c].kind /\ \A f \in Files :
                                 before[c][f] \notin Large => r.tree[f] = before[c][f]
        BY <2>1, <2>3, StoreFaithful
      <3>4. c \in alone => BackedUp(c)'
        BY <2>1, <3>2, <3>3 DEF BackedUp
      <3>5. c \in alone => Restored(c)'
        <4>1. op'[c].todo = Files /\ op'[c].doomed = {} /\ ~op'[c].undo
          BY <1>10, <2>1, <3>1, <3>2
        <4>2. c \in alone => ws' = before'[c]
          BY <2>1 DEF Safe, Tracking
        <4>3. QED
          BY <4>1, <4>2 DEF Restored
      <3>7. Tracking(c)'
        BY <1>10, <2>1, <3>1 DEF Tracking
      <3>6. QED
        BY <2>3, <3>1, <3>3, <3>4, <3>5, <3>7 DEF Safe
    <2>4. CASE alone' = alone \ {c} /\ UNCHANGED <<rows, stored, truth>>
      BY <1>1, <1>9, <1>10, <2>1, <2>2, <2>4
    <2>5. QED
      BY <1>12, <2>3, <2>4 DEF Backup
  <1>13. ASSUME NEW a \in Actors, Finish(a), op[a].pc # "idle", SnapshotFaithful' PROVE Safe'
    <2>1. Moves(a, Idle) /\ Idle \in Ops
      BY <1>0, <1>13, Shapes, BoundsTypes
    <2>2. alone' \subseteq alone \ {a}
      BY <1>13 DEF Finish
    <2>3. QED
      BY <1>9, <1>13, <2>1, <2>2
  <1>14. CASE Record
    <2>1. Turn \in Actors
      BY DEF Actors
    <2>2. QED
      BY <1>13, <1>14, <2>1, StoreFaithful DEF Record
  <1>15. ASSUME NEW a \in Actors, Note(a) \/ Clear(a) \/ Fails(a) PROVE Safe'
    <2>1. Finish(a) /\ op[a].pc # "idle" /\ UNCHANGED <<rows, truth>>
      BY <1>15 DEF Note, Clear, Fails, Busy
    <2>2. QED
      BY <1>1, <1>13, <2>1
  <1>16. ASSUME NEW c \in Calls, NEW x \in Ops, Moves(c, x), op[c].pc = "restore",
                x.pc = "restore", x.undo = op[c].undo, x.target = op[c].target,
                UNCHANGED <<before, alone, rows, truth>>,
                ASSUME \A f \in op[c].todo : ws[f] = before[c][f],
                       \A f \in op[c].doomed : f \notin op[c].todo /\ RestoredAs(c, f) = Absent,
                       \A f, g \in op[c].doomed : f = g,
                       \A f \in Files \ (op[c].todo \cup op[c].doomed) : ws[f] = RestoredAs(c, f)
                PROVE  /\ \A f \in x.todo : ws'[f] = before[c][f]
                       /\ \A f \in x.doomed : f \notin x.todo /\ RestoredAs(c, f) = Absent
                       /\ \A f, g \in x.doomed : f = g
                       /\ \A f \in Files \ (x.todo \cup x.doomed) : ws'[f] = RestoredAs(c, f)
         PROVE  Safe'
    <2>1. c \in Actors
      BY DEF Actors
    <2>2. Solo' /\ alone' \subseteq {c} /\ op'[c] = x
      BY <1>0, <1>16, <2>1, MovesAlone
    <2>3. c \in alone => BackedUp(c)'
      BY <1>16, <2>2 DEF Safe, BackedUp
    <2>4. ASSUME c \in alone PROVE Restored(c)'
      <3>1. Restored(c)
        BY <2>4 DEF Safe
      <3>2. LastBackup' = LastBackup /\ \A f : RestoredAs(c, f)' = RestoredAs(c, f)
        BY <1>16, <2>2 DEF LastBackup, RestoredAs
      <3>3. /\ \A f \in x.todo : ws'[f] = before[c][f]
            /\ \A f \in x.doomed : f \notin x.todo /\ RestoredAs(c, f) = Absent
            /\ \A f, g \in x.doomed : f = g
            /\ \A f \in Files \ (x.todo \cup x.doomed) : ws'[f] = RestoredAs(c, f)
        BY <1>16, <3>1 DEF Restored
      <3>4. op[c].undo => \A r \in LastBackup : r.tree = op[c].target
        BY <1>16, <3>1 DEF Restored
      <3>5. QED
        BY <1>16, <2>2, <3>2, <3>3, <3>4 DEF Restored
    <2>5. Tracking(c)'
      BY <1>16, <2>2 DEF Tracking
    <2>6. QED
      BY <1>1, <1>16, <2>2, <2>3, <2>4, <2>5 DEF Safe
  <1>21. ws \in [Files -> Small \cup Large \cup {Absent}]
    BY <1>0 DEF TypeOK, Workspace
  <1>22. ASSUME NEW c \in Calls, CheckoutFile(c) PROVE Safe'
    <2>1. c \in Actors /\ op[c].pc = "restore" /\ UNCHANGED <<before, alone, rows, truth>>
      BY <1>22 DEF CheckoutFile, Actors
    <2>2. PICK f \in op[c].todo : /\ f \in Files /\ op[c].target[f] # Absent
                                  /\ ws' = [ws EXCEPT ![f] = op[c].target[f]] /\ Moves(c, Visited(c, f))
      BY <1>0, <1>22, <2>1, Shapes
    <2> DEFINE x == Visited(c, f)
    <2>3. /\ x \in Ops /\ x.pc = "restore" /\ x.undo = op[c].undo /\ x.target = op[c].target
          /\ x.todo = op[c].todo \ {f} /\ x.doomed = op[c].doomed
      BY <1>0, <2>1, <2>2, Records
    <2>4. Moves(c, x)
      BY <2>2
    <2> HIDE DEF x
    <2>5. ws'[f] = RestoredAs(c, f) /\ \A g \in Files \ {f} : ws'[g] = ws[g]
      BY <1>21, <2>2 DEF RestoredAs
    <2>6. op[c].todo \subseteq Files /\ op[c].doomed \subseteq Files
      BY <1>0, <2>1, FieldTypes
    <2>7. QED
      BY <1>16, <2>1, <2>2, <2>3, <2>4, <2>5, <2>6
  <1>23. ASSUME NEW c \in Calls, LooksAt(c) PROVE Safe'
    <2>1. c \in Actors /\ op[c].pc = "restore" /\ op[c].doomed = {} /\ UNCHANGED <<ws, before, alone, rows, truth>>
      BY <1>23 DEF LooksAt, Actors
    <2>2. PICK f \in op[c].todo : f \in Files /\ op[c].target[f] = Absent /\ Moves(c, Looked(c, f))
      BY <1>0, <1>23, <2>1, Shapes
    <2> DEFINE x == Looked(c, f)
    <2>3. /\ x \in Ops /\ x.pc = "restore" /\ x.undo = op[c].undo /\ x.target = op[c].target
          /\ x.todo = op[c].todo \ {f} /\ x.doomed = {g \in {f} : ws[g] \in Small}
      BY <1>0, <2>1, <2>2, Records
    <2>4. Moves(c, x)
      BY <2>2
    <2> HIDE DEF x
    <2>5. ws[f] = before[c][f] => RestoredAs(c, f) = IF ws[f] \in Small THEN Absent ELSE ws[f]
      <3>1. ws[f] \in Small => ws[f] \notin Large
        BY BoundsTypes
      <3>2. ws[f] \notin Small => ws[f] \in Large \/ ws[f] = Absent
        BY <1>21, <2>2
      <3>3. Absent \notin Large
        BY BoundsTypes
      <3>4. RestoredAs(c, f) = IF before[c][f] \in Large THEN before[c][f] ELSE Absent
        BY <2>2 DEF RestoredAs
      <3>5. QED
        BY <3>1, <3>2, <3>3, <3>4
    <2>6. QED
      BY <1>16, <2>1, <2>2, <2>3, <2>4, <2>5
  <1>24. ASSUME NEW c \in Calls, RemoveFile(c) PROVE Safe'
    <2>1. c \in Actors /\ op[c].pc = "restore" /\ UNCHANGED <<before, alone, rows, truth>>
      BY <1>24 DEF RemoveFile, Actors
    <2>2. PICK f \in op[c].doomed : f \in Files /\ ws' = [ws EXCEPT ![f] = Absent] /\ Moves(c, Removed(c))
      BY <1>0, <1>24, <2>1, Shapes
    <2> DEFINE x == Removed(c)
    <2>3. /\ x \in Ops /\ x.pc = "restore" /\ x.undo = op[c].undo /\ x.target = op[c].target
          /\ x.todo = op[c].todo /\ x.doomed = {}
      BY <1>0, <2>1, <2>2, Records
    <2>4. Moves(c, x)
      BY <2>2
    <2> HIDE DEF x
    <2>5. ws'[f] = Absent /\ \A g \in Files \ {f} : ws'[g] = ws[g]
      BY <1>21, <2>2
    <2>6. op[c].todo \subseteq Files
      BY <1>0, <2>1, FieldTypes
    <2>7. QED
      BY <1>16, <2>1, <2>2, <2>3, <2>4, <2>5, <2>6
  <1>17. ASSUME NEW c \in Calls, RestoreEnds(c) PROVE Safe'
    <2> DEFINE pc == IF op[c].undo THEN "drop" ELSE "note"
               x  == At(c, pc)
    <2>1. /\ c \in Actors /\ op[c].pc = "restore" /\ op[c].todo = {} /\ op[c].doomed = {}
          /\ UNCHANGED <<ws, before, alone, rows, truth>>
          /\ Moves(c, x)
      BY <1>0, <1>17, Shapes DEF RestoreEnds, Actors
    <2>2. /\ x \in Ops /\ x.pc = pc /\ x.todo = op[c].todo /\ x.target = op[c].target /\ (x.undo <=> op[c].undo)
          /\ x.doomed = op[c].doomed
      BY <1>0, <2>1, FieldTypes DEF At, Ops
    <2> HIDE DEF x
    <2>3. Solo' /\ alone' \subseteq {c} /\ op'[c] = x
      BY <1>0, <2>1, <2>2, MovesAlone
    <2>4. c \in alone => BackedUp(c)'
      BY <2>1, <2>2, <2>3 DEF Safe, BackedUp
    <2>5. c \in alone => Restored(c)'
      <3>1. LastBackup' = LastBackup /\ \A f : RestoredAs(c, f)' = RestoredAs(c, f)
        BY <2>1, <2>2, <2>3 DEF LastBackup, RestoredAs
      <3>2. QED
        BY <2>1, <2>2, <2>3, <3>1 DEF Safe, Restored
    <2>6. Tracking(c)'
      BY <2>2, <2>3 DEF Tracking
    <2>7. QED
      BY <1>1, <2>1, <2>3, <2>4, <2>5, <2>6 DEF Safe
  <1>18. ASSUME NEW c \in Calls, Drop(c) PROVE Safe'
    <2> DEFINE x == At(c, "clear")
    <2>1. c \in Actors /\ op[c].pc = "drop" /\ alone' = alone /\ Moves(c, x)
      BY <1>0, <1>18, Shapes DEF Drop, Actors
    <2>2. x \in Ops /\ x.pc = "clear"
      BY <1>0, <2>1, FieldTypes DEF At, Ops
    <2> HIDE DEF x
    <2>3. Solo' /\ alone' \subseteq {c} /\ op'[c] = x
      BY <1>0, <2>1, <2>2, MovesAlone
    <2>4. Tracking(c)' /\ BackedUp(c)' /\ Restored(c)'
      BY <2>2, <2>3 DEF Tracking, BackedUp, Restored
    <2>5. SnapshotFaithful'
      <3>1. \A r \in rows' : r \in rows /\ truth'[r.id] \subseteq truth[r.id]
        BY <1>0, <1>18, RowTypes DEF Drop, TypeOK
      <3>2. QED
        BY <1>0, <3>1 DEF SnapshotFaithful
    <2>6. QED
      BY <2>3, <2>4, <2>5 DEF Safe
  <1>19. CASE UNCHANGED vars
    BY <1>19 DEF vars, Safe, Solo, SnapshotFaithful, Tracking, BackedUp, Restored, LastBackup, IsLarge, RestoredAs
  <1>20. QED
    BY <1>2, <1>4, <1>5, <1>6, <1>7, <1>8, <1>11, <1>12, <1>14, <1>15, <1>17, <1>18, <1>19, <1>22, <1>23, <1>24
    DEF Next, Actors

LEMMA CheckpointsSafe == Spec => [](Types /\ Stages /\ Safe)
  <1>1. Init => Types /\ Stages /\ Safe
    <2> SUFFICES ASSUME Init PROVE Types /\ Stages /\ Safe
      OBVIOUS
    <2>1. Types
      <3>1. ws \in Workspace /\ index \in Tree /\ taken \in OfTurn \cup {"none"}
        BY BoundsTypes DEF Init
      <3>2. rows \subseteq Row /\ (\A r, s \in rows : r.id = s.id => r = s) /\ Numbered
        BY DEF Init, Numbered
      <3>3. pointer \in BOOLEAN
        BY Zenon DEF Init
      <3>4. op \in [Actors -> Ops] /\ before \in [Actors -> Workspace]
        BY BoundsTypes DEF Init
      <3>5. stored \in 0..MaxRows /\ edits \in 0..MaxEdits
        BY BoundsTypes DEF Init
      <3>6. alone \subseteq Actors /\ truth \in [RowIds -> SUBSET Workspace]
        BY DEF Init
      <3>7. QED
        BY <3>1, <3>2, <3>3, <3>4, <3>5, <3>6 DEF Types, TypeOK
    <2>2. Stages /\ Safe
      BY DEF Init, Stages, StageOK, Safe, Solo, SnapshotFaithful, Idle
    <2>3. QED
      BY <2>1, <2>2
  <1>2. QED
    BY <1>1, TypesStep, StagesStep, SafeStep, PTL DEF Spec, Types

(* A checkpoint taken while nothing interfered holds every file that was small    *)
(* enough, as it was.                                                         *)
THEOREM SnapshotsFaithful == Spec => []SnapshotFaithful
  BY CheckpointsSafe, PTL DEF Safe

(* A revert has stored what it replaces before it replaces it, and an unrevert    *)
(* brings that back.                                                          *)
THEOREM RevertsUndoable == Spec => []Undoable
  <1>1. Types /\ Stages /\ Safe => Undoable
    <2> SUFFICES ASSUME Types, Stages, Safe PROVE BackupFirst /\ RoundTrip
      BY DEF Undoable, Types
    <2>1. BackupFirst
      BY DEF BackupFirst, Safe, BackedUp
    <2>2. RoundTrip
      <3> SUFFICES ASSUME NEW c \in Calls, Unreverted(c), NEW r \in LastBackup, NEW t \in truth[r.id], NEW f \in Files
                   PROVE  ws[f] = t[f] \/ TooLarge(t, f)
        BY DEF RoundTrip
      <3>1. c \in Actors /\ c \in alone /\ op[c].pc = "drop" /\ op[c].todo = {} /\ op[c].undo
        BY DEF Unreverted, Stages, StageOK, Actors
      <3>2. r.tree = op[c].target /\ (ws[f] = op[c].target[f] \/ ws[f] \in Large)
        BY <3>1, BoundsTypes DEF Safe, Stages, StageOK, Restored, RestoredAs
      <3>3. t[f] \notin Large => r.tree[f] = t[f]
        BY DEF Safe, SnapshotFaithful, LastBackup
      <3>4. QED
        BY <3>2, <3>3 DEF TooLarge
    <2>3. QED
      BY <2>1, <2>2
  <1>2. QED
    BY <1>1, CheckpointsSafe, PTL

(* A restore that nothing disturbed leaves the files of its tree as they are in    *)
(* it, the large ones it lacks as they were, and no others.                      *)
THEOREM RestoresExact == Spec => []RestoreExact
  <1>1. Types /\ Stages /\ Safe => RestoreExact
    <2> SUFFICES ASSUME Types, Stages, Safe, NEW c \in alone, op[c].pc \in {"note", "drop"}, NEW f \in Files
                 PROVE  ws[f] = RestoredAs(c, f)
      BY DEF RestoreExact
    <2>1. c \in Actors /\ op[c].todo = {} /\ op[c].doomed = {}
      BY DEF Types, TypeOK, Stages, StageOK
    <2>2. QED
      BY <2>1 DEF Safe, Restored
  <1>2. QED
    BY <1>1, CheckpointsSafe, PTL

-----------------------------------------------------------------------------
(* ProviderStream.  The invariant StreamInv says, for every position sv of the   *)
(* answer that the provider can have come to, what the decoder holds of it       *)
(* (DecodedTo), what the blocks will be when the turn has taken the events that   *)
(* wait (Gathering), and what usage it will then know (Told).                    *)

Flags     == {"open", "signed", "id", "name", "reason", "end"} \cup Parts
Active    == outcome \in {"opening", "running"}
Positions == [item : 0..(MaxItems + 1), part : None..Whole, flags : SUBSET Flags]

(* At a position s of the answer an item is being sent, a call.                  *)
Here(s)     == s.item \in 1..Len(message)
ToolHere(s) == Here(s) /\ message[s.item].kind = "tool"
TextHere(s) == Here(s) /\ message[s.item].kind # "tool"

(* The positions that a provider comes to.                                     *)
StandsAnthropic(s) ==
    /\ s.item = 0 => s.flags = {}
    /\ Here(s) => /\ s.flags \subseteq {"open", "signed"}
                  /\ "open" \notin s.flags => s.part = 0 /\ s.flags = {}
                  /\ "signed" \in s.flags => message[s.item].kind = "think" /\ s.part = message[s.item].size
    /\ s.item > Len(message) => s.flags \in {{}, {"reason"}, {"reason", "end"}}
StandsOpenAi(s) ==
    /\ s.item > 0
    /\ ToolHere(s) => /\ s.flags \subseteq {"id", "name"}
                      /\ ~({"id", "name"} \subseteq s.flags /\ s.part = message[s.item].size)
    /\ TextHere(s) => s.flags = {} /\ s.part < message[s.item].size
    /\ ~Here(s) => s.flags \in {{}, {"reason"}, {"reason"} \cup Parts, {"reason", "end"} \cup Parts}
StandsGemini(s) ==
    /\ s.item > 0
    /\ Here(s) => s.flags = {}
    /\ ToolHere(s) => s.part = 0
    /\ TextHere(s) => s.part < message[s.item].size
    /\ ~Here(s) => s.flags \subseteq {"reason"} \cup Parts
Stands(s) ==
    /\ s \in Positions
    /\ s.item <= Len(message) + 1
    /\ ~Here(s) => s.part = 0
    /\ Here(s) => s.part <= message[s.item].size
    /\ dialect = "anthropic" => StandsAnthropic(s)
    /\ dialect = "openai"    => StandsOpenAi(s)
    /\ dialect = "gemini"    => StandsGemini(s)

(* Nothing the provider sent has been passed over.                              *)
Intact == IF dialect = "gemini" THEN ~lost ELSE pending # <<Error>>

(* What the decoders hold of the answer up to a position.                        *)
Decoders == [slots : [Ids -> Slot], usage : SUBSET Parts, minted : Ids, final : BOOLEAN]
OpenCall(s, i) == ToolHere(s) /\ "open" \in s.flags /\ i = s.item
DecodedAnthropic(d, s) ==
    \A i \in Ids : /\ d.slots[i].started <=> OpenCall(s, i)
                   /\ d.slots[i].acc = IF OpenCall(s, i) THEN s.part ELSE 0
Slotted(x, id, name, acc) ==
    /\ x.id <=> id
    /\ x.name <=> name
    /\ x.started <=> id /\ name
    /\ x.acc = acc
DecodedOpenAi(d, s) ==
    /\ \A i \in Ids : i < Number(s.item) =>
          \E k \in 1..(s.item - 1) : /\ message[k].kind = "tool"
                                     /\ Number(k) = i
                                     /\ Slotted(d.slots[i], TRUE, TRUE, message[k].size)
    /\ ToolHere(s) => Slotted(d.slots[Number(s.item)], "id" \in s.flags, "name" \in s.flags, s.part)
    /\ \A i \in Ids : i > Number(s.item) \/ (i = Number(s.item) /\ ~ToolHere(s)) =>
          Slotted(d.slots[i], FALSE, FALSE, 0)
DecodedGemini(d, s) == d.minted = Number(s.item)
DecodedTo(d, s) ==
    /\ dialect = "anthropic" => DecodedAnthropic(d, s)
    /\ dialect = "openai"    => DecodedOpenAi(d, s)
    /\ dialect = "gemini"    => DecodedGemini(d, s)

-------------------------------------------------------------------------------
(* What a row of blocks holds of the answer.                                   *)

IdOf(k) == IF message[k].kind # "tool" THEN 0
           ELSE IF dialect = "anthropic" THEN k ELSE Number(k)

(* The size of the block of item k, acc of which came; over: no more comes.  Of   *)
(* OpenAI's calls those before number j are completed.                          *)
Amounts(k, acc, over, j) ==
    IF message[k].kind # "tool" \/ dialect = "gemini" THEN {acc}
    ELSE IF dialect = "anthropic" THEN (IF over /\ acc # Whole THEN {None} ELSE {acc})
    ELSE IF Number(k) < j THEN {Input(acc)} ELSE 0..acc
Fits(b, k, acc, over, sealed, j) ==
    /\ b \in Block
    /\ b.kind = message[k].kind
    /\ b.id = IdOf(k)
    /\ b.size \in Amounts(k, acc, over, j)
    /\ b.signed <=> message[k].kind = "think" /\ dialect = "anthropic" /\ sealed

Passed(s) == IF s.item = 0 THEN 0 ELSE s.item - 1
Opened(s, j) ==
    \/ TextHere(s) /\ s.part > 0
    \/ ToolHere(s) /\ dialect = "anthropic" /\ "open" \in s.flags
    \/ ToolHere(s) /\ dialect = "openai" /\ {"id", "name"} \subseteq s.flags
    \/ ToolHere(s) /\ dialect = "openai" /\ "id" \in s.flags /\ Number(s.item) < j

(* The blocks bs are the items passed, and what came of the one being sent.       *)
Held(bs, s, j) ==
    /\ bs \in Seq(Block)
    /\ Len(bs) = IF Opened(s, j) THEN Passed(s) + 1 ELSE Passed(s)
    /\ \A k \in 1..Passed(s) : Fits(bs[k], k, message[k].size, TRUE, TRUE, j)
    /\ Opened(s, j) => Fits(bs[s.item], s.item, s.part, FALSE, "signed" \in s.flags, j)

(* The blocks after the events evs.                                            *)
After(bs, evs) == CASE Len(evs) = 0 -> bs
                    [] Len(evs) = 1 -> Gathered(bs, evs[1])
                    [] OTHER        -> Gathered(Gathered(bs, evs[1]), evs[2])
HeldAfter(bs, evs, s) ==
    /\ Held(After(bs, evs), s, 0)
    /\ Len(evs) <= 2
    /\ Len(evs) = 2 => Held(Gathered(bs, evs[1]), s, 0)

(* A finalized OpenAI stream: the calls named, and which of them are completed.   *)
Finalized     == dialect = "openai" /\ dec.final
NamedCalls(s) == IF ToolHere(s) /\ "id" \in s.flags THEN Number(s.item) + 1 ELSE Number(s.item)
Completed(evs, s) == NamedCalls(s) + 1 - Len(evs)
Finals(d, evs, s) ==
    /\ Len(evs) <= NamedCalls(s) + 1
    /\ \A k \in 1..Len(evs) :
          LET i == Completed(evs, s) + k - 1
          IN  evs[k] = IF k = Len(evs) THEN StopWith(d.usage)
                       ELSE Ev("complete", i, Input(d.slots[i].acc))

Gathering ==
    Intact =>
        IF Finalized THEN Finals(dec, pending, sv) /\ Held(blocks, sv, Completed(pending, sv))
        ELSE HeldAfter(blocks, pending, sv)

(* A row that is a beginning of the answer.                                    *)
Beginning(bs) ==
    /\ bs \in Seq(Block)
    /\ Len(bs) <= Len(message)
    /\ \A k \in DOMAIN bs :
         /\ bs[k].kind = message[k].kind
         /\ IsTool(bs[k]) => bs[k].size <= message[k].size \/ bs[k].size = Null
         /\ ~IsTool(bs[k]) => bs[k].size <= message[k].size
         /\ ~IsTool(bs[k]) /\ k < Len(bs) => bs[k].size = message[k].size

(* Even of a Gemini answer with gaps the blocks are bounded.                     *)
Bounded(bs, s) ==
    /\ bs \in Seq(Block)
    /\ \A k \in DOMAIN bs : bs[k].size <= Whole * (s.item - 1) + s.part
Bounds ==
    dialect = "gemini" =>
        /\ dec.minted < sv.item
        /\ pending # <<Error>> => Len(pending) <= 1 /\ Bounded(After(blocks, pending), sv)

(* The usage the turn will have.                                               *)
Owes(evs, u) == IF evs = <<>> THEN usage = u ELSE evs[Len(evs)] = StopWith(u)
Counted(d, s) ==
    /\ dialect = "anthropic" =>
          /\ s.item > 0 => "in" \in d.usage
          /\ s.item > Len(message) /\ "reason" \in s.flags => "out" \in d.usage
    /\ dialect \in {"openai", "gemini"} /\ ~Here(s) => s.flags \cap Parts \subseteq d.usage
EndsAt(s) == s.item > Len(message) /\
    IF dialect = "anthropic" THEN "end" \in s.flags ELSE Parts \subseteq s.flags
Told ==
    ~lost =>
        /\ Counted(dec, sv)
        /\ finished => EndsAt(sv)
        /\ dialect = "anthropic" /\ EndsAt(sv) => Owes(pending, Parts)
        /\ finished => Owes(pending, Parts)

(* While the turn runs.                                                        *)
Lively ==
    /\ Intact => DecodedTo(dec, sv)
    /\ Gathering
    /\ Bounds
    /\ Told

(* The inductive invariant.                                                    *)
StreamInv ==
    /\ StreamTypeOK
    /\ Stands(sv)
    /\ dec \in Decoders
    /\ dec.final <=> finished /\ dialect # "anthropic"
    /\ dialect # "gemini" \/ ~lost => Beginning(blocks)
    /\ Active => Lively /\ row = <<>> /\ billed = {} /\ runs = {}
    /\ RowFaithful /\ RowIsBeginning /\ ChargedInFull

-------------------------------------------------------------------------------
(* The answers.                                                              *)
AnswerShape ==
    /\ dialect \in {"anthropic", "openai", "gemini"}
    /\ message \in Seq(Item)
    /\ Len(message) \in 0..MaxItems
    /\ \A k \in 1..Len(message) :
         /\ message[k].kind # "tool" => message[k].size # None
         /\ message[k].kind = "tool" /\ message[k].size \notin {None, Whole} =>
               k = Len(message) /\ dialect # "gemini"
         /\ message[k].kind = "think" => dialect # "gemini"
         /\ k > 1 /\ message[k].kind = message[k - 1].kind =>
               \/ message[k].kind = "tool"
               \/ message[k].kind = "think" /\ dialect = "anthropic"

(* What an answer is made of.                                                 *)
LEMMA Answered == message \in Answers(dialect) /\ dialect \in Dialects => AnswerShape
  <1> SUFFICES ASSUME message \in Answers(dialect), dialect \in Dialects PROVE AnswerShape
    OBVIOUS
  <1>1. PICK n \in 0..MaxItems : message \in [1..n -> Item]
    BY DEF Answers
  <1>2. n \in Nat /\ message \in Seq(Item) /\ Len(message) = n /\ DOMAIN message = 1..n
    BY <1>1, ItemsAssumption
  <1>3. \A k \in DOMAIN message :
            /\ message[k].kind # "tool" => message[k].size # None
            /\ message[k].kind = "tool" /\ message[k].size \notin {None, Whole} =>
                   k = Len(message) /\ dialect # "gemini"
            /\ message[k].kind = "think" => dialect # "gemini"
            /\ k > 1 /\ message[k].kind = message[k - 1].kind =>
                   \/ message[k].kind = "tool"
                   \/ message[k].kind = "think" /\ dialect = "anthropic"
    BY DEF Answers
  <1>4. dialect \in {"anthropic", "openai", "gemini"}
    BY DialectsAssumption
  <1>5. QED
    BY <1>2, <1>3, <1>4 DEF AnswerShape

(* The items of an answer, by their fields.                                    *)
LEMMA Items ==
  ASSUME AnswerShape, NEW k \in 1..Len(message)
  PROVE  /\ message[k] \in Item
         /\ message[k].kind \in BlockKinds
         /\ message[k].size \in 0..2
         /\ k \in 1..MaxItems /\ k \in Ids
         /\ message[k].kind # "tool" => message[k].size \in 1..2
  <1>1. message[k] \in Item
    BY DEF AnswerShape
  <1>2. message[k].kind \in BlockKinds /\ message[k].size \in 0..2
    BY <1>1 DEF Item, None, Whole
  <1>3. k \in 1..MaxItems /\ k \in Ids
    BY ItemsAssumption DEF AnswerShape, Ids
  <1>4. message[k].kind # "tool" => message[k].size # 0
    BY DEF AnswerShape, None
  <1>5. QED
    BY <1>1, <1>2, <1>3, <1>4

(* Calls are numbered in their order, from 0.                                  *)
LEMMA Numbers ==
  ASSUME AnswerShape, NEW k \in Nat
  PROVE  /\ Number(k) \in Nat
         /\ k <= 1 => Number(k) = 0
         /\ k > 0 => Number(k) <= k - 1
         /\ k \in 1..Len(message) =>
               Number(k + 1) = IF message[k].kind = "tool" THEN Number(k) + 1 ELSE Number(k)
  <1> DEFINE T(i) == {j \in 1..(i - 1) : message[j].kind = "tool"}
  <1>1. ASSUME NEW i \in Nat
        PROVE  /\ IsFiniteSet(T(i)) /\ Cardinality(T(i)) \in Nat
               /\ i > 0 => Cardinality(T(i)) <= i - 1
               /\ i <= 1 => Cardinality(T(i)) = 0
    <2>1. IsFiniteSet(1..(i - 1)) /\ Cardinality(1..(i - 1)) = IF i > 0 THEN i - 1 ELSE 0
      BY FS_Interval
    <2>2. T(i) \subseteq 1..(i - 1)
      OBVIOUS
    <2>3. IsFiniteSet(T(i)) /\ Cardinality(T(i)) <= Cardinality(1..(i - 1))
      BY <2>1, <2>2, FS_Subset
    <2>4. Cardinality(T(i)) \in Nat
      BY <2>3, FS_CardinalityType
    <2>5. QED
      BY <2>1, <2>3, <2>4
  <1>2. \A i : Number(i) = Cardinality(T(i))
    BY DEF Number
  <1>3. ASSUME k \in 1..Len(message)
        PROVE Number(k + 1) = IF message[k].kind = "tool" THEN Number(k) + 1 ELSE Number(k)
    <2>1. CASE message[k].kind = "tool"
      <3>1. T(k + 1) = T(k) \cup {k}
        BY <1>3, <2>1
      <3>2. k \notin T(k)
        OBVIOUS
      <3>3. Cardinality(T(k + 1)) = Cardinality(T(k)) + 1
        <4> HIDE DEF T
        <4> QED
          BY <3>1, <3>2, <1>1, FS_AddElement
      <3>4. QED
        BY <3>3, <1>2, <2>1
    <2>2. CASE message[k].kind # "tool"
      <3>1. T(k + 1) = T(k)
        BY <1>3, <2>2
      <3>2. QED
        BY <3>1, <1>2, <2>2
    <2>3. QED
      BY <2>1, <2>2
  <1>4. QED
    <2> HIDE DEF T
    <2> QED
      BY <1>1, <1>2, <1>3

(* No two calls have the same number.                                          *)
LEMMA NumberLess ==
  ASSUME AnswerShape, NEW j \in Nat \ {0}, NEW k \in Nat, j < k, message[j].kind = "tool"
  PROVE  Number(j) < Number(k)
  <1> DEFINE T(i) == {l \in 1..(i - 1) : message[l].kind = "tool"}
  <1>1. IsFiniteSet(T(j)) /\ IsFiniteSet(T(k)) /\ Cardinality(T(j)) \in Nat /\ Cardinality(T(k)) \in Nat
    <2>1. IsFiniteSet(1..(j - 1)) /\ IsFiniteSet(1..(k - 1))
      BY FS_Interval
    <2>2. T(j) \subseteq 1..(j - 1) /\ T(k) \subseteq 1..(k - 1)
      OBVIOUS
    <2>3. QED
      <3> HIDE DEF T
      <3> QED
        BY <2>1, <2>2, FS_Subset, FS_CardinalityType
  <1>2. T(j) \cup {j} \subseteq T(k) /\ j \notin T(j)
    OBVIOUS
  <1>3. Number(j) = Cardinality(T(j)) /\ Number(k) = Cardinality(T(k))
    BY DEF Number
  <1> HIDE DEF T
  <1>4. IsFiniteSet(T(j) \cup {j}) /\ Cardinality(T(j) \cup {j}) = Cardinality(T(j)) + 1
    BY <1>1, <1>2, FS_AddElement
  <1>5. Cardinality(T(j) \cup {j}) <= Cardinality(T(k))
    BY <1>1, <1>2, <1>4, FS_Subset
  <1>6. QED
    BY <1>1, <1>3, <1>4, <1>5

-------------------------------------------------------------------------------
(* The blocks.                                                               *)

(* bs2 is bs with b as its block k, which may be the next.                        *)
Puts(bs2, bs, k, b) ==
    /\ bs2 \in Seq(Block)
    /\ k \in 1..(Len(bs) + 1)
    /\ Len(bs2) = IF k = Len(bs) + 1 THEN k ELSE Len(bs)
    /\ bs2[k] = b
    /\ \A i \in 1..Len(bs) : i # k => bs2[i] = bs[i]

(* A block, by its fields.                                                    *)
LEMMA BlockFields ==
  ASSUME NEW b \in Block
  PROVE  /\ b.kind \in BlockKinds /\ b.id \in Ids /\ b.signed \in BOOLEAN
         /\ b.size \in 0..(3 + 2 * MaxItems)
         /\ b = [kind |-> b.kind, size |-> b.size, id |-> b.id, signed |-> b.signed]
  BY DEF Block, None, Null, Whole

(* A block of another size, and one that is sealed, are blocks.                  *)
LEMMA Resized ==
  ASSUME NEW b \in Block, NEW n \in 0..(3 + 2 * MaxItems)
  PROVE  /\ [b EXCEPT !.size = n] \in Block
         /\ [b EXCEPT !.size = n].kind = b.kind /\ [b EXCEPT !.size = n].id = b.id
         /\ [b EXCEPT !.size = n].size = n /\ [b EXCEPT !.size = n].signed = b.signed
  BY DEF Block, None, Null, Whole

(* A block that is sealed is a block, and otherwise the same.                      *)
LEMMA Sealed ==
  ASSUME NEW b \in Block
  PROVE  /\ [b EXCEPT !.signed = TRUE] \in Block
         /\ [b EXCEPT !.signed = TRUE].kind = b.kind /\ [b EXCEPT !.signed = TRUE].id = b.id
         /\ [b EXCEPT !.signed = TRUE].size = b.size /\ [b EXCEPT !.signed = TRUE].signed
  BY DEF Block, None, Null, Whole

(* A new block.                                                              *)
LEMMA NewBlocks ==
  ASSUME NEW kind \in BlockKinds, NEW id \in Ids, NEW n \in 0..3
  PROVE  /\ NewBlock(kind, id, n) \in Block
         /\ NewBlock(kind, id, n).kind = kind /\ NewBlock(kind, id, n).id = id
         /\ NewBlock(kind, id, n).size = n /\ ~NewBlock(kind, id, n).signed
  BY ItemsAssumption DEF NewBlock, Block, None, Null, Whole

(* Append puts a block at the end.                                            *)
LEMMA AppendPuts ==
  ASSUME NEW bs \in Seq(Block), NEW b \in Block
  PROVE  Puts(Append(bs, b), bs, Len(bs) + 1, b)
  BY DEF Puts

(* EXCEPT puts a block in the place of another.                                 *)
LEMMA ExceptPuts ==
  ASSUME NEW bs \in Seq(Block), NEW b \in Block, NEW k \in 1..Len(bs)
  PROVE  Puts([bs EXCEPT ![k] = b], bs, k, b)
  BY DEF Puts

(* A delta extends the last block,                                            *)
LEMMA ExtendPuts ==
  ASSUME NEW bs \in Seq(Block), NEW kind, NEW n \in 0..2, Extends(bs, kind),
         bs[Len(bs)].size + n <= 3 + 2 * MaxItems
  PROVE  /\ Len(bs) \in Nat \ {0}
         /\ Puts(AfterDelta(bs, kind, n), bs, Len(bs), [bs[Len(bs)] EXCEPT !.size = @ + n])
  <1>1. Len(bs) \in Nat \ {0} /\ bs[Len(bs)] \in Block
    BY DEF Extends
  <1>2. bs[Len(bs)].size \in Nat
    BY <1>1, BlockFields, ItemsAssumption
  <1>3. [bs[Len(bs)] EXCEPT !.size = @ + n] \in Block
    <2>1. bs[Len(bs)].size + n \in 0..(3 + 2 * MaxItems)
      BY <1>2, ItemsAssumption
    <2>2. QED
      BY <1>1, <2>1, Resized
  <1> DEFINE b == [bs[Len(bs)] EXCEPT !.size = @ + n]
  <1>4. AfterDelta(bs, kind, n) = [bs EXCEPT ![Len(bs)] = b]
    BY DEF AfterDelta
  <1>5. Len(bs) \in 1..Len(bs)
    BY <1>1
  <1>6. b \in Block => Puts([bs EXCEPT ![Len(bs)] = b], bs, Len(bs), b)
    <2> HIDE DEF b
    <2> QED
      BY <1>5, ExceptPuts
  <1>7. QED
    BY <1>1, <1>3, <1>4, <1>6

(* or begins one.                                                            *)
LEMMA BeginPuts ==
  ASSUME NEW bs \in Seq(Block), NEW kind \in BlockKinds, NEW n \in 0..3, ~Extends(bs, kind)
  PROVE  Puts(AfterDelta(bs, kind, n), bs, Len(bs) + 1, NewBlock(kind, 0, n))
  <1>1. 0 \in Ids
    BY ItemsAssumption DEF Ids
  <1>2. QED
    BY <1>1, NewBlocks, AppendPuts DEF AfterDelta

(* A signature seals the last block.                                          *)
LEMMA SignPuts ==
  ASSUME NEW bs \in Seq(Block), Len(bs) > 0, bs[Len(bs)].kind = "think"
  PROVE  Puts(AfterSignature(bs), bs, Len(bs), [bs[Len(bs)] EXCEPT !.signed = TRUE])
  <1>1. LastThought(bs) = {Len(bs)}
    BY DEF LastThought
  <1> DEFINE b == [bs[Len(bs)] EXCEPT !.signed = TRUE]
  <1>2. AfterSignature(bs) = [bs EXCEPT ![Len(bs)] = b]
    BY <1>1 DEF AfterSignature
  <1>3. b \in Block
    BY Sealed
  <1>4. b \in Block => Puts([bs EXCEPT ![Len(bs)] = b], bs, Len(bs), b)
    <2>1. Len(bs) \in 1..Len(bs)
      OBVIOUS
    <2> HIDE DEF b
    <2> QED
      BY <2>1, ExceptPuts
  <1>5. QED
    BY <1>2, <1>3, <1>4

(* A delta and the completion of a call that is there change its size.             *)
LEMMA CallPuts ==
  ASSUME NEW bs \in Seq(Block), NEW id, NEW k \in 1..Len(bs), Tool(bs, id) = {k}, NEW n \in 0..3,
         bs[k].size + n <= 3 + 2 * MaxItems
  PROVE  /\ Puts(AfterToolDelta(bs, id, n), bs, k, [bs[k] EXCEPT !.size = @ + n])
         /\ Puts(AfterComplete(bs, id, n), bs, k, [bs[k] EXCEPT !.size = n])
  <1>1. bs[k] \in Block /\ bs[k].size \in Nat
    BY BlockFields, ItemsAssumption
  <1>2. [bs[k] EXCEPT !.size = @ + n] \in Block /\ [bs[k] EXCEPT !.size = n] \in Block
    <2>1. bs[k].size + n \in 0..(3 + 2 * MaxItems) /\ n \in 0..(3 + 2 * MaxItems)
      BY <1>1, ItemsAssumption
    <2>2. QED
      BY <1>1, <2>1, Resized
  <1> DEFINE b == [bs[k] EXCEPT !.size = @ + n]
  <1> DEFINE c == [bs[k] EXCEPT !.size = n]
  <1>3. AfterToolDelta(bs, id, n) = [bs EXCEPT ![k] = b]
    BY DEF AfterToolDelta
  <1>4. AfterComplete(bs, id, n) = [bs EXCEPT ![k] = c]
    BY DEF AfterComplete
  <1>5. /\ b \in Block => Puts([bs EXCEPT ![k] = b], bs, k, b)
        /\ c \in Block => Puts([bs EXCEPT ![k] = c], bs, k, c)
    <2> HIDE DEF b, c
    <2> QED
      BY ExceptPuts
  <1>6. QED
    BY <1>2, <1>3, <1>4, <1>5

-------------------------------------------------------------------------------
(* Every call has an id of its own.                                            *)
LEMMA OwnIds ==
  ASSUME AnswerShape, NEW j \in 1..Len(message), NEW k \in 1..Len(message), j # k,
         message[j].kind = "tool", message[k].kind = "tool"
  PROVE  IdOf(j) # IdOf(k)
  <1>1. j \in Nat \ {0} /\ k \in Nat \ {0}
    BY DEF AnswerShape
  <1>2. Number(j) \in Nat /\ Number(k) \in Nat
    BY <1>1, Numbers
  <1>3. Number(j) # Number(k)
    BY <1>1, <1>2, NumberLess
  <1>4. QED
    BY <1>3 DEF IdOf

(* The ids are ids.                                                           *)
LEMMA IdsOf ==
  ASSUME AnswerShape, NEW k \in 1..Len(message)
  PROVE  IdOf(k) \in Ids
  <1>1. k \in Nat /\ k > 0 /\ k <= MaxItems /\ k \in Ids
    BY Items, ItemsAssumption
  <1>2. Number(k) \in Nat /\ Number(k) <= k - 1
    BY <1>1, Numbers
  <1>3. QED
    BY <1>1, <1>2, ItemsAssumption DEF IdOf, Ids

(* The blocks that are held stand for the first items of the answer.              *)
LEMMA HeldItems ==
  ASSUME AnswerShape, NEW s \in Positions, Stands(s), NEW j \in Int, NEW bs \in Seq(Block), Held(bs, s, j)
  PROVE  /\ bs \in Seq(Block)
         /\ Len(bs) <= Len(message)
         /\ Here(s) /\ Opened(s, j) => Len(bs) = s.item
         /\ Here(s) /\ ~Opened(s, j) => Len(bs) = s.item - 1
         /\ \A k \in 1..Len(bs) :
               /\ k \in 1..Len(message)
               /\ bs[k] \in Block
               /\ bs[k].kind = message[k].kind
               /\ bs[k].id = IdOf(k)
               /\ k # s.item => Fits(bs[k], k, message[k].size, TRUE, TRUE, j)
  <1>1. s.item \in Nat /\ s.item <= Len(message) + 1 /\ Len(message) \in Nat
    BY ItemsAssumption DEF Stands, Positions, AnswerShape
  <1>2. bs \in Seq(Block) /\ Len(bs) \in Nat
    BY DEF Held
  <1>3. Opened(s, j) => Here(s)
    BY DEF Opened, TextHere, ToolHere
  <1>4. Here(s) => s.item \in 1..Len(message)
    BY DEF Here
  <1>5. /\ Len(bs) <= Len(message)
        /\ Here(s) /\ Opened(s, j) => Len(bs) = s.item
        /\ Here(s) /\ ~Opened(s, j) => Len(bs) = s.item - 1
    BY <1>1, <1>3, <1>4 DEF Held, Passed
  <1>6. ASSUME NEW k \in 1..Len(bs)
        PROVE  /\ k \in 1..Len(message)
               /\ bs[k] \in Block
               /\ bs[k].kind = message[k].kind
               /\ bs[k].id = IdOf(k)
               /\ k # s.item => Fits(bs[k], k, message[k].size, TRUE, TRUE, j)
    <2>1. k \in 1..Len(message) /\ k \in 1..Len(bs)
      BY <1>1, <1>2, <1>5
    <2>2. CASE k \in 1..Passed(s)
      BY <2>1, <2>2 DEF Held, Fits
    <2>3. CASE k \notin 1..Passed(s)
      <3>1. Opened(s, j) /\ k = s.item
        BY <1>1, <1>3, <1>4, <2>1, <2>3 DEF Held, Passed
      <3>2. QED
        BY <2>1, <3>1 DEF Held, Fits
    <2>4. QED
      BY <2>2, <2>3
  <1>7. QED
    BY <1>2, <1>5, <1>6

(* A call is found by its id,                                                 *)
LEMMA ToolHeld ==
  ASSUME AnswerShape, NEW s \in Positions, Stands(s), NEW j \in Int, NEW bs \in Seq(Block), Held(bs, s, j),
         NEW k \in 1..Len(bs), message[k].kind = "tool"
  PROVE  Tool(bs, IdOf(k)) = {k}
  <1>1. bs \in Seq(Block) /\ Len(bs) \in Nat /\ DOMAIN bs = 1..Len(bs)
    BY DEF Held
  <1>2. \A i \in 1..Len(bs) : i \in 1..Len(message) /\ bs[i].kind = message[i].kind /\ bs[i].id = IdOf(i)
    BY HeldItems
  <1>3. \A i \in 1..Len(bs) : IsTool(bs[i]) /\ bs[i].id = IdOf(k) => i = k
    BY <1>2, OwnIds DEF IsTool
  <1>4. IsTool(bs[k]) /\ bs[k].id = IdOf(k)
    BY <1>2 DEF IsTool
  <1>5. \A i \in (k + 1)..Len(bs) : i \in 1..Len(bs) /\ i # k
    BY <1>1
  <1>6. QED
    BY <1>1, <1>3, <1>4, <1>5 DEF Tool

(* and not before it is there.                                                *)
LEMMA ToolNotYet ==
  ASSUME AnswerShape, NEW s \in Positions, Stands(s), NEW j \in Int, NEW bs \in Seq(Block), Held(bs, s, j),
         NEW k \in 1..Len(message), k > Len(bs), message[k].kind = "tool"
  PROVE  Tool(bs, IdOf(k)) = {}
  <1>1. bs \in Seq(Block) /\ Len(bs) \in Nat /\ DOMAIN bs = 1..Len(bs)
    BY DEF Held
  <1>2. \A i \in 1..Len(bs) : i \in 1..Len(message) /\ bs[i].kind = message[i].kind /\ bs[i].id = IdOf(i)
    BY HeldItems
  <1>3. \A i \in 1..Len(bs) : ~(IsTool(bs[i]) /\ bs[i].id = IdOf(k))
    BY <1>1, <1>2, OwnIds DEF IsTool
  <1>4. QED
    BY <1>1, <1>3 DEF Tool

-------------------------------------------------------------------------------
(* What an event makes of the blocks.                                          *)

(* A position, by its fields.                                                 *)
LEMMA PositionFields ==
  ASSUME AnswerShape, NEW s \in Positions
  PROVE  /\ s.item \in Nat /\ s.part \in 0..2 /\ s.flags \subseteq Flags
         /\ Len(message) \in Nat /\ Len(message) <= MaxItems
         /\ Here(s) => s.item \in 1..Len(message)
         /\ Number(s.item) \in Nat
  <1>1. s.item \in Nat /\ s.part \in 0..2 /\ s.flags \subseteq Flags
    BY ItemsAssumption DEF Positions, None, Whole
  <1>2. Len(message) \in Nat /\ Len(message) <= MaxItems
    BY ItemsAssumption DEF AnswerShape
  <1>3. Number(s.item) \in Nat
    BY <1>1, Numbers
  <1>4. QED
    BY <1>1, <1>2, <1>3 DEF Here

(* Nothing of an item has come that was not begun, nor of one past the answer.    *)
LEMMA Unopened ==
  ASSUME AnswerShape, NEW t \in Positions, (t.part = 0 /\ t.flags = {}) \/ ~Here(t)
  PROVE  ~Opened(t, 0)
  <1>1. Number(t.item) \in Nat
    BY PositionFields
  <1>2. QED
    BY <1>1 DEF Opened, TextHere, ToolHere

(* Nothing has to be known where nothing came.                                 *)
LEMMA Waits ==
  ASSUME AnswerShape, NEW s \in Positions, NEW t \in Positions, NEW bs \in Seq(Block), Held(bs, s, 0),
         ~Opened(s, 0), ~Opened(t, 0), Passed(s) = Passed(t)
  PROVE  Held(bs, t, 0)
  BY DEF Held

(* The current item grows, or has come.                                        *)
LEMMA Grows ==
  ASSUME AnswerShape, NEW s \in Positions, Stands(s), Here(s), NEW t \in Positions,
         NEW bs \in Seq(Block), Held(bs, s, 0), NEW bs2, NEW b, Puts(bs2, bs, s.item, b),
         \/ /\ t.item = s.item
            /\ Opened(t, 0)
            /\ Fits(b, t.item, t.part, FALSE, "signed" \in t.flags, 0)
         \/ /\ t.item = s.item + 1
            /\ ~Opened(t, 0)
            /\ Fits(b, s.item, message[s.item].size, TRUE, TRUE, 0)
  PROVE  Held(bs2, t, 0)
  <1>1. s.item \in Nat \ {0} /\ t.item \in Nat
    BY PositionFields
  <1>2. Len(bs) = IF Opened(s, 0) THEN s.item ELSE s.item - 1
    <2>1. 0 \in Int
      OBVIOUS
    <2>2. QED
      BY <2>1, HeldItems
  <1>3. /\ bs2 \in Seq(Block) /\ Len(bs2) = s.item /\ bs2[s.item] = b
        /\ \A k \in 1..(s.item - 1) : bs2[k] = bs[k]
    BY <1>1, <1>2 DEF Puts
  <1>4. Passed(s) = s.item - 1 /\ \A k \in 1..(s.item - 1) : Fits(bs[k], k, message[k].size, TRUE, TRUE, 0)
    BY <1>1 DEF Held, Passed
  <1>5. \A k \in 1..(s.item - 1) : Fits(bs2[k], k, message[k].size, TRUE, TRUE, 0)
    BY <1>3, <1>4
  <1>6. CASE t.item = s.item /\ Opened(t, 0) /\ Fits(b, t.item, t.part, FALSE, "signed" \in t.flags, 0)
    <2>1. Passed(t) = s.item - 1 /\ Len(bs2) = Passed(t) + 1
      BY <1>1, <1>3, <1>6 DEF Passed
    <2>2. Fits(bs2[t.item], t.item, t.part, FALSE, "signed" \in t.flags, 0)
      BY <1>3, <1>6
    <2>3. QED
      BY <1>3, <1>5, <1>6, <2>1, <2>2 DEF Held
  <1>7. CASE /\ t.item = s.item + 1 /\ ~Opened(t, 0)
             /\ Fits(b, s.item, message[s.item].size, TRUE, TRUE, 0)
    <2>1. Passed(t) = s.item /\ Len(bs2) = Passed(t)
      BY <1>1, <1>3, <1>7 DEF Passed
    <2>2. \A k \in 1..s.item : k \in 1..(s.item - 1) \/ k = s.item
      BY <1>1
    <2>3. \A k \in 1..s.item : Fits(bs2[k], k, message[k].size, TRUE, TRUE, 0)
      BY <1>3, <1>5, <1>7, <2>2
    <2>4. QED
      BY <1>3, <1>7, <2>1, <2>3 DEF Held
  <1>8. QED
    BY <1>6, <1>7

(* An item that has come is passed.                                           *)
LEMMA Passes ==
  ASSUME AnswerShape, NEW s \in Positions, Stands(s), Here(s), NEW t \in Positions,
         NEW bs \in Seq(Block), Held(bs, s, 0), Opened(s, 0),
         t.item = s.item + 1, ~Opened(t, 0),
         Fits(bs[s.item], s.item, message[s.item].size, TRUE, TRUE, 0)
  PROVE  Held(bs, t, 0)
  <1>1. Len(bs) = s.item /\ s.item \in Nat \ {0}
    <2>1. 0 \in Int
      OBVIOUS
    <2>2. Len(bs) = s.item
      BY <2>1, HeldItems
    <2>3. QED
      BY <2>2, PositionFields DEF Here
  <1>2. Puts(bs, bs, s.item, bs[s.item])
    BY <1>1 DEF Puts
  <1>3. QED
    BY <1>2, Grows

(* What is known of the block of the current item.                              *)
LEMMA CurrentBlock ==
  ASSUME AnswerShape, NEW s \in Positions, Stands(s), Here(s), NEW bs \in Seq(Block), Held(bs, s, 0)
  PROVE  /\ s.item \in 1..Len(message)
         /\ ~Opened(s, 0) => Len(bs) + 1 = s.item
         /\ Opened(s, 0) => /\ Len(bs) = s.item
                            /\ s.item \in 1..Len(bs)
                            /\ bs[s.item] \in Block
                            /\ Fits(bs[s.item], s.item, s.part, FALSE, "signed" \in s.flags, 0)
                            /\ bs[s.item].kind = message[s.item].kind
                            /\ bs[s.item].id = IdOf(s.item)
                            /\ bs[s.item].size \in 0..s.part
                            /\ dialect # "openai" \/ TextHere(s) => bs[s.item].size = s.part
                            /\ bs[s.item].signed <=> /\ message[s.item].kind = "think"
                                                     /\ dialect = "anthropic"
                                                     /\ "signed" \in s.flags
  <1>1. s.item \in 1..Len(message) /\ s.item \in Nat /\ s.part \in 0..2 /\ Number(s.item) \in Nat
    BY PositionFields
  <1>2. Len(bs) = IF Opened(s, 0) THEN s.item ELSE s.item - 1
    <2>1. 0 \in Int
      OBVIOUS
    <2>2. QED
      BY <2>1, HeldItems
  <1>3. ASSUME Opened(s, 0)
        PROVE  /\ Fits(bs[s.item], s.item, s.part, FALSE, "signed" \in s.flags, 0)
               /\ bs[s.item] \in Block
               /\ bs[s.item].kind = message[s.item].kind
               /\ bs[s.item].id = IdOf(s.item)
               /\ bs[s.item].signed <=> message[s.item].kind = "think" /\ dialect = "anthropic" /\ "signed" \in s.flags
               /\ bs[s.item].size \in Amounts(s.item, s.part, FALSE, 0)
    <2>1. Fits(bs[s.item], s.item, s.part, FALSE, "signed" \in s.flags, 0)
      BY <1>3 DEF Held
    <2>2. QED
      BY <2>1 DEF Fits
  <1>4. \A x : x \in Amounts(s.item, s.part, FALSE, 0) =>
            x \in 0..s.part /\ (dialect # "openai" \/ TextHere(s) => x = s.part)
    BY <1>1 DEF Amounts, TextHere, AnswerShape
  <1>5. ~Opened(s, 0) => Len(bs) + 1 = s.item
    BY <1>1, <1>2
  <1>6. Opened(s, 0) => Len(bs) = s.item /\ s.item \in 1..Len(bs)
    BY <1>1, <1>2
  <1>7. Opened(s, 0) => /\ bs[s.item].size \in 0..s.part
                        /\ dialect # "openai" \/ TextHere(s) => bs[s.item].size = s.part
    BY <1>3, <1>4
  <1>8. QED
    BY <1>1, <1>3, <1>5, <1>6, <1>7

(* A part of a text, or of the reasoning, has come.                             *)
LEMMA Texted ==
  ASSUME AnswerShape, NEW s \in Positions, Stands(s), TextHere(s), NEW t \in Positions,
         NEW bs \in Seq(Block), Held(bs, s, 0),
         NEW n \in 1..(message[s.item].size - s.part),
         \/ t.item = s.item /\ t.part = s.part + n /\ t.flags = s.flags
         \/ /\ t.item = s.item + 1 /\ t.part = 0 /\ t.flags = {}
            /\ s.part + n = message[s.item].size /\ dialect # "anthropic"
  PROVE  Held(AfterDelta(bs, message[s.item].kind, n), t, 0)
  <1> DEFINE kind == message[s.item].kind
  <1>1. Here(s) /\ kind \in {"text", "think"} /\ kind \in BlockKinds
    BY Items DEF TextHere, Here, BlockKinds
  <1>2. s.item \in 1..Len(message) /\ s.item \in Nat /\ s.part \in 0..2 /\ message[s.item].size \in 0..2
    BY <1>1, PositionFields, Items
  <1>3. n \in 1..2 /\ s.part + n <= message[s.item].size /\ s.part + n \in 0..2
    BY <1>2
  <1>4. "signed" \notin s.flags \/ dialect # "anthropic"
    BY <1>1, <1>2, <1>3 DEF Stands, StandsAnthropic
  <1>5. ASSUME NEW b \in Block, b.kind = kind, b.id = 0, b.size = s.part + n, ~b.signed,
               Puts(AfterDelta(bs, kind, n), bs, s.item, b)
        PROVE  Held(AfterDelta(bs, kind, n), t, 0)
    <2>1. CASE t.item = s.item /\ t.part = s.part + n /\ t.flags = s.flags
      <3>1. TextHere(t) /\ t.part > 0
        BY <1>2, <1>3, <2>1 DEF TextHere, Here
      <3>2. Fits(b, t.item, t.part, FALSE, "signed" \in t.flags, 0)
        BY <1>1, <1>4, <1>5, <2>1 DEF Fits, IdOf, Amounts, TextHere
      <3>3. QED
        BY <1>1, <1>5, <2>1, <3>1, <3>2, Grows DEF Opened
    <2>2. CASE /\ t.item = s.item + 1 /\ t.part = 0 /\ t.flags = {}
               /\ s.part + n = message[s.item].size /\ dialect # "anthropic"
      <3>1. ~Opened(t, 0)
        BY <2>2, Unopened
      <3>2. Fits(b, s.item, message[s.item].size, TRUE, TRUE, 0)
        BY <1>1, <1>5, <2>2 DEF Fits, IdOf, Amounts, TextHere
      <3>3. QED
        BY <1>1, <1>5, <2>2, <3>1, <3>2, Grows
    <2>3. QED
      BY <2>1, <2>2
  <1>6. CASE s.part > 0
    <2>1. Opened(s, 0)
      BY <1>6 DEF Opened
    <2>2. /\ Len(bs) = s.item /\ bs[s.item] \in Block /\ bs[s.item].kind = kind
          /\ bs[s.item].id = IdOf(s.item) /\ bs[s.item].size = s.part /\ ~bs[s.item].signed
      BY <1>1, <1>4, <2>1, CurrentBlock
    <2>3. Extends(bs, kind)
      BY <1>2, <2>2 DEF Extends, Last
    <2>4. bs[Len(bs)].size + n <= 3 + 2 * MaxItems
      BY <1>2, <1>3, <2>2, ItemsAssumption
    <2>5. Puts(AfterDelta(bs, kind, n), bs, Len(bs), [bs[Len(bs)] EXCEPT !.size = @ + n])
      <3>1. n \in 0..2
        BY <1>3
      <3>2. QED
        BY <2>3, <2>4, <3>1, ExtendPuts
    <2> DEFINE b == [bs[s.item] EXCEPT !.size = @ + n]
    <2>6. Puts(AfterDelta(bs, kind, n), bs, s.item, b)
      BY <2>2, <2>5
    <2>7. b \in Block /\ b.kind = kind /\ b.id = 0 /\ b.size = s.part + n /\ ~b.signed
      <3>1. bs[s.item].size + n = s.part + n /\ s.part + n \in 0..(3 + 2 * MaxItems)
        BY <1>3, <2>2, ItemsAssumption
      <3>2. IdOf(s.item) = 0
        BY DEF IdOf, TextHere
      <3>3. /\ b \in Block /\ b.kind = bs[s.item].kind /\ b.id = bs[s.item].id
            /\ b.size = s.part + n /\ b.signed = bs[s.item].signed
        BY <2>2, <3>1, Resized
      <3>4. ~bs[s.item].signed
        BY <2>2, BlockFields
      <3>5. QED
        BY <2>2, <3>2, <3>3, <3>4
    <2>8. QED
      <3> HIDE DEF b
      <3> QED
        BY <1>5, <2>6, <2>7
  <1>7. CASE s.part = 0
    <2>1. ~Opened(s, 0)
      BY <1>7 DEF Opened, TextHere, ToolHere
    <2>2. Len(bs) + 1 = s.item
      BY <1>1, <2>1, CurrentBlock
    <2>3. ~Extends(bs, kind)
      <3> SUFFICES ASSUME bs # <<>>, bs[Len(bs)].kind = kind PROVE bs[Len(bs)].signed
        BY DEF Extends, Last
      <3>1. Len(bs) \in 1..Len(bs) /\ Len(bs) = s.item - 1 /\ s.item > 1
        BY <1>2, <2>2
      <3>2. Fits(bs[Len(bs)], Len(bs), message[Len(bs)].size, TRUE, TRUE, 0)
        <4>1. 0 \in Int
          OBVIOUS
        <4>2. \A k \in 1..Len(bs) : k # s.item => Fits(bs[k], k, message[k].size, TRUE, TRUE, 0)
          BY <4>1, HeldItems
        <4>3. Len(bs) # s.item
          BY <3>1, <1>2
        <4>4. QED
          BY <3>1, <4>2, <4>3
      <3>3. bs[Len(bs)].kind = message[Len(bs)].kind
        BY <3>2 DEF Fits
      <3>4. kind = message[s.item - 1].kind
        BY <3>1, <3>3
      <3>5. kind = "think" /\ dialect = "anthropic"
        BY <1>2, <3>1, <3>4 DEF AnswerShape, TextHere
      <3>6. QED
        BY <3>1, <3>2, <3>4, <3>5 DEF Fits
    <2>4. Puts(AfterDelta(bs, kind, n), bs, Len(bs) + 1, NewBlock(kind, 0, n))
      <3>1. n \in 0..3
        BY <1>3
      <3>2. QED
        BY <1>1, <2>3, <3>1, BeginPuts
    <2> DEFINE b == NewBlock(kind, 0, n)
    <2>5. b \in Block /\ b.kind = kind /\ b.id = 0 /\ b.size = s.part + n /\ ~b.signed
      <3>1. n \in 0..3 /\ 0 \in Ids /\ s.part + n = n
        BY <1>3, <1>7, ItemsAssumption DEF Ids
      <3>2. /\ b \in Block /\ b.kind = kind /\ b.id = 0 /\ b.size = n
            /\ ~b.signed
        <4>1. \A x \in BlockKinds, m \in 0..3 :
                 /\ NewBlock(x, 0, m) \in Block /\ NewBlock(x, 0, m).kind = x
                 /\ NewBlock(x, 0, m).id = 0 /\ NewBlock(x, 0, m).size = m
                 /\ ~NewBlock(x, 0, m).signed
          BY <3>1, NewBlocks
        <4>2. QED
          BY <1>1, <3>1, <4>1, Zenon
      <3>3. QED
        <4> HIDE DEF b, kind
        <4> QED
          BY <3>1, <3>2
    <2>6. QED
      <3> HIDE DEF b
      <3> QED
        BY <1>5, <2>2, <2>4, <2>5 DEF b
  <1>8. QED
    BY <1>2, <1>6, <1>7

(* A signature seals the reasoning that came last.                              *)
LEMMA Signed ==
  ASSUME AnswerShape, NEW s \in Positions, Stands(s), Here(s), Opened(s, 0),
         message[s.item].kind = "think", dialect = "anthropic",
         NEW t \in Positions, t.item = s.item, t.part = s.part, "signed" \in t.flags,
         NEW bs \in Seq(Block), Held(bs, s, 0)
  PROVE  Held(AfterSignature(bs), t, 0)
  <1> DEFINE b == [bs[s.item] EXCEPT !.signed = TRUE]
  <1>1. /\ Len(bs) = s.item /\ bs[s.item] \in Block /\ s.item \in 1..Len(bs)
        /\ bs[s.item].kind = message[s.item].kind /\ bs[s.item].id = IdOf(s.item)
        /\ bs[s.item].size = s.part
    BY CurrentBlock
  <1>2. Puts(AfterSignature(bs), bs, Len(bs), [bs[Len(bs)] EXCEPT !.signed = TRUE])
    BY <1>1, SignPuts
  <1>3. /\ b \in Block /\ b.kind = message[s.item].kind /\ b.id = IdOf(s.item)
        /\ b.size = s.part /\ b.signed
    BY <1>1, Sealed
  <1>4. Puts(AfterSignature(bs), bs, s.item, b)
    BY <1>1, <1>2
  <1>5. TextHere(s) /\ s.part > 0
    BY DEF Opened, TextHere, ToolHere
  <1>6. Opened(t, 0)
    BY <1>5 DEF Opened, TextHere, Here
  <1> HIDE DEF b
  <1>7. Fits(b, t.item, t.part, FALSE, "signed" \in t.flags, 0)
    BY <1>3 DEF Fits, Amounts
  <1>8. QED
    BY <1>4, <1>6, <1>7, Grows

(* A call starts: its block is there, and may have grown since.                   *)
LEMMA Starts ==
  ASSUME AnswerShape, NEW s \in Positions, Stands(s), ToolHere(s), ~Opened(s, 0), dialect # "gemini",
         NEW t \in Positions,
         \/ t.item = s.item /\ Opened(t, 0) /\ (dialect = "anthropic" => t.part = 0)
         \/ t.item = s.item + 1 /\ ~Opened(t, 0) /\ dialect = "openai",
         NEW bs \in Seq(Block), Held(bs, s, 0)
  PROVE  /\ Held(Append(bs, NewBlock("tool", IdOf(s.item), None)), t, 0)
         /\ Append(bs, NewBlock("tool", IdOf(s.item), None))[s.item].size = 0
  <1> DEFINE b   == NewBlock("tool", IdOf(s.item), None)
  <1> DEFINE bs2 == Append(bs, b)
  <1>1. Here(s) /\ message[s.item].kind = "tool" /\ s.item \in 1..Len(message) /\ s.item \in Nat
    BY PositionFields DEF ToolHere
  <1>2. Len(bs) + 1 = s.item
    BY <1>1, CurrentBlock
  <1>3. b \in Block /\ b.kind = "tool" /\ b.id = IdOf(s.item) /\ b.size = 0 /\ ~b.signed
    <2>1. "tool" \in BlockKinds /\ IdOf(s.item) \in Ids /\ None \in 0..3 /\ None = 0
      BY <1>1, IdsOf DEF BlockKinds, None
    <2>2. QED
      BY <2>1, NewBlocks
  <1>4. bs2[s.item] = b
    <2> HIDE DEF b
    <2> QED
      BY <1>2, <1>3
  <1>5. Puts(bs2, bs, s.item, b)
    <2> HIDE DEF b
    <2> QED
      BY <1>2, <1>3, AppendPuts
  <1>6. /\ Number(s.item) \in Nat /\ t.part \in 0..2 /\ message[s.item].size \in 0..2
    BY <1>1, PositionFields, Items
  <1> HIDE DEF b, bs2
  <1>7. CASE t.item = s.item /\ Opened(t, 0) /\ (dialect = "anthropic" => t.part = 0)
    <2>1. Fits(b, t.item, t.part, FALSE, "signed" \in t.flags, 0)
      BY <1>1, <1>3, <1>6, <1>7 DEF Fits, Amounts
    <2>2. QED
      BY <1>1, <1>3, <1>4, <1>5, <1>7, <2>1, Grows DEF b, bs2
  <1>8. CASE t.item = s.item + 1 /\ ~Opened(t, 0) /\ dialect = "openai"
    <2>1. Fits(b, s.item, message[s.item].size, TRUE, TRUE, 0)
      BY <1>1, <1>3, <1>6, <1>8 DEF Fits, Amounts
    <2>2. QED
      BY <1>1, <1>3, <1>4, <1>5, <1>8, <2>1, Grows DEF b, bs2
  <1>9. QED
    BY <1>7, <1>8

(* More of the arguments of a call have come.                                   *)
LEMMA Deltas ==
  ASSUME AnswerShape, NEW s \in Positions, Stands(s), ToolHere(s), Opened(s, 0),
         NEW n \in 1..(message[s.item].size - s.part),
         NEW t \in Positions,
         \/ t.item = s.item /\ Opened(t, 0) /\ t.part = s.part + n
         \/ /\ t.item = s.item + 1 /\ ~Opened(t, 0) /\ dialect = "openai"
            /\ message[s.item].size = s.part + n,
         NEW bs \in Seq(Block), Held(bs, s, 0)
  PROVE  Held(AfterToolDelta(bs, IdOf(s.item), n), t, 0)
  <1> DEFINE b   == [bs[s.item] EXCEPT !.size = @ + n]
  <1> DEFINE bs2 == AfterToolDelta(bs, IdOf(s.item), n)
  <1>1. /\ Here(s) /\ message[s.item].kind = "tool" /\ s.item \in 1..Len(message) /\ s.item \in Nat
        /\ s.part \in 0..2 /\ message[s.item].size \in 0..2 /\ Number(s.item) \in Nat
    BY PositionFields, Items DEF ToolHere
  <1>2. /\ s.item \in 1..Len(bs) /\ bs[s.item] \in Block
        /\ bs[s.item].kind = "tool" /\ bs[s.item].id = IdOf(s.item)
        /\ bs[s.item].size \in 0..s.part
        /\ dialect # "openai" => bs[s.item].size = s.part
        /\ ~bs[s.item].signed
    BY <1>1, CurrentBlock
  <1>3. n \in 0..3 /\ n \in 1..2 /\ bs[s.item].size + n \in 0..(3 + 2 * MaxItems)
    <2>1. n \in 1..2 /\ bs[s.item].size \in 0..2
      BY <1>1, <1>2
    <2>2. \A z \in 0..2, k \in 1..2 : k \in 0..3 /\ (1 <= MaxItems => z + k \in 0..(3 + 2 * MaxItems))
      BY ItemsAssumption
    <2>3. s.item \in 1..MaxItems
      BY <1>1, Items
    <2>4. 1 <= MaxItems
      BY <2>3, ItemsAssumption
    <2>5. QED
      BY <2>1, <2>2, <2>4
  <1>4. Tool(bs, IdOf(s.item)) = {s.item}
    <2>1. 0 \in Int
      OBVIOUS
    <2>2. QED
      BY <1>1, <1>2, <2>1, ToolHeld
  <1>5. Puts(bs2, bs, s.item, b)
    <2>1. bs[s.item].size + n <= 3 + 2 * MaxItems
      BY <1>3, ItemsAssumption
    <2>2. QED
      BY <1>2, <1>3, <1>4, <2>1, CallPuts
  <1>6. /\ b \in Block /\ b.kind = "tool" /\ b.id = IdOf(s.item) /\ ~b.signed
        /\ b.size = bs[s.item].size + n
    BY <1>2, <1>3, Resized
  <1> HIDE DEF b, bs2
  <1>7. b.size \in 0..(s.part + n) /\ (dialect # "openai" => b.size = s.part + n)
    <2>1. \A p \in 0..2, k \in 1..2 : \A z \in 0..p : z + k \in 0..(p + k)
      OBVIOUS
    <2>2. bs[s.item].size + n \in 0..(s.part + n)
      BY <1>1, <1>2, <1>3, <2>1
    <2>3. QED
      BY <1>2, <1>6, <2>2
  <1>8. CASE t.item = s.item /\ Opened(t, 0) /\ t.part = s.part + n
    <2>1. b.size \in Amounts(s.item, t.part, FALSE, 0)
      <3>1. b.size \in 0..t.part /\ (dialect # "openai" => b.size = t.part)
        BY <1>7, <1>8
      <3>2. ~(Number(s.item) < 0)
        BY <1>1
      <3>3. QED
        BY <1>1, <3>1, <3>2 DEF Amounts
    <2>2. Fits(b, t.item, t.part, FALSE, "signed" \in t.flags, 0)
      BY <1>1, <1>6, <1>8, <2>1 DEF Fits
    <2>3. Held(bs2, t, 0)
      BY <1>1, <1>5, <1>8, <2>2, Grows
    <2>4. QED
      BY <2>3 DEF bs2
  <1>9. CASE /\ t.item = s.item + 1 /\ ~Opened(t, 0) /\ dialect = "openai"
             /\ message[s.item].size = s.part + n
    <2>1. b.size \in Amounts(s.item, message[s.item].size, TRUE, 0)
      <3>1. b.size \in 0..message[s.item].size
        BY <1>7, <1>9
      <3>2. ~(Number(s.item) < 0)
        BY <1>1
      <3>3. QED
        BY <1>1, <1>9, <3>1, <3>2 DEF Amounts
    <2>2. Fits(b, s.item, message[s.item].size, TRUE, TRUE, 0)
      BY <1>1, <1>6, <1>9, <2>1 DEF Fits
    <2>3. Held(bs2, t, 0)
      BY <1>1, <1>5, <1>9, <2>2, Grows
    <2>4. QED
      BY <2>3 DEF bs2
  <1>10. QED
    BY <1>8, <1>9

(* A call is complete: Anthropic's, whose block was started, with what came if     *)
(* that is JSON;                                                             *)
LEMMA Completes ==
  ASSUME AnswerShape, NEW s \in Positions, Stands(s), ToolHere(s), Opened(s, 0), dialect = "anthropic",
         s.part = message[s.item].size,
         NEW t \in Positions, t.item = s.item + 1, ~Opened(t, 0),
         NEW bs \in Seq(Block), Held(bs, s, 0)
  PROVE  Held(AfterComplete(bs, IdOf(s.item), IF s.part = Whole THEN Whole ELSE None), t, 0)
  <1> DEFINE n   == IF s.part = Whole THEN Whole ELSE None
  <1> DEFINE b   == [bs[s.item] EXCEPT !.size = n]
  <1> DEFINE bs2 == AfterComplete(bs, IdOf(s.item), n)
  <1>1. /\ Here(s) /\ message[s.item].kind = "tool" /\ s.item \in 1..Len(message) /\ s.item \in Nat
        /\ s.part \in 0..2
    BY PositionFields DEF ToolHere
  <1>2. /\ s.item \in 1..Len(bs) /\ bs[s.item] \in Block
        /\ bs[s.item].kind = "tool" /\ bs[s.item].id = IdOf(s.item)
        /\ bs[s.item].size \in 0..s.part
        /\ ~bs[s.item].signed
    BY <1>1, CurrentBlock
  <1>3. n \in 0..3 /\ n \in 0..(3 + 2 * MaxItems) /\ bs[s.item].size + n <= 3 + 2 * MaxItems
    <2>1. n \in 0..2
      BY DEF None, Whole
    <2> HIDE DEF n
    <2>2. bs[s.item].size \in 0..2
      BY <1>1, <1>2
    <2>3. \A z, k \in 0..2 : k \in 0..3 /\ k \in 0..(3 + 2 * MaxItems)
                              /\ (1 <= MaxItems => z + k <= 3 + 2 * MaxItems)
      BY ItemsAssumption
    <2>4. s.item \in 1..MaxItems
      BY <1>1, Items
    <2>5. 1 <= MaxItems
      BY <2>4, ItemsAssumption
    <2>6. QED
      BY <2>1, <2>2, <2>3, <2>5
  <1>4. Tool(bs, IdOf(s.item)) = {s.item}
    <2>1. 0 \in Int
      OBVIOUS
    <2>2. QED
      BY <1>1, <1>2, <2>1, ToolHeld
  <1>5. Puts(bs2, bs, s.item, b)
    <2> HIDE DEF n
    <2> QED
      BY <1>2, <1>3, <1>4, CallPuts
  <1>6. /\ b \in Block /\ b.kind = "tool" /\ b.id = IdOf(s.item) /\ ~b.signed
        /\ b.size = n
    <2> HIDE DEF n
    <2> QED
      BY <1>2, <1>3, Resized
  <1> HIDE DEF b, bs2
  <1>7. Fits(b, s.item, message[s.item].size, TRUE, TRUE, 0)
    BY <1>1, <1>6 DEF Fits, Amounts
  <1>8. Held(bs2, t, 0)
    BY <1>1, <1>5, <1>7, Grows
  <1>9. QED
    BY <1>8 DEF bs2

(* and Gemini's, which comes whole.                                            *)
LEMMA Arrives ==
  ASSUME AnswerShape, NEW s \in Positions, Stands(s), ToolHere(s), dialect = "gemini",
         NEW t \in Positions, t.item = s.item + 1, ~Opened(t, 0),
         NEW bs \in Seq(Block), Held(bs, s, 0)
  PROVE  Held(AfterComplete(bs, IdOf(s.item), message[s.item].size), t, 0)
  <1> DEFINE n   == message[s.item].size
  <1> DEFINE b   == NewBlock("tool", IdOf(s.item), n)
  <1> DEFINE bs2 == AfterComplete(bs, IdOf(s.item), n)
  <1>1. /\ Here(s) /\ message[s.item].kind = "tool" /\ s.item \in 1..Len(message) /\ s.item \in Nat
        /\ n \in 0..2
    BY PositionFields, Items DEF ToolHere
  <1>2. ~Opened(s, 0)
    BY DEF Opened, ToolHere, TextHere
  <1>3. Len(bs) + 1 = s.item
    BY <1>1, <1>2, CurrentBlock
  <1>4. Tool(bs, IdOf(s.item)) = {}
    <2>1. 0 \in Int /\ s.item > Len(bs)
      BY <1>3
    <2>2. QED
      BY <1>1, <2>1, ToolNotYet
  <1>5. b \in Block /\ b.kind = "tool" /\ b.id = IdOf(s.item) /\ b.size = n /\ ~b.signed
    <2>1. "tool" \in BlockKinds /\ IdOf(s.item) \in Ids /\ n \in 0..3
      BY <1>1, IdsOf DEF BlockKinds
    <2>2. QED
      BY <2>1, NewBlocks
  <1>6. bs2 = Append(bs, b)
    BY <1>4 DEF AfterComplete
  <1> HIDE DEF b, bs2
  <1>7. Puts(bs2, bs, s.item, b)
    BY <1>3, <1>5, <1>6, AppendPuts
  <1>8. Fits(b, s.item, message[s.item].size, TRUE, TRUE, 0)
    BY <1>1, <1>5 DEF Fits, Amounts
  <1>9. Held(bs2, t, 0)
    BY <1>1, <1>7, <1>8, Grows
  <1>10. QED
    BY <1>9 DEF bs2

-------------------------------------------------------------------------------
(* What the provider sends next.                                              *)

(* The item sent.                                                            *)
LEMMA Sendings ==
  ASSUME AnswerShape
  PROVE  /\ Sending <=> Here(sv)
         /\ Current = message[sv.item]
         /\ Left = 1..(message[sv.item].size - sv.part)
  BY DEF AnswerShape, Sending, Here, Current, Left

(* The positions it goes to.                                                  *)
LEMMA MovedTo ==
  ASSUME AnswerShape, sv \in Positions, NEW n \in 0..2, NEW f \in SUBSET Flags
  PROVE  /\ Flagged(f).item = sv.item /\ Flagged(f).part = sv.part /\ Flagged(f).flags = sv.flags \cup f
         /\ Flagged(f) \in Positions
         /\ Sent(n, f).item = sv.item /\ Sent(n, f).part = sv.part + n /\ Sent(n, f).flags = sv.flags \cup f
         /\ sv.part + n <= 2 => Sent(n, f) \in Positions
         /\ NextItem.item = sv.item + 1 /\ NextItem.part = 0 /\ NextItem.flags = {}
         /\ sv.item <= MaxItems => NextItem \in Positions
  <1>1. sv.item \in Nat /\ sv.part \in 0..2 /\ sv.flags \cup f \subseteq Flags
    BY PositionFields
  <1>2. Flagged(f) \in Positions
    BY <1>1 DEF Flagged, Positions
  <1>3. sv.part + n <= 2 => Sent(n, f) \in Positions
    <2> SUFFICES ASSUME sv.part + n <= 2 PROVE Sent(n, f) \in Positions
      OBVIOUS
    <2>1. sv.part + n \in None..Whole
      BY <1>1 DEF None, Whole
    <2>2. QED
      BY <1>1, <2>1 DEF Sent, Positions
  <1>4. sv.item <= MaxItems => NextItem \in Positions
    BY <1>1, ItemsAssumption DEF NextItem, Positions, None, Whole
  <1>5. QED
    BY <1>2, <1>3, <1>4 DEF Flagged, Sent, NextItem, Positions

(* A position in the answer is not beyond the bound.                             *)
LEMMA Within ==
  ASSUME AnswerShape, sv \in Positions, Here(sv)
  PROVE  sv.item \in 1..MaxItems /\ sv.item <= MaxItems /\ sv.item \in Ids /\ sv.item \in Nat
  BY PositionFields, Items, ItemsAssumption

(* Anthropic: the steps of a block from its start to its stop, and those of the    *)
(* message.                                                                  *)
AnthropicStep(c, s) ==
    \/ /\ sv.item = 0 /\ c.type = "message_start"
       /\ s.item = 1 /\ s.part = 0 /\ s.flags = {}
    \/ /\ Here(sv) /\ "open" \notin sv.flags
       /\ c.type = "block_start" /\ c.index = sv.item /\ c.has = {message[sv.item].kind}
       /\ s.item = sv.item /\ s.part = sv.part /\ s.flags = sv.flags \cup {"open"}
    \/ /\ Here(sv) /\ "open" \in sv.flags /\ c.n \in 1..(message[sv.item].size - sv.part)
       /\ c.type = "block_delta" /\ c.index = sv.item /\ c.has = {message[sv.item].kind}
       /\ s.item = sv.item /\ s.part = sv.part + c.n /\ s.flags = sv.flags
    \/ /\ Here(sv) /\ "open" \in sv.flags /\ sv.part = message[sv.item].size
       /\ message[sv.item].kind = "think"
       /\ c.type = "signature"
       /\ s.item = sv.item /\ s.part = sv.part /\ s.flags = sv.flags \cup {"signed"}
    \/ /\ Here(sv) /\ "open" \in sv.flags /\ sv.part = message[sv.item].size
       /\ message[sv.item].kind = "think" => "signed" \in sv.flags
       /\ c.type = "block_stop" /\ c.index = sv.item
       /\ s.item = sv.item + 1 /\ s.part = 0 /\ s.flags = {}
    \/ /\ sv.item > Len(message) /\ sv.flags = {} /\ c.type = "message_delta"
       /\ s.item = sv.item /\ s.part = sv.part /\ s.flags = {"reason"}
    \/ /\ sv.item > Len(message) /\ sv.flags = {"reason"} /\ c.type = "message_stop"
       /\ s.item = sv.item /\ s.part = sv.part /\ s.flags = {"reason", "end"}

(* They are what AnthropicSends sends.                                          *)
LEMMA AnthropicSteps ==
  ASSUME AnswerShape, Stands(sv), dialect = "anthropic", NEW st \in AnthropicSends
  PROVE  AnthropicStep(st.chunk, st.sv) /\ st.sv \in Positions
  <1>1. /\ sv \in Positions /\ sv.item \in Nat /\ sv.part \in 0..2 /\ sv.flags \subseteq Flags
        /\ Len(message) \in Nat
    BY PositionFields DEF Stands
  <1>2. {"open"} \in SUBSET Flags /\ {"signed"} \in SUBSET Flags /\ {"reason"} \in SUBSET Flags
        /\ {"end"} \in SUBSET Flags /\ {} \in SUBSET Flags
    BY DEF Flags
  <1>3. (Sending <=> Here(sv)) /\ Current = message[sv.item] /\ Left = 1..(message[sv.item].size - sv.part)
    BY Sendings
  <1>4. ASSUME NEW c, NEW s, st = Step(c, s) PROVE st.chunk = c /\ st.sv = s
    BY <1>4 DEF Step
  <1>5. 0 \in 0..2
    OBVIOUS
  <1>6. /\ NextItem.item = sv.item + 1 /\ NextItem.part = 0 /\ NextItem.flags = {}
        /\ sv.item <= MaxItems => NextItem \in Positions
    BY <1>1, <1>2, <1>5, MovedTo
  <1>7. \A f \in SUBSET Flags : /\ Flagged(f).item = sv.item /\ Flagged(f).part = sv.part
                                /\ Flagged(f).flags = sv.flags \cup f /\ Flagged(f) \in Positions
    BY <1>1, <1>5, MovedTo
  <1>8. CASE sv.item = 0
    <2>1. ~Here(sv)
      BY <1>8 DEF Here
    <2>2. AnthropicSends = {Step(Chunk("message_start", 0, 0), NextItem)}
      BY <1>1, <1>3, <1>8, <2>1 DEF AnthropicSends
    <2>3. st.chunk = Chunk("message_start", 0, 0) /\ st.sv = NextItem
      BY <2>2, <1>4
    <2>4. sv.item <= MaxItems
      BY <1>8, ItemsAssumption
    <2>5. QED
      BY <1>6, <1>8, <2>3, <2>4 DEF AnthropicStep, Chunk
  <1>9. CASE Here(sv) /\ "open" \notin sv.flags
    <2>1. sv.item # 0 /\ ~(sv.item > Len(message))
      BY <1>1, <1>9 DEF Here
    <2>2. AnthropicSends = {Step([Chunk("block_start", sv.item, 0) EXCEPT !.has = {Current.kind}], Flagged({"open"}))}
      BY <1>3, <1>9, <2>1 DEF AnthropicSends
    <2>3. /\ st.chunk = [Chunk("block_start", sv.item, 0) EXCEPT !.has = {Current.kind}]
          /\ st.sv = Flagged({"open"})
      BY <2>2, <1>4
    <2>4. /\ st.sv.item = sv.item /\ st.sv.part = sv.part /\ st.sv.flags = sv.flags \cup {"open"}
          /\ st.sv \in Positions
      BY <1>2, <1>7, <2>3
    <2>5. /\ st.chunk.type = "block_start" /\ st.chunk.index = sv.item
          /\ st.chunk.has = {message[sv.item].kind}
      BY <1>3, <2>3 DEF Chunk
    <2>6. QED
      BY <1>9, <2>4, <2>5 DEF AnthropicStep
  <1>10. CASE Here(sv) /\ "open" \in sv.flags /\ Left # {}
    <2>1. sv.item # 0 /\ ~(sv.item > Len(message))
      BY <1>1, <1>10 DEF Here
    <2>2. AnthropicSends = {Step([Chunk("block_delta", sv.item, n) EXCEPT !.has = {Current.kind}], Sent(n, {})) : n \in Left}
      BY <1>3, <1>10, <2>1 DEF AnthropicSends
    <2>3. PICK n \in Left : st = Step([Chunk("block_delta", sv.item, n) EXCEPT !.has = {Current.kind}], Sent(n, {}))
      BY <2>2
    <2>4. /\ st.chunk = [Chunk("block_delta", sv.item, n) EXCEPT !.has = {Current.kind}]
          /\ st.sv = Sent(n, {})
      BY <2>3, <1>4
    <2>5. n \in 1..(message[sv.item].size - sv.part) /\ n \in 0..2 /\ sv.part + n <= 2
      BY <1>1, <1>3, <1>10, Items DEF Here
    <2>6. /\ st.sv.item = sv.item /\ st.sv.part = sv.part + n /\ st.sv.flags = sv.flags
          /\ st.sv \in Positions
      <3>1. sv.flags \cup {} = sv.flags
        OBVIOUS
      <3>2. /\ Sent(n, {}).item = sv.item /\ Sent(n, {}).part = sv.part + n
            /\ Sent(n, {}).flags = sv.flags \cup {} /\ Sent(n, {}) \in Positions
        BY <1>1, <1>2, <2>5, MovedTo
      <3>3. QED
        BY <2>4, <3>1, <3>2
    <2>7. /\ st.chunk.type = "block_delta" /\ st.chunk.index = sv.item /\ st.chunk.n = n
          /\ st.chunk.has = {message[sv.item].kind}
      BY <1>3, <2>4 DEF Chunk
    <2>8. QED
      BY <1>10, <2>5, <2>6, <2>7 DEF AnthropicStep
  <1>11. CASE Here(sv) /\ "open" \in sv.flags /\ Left = {}
    <2>1. sv.item # 0 /\ ~(sv.item > Len(message)) /\ sv.item <= MaxItems
      BY <1>1, <1>11, Within DEF Here
    <2>2. sv.part = message[sv.item].size
      BY <1>1, <1>3, <1>11, Items DEF Here, Stands
    <2>3. AnthropicSends = {IF Current.kind = "think" /\ "signed" \notin sv.flags
                              THEN Step(Chunk("signature", sv.item, 0), Flagged({"signed"}))
                              ELSE Step(Chunk("block_stop", sv.item, 0), NextItem)}
      BY <1>3, <1>11, <2>1 DEF AnthropicSends
    <2>4. CASE Current.kind = "think" /\ "signed" \notin sv.flags
      <3>1. st.chunk = Chunk("signature", sv.item, 0) /\ st.sv = Flagged({"signed"})
        BY <2>3, <2>4, <1>4
      <3>2. /\ st.sv.item = sv.item /\ st.sv.part = sv.part /\ st.sv.flags = sv.flags \cup {"signed"}
            /\ st.sv \in Positions
        BY <1>2, <1>7, <3>1
      <3>3. st.chunk.type = "signature"
        BY <3>1 DEF Chunk
      <3>4. QED
        BY <1>3, <1>11, <2>2, <2>4, <3>2, <3>3 DEF AnthropicStep
    <2>5. CASE ~(Current.kind = "think" /\ "signed" \notin sv.flags)
      <3>1. st.chunk = Chunk("block_stop", sv.item, 0) /\ st.sv = NextItem
        BY <2>3, <2>5, <1>4
      <3>2. st.chunk.type = "block_stop" /\ st.chunk.index = sv.item
        BY <3>1 DEF Chunk
      <3>3. QED
        BY <1>3, <1>6, <1>11, <2>1, <2>2, <2>5, <3>1, <3>2 DEF AnthropicStep
    <2>6. QED
      BY <2>4, <2>5
  <1>12. CASE sv.item > Len(message)
    <2>1. ~Here(sv) /\ sv.item # 0
      BY <1>1, <1>12 DEF Here
    <2>2. AnthropicSends = IF sv.flags = {} THEN {Step(Chunk("message_delta", 0, 0), Flagged({"reason"}))}
             ELSE IF sv.flags = {"reason"} THEN {Step(Chunk("message_stop", 0, 0), Flagged({"end"}))}
             ELSE {}
      BY <1>3, <1>12, <2>1 DEF AnthropicSends
    <2>3. CASE sv.flags = {}
      <3>1. st.chunk = Chunk("message_delta", 0, 0) /\ st.sv = Flagged({"reason"})
        BY <2>2, <2>3, <1>4
      <3>2. /\ st.sv.item = sv.item /\ st.sv.part = sv.part /\ st.sv.flags = {"reason"}
            /\ st.sv \in Positions
        BY <1>2, <1>7, <2>3, <3>1
      <3>3. QED
        BY <1>12, <2>3, <3>1, <3>2 DEF AnthropicStep, Chunk
    <2>4. CASE sv.flags = {"reason"}
      <3>1. st.chunk = Chunk("message_stop", 0, 0) /\ st.sv = Flagged({"end"})
        BY <2>2, <2>4, <1>4
      <3>2. /\ st.sv.item = sv.item /\ st.sv.part = sv.part /\ st.sv.flags = {"reason", "end"}
            /\ st.sv \in Positions
        BY <1>2, <1>7, <2>4, <3>1
      <3>3. QED
        BY <1>12, <2>4, <3>1, <3>2 DEF AnthropicStep, Chunk
    <2>5. QED
      BY <2>2, <2>3, <2>4
  <1>13. QED
    BY <1>1, <1>3, <1>8, <1>9, <1>10, <1>11, <1>12 DEF Here

(* OpenAI: a part of a text or of a call, perhaps the last; the end.              *)
Advances(s, n, f) ==
    \/ s.item = sv.item /\ s.part = sv.part + n /\ s.flags = sv.flags \cup f
    \/ s.item = sv.item + 1 /\ s.part = 0 /\ s.flags = {} /\ sv.part + n = message[sv.item].size
OpenAiStep(c, s) ==
    \/ /\ TextHere(sv) /\ c.type = message[sv.item].kind
       /\ c.n \in 1..(message[sv.item].size - sv.part)
       /\ Advances(s, c.n, {})
       /\ s.item = sv.item => s.part < message[sv.item].size
    \/ /\ ToolHere(sv) /\ c.type = "tool" /\ c.index = Number(sv.item)
       /\ c.has \subseteq {"id", "name"} \ sv.flags
       /\ c.n = 0 \/ c.n \in 1..(message[sv.item].size - sv.part)
       /\ c.has # {} \/ c.n # 0
       /\ Advances(s, c.n, c.has)
       /\ s.item = sv.item =>
             ~({"id", "name"} \subseteq sv.flags \cup c.has /\ sv.part + c.n = message[sv.item].size)
       /\ s.item # sv.item => {"id", "name"} \subseteq sv.flags \cup c.has
    \/ /\ ~Here(sv) /\ sv.flags = {} /\ c.type = "reason"
       /\ s.item = sv.item /\ s.part = sv.part /\ s.flags = {"reason"}
    \/ /\ ~Here(sv) /\ sv.flags = {"reason"} /\ c.type = "usage" /\ c.has = Parts
       /\ s.item = sv.item /\ s.part = sv.part /\ s.flags = {"reason"} \cup Parts
    \/ /\ ~Here(sv) /\ sv.flags = {"reason"} \cup Parts /\ c.type = "[DONE]"
       /\ s.item = sv.item /\ s.part = sv.part /\ s.flags = {"reason", "end"} \cup Parts

(* They are what OpenAiSends sends.                                             *)
LEMMA OpenAiSteps ==
  ASSUME AnswerShape, Stands(sv), dialect = "openai", NEW st \in OpenAiSends
  PROVE  OpenAiStep(st.chunk, st.sv) /\ st.sv \in Positions
  <1>1. /\ sv \in Positions /\ sv.item \in Nat /\ sv.part \in 0..2 /\ sv.flags \subseteq Flags
        /\ Len(message) \in Nat
    BY PositionFields DEF Stands
  <1>2. {"reason"} \in SUBSET Flags /\ {"end"} \in SUBSET Flags /\ Parts \in SUBSET Flags
        /\ {} \in SUBSET Flags /\ 0 \in 0..2
    BY DEF Flags
  <1>3. (Sending <=> Here(sv)) /\ Current = message[sv.item] /\ Left = 1..(message[sv.item].size - sv.part)
    BY Sendings
  <1>4. ASSUME NEW c, NEW s, st = Step(c, s) PROVE st.chunk = c /\ st.sv = s
    BY <1>4 DEF Step
  <1>5. /\ NextItem.item = sv.item + 1 /\ NextItem.part = 0 /\ NextItem.flags = {}
        /\ sv.item <= MaxItems => NextItem \in Positions
    BY <1>1, <1>2, MovedTo
  <1>6. \A f \in SUBSET Flags : /\ Flagged(f).item = sv.item /\ Flagged(f).part = sv.part
                                /\ Flagged(f).flags = sv.flags \cup f /\ Flagged(f) \in Positions
    BY <1>1, <1>2, MovedTo
  <1>7. \A n \in 0..2, f \in SUBSET Flags :
            /\ Sent(n, f).item = sv.item /\ Sent(n, f).part = sv.part + n /\ Sent(n, f).flags = sv.flags \cup f
            /\ sv.part + n <= 2 => Sent(n, f) \in Positions
    BY <1>1, MovedTo
  <1>8. CASE TextHere(sv)
    <2>1. Here(sv) /\ Current.kind # "tool" /\ sv.item <= MaxItems /\ message[sv.item].size \in 0..2
      BY <1>1, <1>3, <1>8, Within, Items DEF TextHere, Here
    <2>2. OpenAiSends = {Step(Chunk(Current.kind, 0, n),
                              IF n = Current.size - sv.part THEN NextItem ELSE Sent(n, {})) : n \in Left}
      BY <1>3, <2>1 DEF OpenAiSends
    <2>3. PICK n \in Left : st = Step(Chunk(Current.kind, 0, n),
                              IF n = Current.size - sv.part THEN NextItem ELSE Sent(n, {}))
      BY <2>2
    <2>4. /\ st.chunk = Chunk(Current.kind, 0, n)
          /\ st.sv = IF n = Current.size - sv.part THEN NextItem ELSE Sent(n, {})
      BY <2>3, <1>4
    <2>5. n \in 1..(message[sv.item].size - sv.part) /\ n \in 0..2 /\ sv.part + n <= 2
      BY <1>1, <1>3, <2>1
    <2>6. st.chunk.type = message[sv.item].kind /\ st.chunk.n = n
      BY <1>3, <2>4 DEF Chunk
    <2>7. CASE n = message[sv.item].size - sv.part
      <3>1. st.sv = NextItem
        BY <1>3, <2>4, <2>7
      <3>2. Advances(st.sv, n, {}) /\ st.sv.item # sv.item /\ st.sv \in Positions
        BY <1>1, <1>5, <2>1, <2>5, <2>7, <3>1 DEF Advances
      <3>3. QED
        BY <1>8, <2>5, <2>6, <3>2 DEF OpenAiStep
    <2>8. CASE n # message[sv.item].size - sv.part
      <3>1. st.sv = Sent(n, {})
        BY <1>3, <2>4, <2>8
      <3>2. Advances(st.sv, n, {}) /\ st.sv.part < message[sv.item].size /\ st.sv \in Positions
        <4>1. /\ Sent(n, {}).item = sv.item /\ Sent(n, {}).part = sv.part + n
              /\ Sent(n, {}).flags = sv.flags \cup {} /\ Sent(n, {}) \in Positions
          BY <1>2, <1>7, <2>5
        <4>2. sv.part + n < message[sv.item].size
          BY <1>1, <2>1, <2>5, <2>8
        <4>3. QED
          BY <3>1, <4>1, <4>2 DEF Advances
      <3>3. QED
        BY <1>8, <2>5, <2>6, <3>2 DEF OpenAiStep
    <2>9. QED
      BY <2>7, <2>8
  <1>9. CASE ToolHere(sv)
    <2>1. Here(sv) /\ Current.kind = "tool" /\ sv.item <= MaxItems /\ message[sv.item].size \in 0..2
      BY <1>1, <1>3, <1>9, Within, Items DEF ToolHere, Here
    <2> DEFINE P == ((SUBSET ({"id", "name"} \ sv.flags)) \X ({0} \cup Left)) \ {<<{}, 0>>}
    <2> DEFINE S(h, n) == Step([Chunk("tool", Number(sv.item), n) EXCEPT !.has = h],
                               IF h \cup sv.flags = {"id", "name"} /\ n = Current.size - sv.part
                                 THEN NextItem ELSE Sent(n, h))
    <2>2. OpenAiSends = {S(p[1], p[2]) : p \in P}
      BY <1>3, <2>1 DEF OpenAiSends
    <2>3. PICK p \in P : st = S(p[1], p[2])
      BY <2>2
    <2>4. PICK h \in SUBSET ({"id", "name"} \ sv.flags), n \in {0} \cup Left :
              (h # {} \/ n # 0) /\ st = S(h, n)
      BY <2>3
    <2>5. /\ st.chunk = [Chunk("tool", Number(sv.item), n) EXCEPT !.has = h]
          /\ st.sv = IF h \cup sv.flags = {"id", "name"} /\ n = Current.size - sv.part
                       THEN NextItem ELSE Sent(n, h)
      BY <2>4, <1>4
    <2>6. /\ n = 0 \/ n \in 1..(message[sv.item].size - sv.part)
          /\ n \in 0..2 /\ sv.part + n <= 2 /\ sv.part + n <= message[sv.item].size
      BY <1>1, <1>3, <2>1 DEF Stands
    <2>7. st.chunk.type = "tool" /\ st.chunk.index = Number(sv.item) /\ st.chunk.n = n /\ st.chunk.has = h
      BY <2>5 DEF Chunk
    <2>8. sv.flags \subseteq {"id", "name"} /\ h \in SUBSET Flags
      BY <1>9 DEF Stands, StandsOpenAi, Flags
    <2>9. CASE h \cup sv.flags = {"id", "name"} /\ n = message[sv.item].size - sv.part
      <3>1. st.sv = NextItem
        BY <1>3, <2>5, <2>9
      <3>2. Advances(st.sv, n, h) /\ st.sv.item # sv.item /\ st.sv \in Positions
        BY <1>1, <1>5, <2>1, <2>6, <2>9, <3>1 DEF Advances
      <3>3. {"id", "name"} \subseteq sv.flags \cup h
        BY <2>9
      <3>4. QED
        BY <1>9, <2>4, <2>6, <2>7, <3>2, <3>3 DEF OpenAiStep
    <2>10. CASE ~(h \cup sv.flags = {"id", "name"} /\ n = message[sv.item].size - sv.part)
      <3>1. st.sv = Sent(n, h)
        BY <1>3, <2>5, <2>10
      <3>2. Advances(st.sv, n, h) /\ st.sv.item = sv.item /\ st.sv \in Positions
        <4>1. /\ Sent(n, h).item = sv.item /\ Sent(n, h).part = sv.part + n
              /\ Sent(n, h).flags = sv.flags \cup h /\ Sent(n, h) \in Positions
          BY <1>7, <2>6, <2>8
        <4>2. QED
          BY <3>1, <4>1 DEF Advances
      <3>3. ~({"id", "name"} \subseteq sv.flags \cup h /\ sv.part + n = message[sv.item].size)
        <4>1. {"id", "name"} \subseteq sv.flags \cup h => h \cup sv.flags = {"id", "name"}
          BY <2>8
        <4>2. sv.part + n = message[sv.item].size => n = message[sv.item].size - sv.part
          BY <1>1, <2>1, <2>6
        <4>3. QED
          BY <2>10, <4>1, <4>2
      <3>4. QED
        BY <1>9, <2>4, <2>6, <2>7, <3>2, <3>3 DEF OpenAiStep
    <2>11. QED
      BY <2>9, <2>10
  <1>10. CASE ~Here(sv)
    <2>1. OpenAiSends = IF sv.flags = {} THEN {Step(Chunk("reason", 0, 0), Flagged({"reason"}))}
             ELSE IF sv.flags = {"reason"} THEN {Step(Carries("usage", Parts), Flagged(Parts))}
             ELSE IF "end" \notin sv.flags THEN {Step(Chunk("[DONE]", 0, 0), Flagged({"end"}))}
             ELSE {}
      BY <1>3, <1>10 DEF OpenAiSends
    <2>2. CASE sv.flags = {}
      <3>1. st.chunk = Chunk("reason", 0, 0) /\ st.sv = Flagged({"reason"})
        BY <2>1, <2>2, <1>4
      <3>2. /\ st.sv.item = sv.item /\ st.sv.part = sv.part /\ st.sv.flags = {"reason"}
            /\ st.sv \in Positions
        BY <1>2, <1>6, <2>2, <3>1
      <3>3. QED
        BY <1>10, <2>2, <3>1, <3>2 DEF OpenAiStep, Chunk
    <2>3. CASE sv.flags = {"reason"}
      <3>1. st.chunk = Carries("usage", Parts) /\ st.sv = Flagged(Parts)
        BY <2>1, <2>3, <1>4
      <3>2. /\ st.sv.item = sv.item /\ st.sv.part = sv.part /\ st.sv.flags = {"reason"} \cup Parts
            /\ st.sv \in Positions
        BY <1>2, <1>6, <2>3, <3>1
      <3>3. st.chunk.type = "usage" /\ st.chunk.has = Parts
        BY <3>1 DEF Carries, Chunk
      <3>4. QED
        BY <1>10, <2>3, <3>2, <3>3 DEF OpenAiStep
    <2>4. CASE sv.flags # {} /\ sv.flags # {"reason"}
      <3>1. "end" \notin sv.flags /\ st.chunk = Chunk("[DONE]", 0, 0) /\ st.sv = Flagged({"end"})
        BY <2>1, <2>4, <1>4
      <3>2. sv.flags = {"reason"} \cup Parts
        BY <1>10, <2>4, <3>1 DEF Stands, StandsOpenAi
      <3>3. /\ st.sv.item = sv.item /\ st.sv.part = sv.part /\ st.sv.flags = {"reason", "end"} \cup Parts
            /\ st.sv \in Positions
        BY <1>2, <1>6, <3>1, <3>2
      <3>4. QED
        BY <1>10, <3>1, <3>2, <3>3 DEF OpenAiStep, Chunk
    <2>5. QED
      BY <2>2, <2>3, <2>4
  <1>11. QED
    BY <1>8, <1>9, <1>10 DEF TextHere, ToolHere

(* Gemini: a part of a text, a whole call, some of the end.                       *)
GeminiStep(c, s) ==
    \/ /\ TextHere(sv) /\ c.type = "text" /\ message[sv.item].kind = "text"
       /\ c.n \in 1..(message[sv.item].size - sv.part)
       /\ Advances(s, c.n, {})
       /\ s.item = sv.item => s.part < message[sv.item].size
    \/ /\ ToolHere(sv) /\ c.type = "tool" /\ c.n = message[sv.item].size
       /\ s.item = sv.item + 1 /\ s.part = 0 /\ s.flags = {}
    \/ /\ ~Here(sv) /\ c.type = "meta" /\ c.has \subseteq {"reason"} \cup Parts
       /\ s.item = sv.item /\ s.part = sv.part /\ s.flags = sv.flags \cup c.has

(* They are what GeminiSends sends.                                             *)
LEMMA GeminiSteps ==
  ASSUME AnswerShape, Stands(sv), dialect = "gemini", NEW st \in GeminiSends
  PROVE  GeminiStep(st.chunk, st.sv) /\ st.sv \in Positions
  <1>1. /\ sv \in Positions /\ sv.item \in Nat /\ sv.part \in 0..2 /\ sv.flags \subseteq Flags
        /\ Len(message) \in Nat
    BY PositionFields DEF Stands
  <1>2. {} \in SUBSET Flags /\ 0 \in 0..2
    OBVIOUS
  <1>3. (Sending <=> Here(sv)) /\ Current = message[sv.item] /\ Left = 1..(message[sv.item].size - sv.part)
    BY Sendings
  <1>4. ASSUME NEW c, NEW s, st = Step(c, s) PROVE st.chunk = c /\ st.sv = s
    BY <1>4 DEF Step
  <1>5. /\ NextItem.item = sv.item + 1 /\ NextItem.part = 0 /\ NextItem.flags = {}
        /\ sv.item <= MaxItems => NextItem \in Positions
    BY <1>1, <1>2, MovedTo
  <1>6. \A f \in SUBSET Flags : /\ Flagged(f).item = sv.item /\ Flagged(f).part = sv.part
                                /\ Flagged(f).flags = sv.flags \cup f /\ Flagged(f) \in Positions
    BY <1>1, <1>2, MovedTo
  <1>7. \A n \in 0..2, f \in SUBSET Flags :
            /\ Sent(n, f).item = sv.item /\ Sent(n, f).part = sv.part + n /\ Sent(n, f).flags = sv.flags \cup f
            /\ sv.part + n <= 2 => Sent(n, f) \in Positions
    BY <1>1, MovedTo
  <1>8. CASE Here(sv)
    <2>1. sv.item <= MaxItems /\ message[sv.item].size \in 0..2
      BY <1>1, <1>3, <1>8, Within, Items DEF Here
    <2>2. GeminiSends = {Step(Chunk(Current.kind, 0, n),
                              IF n = Current.size - sv.part THEN NextItem ELSE Sent(n, {})) :
                            n \in IF Current.kind = "tool" THEN {Current.size} ELSE Left}
      BY <1>3, <1>8 DEF GeminiSends
    <2>3. PICK n \in IF Current.kind = "tool" THEN {Current.size} ELSE Left :
              st = Step(Chunk(Current.kind, 0, n),
                        IF n = Current.size - sv.part THEN NextItem ELSE Sent(n, {}))
      BY <2>2
    <2>4. /\ st.chunk = Chunk(Current.kind, 0, n)
          /\ st.sv = IF n = Current.size - sv.part THEN NextItem ELSE Sent(n, {})
      BY <2>3, <1>4
    <2>5. st.chunk.type = message[sv.item].kind /\ st.chunk.n = n
      BY <1>3, <2>4 DEF Chunk
    <2>6. CASE ToolHere(sv)
      <3>1. n = message[sv.item].size /\ sv.part = 0 /\ message[sv.item].kind = "tool"
        BY <1>3, <2>3, <2>6 DEF ToolHere, Stands, StandsGemini
      <3>2. st.sv = NextItem
        BY <1>3, <2>1, <2>4, <3>1
      <3>3. QED
        BY <1>5, <2>1, <2>5, <2>6, <3>1, <3>2 DEF GeminiStep
    <2>7. CASE TextHere(sv)
      <3>1. n \in Left /\ message[sv.item].kind = "text"
        BY <1>3, <2>3, <2>7, Items DEF TextHere, AnswerShape, BlockKinds, Here
      <3>2. n \in 1..(message[sv.item].size - sv.part) /\ n \in 0..2 /\ sv.part + n <= 2
        BY <1>1, <1>3, <2>1, <3>1
      <3>3. CASE n = message[sv.item].size - sv.part
        <4>1. st.sv = NextItem
          BY <1>3, <2>4, <3>3
        <4>2. Advances(st.sv, n, {}) /\ st.sv.item # sv.item /\ st.sv \in Positions
          BY <1>1, <1>5, <2>1, <3>2, <3>3, <4>1 DEF Advances
        <4>3. QED
          BY <2>5, <2>7, <3>1, <3>2, <4>2 DEF GeminiStep
      <3>4. CASE n # message[sv.item].size - sv.part
        <4>1. st.sv = Sent(n, {})
          BY <1>3, <2>4, <3>4
        <4>2. Advances(st.sv, n, {}) /\ st.sv.part < message[sv.item].size /\ st.sv \in Positions
          <5>1. /\ Sent(n, {}).item = sv.item /\ Sent(n, {}).part = sv.part + n
                /\ Sent(n, {}).flags = sv.flags \cup {} /\ Sent(n, {}) \in Positions
            BY <1>2, <1>7, <3>2
          <5>2. sv.part + n < message[sv.item].size
            BY <1>1, <2>1, <3>2, <3>4
          <5>3. QED
            BY <4>1, <5>1, <5>2 DEF Advances
        <4>3. QED
          BY <2>5, <2>7, <3>1, <3>2, <4>2 DEF GeminiStep
      <3>5. QED
        BY <3>3, <3>4
    <2>8. QED
      BY <1>8, <2>6, <2>7 DEF TextHere, ToolHere
  <1>9. CASE ~Here(sv)
    <2>1. GeminiSends = {Step(Carries("meta", f), Flagged(f)) :
                            f \in (SUBSET (({"reason"} \cup Parts) \ sv.flags)) \ {{}}}
      BY <1>3, <1>9 DEF GeminiSends
    <2>2. PICK f \in SUBSET (({"reason"} \cup Parts) \ sv.flags) : st = Step(Carries("meta", f), Flagged(f))
      BY <2>1
    <2>3. st.chunk = Carries("meta", f) /\ st.sv = Flagged(f)
      BY <2>2, <1>4
    <2>4. f \in SUBSET Flags
      BY DEF Flags
    <2>5. st.chunk.type = "meta" /\ st.chunk.has = f
      BY <2>3 DEF Carries, Chunk
    <2>6. QED
      BY <1>6, <1>9, <2>3, <2>4, <2>5 DEF GeminiStep
  <1>10. QED
    BY <1>8, <1>9

(* Wherever it goes, it stands in the answer.                                   *)
LEMMA StaysAnthropic ==
  ASSUME AnswerShape, Stands(sv), dialect = "anthropic", NEW c, NEW s \in Positions, AnthropicStep(c, s)
  PROVE  Stands(s)
  <1>1. /\ sv \in Positions /\ sv.item \in Nat /\ sv.part \in 0..2 /\ Len(message) \in Nat
        /\ Stands(sv) /\ StandsAnthropic(sv)
    BY PositionFields DEF Stands
  <1>2. Here(sv) => message[sv.item].size \in 0..2
    BY Items DEF Here
  <1>3. CASE Here(sv)
    <2>1. sv.item \in 1..Len(message)
      BY <1>3 DEF Here
    <2>2. CASE s.item = sv.item
      <3>1. Here(s) /\ s.part \in 0..message[s.item].size
        BY <1>1, <1>2, <1>3, <2>1, <2>2 DEF AnthropicStep, Here, Stands
      <3>2. /\ s.flags \subseteq {"open", "signed"}
            /\ "open" \in s.flags
        BY <1>1, <1>3, <2>1, <2>2 DEF AnthropicStep, StandsAnthropic
      <3>3. "signed" \in s.flags => message[s.item].kind = "think" /\ s.part = message[s.item].size
        BY <1>1, <1>2, <1>3, <2>1, <2>2 DEF AnthropicStep, StandsAnthropic
      <3>4. QED
        BY <1>1, <2>1, <2>2, <3>1, <3>2, <3>3 DEF Stands, StandsAnthropic, Here
    <2>3. CASE s.item # sv.item
      <3>1. s.item = sv.item + 1 /\ s.part = 0 /\ s.flags = {}
        BY <1>1, <1>3, <2>1, <2>3 DEF AnthropicStep
      <3>2. Here(s) => message[s.item].size \in 0..2
        BY Items DEF Here
      <3>3. QED
        BY <1>1, <2>1, <3>1, <3>2 DEF Stands, StandsAnthropic, Here
    <2>4. QED
      BY <2>2, <2>3
  <1>4. CASE ~Here(sv)
    <2>1. CASE sv.item = 0
      <3>1. s.item = 1 /\ s.part = 0 /\ s.flags = {}
        BY <1>1, <1>4, <2>1 DEF AnthropicStep
      <3>2. Here(s) => message[s.item].size \in 0..2
        BY Items DEF Here
      <3>3. QED
        BY <1>1, <3>1, <3>2 DEF Stands, StandsAnthropic, Here
    <2>2. CASE sv.item # 0
      <3>1. sv.item > Len(message)
        BY <1>1, <1>4, <2>2 DEF Here
      <3>2. s.item = sv.item /\ s.part = sv.part /\ s.flags \in {{"reason"}, {"reason", "end"}}
        BY <1>4, <2>2 DEF AnthropicStep
      <3>3. QED
        BY <1>1, <1>4, <2>2, <3>1, <3>2 DEF Stands, StandsAnthropic, Here
    <2>3. QED
      BY <2>1, <2>2
  <1>5. QED
    BY <1>3, <1>4

(* So it does with an OpenAI-compatible provider,                               *)
LEMMA StaysOpenAi ==
  ASSUME AnswerShape, Stands(sv), dialect = "openai", NEW c, NEW s \in Positions, OpenAiStep(c, s)
  PROVE  Stands(s)
  <1>1. /\ sv \in Positions /\ sv.item \in Nat /\ sv.part \in 0..2 /\ Len(message) \in Nat
        /\ sv.item <= Len(message) + 1 /\ StandsOpenAi(sv)
    BY PositionFields DEF Stands
  <1>2. Here(sv) => message[sv.item].size \in 0..2 /\ sv.item \in 1..Len(message)
    BY Items DEF Here
  <1>3. ASSUME Here(sv), s.item = sv.item + 1, s.part = 0, s.flags = {} PROVE Stands(s)
    <2>1. Here(s) => /\ message[s.item].size \in 0..2
                     /\ message[s.item].kind # "tool" => message[s.item].size > 0
      BY Items DEF Here
    <2>2. QED
      BY <1>1, <1>2, <1>3, <2>1 DEF Stands, StandsOpenAi, Here, TextHere, ToolHere
  <1>4. CASE TextHere(sv)
    <2>1. CASE s.item = sv.item
      <3>1. s.part = sv.part + c.n /\ s.flags = {} /\ s.part < message[sv.item].size
        BY <1>1, <1>4, <2>1 DEF OpenAiStep, Advances, StandsOpenAi, TextHere, ToolHere, Here
      <3>2. s.part \in 0..2
        BY PositionFields
      <3>3. QED
        BY <1>1, <1>2, <1>4, <2>1, <3>1, <3>2 DEF Stands, StandsOpenAi, Here, TextHere, ToolHere
    <2>2. CASE s.item # sv.item
      <3>1. Here(sv) /\ s.item = sv.item + 1 /\ s.part = 0 /\ s.flags = {}
        BY <1>4, <2>2 DEF OpenAiStep, Advances, TextHere, ToolHere
      <3>2. QED
        BY <1>3, <3>1
    <2>3. QED
      BY <2>1, <2>2
  <1>5. CASE ToolHere(sv)
    <2>1. CASE s.item = sv.item
      <3>1. /\ s.part = sv.part + c.n /\ s.flags = sv.flags \cup c.has
            /\ c.n = 0 \/ c.n \in 1..(message[sv.item].size - sv.part)
            /\ c.has \subseteq {"id", "name"} \ sv.flags
            /\ ~({"id", "name"} \subseteq sv.flags \cup c.has /\ sv.part + c.n = message[sv.item].size)
        BY <1>1, <1>5, <2>1 DEF OpenAiStep, Advances, TextHere, ToolHere
      <3>2. s.part \in 0..2 /\ s.part <= message[sv.item].size
        <4>1. s.part \in 0..2
          BY PositionFields
        <4>2. Here(sv) /\ message[sv.item].size \in 0..2 /\ sv.part <= message[sv.item].size
          BY <1>2, <1>5 DEF ToolHere, Stands
        <4>3. QED
          BY <1>1, <3>1, <4>1, <4>2
      <3>3. s.flags \subseteq {"id", "name"} /\ ToolHere(s)
        BY <1>1, <1>5, <2>1, <3>1 DEF StandsOpenAi, ToolHere, Here
      <3>4. ~({"id", "name"} \subseteq s.flags /\ s.part = message[s.item].size)
        BY <2>1, <3>1
      <3>5. QED
        BY <1>1, <1>2, <2>1, <3>2, <3>3, <3>4 DEF Stands, StandsOpenAi, TextHere, ToolHere
    <2>2. CASE s.item # sv.item
      <3>1. Here(sv) /\ s.item = sv.item + 1 /\ s.part = 0 /\ s.flags = {}
        BY <1>5, <2>2 DEF OpenAiStep, Advances, TextHere, ToolHere
      <3>2. QED
        BY <1>3, <3>1
    <2>3. QED
      BY <2>1, <2>2
  <1>6. CASE ~Here(sv)
    <2>1. /\ s.item = sv.item /\ s.part = sv.part
          /\ s.flags \in {{}, {"reason"}, {"reason"} \cup Parts, {"reason", "end"} \cup Parts}
      BY <1>6 DEF OpenAiStep, TextHere, ToolHere
    <2>2. QED
      BY <1>1, <1>6, <2>1 DEF Stands, StandsOpenAi, Here, TextHere, ToolHere
  <1>7. QED
    BY <1>4, <1>5, <1>6 DEF TextHere, ToolHere

(* and with Gemini.                                                            *)
LEMMA StaysGemini ==
  ASSUME AnswerShape, Stands(sv), dialect = "gemini", NEW c, NEW s \in Positions, GeminiStep(c, s)
  PROVE  Stands(s)
  <1>1. /\ sv \in Positions /\ sv.item \in Nat /\ sv.part \in 0..2 /\ Len(message) \in Nat
        /\ sv.item <= Len(message) + 1 /\ StandsGemini(sv)
    BY PositionFields DEF Stands
  <1>2. Here(sv) => message[sv.item].size \in 0..2 /\ sv.item \in 1..Len(message)
    BY Items DEF Here
  <1>3. ASSUME Here(sv), s.item = sv.item + 1, s.part = 0, s.flags = {} PROVE Stands(s)
    <2>1. Here(s) => /\ message[s.item].size \in 0..2
                     /\ message[s.item].kind # "tool" => message[s.item].size > 0
      BY Items DEF Here
    <2>2. QED
      BY <1>1, <1>2, <1>3, <2>1 DEF Stands, StandsGemini, Here, TextHere, ToolHere
  <1>4. CASE TextHere(sv) /\ s.item = sv.item
    <2>1. s.part = sv.part + c.n /\ s.flags = {} /\ s.part < message[sv.item].size
      BY <1>1, <1>4 DEF GeminiStep, Advances, StandsGemini, TextHere, ToolHere, Here
    <2>2. s.part \in 0..2
      BY PositionFields
    <2>3. QED
      BY <1>1, <1>2, <1>4, <2>1, <2>2 DEF Stands, StandsGemini, Here, TextHere, ToolHere
  <1>5. CASE Here(sv) /\ s.item # sv.item
    <2>1. s.item = sv.item + 1 /\ s.part = 0 /\ s.flags = {}
      BY <1>5 DEF GeminiStep, Advances, TextHere, ToolHere
    <2>2. QED
      BY <1>3, <1>5, <2>1
  <1>6. CASE ToolHere(sv) /\ s.item = sv.item
    BY <1>1, <1>6 DEF GeminiStep, TextHere, ToolHere
  <1>7. CASE ~Here(sv)
    <2>1. /\ s.item = sv.item /\ s.part = sv.part /\ s.flags \subseteq {"reason"} \cup Parts
      BY <1>1, <1>7 DEF GeminiStep, TextHere, ToolHere, StandsGemini
    <2>2. QED
      BY <1>1, <1>7, <2>1 DEF Stands, StandsGemini, Here, TextHere, ToolHere
  <1>8. QED
    BY <1>4, <1>5, <1>6, <1>7 DEF TextHere, ToolHere

-------------------------------------------------------------------------------
(* What a chunk does: nothing is lost on the way to the blocks.                   *)
Follows(d, evs, s) ==
    /\ d \in Decoders
    /\ d.final <=> dec.final
    /\ evs \in Seq(Event)
    /\ evs # <<Error>>
    /\ HeldAfter(blocks, evs, s)
    /\ DecodedTo(d, s)
    /\ Counted(dec, sv) => Counted(d, s) /\ (dialect = "anthropic" /\ EndsAt(s) => Owes(evs, Parts))

(* What is held after none, one or two events.                                  *)
LEMMA HeldByEvents ==
  ASSUME NEW bs, NEW s
  PROVE  /\ Held(bs, s, 0) => HeldAfter(bs, <<>>, s)
         /\ \A e : Held(Gathered(bs, e), s, 0) => HeldAfter(bs, <<e>>, s)
         /\ \A e, f : Held(Gathered(bs, e), s, 0) /\ Held(Gathered(Gathered(bs, e), f), s, 0) =>
               HeldAfter(bs, <<e, f>>, s)
  BY DEF HeldAfter, After

(* The events, and what they do to the blocks.                                  *)
LEMMA Events ==
  ASSUME NEW t \in {"text", "think", "sign", "start", "delta", "complete", "stop", "error"},
         NEW id \in Ids, NEW n \in 0..3
  PROVE  /\ Ev(t, id, n) \in Event
         /\ Ev(t, id, n).type = t /\ Ev(t, id, n).id = id /\ Ev(t, id, n).n = n
         /\ t # "error" => Ev(t, id, n) # Error
  <1>1. Ev(t, id, n) \in Event
    BY DEF Ev, Event, None, Null
  <1>2. Ev(t, id, n).type = t /\ Ev(t, id, n).id = id /\ Ev(t, id, n).n = n
    BY DEF Ev
  <1>3. t # "error" => Ev(t, id, n) # Error
    BY <1>2 DEF Error, Ev
  <1>4. QED
    BY <1>1, <1>2, <1>3

(* The event that ends an answer leaves the blocks alone.                         *)
LEMMA Stops ==
  ASSUME NEW u \in SUBSET Parts
  PROVE  /\ StopWith(u) \in Event /\ StopWith(u).type = "stop" /\ StopWith(u).usage = u
         /\ StopWith(u) # Error
         /\ \A bs : Gathered(bs, StopWith(u)) = bs
  <1>1. StopWith(u) \in Event
    BY ItemsAssumption DEF StopWith, Event, None, Null, Ids
  <1>2. StopWith(u).type = "stop" /\ StopWith(u).usage = u
    BY DEF StopWith
  <1>3. StopWith(u) # Error
    BY <1>2 DEF Error, Ev
  <1>4. \A bs : Gathered(bs, StopWith(u)) = bs
    BY <1>2 DEF Gathered
  <1>5. QED
    BY <1>1, <1>2, <1>3, <1>4

(* What the other events do to the blocks.                                      *)
LEMMA Gathers ==
  ASSUME NEW bs, NEW id, NEW n
  PROVE  /\ Gathered(bs, Ev("text", id, n)) = AfterDelta(bs, "text", n)
         /\ Gathered(bs, Ev("think", id, n)) = AfterDelta(bs, "think", n)
         /\ Gathered(bs, Ev("sign", id, n)) = AfterSignature(bs)
         /\ Gathered(bs, Ev("start", id, n)) = Append(bs, NewBlock("tool", id, None))
         /\ Gathered(bs, Ev("delta", id, n)) = AfterToolDelta(bs, id, n)
         /\ Gathered(bs, Ev("complete", id, n)) = AfterComplete(bs, id, n)
  BY DEF Gathered, Ev

(* A decoder's state, updated.                                                 *)
LEMMA Counting ==
  ASSUME NEW d \in Decoders, NEW u \in SUBSET Parts
  PROVE  /\ [d EXCEPT !.usage = u] \in Decoders
         /\ [d EXCEPT !.usage = u].slots = d.slots /\ [d EXCEPT !.usage = u].usage = u
         /\ [d EXCEPT !.usage = u].minted = d.minted
         /\ [d EXCEPT !.usage = u].final <=> d.final
  BY DEF Decoders

(* A decoder with one slot replaced.                                            *)
LEMMA Slotting ==
  ASSUME NEW d \in Decoders, NEW i \in Ids, NEW x \in Slot
  PROVE  /\ [d EXCEPT !.slots[i] = x] \in Decoders
         /\ [d EXCEPT !.slots[i] = x].slots[i] = x
         /\ \A j \in Ids : j # i => [d EXCEPT !.slots[i] = x].slots[j] = d.slots[j]
         /\ [d EXCEPT !.slots[i] = x].usage = d.usage
         /\ [d EXCEPT !.slots[i] = x].minted = d.minted
         /\ [d EXCEPT !.slots[i] = x].final <=> d.final
  <1>1. d.slots \in [Ids -> Slot] /\ d.usage \in SUBSET Parts /\ d.minted \in Ids /\ d.final \in BOOLEAN
    BY DEF Decoders
  <1>2. [d.slots EXCEPT ![i] = x] \in [Ids -> Slot]
    BY <1>1
  <1>3. [d EXCEPT !.slots[i] = x] \in Decoders
    BY <1>1, <1>2 DEF Decoders
  <1>4. [d EXCEPT !.slots[i] = x].slots = [d.slots EXCEPT ![i] = x]
    BY DEF Decoders
  <1>5. QED
    BY <1>1, <1>3, <1>4 DEF Decoders

(* A slot, by its fields.                                                     *)
LEMMA Slots ==
  /\ NoSlot \in Slot /\ ~NoSlot.id /\ ~NoSlot.name /\ ~NoSlot.started /\ NoSlot.acc = 0
  /\ [NoSlot EXCEPT !.started = TRUE] \in Slot
  /\ [NoSlot EXCEPT !.started = TRUE].started /\ [NoSlot EXCEPT !.started = TRUE].acc = 0
  /\ \A x \in Slot : x.acc \in 0..2
  /\ \A x \in Slot, n \in 0..2 : /\ [x EXCEPT !.acc = n] \in Slot
                                 /\ [x EXCEPT !.acc = n].acc = n
                                 /\ ([x EXCEPT !.acc = n].started <=> x.started)
  <1>1. NoSlot \in Slot /\ ~NoSlot.id /\ ~NoSlot.name /\ ~NoSlot.started /\ NoSlot.acc = 0
    BY DEF NoSlot, Slot, None, Whole
  <1>2. /\ [NoSlot EXCEPT !.started = TRUE] \in Slot
        /\ [NoSlot EXCEPT !.started = TRUE].started /\ [NoSlot EXCEPT !.started = TRUE].acc = 0
    <2>1. \A x \in Slot : /\ [x EXCEPT !.started = TRUE] \in Slot
                          /\ [x EXCEPT !.started = TRUE].started
                          /\ [x EXCEPT !.started = TRUE].acc = x.acc
      BY DEF Slot, None, Whole
    <2>2. QED
      BY <1>1, <2>1
  <1>3. \A x \in Slot : x.acc \in 0..2
    BY DEF Slot, None, Whole
  <1>4. \A x \in Slot, n \in 0..2 : /\ [x EXCEPT !.acc = n] \in Slot
                                    /\ [x EXCEPT !.acc = n].acc = n
                                    /\ ([x EXCEPT !.acc = n].started <=> x.started)
    BY DEF Slot, None, Whole
  <1>5. QED
    BY <1>1, <1>2, <1>3, <1>4

(* Anthropic's decoder.                                                       *)
LEMMA ReceivesAnthropic ==
  ASSUME AnswerShape, Stands(sv), dialect = "anthropic", dec \in Decoders, DecodedAnthropic(dec, sv),
         blocks \in Seq(Block), Held(blocks, sv, 0), NEW c, NEW s \in Positions, AnthropicStep(c, s)
  PROVE  Follows(ParseAnthropic(c, dec).dec, ParseAnthropic(c, dec).events, s)
  <1> DEFINE r == ParseAnthropic(c, dec)
  <1>1. /\ sv \in Positions /\ sv.item \in Nat /\ sv.part \in 0..2 /\ Len(message) \in Nat
        /\ sv.item <= Len(message) + 1 /\ StandsAnthropic(sv)
    BY PositionFields DEF Stands
  <1>2. Here(sv) => /\ sv.item \in 1..Len(message) /\ sv.item \in Ids /\ message[sv.item].size \in 0..2
                    /\ message[sv.item].kind \in BlockKinds /\ sv.part <= message[sv.item].size
    BY Items DEF Here, Stands
  <1>3. /\ dec.slots \in [Ids -> Slot] /\ dec.usage \in SUBSET Parts /\ dec.final \in BOOLEAN
        /\ \A i \in Ids : dec.slots[i] \in Slot
    BY DEF Decoders
  <1>4. \A d, evs : Yields(d, evs).dec = d /\ Yields(d, evs).events = evs
    BY DEF Yields
  <1>5. 0 \in Ids /\ 0 \in 0..3
    BY ItemsAssumption DEF Ids
  <1>6. NoSlot \in Slot
    BY Slots
  (* No call is open before the answer and after it, at the start of an item and  *)
  (* where there is none.                                                        *)
  <1>7. ASSUME NEW d \in Decoders, d.slots = dec.slots, \A i \in Ids : ~OpenCall(sv, i) /\ ~OpenCall(s, i)
        PROVE  DecodedAnthropic(d, s)
    BY <1>7 DEF DecodedAnthropic
  <1>8. CASE sv.item = 0 /\ c.type = "message_start" /\ s.item = 1 /\ s.part = 0 /\ s.flags = {}
    <2>1. r = Yields([dec EXCEPT !.usage = @ \cup {"in"}], <<>>)
      BY <1>8 DEF ParseAnthropic
    <2>2. r.events = <<>> /\ r.dec = [dec EXCEPT !.usage = dec.usage \cup {"in"}]
      BY <2>1, <1>4
    <2>3. dec.usage \cup {"in"} \in SUBSET Parts
      BY <1>3 DEF Parts
    <2>4. /\ r.dec \in Decoders /\ r.dec.slots = dec.slots /\ r.dec.usage = dec.usage \cup {"in"}
          /\ r.dec.final <=> dec.final
      <3> DEFINE u == dec.usage \cup {"in"}
      <3>1. u \in SUBSET Parts /\ r.dec = [dec EXCEPT !.usage = u]
        BY <2>2, <2>3
      <3> HIDE DEF u
      <3>2. /\ [dec EXCEPT !.usage = u] \in Decoders
            /\ [dec EXCEPT !.usage = u].slots = dec.slots /\ [dec EXCEPT !.usage = u].usage = u
            /\ [dec EXCEPT !.usage = u].final <=> dec.final
        BY <3>1, Counting
      <3>3. QED
        BY <3>1, <3>2 DEF u
    <2>5. \A i \in Ids : ~OpenCall(sv, i) /\ ~OpenCall(s, i)
      BY <1>8 DEF OpenCall, ToolHere, Here
    <2>6. Held(blocks, s, 0)
      <3>1. ~Opened(sv, 0) /\ ~Opened(s, 0) /\ Passed(sv) = Passed(s)
        BY <1>1, <1>8, Unopened DEF Passed, Here
      <3>2. QED
        BY <1>1, <3>1, Waits
    <2>7. Counted(r.dec, s) /\ ~EndsAt(s)
      BY <1>1, <1>8, <2>4 DEF Counted, EndsAt
    <2>8. DecodedAnthropic(r.dec, s)
      BY <1>7, <2>4, <2>5
    <2>9. HeldAfter(blocks, r.events, s)
      BY <2>2, <2>6, HeldByEvents
    <2>10. QED
      BY <2>2, <2>4, <2>7, <2>8, <2>9 DEF Follows, DecodedTo
  <1>9. CASE /\ Here(sv) /\ "open" \notin sv.flags
             /\ c.type = "block_start" /\ c.index = sv.item /\ c.has = {message[sv.item].kind}
             /\ s.item = sv.item /\ s.part = sv.part /\ s.flags = sv.flags \cup {"open"}
    <2>1. sv.part = 0 /\ sv.flags = {} /\ s.flags = {"open"} /\ s.part = 0
      BY <1>1, <1>9 DEF StandsAnthropic
    <2>2. ~Opened(sv, 0)
      BY <1>1, <2>1, Unopened
    <2>3. Counted(dec, sv) => Counted(dec, s) /\ ~EndsAt(s)
      BY <1>1, <1>2, <1>9, <2>1 DEF Counted, EndsAt
    <2>4. \A i \in Ids : ~OpenCall(sv, i)
      BY <1>9 DEF OpenCall
    <2>5. CASE message[sv.item].kind = "tool"
      <3> DEFINE x == [NoSlot EXCEPT !.started = TRUE]
      <3>1. r = Yields([dec EXCEPT !.slots[sv.item] = x], <<Ev("start", sv.item, 0)>>)
        BY <1>9, <2>5 DEF ParseAnthropic
      <3>2. x \in Slot /\ x.started /\ x.acc = 0
        BY Slots
      <3> HIDE DEF x
      <3>3. r.dec = [dec EXCEPT !.slots[sv.item] = x] /\ r.events = <<Ev("start", sv.item, 0)>>
        BY <3>1, <1>4
      <3>4. /\ r.dec \in Decoders /\ r.dec.slots[sv.item] = x
            /\ \A j \in Ids : j # sv.item => r.dec.slots[j] = dec.slots[j]
            /\ r.dec.usage = dec.usage
            /\ r.dec.final <=> dec.final
        BY <1>2, <1>9, <3>2, <3>3, Slotting
      <3>5. DecodedAnthropic(r.dec, s)
        <4>1. \A i \in Ids : OpenCall(s, i) <=> i = sv.item
          BY <1>9, <2>1, <2>5 DEF OpenCall, ToolHere, Here
        <4>2. QED
          BY <2>1, <2>4, <3>2, <3>4, <4>1 DEF DecodedAnthropic
      <3>6. Ev("start", sv.item, 0) \in Event /\ Ev("start", sv.item, 0) # Error
        BY <1>2, <1>5, <1>9, Events
      <3>7. ToolHere(sv) /\ Opened(s, 0)
        BY <1>9, <2>1, <2>5 DEF ToolHere, Opened, Here
      <3>8. Held(Gathered(blocks, Ev("start", sv.item, 0)), s, 0)
        <4>1. IdOf(sv.item) = sv.item
          BY <2>5 DEF IdOf
        <4>2. Held(Append(blocks, NewBlock("tool", IdOf(sv.item), None)), s, 0)
          BY <1>1, <1>9, <2>1, <2>2, <3>7, Starts
        <4>3. QED
          BY <4>1, <4>2, Gathers
      <3>9. HeldAfter(blocks, r.events, s)
        <4> DEFINE e == Ev("start", sv.item, 0)
        <4>1. Held(Gathered(blocks, e), s, 0) /\ r.events = <<e>>
          BY <3>3, <3>8
        <4> HIDE DEF e
        <4>2. QED
          BY <4>1, HeldByEvents
      <3>10. r.events \in Seq(Event) /\ r.events # <<Error>>
        BY <3>3, <3>6
      <3>11. Counted(dec, sv) => Counted(r.dec, s) /\ ~EndsAt(s)
        BY <2>3, <3>4 DEF Counted
      <3>12. QED
        BY <3>4, <3>5, <3>9, <3>10, <3>11 DEF Follows, DecodedTo
    <2>6. CASE message[sv.item].kind # "tool"
      <3>1. r = Yields(dec, <<>>)
        BY <1>9, <2>6 DEF ParseAnthropic
      <3>2. r.dec = dec /\ r.events = <<>>
        BY <3>1, <1>4
      <3>3. ~Opened(s, 0) /\ Passed(s) = Passed(sv)
        BY <1>9, <2>1, <2>6 DEF Opened, ToolHere, TextHere, Passed
      <3>4. Held(blocks, s, 0)
        BY <1>1, <2>2, <3>3, Waits
      <3>5. \A i \in Ids : ~OpenCall(s, i)
        BY <1>9, <2>6 DEF OpenCall, ToolHere
      <3>6. DecodedAnthropic(dec, s)
        BY <1>7, <2>4, <3>5
      <3>7. HeldAfter(blocks, <<>>, s)
        BY <3>4, HeldByEvents
      <3>8. QED
        BY <2>3, <3>2, <3>6, <3>7 DEF Follows, DecodedTo
    <2>7. QED
      BY <2>5, <2>6
  <1>10. CASE /\ Here(sv) /\ "open" \in sv.flags /\ c.n \in 1..(message[sv.item].size - sv.part)
              /\ c.type = "block_delta" /\ c.index = sv.item /\ c.has = {message[sv.item].kind}
              /\ s.item = sv.item /\ s.part = sv.part + c.n /\ s.flags = sv.flags
    <2>1. c.n \in 0..3 /\ c.n \in 1..2 /\ sv.part + c.n \in 0..2
      BY <1>1, <1>2, <1>10
    <2>2. Counted(dec, sv) => Counted(dec, s) /\ ~EndsAt(s)
      BY <1>1, <1>2, <1>10 DEF Counted, EndsAt
    <2>3. CASE message[sv.item].kind = "tool"
      <3> DEFINE slot == dec.slots[sv.item]
      <3> DEFINE x == [slot EXCEPT !.acc = slot.acc + c.n]
      <3>1. OpenCall(sv, sv.item) /\ ToolHere(sv)
        BY <1>10, <2>3 DEF OpenCall, ToolHere
      <3>2. slot \in Slot /\ slot.started /\ slot.acc = sv.part
        BY <1>2, <1>3, <1>10, <3>1 DEF DecodedAnthropic
      <3>3. x \in Slot /\ x.started /\ x.acc = sv.part + c.n
        <4>1. slot.acc + c.n = sv.part + c.n /\ slot.acc + c.n \in 0..2
          BY <2>1, <3>2
        <4> HIDE DEF slot
        <4>2. \A v \in Slot, k \in 0..2 : /\ [v EXCEPT !.acc = k] \in Slot /\ [v EXCEPT !.acc = k].acc = k
                                          /\ ([v EXCEPT !.acc = k].started <=> v.started)
          BY Slots
        <4>3. x \in Slot /\ x.acc = slot.acc + c.n /\ (x.started <=> slot.started)
          BY <3>2, <4>1, <4>2
        <4>4. QED
          BY <3>2, <4>1, <4>3
      <3>4. r = Yields([dec EXCEPT !.slots[sv.item].acc = @ + c.n], <<Ev("delta", sv.item, c.n)>>)
        BY <1>10, <2>3, <3>2 DEF ParseAnthropic
      <3>5. [dec EXCEPT !.slots[sv.item].acc = @ + c.n] = [dec EXCEPT !.slots[sv.item] = x]
        BY <1>2, <1>3, <1>10 DEF Decoders
      <3> HIDE DEF x
      <3>6. r.dec = [dec EXCEPT !.slots[sv.item] = x] /\ r.events = <<Ev("delta", sv.item, c.n)>>
        BY <3>4, <3>5, <1>4
      <3>7. /\ r.dec \in Decoders /\ r.dec.slots[sv.item] = x
            /\ \A j \in Ids : j # sv.item => r.dec.slots[j] = dec.slots[j]
            /\ r.dec.usage = dec.usage
            /\ r.dec.final <=> dec.final
        BY <1>2, <1>10, <3>3, <3>6, Slotting
      <3>8. DecodedAnthropic(r.dec, s)
        <4>1. \A i \in Ids : (OpenCall(s, i) <=> i = sv.item) /\ (OpenCall(sv, i) <=> i = sv.item)
          BY <1>10, <2>3 DEF OpenCall, ToolHere, Here
        <4>2. QED
          BY <1>10, <3>3, <3>7, <4>1 DEF DecodedAnthropic
      <3>9. Ev("delta", sv.item, c.n) \in Event /\ Ev("delta", sv.item, c.n) # Error
        BY <1>2, <1>10, <2>1, Events
      <3>10. Opened(sv, 0) /\ Opened(s, 0)
        BY <1>10, <2>3 DEF Opened, ToolHere, Here
      <3>11. Held(Gathered(blocks, Ev("delta", sv.item, c.n)), s, 0)
        <4>1. IdOf(sv.item) = sv.item
          BY <2>3 DEF IdOf
        <4>2. Held(AfterToolDelta(blocks, IdOf(sv.item), c.n), s, 0)
          BY <1>1, <1>10, <3>1, <3>10, Deltas
        <4>3. QED
          BY <4>1, <4>2, Gathers
      <3>12. HeldAfter(blocks, r.events, s)
        <4> DEFINE e == Ev("delta", sv.item, c.n)
        <4>1. Held(Gathered(blocks, e), s, 0) /\ r.events = <<e>>
          BY <3>6, <3>11
        <4> HIDE DEF e
        <4>2. QED
          BY <4>1, HeldByEvents
      <3>13. r.events \in Seq(Event) /\ r.events # <<Error>>
        BY <3>6, <3>9
      <3>14. Counted(dec, sv) => Counted(r.dec, s) /\ ~EndsAt(s)
        BY <2>2, <3>7 DEF Counted
      <3>15. QED
        BY <3>7, <3>8, <3>12, <3>13, <3>14 DEF Follows, DecodedTo
    <2>4. CASE message[sv.item].kind # "tool"
      <3> DEFINE kind == message[sv.item].kind
      <3>1. r = Yields(dec, <<Ev(kind, 0, c.n)>>)
        <4>1. (CHOOSE k \in c.has : TRUE) = kind
          BY <1>10
        <4>2. "tool" \notin c.has
          BY <1>10, <2>4
        <4>3. r = Yields(dec, <<Ev(CHOOSE k \in c.has : TRUE, 0, c.n)>>)
          BY <1>10, <4>2 DEF ParseAnthropic
        <4>4. QED
          BY <4>1, <4>3
      <3>2. r.dec = dec /\ r.events = <<Ev(kind, 0, c.n)>>
        BY <3>1, <1>4
      <3>3. TextHere(sv) /\ kind \in {"text", "think"}
        BY <1>2, <1>10, <2>4 DEF TextHere, BlockKinds
      <3>4. Held(Gathered(blocks, Ev(kind, 0, c.n)), s, 0)
        <4>1. Held(AfterDelta(blocks, kind, c.n), s, 0)
          BY <1>1, <1>10, <3>3, Texted
        <4>2. Gathered(blocks, Ev(kind, 0, c.n)) = AfterDelta(blocks, kind, c.n)
          BY <3>3, Gathers
        <4>3. QED
          BY <4>1, <4>2
      <3>5. Ev(kind, 0, c.n) \in Event /\ Ev(kind, 0, c.n) # Error
        BY <1>5, <2>1, <3>3, Events
      <3>6. \A i \in Ids : ~OpenCall(sv, i) /\ ~OpenCall(s, i)
        BY <1>10, <2>4 DEF OpenCall, ToolHere
      <3>7. DecodedAnthropic(dec, s)
        BY <1>7, <3>6
      <3>8. HeldAfter(blocks, r.events, s)
        BY <3>2, <3>4, HeldByEvents
      <3>9. r.events \in Seq(Event) /\ r.events # <<Error>>
        BY <3>2, <3>5
      <3>10. QED
        BY <2>2, <3>2, <3>7, <3>8, <3>9 DEF Follows, DecodedTo
    <2>5. QED
      BY <2>3, <2>4
  <1>11. CASE /\ Here(sv) /\ "open" \in sv.flags /\ sv.part = message[sv.item].size
              /\ message[sv.item].kind = "think"
              /\ c.type = "signature"
              /\ s.item = sv.item /\ s.part = sv.part /\ s.flags = sv.flags \cup {"signed"}
    <2>1. r = Yields(dec, <<Ev("sign", 0, 0)>>)
      BY <1>11 DEF ParseAnthropic
    <2>2. r.dec = dec /\ r.events = <<Ev("sign", 0, 0)>>
      BY <2>1, <1>4
    <2>3. Ev("sign", 0, 0) \in Event /\ Ev("sign", 0, 0) # Error
      BY <1>5, Events
    <2>4. Opened(sv, 0)
      BY <1>1, <1>2, <1>11, Items DEF Opened, TextHere, Here
    <2>5. Held(AfterSignature(blocks), s, 0)
      BY <1>1, <1>11, <2>4, Signed
    <2>6. HeldAfter(blocks, r.events, s)
      <3>1. Held(Gathered(blocks, Ev("sign", 0, 0)), s, 0)
        BY <2>5, Gathers
      <3>2. QED
        BY <2>2, <3>1, HeldByEvents
    <2>7. \A i \in Ids : ~OpenCall(sv, i) /\ ~OpenCall(s, i)
      BY <1>11 DEF OpenCall, ToolHere
    <2>8. DecodedAnthropic(dec, s)
      BY <1>7, <2>7
    <2>9. Counted(dec, sv) => Counted(dec, s) /\ ~EndsAt(s)
      BY <1>1, <1>2, <1>11 DEF Counted, EndsAt
    <2>10. r.events \in Seq(Event) /\ r.events # <<Error>>
      BY <2>2, <2>3
    <2>11. QED
      BY <2>2, <2>6, <2>8, <2>9, <2>10 DEF Follows, DecodedTo
  <1>12. CASE /\ Here(sv) /\ "open" \in sv.flags /\ sv.part = message[sv.item].size
              /\ message[sv.item].kind = "think" => "signed" \in sv.flags
              /\ c.type = "block_stop" /\ c.index = sv.item
              /\ s.item = sv.item + 1 /\ s.part = 0 /\ s.flags = {}
    <2>1. ~Opened(s, 0)
      BY <1>1, <1>12, Unopened
    <2>2. \A i \in Ids : ~OpenCall(s, i)
      BY <1>12 DEF OpenCall
    <2>3. Counted(dec, sv) => Counted(dec, s) /\ ~EndsAt(s)
      BY <1>1, <1>2, <1>12 DEF Counted, EndsAt
    <2> DEFINE slot == dec.slots[sv.item]
    <2>4. CASE message[sv.item].kind = "tool"
      <3> DEFINE n == IF sv.part = Whole THEN Whole ELSE None
      <3>1. OpenCall(sv, sv.item) /\ ToolHere(sv)
        BY <1>12, <2>4 DEF OpenCall, ToolHere
      <3>2. slot \in Slot /\ slot.started /\ slot.acc = sv.part
        BY <1>2, <1>3, <1>12, <3>1 DEF DecodedAnthropic
      <3>3. r = Yields([dec EXCEPT !.slots[sv.item] = NoSlot], <<Ev("complete", sv.item, n)>>)
        BY <1>12, <3>2 DEF ParseAnthropic
      <3>4. r.dec = [dec EXCEPT !.slots[sv.item] = NoSlot] /\ r.events = <<Ev("complete", sv.item, n)>>
        BY <3>3, <1>4
      <3>5. /\ r.dec \in Decoders /\ r.dec.slots[sv.item] = NoSlot
            /\ \A j \in Ids : j # sv.item => r.dec.slots[j] = dec.slots[j]
            /\ r.dec.usage = dec.usage
            /\ r.dec.final <=> dec.final
        BY <1>2, <1>6, <1>12, <3>4, Slotting
      <3>6. DecodedAnthropic(r.dec, s)
        <4>1. \A i \in Ids : OpenCall(sv, i) => i = sv.item
          BY DEF OpenCall
        <4>2. QED
          BY <2>2, <3>5, <4>1, Slots DEF DecodedAnthropic
      <3>7. n \in 0..3
        BY DEF None, Whole
      <3>8. Ev("complete", sv.item, n) \in Event /\ Ev("complete", sv.item, n) # Error
        <4> HIDE DEF n
        <4> QED
          BY <1>2, <1>12, <3>7, Events
      <3>9. Opened(sv, 0)
        BY <1>12, <2>4 DEF Opened, ToolHere
      <3>10. Held(Gathered(blocks, Ev("complete", sv.item, n)), s, 0)
        <4>1. IdOf(sv.item) = sv.item
          BY <2>4 DEF IdOf
        <4>2. Held(AfterComplete(blocks, IdOf(sv.item), n), s, 0)
          BY <1>1, <1>12, <2>1, <3>1, <3>9, Completes
        <4>3. QED
          BY <4>1, <4>2, Gathers
      <3>11. HeldAfter(blocks, r.events, s)
        <4> DEFINE e == Ev("complete", sv.item, n)
        <4>1. Held(Gathered(blocks, e), s, 0) /\ r.events = <<e>>
          BY <3>4, <3>10
        <4> HIDE DEF e
        <4>2. QED
          BY <4>1, HeldByEvents
      <3>12. r.events \in Seq(Event) /\ r.events # <<Error>>
        BY <3>4, <3>8
      <3>13. Counted(dec, sv) => Counted(r.dec, s) /\ ~EndsAt(s)
        BY <2>3, <3>5 DEF Counted
      <3>14. QED
        BY <3>5, <3>6, <3>11, <3>12, <3>13 DEF Follows, DecodedTo
    <2>5. CASE message[sv.item].kind # "tool"
      <3>1. \A i \in Ids : ~OpenCall(sv, i)
        BY <2>5 DEF OpenCall, ToolHere
      <3>2. ~slot.started
        BY <1>2, <1>12, <3>1 DEF DecodedAnthropic
      <3>3. r = Yields(dec, <<>>)
        BY <1>12, <3>2 DEF ParseAnthropic
      <3>4. r.dec = dec /\ r.events = <<>>
        BY <3>3, <1>4
      <3>5. Opened(sv, 0) /\ TextHere(sv)
        BY <1>1, <1>2, <1>12, <2>5, Items DEF Opened, TextHere, Here
      <3>6. Fits(blocks[sv.item], sv.item, sv.part, FALSE, "signed" \in sv.flags, 0)
        BY <1>1, <1>12, <3>5, CurrentBlock
      <3>7. Fits(blocks[sv.item], sv.item, message[sv.item].size, TRUE, TRUE, 0)
        BY <1>12, <2>5, <3>6 DEF Fits, Amounts
      <3>8. Held(blocks, s, 0)
        BY <1>1, <1>12, <2>1, <3>5, <3>7, Passes
      <3>9. DecodedAnthropic(dec, s)
        BY <1>7, <2>2, <3>1
      <3>10. HeldAfter(blocks, r.events, s)
        BY <3>4, <3>8, HeldByEvents
      <3>11. QED
        BY <2>3, <3>4, <3>9, <3>10 DEF Follows, DecodedTo
    <2>6. QED
      BY <2>4, <2>5
  <1>13. CASE /\ sv.item > Len(message) /\ sv.flags = {} /\ c.type = "message_delta"
              /\ s.item = sv.item /\ s.part = sv.part /\ s.flags = {"reason"}
    <2>1. r = Yields([dec EXCEPT !.usage = @ \cup {"out"}], <<>>)
      BY <1>13 DEF ParseAnthropic
    <2>2. r.events = <<>> /\ r.dec = [dec EXCEPT !.usage = dec.usage \cup {"out"}]
      BY <2>1, <1>4
    <2>3. dec.usage \cup {"out"} \in SUBSET Parts
      BY <1>3 DEF Parts
    <2>4. /\ r.dec \in Decoders /\ r.dec.slots = dec.slots /\ r.dec.usage = dec.usage \cup {"out"}
          /\ r.dec.final <=> dec.final
      <3> DEFINE u == dec.usage \cup {"out"}
      <3>1. u \in SUBSET Parts /\ r.dec = [dec EXCEPT !.usage = u]
        BY <2>2, <2>3
      <3> HIDE DEF u
      <3>2. /\ [dec EXCEPT !.usage = u] \in Decoders
            /\ [dec EXCEPT !.usage = u].slots = dec.slots /\ [dec EXCEPT !.usage = u].usage = u
            /\ [dec EXCEPT !.usage = u].final <=> dec.final
        BY <3>1, Counting
      <3>3. QED
        BY <3>1, <3>2 DEF u
    <2>5. ~Here(sv) /\ ~Here(s)
      BY <1>1, <1>13 DEF Here
    <2>6. \A i \in Ids : ~OpenCall(sv, i) /\ ~OpenCall(s, i)
      BY <2>5 DEF OpenCall, ToolHere
    <2>7. Held(blocks, s, 0)
      <3>1. ~Opened(sv, 0) /\ ~Opened(s, 0) /\ Passed(sv) = Passed(s)
        BY <1>1, <1>13, <2>5, Unopened DEF Passed
      <3>2. QED
        BY <1>1, <3>1, Waits
    <2>8. Counted(dec, sv) => Counted(r.dec, s) /\ ~EndsAt(s)
      BY <1>1, <1>13, <2>4 DEF Counted, EndsAt
    <2>9. DecodedAnthropic(r.dec, s)
      BY <1>7, <2>4, <2>6
    <2>10. HeldAfter(blocks, r.events, s)
      BY <2>2, <2>7, HeldByEvents
    <2>11. QED
      BY <2>2, <2>4, <2>8, <2>9, <2>10 DEF Follows, DecodedTo
  <1>14. CASE /\ sv.item > Len(message) /\ sv.flags = {"reason"} /\ c.type = "message_stop"
              /\ s.item = sv.item /\ s.part = sv.part /\ s.flags = {"reason", "end"}
    <2>1. r = Yields(dec, <<StopWith(dec.usage)>>)
      BY <1>14 DEF ParseAnthropic
    <2>2. r.events = <<StopWith(dec.usage)>> /\ r.dec = dec
      BY <2>1, <1>4
    <2>3. /\ StopWith(dec.usage) \in Event /\ StopWith(dec.usage) # Error
          /\ Gathered(blocks, StopWith(dec.usage)) = blocks
      BY <1>3, Stops
    <2>4. ~Here(sv) /\ ~Here(s)
      BY <1>1, <1>14 DEF Here
    <2>5. \A i \in Ids : ~OpenCall(sv, i) /\ ~OpenCall(s, i)
      BY <2>4 DEF OpenCall, ToolHere
    <2>6. Held(blocks, s, 0)
      <3>1. ~Opened(sv, 0) /\ ~Opened(s, 0) /\ Passed(sv) = Passed(s)
        BY <1>1, <1>14, <2>4, Unopened DEF Passed
      <3>2. QED
        BY <1>1, <3>1, Waits
    <2>7. Counted(dec, sv) => Counted(dec, s) /\ Owes(r.events, Parts)
      <3>1. Counted(dec, sv) => Counted(dec, s) /\ dec.usage = Parts
        BY <1>1, <1>3, <1>14 DEF Counted, Parts
      <3>2. dec.usage = Parts => Owes(r.events, Parts)
        BY <2>2 DEF Owes
      <3>3. QED
        BY <3>1, <3>2
    <2>8. DecodedAnthropic(dec, s)
      BY <1>7, <2>5
    <2>9. HeldAfter(blocks, r.events, s)
      BY <2>2, <2>3, <2>6, HeldByEvents
    <2>10. r.events \in Seq(Event) /\ r.events # <<Error>>
      BY <2>2, <2>3
    <2>11. QED
      BY <2>2, <2>7, <2>8, <2>9, <2>10 DEF Follows, DecodedTo
  <1>15. QED
    BY <1>8, <1>9, <1>10, <1>11, <1>12, <1>13, <1>14 DEF AnthropicStep

(* A Gemini answer with gaps: texts that were apart may become one.              *)
LEMMA BoundedDelta ==
  ASSUME AnswerShape, sv \in Positions, Here(sv), NEW bs, Bounded(bs, sv),
         NEW kind \in BlockKinds, NEW n \in 1..(message[sv.item].size - sv.part),
         NEW s \in Positions, Advances(s, n, {})
  PROVE  Bounded(AfterDelta(bs, kind, n), s)
  <1>1. /\ sv.item \in 1..MaxItems /\ sv.item \in Nat /\ sv.part \in 0..2 /\ message[sv.item].size \in 0..2
        /\ MaxItems \in Nat
    BY PositionFields, Items, Within, ItemsAssumption DEF Here
  <1>2. n \in 0..2 /\ n \in 0..3 /\ sv.part + n \in 0..2
    BY <1>1
  <1>3. bs \in Seq(Block) /\ \A k \in 1..Len(bs) : bs[k].size <= 2 * (sv.item - 1) + sv.part /\ bs[k].size \in Nat
    BY BlockFields, ItemsAssumption DEF Bounded, Whole
  <1>4. /\ n <= 2 * (s.item - 1) + s.part
        /\ \A z \in Nat : z <= 2 * (sv.item - 1) + sv.part =>
              z <= 2 * (s.item - 1) + s.part /\ z + n <= 2 * (s.item - 1) + s.part
    BY <1>1, <1>2 DEF Advances
  <1>5. CASE Extends(bs, kind)
    <2>1. Len(bs) \in 1..Len(bs)
      BY <1>3, <1>5 DEF Extends
    <2>2. bs[Len(bs)].size + n <= 3 + 2 * MaxItems
      <3>1. \A z \in Nat : z <= 2 * (sv.item - 1) + sv.part => z + n <= 3 + 2 * MaxItems
        BY <1>1, <1>2
      <3>2. QED
        BY <1>3, <2>1, <3>1
    <2> DEFINE b == [bs[Len(bs)] EXCEPT !.size = @ + n]
    <2>3. Puts(AfterDelta(bs, kind, n), bs, Len(bs), b)
      BY <1>2, <1>3, <1>5, <2>2, ExtendPuts
    <2>4. b.size = bs[Len(bs)].size + n
      <3>1. bs[Len(bs)] \in Block
        BY <1>3, <2>1
      <3>2. bs[Len(bs)].size + n \in 0..(3 + 2 * MaxItems)
        BY <1>1, <1>2, <1>3, <2>1, <2>2
      <3>3. QED
        BY <3>1, <3>2, Resized
    <2> HIDE DEF b
    <2> DEFINE bs2 == AfterDelta(bs, kind, n)
    <2>5. /\ bs2 \in Seq(Block) /\ Len(bs2) = Len(bs) /\ bs2[Len(bs)] = b
          /\ \A i \in 1..Len(bs) : i # Len(bs) => bs2[i] = bs[i]
      BY <1>3, <2>1, <2>3 DEF Puts
    <2> HIDE DEF bs2
    <2>6. \A k \in 1..Len(bs2) : bs2[k].size <= 2 * (s.item - 1) + s.part
      <3> SUFFICES ASSUME NEW k \in 1..Len(bs2) PROVE bs2[k].size <= 2 * (s.item - 1) + s.part
        OBVIOUS
      <3>1. CASE k = Len(bs)
        BY <1>3, <1>4, <2>1, <2>4, <2>5, <3>1
      <3>2. CASE k # Len(bs)
        BY <1>3, <1>4, <2>5, <3>2
      <3>3. QED
        BY <3>1, <3>2
    <2>7. QED
      BY <2>5, <2>6 DEF bs2, Bounded, Whole
  <1>6. CASE ~Extends(bs, kind)
    <2> DEFINE b == NewBlock(kind, 0, n)
    <2> DEFINE bs2 == AfterDelta(bs, kind, n)
    <2>1. Puts(bs2, bs, Len(bs) + 1, b)
      BY <1>2, <1>3, <1>6, BeginPuts
    <2>2. b.size = n
      BY DEF NewBlock
    <2>3. /\ bs2 \in Seq(Block) /\ Len(bs2) = Len(bs) + 1 /\ bs2[Len(bs) + 1] = b
          /\ \A i \in 1..Len(bs) : bs2[i] = bs[i]
      BY <1>3, <2>1 DEF Puts
    <2> HIDE DEF b, bs2
    <2>4. \A k \in 1..Len(bs2) : bs2[k].size <= 2 * (s.item - 1) + s.part
      <3> SUFFICES ASSUME NEW k \in 1..Len(bs2) PROVE bs2[k].size <= 2 * (s.item - 1) + s.part
        OBVIOUS
      <3>1. CASE k = Len(bs) + 1
        BY <1>4, <2>2, <2>3, <3>1
      <3>2. CASE k # Len(bs) + 1
        BY <1>3, <1>4, <2>3, <3>2
      <3>3. QED
        BY <3>1, <3>2
    <2>5. QED
      BY <2>3, <2>4 DEF bs2, Bounded, Whole
  <1>7. QED
    BY <1>5, <1>6

(* A whole call adds its own size, or replaces that of another.                  *)
LEMMA BoundedComplete ==
  ASSUME AnswerShape, sv \in Positions, Here(sv), NEW bs, Bounded(bs, sv),
         NEW id \in Ids, NEW n \in 0..2, NEW s \in Positions, s.item = sv.item + 1, s.part = 0
  PROVE  Bounded(AfterComplete(bs, id, n), s)
  <1>1. /\ sv.item \in 1..MaxItems /\ sv.item \in Nat /\ sv.part \in 0..2 /\ MaxItems \in Nat
    BY PositionFields, Within, ItemsAssumption DEF Here
  <1>2. bs \in Seq(Block) /\ \A k \in 1..Len(bs) : /\ bs[k].size <= 2 * (sv.item - 1) + sv.part
                                                  /\ bs[k].size \in Nat /\ bs[k] \in Block
    BY BlockFields, ItemsAssumption DEF Bounded, Whole
  <1>3. /\ n <= 2 * (s.item - 1) + s.part
        /\ \A z \in Nat : z <= 2 * (sv.item - 1) + sv.part => z <= 2 * (s.item - 1) + s.part
    BY <1>1
  <1> DEFINE bs2 == AfterComplete(bs, id, n)
  <1>4. CASE Tool(bs, id) = {}
    <2> DEFINE b == NewBlock("tool", id, n)
    <2>1. b \in Block /\ b.size = n
      <3>1. "tool" \in BlockKinds /\ n \in 0..3
        BY DEF BlockKinds
      <3>2. QED
        BY <3>1, NewBlocks
    <2>2. bs2 = Append(bs, b)
      BY <1>4 DEF AfterComplete
    <2> HIDE DEF b, bs2
    <2>3. /\ bs2 \in Seq(Block)
          /\ \A k \in 1..Len(bs2) : bs2[k] = b \/ (k \in 1..Len(bs) /\ bs2[k] = bs[k])
      BY <1>2, <2>1, <2>2
    <2>4. \A k \in 1..Len(bs2) : bs2[k].size <= 2 * (s.item - 1) + s.part
      BY <1>2, <1>3, <2>1, <2>3
    <2>5. QED
      BY <2>3, <2>4 DEF bs2, Bounded, Whole
  <1>5. CASE Tool(bs, id) # {}
    <2>1. bs2 = [k \in 1..Len(bs) |-> IF k \in Tool(bs, id) THEN [bs[k] EXCEPT !.size = n] ELSE bs[k]]
      <3>1. DOMAIN bs = 1..Len(bs)
        BY <1>2
      <3>2. bs2 = [k \in DOMAIN bs |-> IF k \in Tool(bs, id) THEN [bs[k] EXCEPT !.size = n] ELSE bs[k]]
        BY <1>5, Zenon DEF AfterComplete
      <3>3. QED
        BY <3>1, <3>2
    <2>2. ASSUME NEW k \in 1..Len(bs)
          PROVE  bs2[k] \in Block /\ bs2[k].size <= 2 * (s.item - 1) + s.part
      <3>1. n \in 0..(3 + 2 * MaxItems)
        BY <1>1
      <3>2. /\ [bs[k] EXCEPT !.size = n] \in Block /\ [bs[k] EXCEPT !.size = n].size = n
        BY <1>2, <3>1, Resized
      <3>3. bs2[k] = [bs[k] EXCEPT !.size = n] \/ bs2[k] = bs[k]
        BY <2>1
      <3> HIDE DEF bs2
      <3>4. QED
        BY <1>2, <1>3, <3>2, <3>3
    <2>3. bs2 \in Seq(Block) /\ Len(bs2) = Len(bs)
      <3>1. Len(bs) \in Nat /\ DOMAIN bs2 = 1..Len(bs) /\ bs2 = [k \in 1..Len(bs) |-> bs2[k]]
        BY <1>2, <2>1
      <3> HIDE DEF bs2
      <3>2. QED
        BY <2>2, <3>1
    <2> HIDE DEF bs2
    <2>4. QED
      BY <2>2, <2>3 DEF bs2, Bounded, Whole
  <1>6. QED
    BY <1>4, <1>5

(* Gemini's decoder.                                                         *)
LEMMA ReceivesGemini ==
  ASSUME AnswerShape, Stands(sv), dialect = "gemini", dec \in Decoders, dec.minted < sv.item,
         Bounded(blocks, sv), NEW c, NEW s \in Positions, GeminiStep(c, s)
  PROVE  LET d   == ParseGemini(c, dec).dec
             evs == ParseGemini(c, dec).events
         IN  /\ d \in Decoders /\ (d.final <=> dec.final) /\ d.minted < s.item
             /\ evs \in Seq(Event) /\ evs # <<Error>> /\ Len(evs) <= 1
             /\ Bounded(After(blocks, evs), s)
             /\ Held(blocks, sv, 0) /\ DecodedGemini(dec, sv) => Follows(d, evs, s)
  <1> DEFINE d   == ParseGemini(c, dec).dec
  <1> DEFINE evs == ParseGemini(c, dec).events
  <1> DEFINE Good == /\ d \in Decoders /\ (d.final <=> dec.final) /\ d.minted < s.item
                     /\ evs \in Seq(Event) /\ evs # <<Error>> /\ Len(evs) <= 1
                     /\ Bounded(After(blocks, evs), s)
                     /\ Held(blocks, sv, 0) /\ DecodedGemini(dec, sv) => Follows(d, evs, s)
  <1> SUFFICES Good
    OBVIOUS
  <1>1. /\ sv \in Positions /\ sv.item \in Nat /\ sv.item > 0 /\ sv.part \in 0..2 /\ Len(message) \in Nat
        /\ sv.item <= Len(message) + 1 /\ StandsGemini(sv)
        /\ s.item \in Nat
    BY PositionFields DEF Stands, StandsGemini
  <1>2. Here(sv) => /\ sv.item \in 1..Len(message) /\ sv.item \in 1..MaxItems /\ message[sv.item].size \in 0..2
                    /\ Number(sv.item + 1) = IF message[sv.item].kind = "tool" THEN Number(sv.item) + 1
                                             ELSE Number(sv.item)
    BY <1>1, Items, Numbers DEF Here
  <1>3. dec.usage \in SUBSET Parts /\ dec.final \in BOOLEAN /\ dec.minted \in Ids /\ dec.minted \in Nat
    BY ItemsAssumption DEF Decoders, Ids
  <1>4. \A x, y : Yields(x, y).dec = x /\ Yields(x, y).events = y
    BY DEF Yields
  <1>5. 0 \in Ids
    BY ItemsAssumption DEF Ids
  <1>6. blocks \in Seq(Block)
    BY DEF Bounded
  <1>7. CASE /\ TextHere(sv) /\ c.type = "text" /\ message[sv.item].kind = "text"
             /\ c.n \in 1..(message[sv.item].size - sv.part)
             /\ Advances(s, c.n, {})
             /\ s.item = sv.item => s.part < message[sv.item].size
    <2> DEFINE e == Ev("text", 0, c.n)
    <2>1. d = dec /\ evs = <<e>>
      BY <1>4, <1>7 DEF ParseGemini
    <2>2. Here(sv) /\ c.n \in 0..3 /\ "text" \in BlockKinds
      <3>1. Here(sv)
        BY <1>7 DEF TextHere
      <3>2. c.n \in 0..3
        BY <1>1, <1>2, <1>7, <3>1
      <3>3. QED
        BY <3>1, <3>2 DEF BlockKinds
    <2>3. e \in Event /\ e # Error
      BY <1>5, <2>2, Events
    <2>4. Gathered(blocks, e) = AfterDelta(blocks, "text", c.n)
      BY Gathers
    <2>5. Bounded(AfterDelta(blocks, "text", c.n), s)
      BY <1>1, <1>7, <2>2, BoundedDelta
    <2>6. s.item >= sv.item
      BY <1>1, <1>7 DEF Advances
    <2>7. ASSUME Held(blocks, sv, 0), DecodedGemini(dec, sv) PROVE Follows(dec, <<e>>, s)
      <3>1. \/ s.item = sv.item /\ s.part = sv.part + c.n /\ s.flags = sv.flags
            \/ /\ s.item = sv.item + 1 /\ s.part = 0 /\ s.flags = {}
               /\ sv.part + c.n = message[sv.item].size /\ dialect # "anthropic"
        BY <1>7 DEF Advances
      <3>2. Held(AfterDelta(blocks, message[sv.item].kind, c.n), s, 0)
        BY <1>1, <1>6, <1>7, <2>7, <3>1, Texted
      <3>3. Held(Gathered(blocks, e), s, 0)
        BY <1>7, <2>4, <3>2
      <3>4. HeldAfter(blocks, <<e>>, s)
        <4> HIDE DEF e
        <4> QED
          BY <3>3, HeldByEvents
      <3>5. DecodedTo(dec, s)
        BY <1>1, <1>2, <1>7, <2>2, <2>7 DEF DecodedTo, DecodedGemini, Advances, TextHere
      <3>6. Counted(dec, s)
        <4>1. ~Here(s) => s.flags = {}
          BY <1>1, <1>2, <2>2, <3>1 DEF Here
        <4>2. QED
          BY <4>1 DEF Counted
      <3> HIDE DEF e
      <3>7. QED
        BY <2>3, <3>4, <3>5, <3>6 DEF Follows
    <2>8. /\ evs \in Seq(Event) /\ evs # <<Error>> /\ Len(evs) <= 1 /\ After(blocks, evs) = Gathered(blocks, e)
      <3> HIDE DEF e
      <3> QED
        BY <2>1, <2>3 DEF After
    <2> HIDE DEF e, d, evs
    <2>9. QED
      BY <1>1, <1>3, <2>1, <2>4, <2>5, <2>6, <2>7, <2>8
  <1>8. CASE /\ ToolHere(sv) /\ c.type = "tool" /\ c.n = message[sv.item].size
             /\ s.item = sv.item + 1 /\ s.part = 0 /\ s.flags = {}
    <2> DEFINE e == Ev("complete", dec.minted, c.n)
    <2>1. d = [dec EXCEPT !.minted = @ + 1] /\ evs = <<e>>
      BY <1>4, <1>8 DEF ParseGemini
    <2>2. Here(sv) /\ c.n \in 0..3 /\ c.n \in 0..2 /\ message[sv.item].kind = "tool"
      BY <1>2, <1>8 DEF ToolHere
    <2>3. e \in Event /\ e # Error
      BY <1>3, <2>2, Events
    <2>4. Gathered(blocks, e) = AfterComplete(blocks, dec.minted, c.n)
      BY Gathers
    <2>5. Bounded(AfterComplete(blocks, dec.minted, c.n), s)
      BY <1>1, <1>3, <1>8, <2>2, BoundedComplete
    <2>6. /\ d \in Decoders /\ (d.final <=> dec.final) /\ d.minted = dec.minted + 1 /\ d.usage = dec.usage
      <3>1. dec.minted + 1 \in Ids
        BY <1>1, <1>2, <1>3, <2>2, ItemsAssumption DEF Ids
      <3>2. QED
        BY <2>1, <3>1 DEF Decoders
    <2>7. ASSUME Held(blocks, sv, 0), DecodedGemini(dec, sv) PROVE Follows(d, <<e>>, s)
      <3>1. ~Opened(s, 0)
        BY <1>1, <1>8, Unopened
      <3>2. Held(AfterComplete(blocks, IdOf(sv.item), message[sv.item].size), s, 0)
        BY <1>1, <1>6, <1>8, <2>7, <3>1, Arrives
      <3>3. IdOf(sv.item) = dec.minted
        BY <2>2, <2>7 DEF IdOf, DecodedGemini
      <3>4. Held(Gathered(blocks, e), s, 0)
        BY <1>8, <2>4, <3>2, <3>3
      <3>5. HeldAfter(blocks, <<e>>, s)
        <4> HIDE DEF e
        <4> QED
          BY <3>4, HeldByEvents
      <3> HIDE DEF d
      <3>6. DecodedTo(d, s)
        BY <1>2, <1>8, <2>2, <2>6, <2>7 DEF DecodedTo, DecodedGemini
      <3>7. Counted(d, s)
        BY <1>8 DEF Counted
      <3> HIDE DEF e
      <3>8. QED
        BY <2>3, <2>6, <3>5, <3>6, <3>7 DEF Follows
    <2>8. /\ evs \in Seq(Event) /\ evs # <<Error>> /\ Len(evs) <= 1 /\ After(blocks, evs) = Gathered(blocks, e)
      <3> HIDE DEF e
      <3> QED
        BY <2>1, <2>3 DEF After
    <2>9. evs = <<e>>
      BY <2>1
    <2> HIDE DEF e, d, evs
    <2>10. QED
      BY <1>1, <1>3, <1>8, <2>4, <2>5, <2>6, <2>7, <2>8, <2>9
  <1>9. CASE /\ ~Here(sv) /\ c.type = "meta" /\ c.has \subseteq {"reason"} \cup Parts
             /\ s.item = sv.item /\ s.part = sv.part /\ s.flags = sv.flags \cup c.has
    <2>1. d = [dec EXCEPT !.usage = @ \cup (c.has \cap Parts)] /\ evs = <<>>
      BY <1>4, <1>9 DEF ParseGemini
    <2> DEFINE u == dec.usage \cup (c.has \cap Parts)
    <2>2. u \in SUBSET Parts /\ d = [dec EXCEPT !.usage = u]
      BY <1>3, <2>1
    <2> HIDE DEF u
    <2>3. /\ [dec EXCEPT !.usage = u] \in Decoders
          /\ [dec EXCEPT !.usage = u].usage = u /\ [dec EXCEPT !.usage = u].minted = dec.minted
          /\ [dec EXCEPT !.usage = u].final <=> dec.final
      BY <2>2, Counting
    <2>4. d \in Decoders /\ d.usage = u /\ d.minted = dec.minted /\ (d.final <=> dec.final)
      BY <2>2, <2>3
    <2>5. Bounded(blocks, s)
      BY <1>9 DEF Bounded
    <2>6. ASSUME Held(blocks, sv, 0), DecodedGemini(dec, sv) PROVE Follows(d, <<>>, s)
      <3>1. ~Here(s) /\ Passed(s) = Passed(sv)
        BY <1>9 DEF Here, Passed
      <3>2. Held(blocks, s, 0)
        BY <1>1, <1>6, <1>9, <2>6, <3>1, Unopened, Waits
      <3>3. HeldAfter(blocks, <<>>, s)
        BY <3>2, HeldByEvents
      <3> HIDE DEF d
      <3>4. DecodedTo(d, s)
        BY <1>9, <2>4, <2>6 DEF DecodedTo, DecodedGemini
      <3>5. Counted(dec, sv) => Counted(d, s)
        BY <1>9, <2>4, <3>1 DEF Counted, u
      <3>6. QED
        BY <2>4, <3>3, <3>4, <3>5 DEF Follows
    <2>7. After(blocks, evs) = blocks /\ evs \in Seq(Event) /\ evs # <<Error>> /\ Len(evs) <= 1 /\ evs = <<>>
      BY <2>1 DEF After
    <2> HIDE DEF d, evs
    <2>8. QED
      BY <1>1, <1>3, <1>9, <2>4, <2>5, <2>6, <2>7
  <1>10. QED
    BY <1>7, <1>8, <1>9 DEF GeminiStep

(* A block is put in the place of another; of the other blocks, and of the calls  *)
(* completed, nothing changes.                                                 *)
LEMMA Replaces ==
  ASSUME AnswerShape, NEW t \in Positions, Stands(t), NEW i \in Int, NEW j \in Int,
         NEW bs \in Seq(Block), Held(bs, t, i), Opened(t, j) <=> Opened(t, i),
         NEW k \in 1..Len(bs), NEW bs2, Puts(bs2, bs, k, bs2[k]),
         k # t.item => Fits(bs2[k], k, message[k].size, TRUE, TRUE, j),
         k = t.item => Fits(bs2[k], k, t.part, FALSE, "signed" \in t.flags, j),
         \A l \in 1..Len(bs) : \A acc, over, sealed :
             l # k /\ Fits(bs[l], l, acc, over, sealed, i) => Fits(bs[l], l, acc, over, sealed, j)
  PROVE  Held(bs2, t, j)
  <1>1. /\ Len(bs) \in Nat /\ bs2 \in Seq(Block) /\ Len(bs2) = Len(bs)
        /\ \A l \in 1..Len(bs) : l # k => bs2[l] = bs[l]
    BY DEF Puts
  <1>2. t.item \in Nat
    BY PositionFields
  <1>3. /\ Len(bs) = IF Opened(t, j) THEN Passed(t) + 1 ELSE Passed(t)
        /\ Passed(t) \in Nat
        /\ \A l \in 1..Passed(t) : l \in 1..Len(bs) /\ l # t.item
        /\ Opened(t, j) => t.item \in 1..Len(bs) /\ t.item = Passed(t) + 1
    BY <1>1, <1>2 DEF Held, Passed, Opened, ToolHere, TextHere, Here
  <1>4. ASSUME NEW l \in 1..Passed(t) PROVE Fits(bs2[l], l, message[l].size, TRUE, TRUE, j)
    <2>1. CASE l = k
      BY <1>3, <2>1
    <2>2. CASE l # k
      <3>1. Fits(bs[l], l, message[l].size, TRUE, TRUE, i)
        BY DEF Held
      <3>2. QED
        BY <1>1, <1>3, <2>2, <3>1
    <2>3. QED
      BY <2>1, <2>2
  <1>5. ASSUME Opened(t, j) PROVE Fits(bs2[t.item], t.item, t.part, FALSE, "signed" \in t.flags, j)
    <2>1. CASE t.item = k
      BY <2>1
    <2>2. CASE t.item # k
      <3>1. Fits(bs[t.item], t.item, t.part, FALSE, "signed" \in t.flags, i)
        BY <1>5 DEF Held
      <3>2. QED
        BY <1>1, <1>3, <1>5, <2>2, <3>1
    <2>3. QED
      BY <2>1, <2>2
  <1>6. QED
    BY <1>1, <1>3, <1>4, <1>5 DEF Held

(* OpenAI's arguments that came with the name of their call.                      *)
LEMMA Fills ==
  ASSUME AnswerShape, NEW t \in Positions, Stands(t), dialect = "openai",
         NEW bs \in Seq(Block), Held(bs, t, 0), NEW k \in 1..Len(bs), message[k].kind = "tool",
         NEW n \in 0..3,
         bs[k].size + n <= IF k = t.item THEN t.part ELSE message[k].size
  PROVE  Held(AfterToolDelta(bs, IdOf(k), n), t, 0)
  <1> DEFINE b   == [bs[k] EXCEPT !.size = @ + n]
  <1> DEFINE bs2 == AfterToolDelta(bs, IdOf(k), n)
  <1>1. 0 \in Int
    OBVIOUS
  <1>2. /\ k \in 1..Len(message) /\ bs[k] \in Block /\ bs[k].kind = "tool" /\ bs[k].id = IdOf(k)
        /\ k # t.item => Fits(bs[k], k, message[k].size, TRUE, TRUE, 0)
    BY <1>1, HeldItems
  <1>3. k = t.item => Fits(bs[k], k, t.part, FALSE, "signed" \in t.flags, 0)
    <2>1. t.item \in Nat /\ k \in Nat /\ Len(bs) \in Nat
      BY PositionFields
    <2>2. k = t.item => Opened(t, 0)
      BY <2>1 DEF Held, Passed
    <2>3. QED
      BY <2>2 DEF Held
  <1>4. ~bs[k].signed
    BY <1>2, <1>3 DEF Fits
  <1>5. bs[k].size \in Nat /\ t.part \in 0..2 /\ message[k].size \in 0..2 /\ k \in Nat /\ MaxItems \in Nat
    BY <1>2, BlockFields, PositionFields, Items, ItemsAssumption
  <1>6. /\ bs[k].size + n <= 3 + 2 * MaxItems /\ bs[k].size + n \in 0..(3 + 2 * MaxItems)
        /\ k = t.item => bs[k].size + n \in 0..t.part
        /\ k # t.item => bs[k].size + n \in 0..message[k].size
    BY <1>5
  <1>7. Tool(bs, IdOf(k)) = {k}
    BY <1>1, ToolHeld
  <1>8. Puts(bs2, bs, k, b)
    BY <1>6, <1>7, CallPuts
  <1>9. b \in Block /\ b.kind = "tool" /\ b.id = IdOf(k) /\ ~b.signed /\ b.size = bs[k].size + n
    BY <1>2, <1>4, <1>6, Resized
  <1>10. bs2[k] = b /\ Puts(bs2, bs, k, bs2[k])
    BY <1>8 DEF Puts
  <1> HIDE DEF b, bs2
  <1>11. Number(k) \in Nat
    BY <1>5, Numbers
  <1>12. \A acc, over : Amounts(k, acc, over, 0) = 0..acc
    BY <1>11 DEF Amounts
  <1>13. k # t.item => Fits(bs2[k], k, message[k].size, TRUE, TRUE, 0)
    <2>1. k # t.item => bs2[k].size \in Amounts(k, message[k].size, TRUE, 0)
      BY <1>6, <1>9, <1>10, <1>12
    <2>2. QED
      BY <1>9, <1>10, <2>1 DEF Fits
  <1>14. k = t.item => Fits(bs2[k], k, t.part, FALSE, "signed" \in t.flags, 0)
    <2>1. k = t.item => bs2[k].size \in Amounts(k, t.part, FALSE, 0)
      BY <1>6, <1>9, <1>10, <1>12
    <2>2. QED
      BY <1>9, <1>10, <2>1 DEF Fits
  <1>15. Held(bs2, t, 0)
    BY <1>1, <1>10, <1>13, <1>14, Replaces
  <1>16. QED
    BY <1>15 DEF bs2

(* The slots of the calls, as the current one fills and is passed.                *)
LEMMA Fill ==
  ASSUME AnswerShape, sv \in Positions, Stands(sv), Here(sv), NEW d \in Decoders, DecodedOpenAi(dec, sv),
         \A i \in Ids : i # Number(sv.item) => d.slots[i] = dec.slots[i],
         TextHere(sv) => d.slots[Number(sv.item)] = dec.slots[Number(sv.item)],
         NEW s \in Positions,
         \/ /\ s.item = sv.item
            /\ ToolHere(sv) => Slotted(d.slots[Number(sv.item)], "id" \in s.flags, "name" \in s.flags, s.part)
         \/ /\ s.item = sv.item + 1 /\ s.part = 0 /\ s.flags = {}
            /\ ToolHere(sv) => Slotted(d.slots[Number(sv.item)], TRUE, TRUE, message[sv.item].size)
  PROVE  DecodedOpenAi(d, s)
  <1> DEFINE N == Number(sv.item)
  <1>1. /\ sv.item \in 1..Len(message) /\ sv.item \in Nat /\ N \in Nat /\ s.item \in Nat
        /\ Number(sv.item + 1) = IF message[sv.item].kind = "tool" THEN N + 1 ELSE N
        /\ \A i \in Ids : i \in Nat
    <2>1. sv.item \in 1..Len(message) /\ sv.item \in Nat /\ N \in Nat /\ s.item \in Nat
      BY PositionFields
    <2>2. Number(sv.item + 1) = IF message[sv.item].kind = "tool" THEN N + 1 ELSE N
      BY <2>1, Numbers
    <2>3. QED
      BY <2>1, <2>2, ItemsAssumption DEF Ids
  <1>2. ToolHere(sv) <=> ~TextHere(sv)
    BY DEF ToolHere, TextHere
  <1>3. ASSUME NEW i \in Ids, i < N
        PROVE  \E k \in 1..(sv.item - 1) : /\ message[k].kind = "tool" /\ Number(k) = i
                                           /\ Slotted(d.slots[i], TRUE, TRUE, message[k].size)
    <2>1. d.slots[i] = dec.slots[i]
      BY <1>1, <1>3
    <2>2. QED
      BY <1>3, <2>1 DEF DecodedOpenAi
  <1>4. ASSUME NEW i \in Ids, i > N PROVE Slotted(d.slots[i], FALSE, FALSE, 0)
    <2>1. d.slots[i] = dec.slots[i]
      BY <1>1, <1>4
    <2>2. QED
      BY <1>4, <2>1 DEF DecodedOpenAi
  <1>5. TextHere(sv) /\ N \in Ids => Slotted(d.slots[N], FALSE, FALSE, 0)
    BY <1>2 DEF DecodedOpenAi
  <1>6. CASE /\ s.item = sv.item
             /\ ToolHere(sv) => Slotted(d.slots[N], "id" \in s.flags, "name" \in s.flags, s.part)
    <2>1. Number(s.item) = N /\ (ToolHere(s) <=> ToolHere(sv)) /\ (s.item - 1 = sv.item - 1)
      BY <1>6 DEF ToolHere, Here
    <2> HIDE DEF N
    <2>2. QED
      BY <1>2, <1>3, <1>4, <1>5, <1>6, <2>1 DEF DecodedOpenAi
  <1>7. CASE /\ s.item = sv.item + 1 /\ s.part = 0 /\ s.flags = {}
             /\ ToolHere(sv) => Slotted(d.slots[N], TRUE, TRUE, message[sv.item].size)
    <2>1. \A k \in 1..(sv.item - 1) : k \in 1..(s.item - 1)
      BY <1>1, <1>7
    <2>2. sv.item \in 1..(s.item - 1)
      BY <1>1, <1>7
    <2>3. CASE ToolHere(sv)
      <3>1. Number(s.item) = N + 1 /\ message[sv.item].kind = "tool"
        BY <1>1, <1>7, <2>3 DEF ToolHere
      <3>2. N + 1 \in Ids => Slotted(d.slots[N + 1], FALSE, FALSE, 0)
        <4>1. N + 1 > N
          BY <1>1
        <4>2. QED
          BY <1>4, <4>1
      <3>3. ToolHere(s) => N + 1 \in Ids
        <4>1. ToolHere(s) => s.item \in 1..Len(message)
          BY DEF ToolHere, Here
        <4>2. ToolHere(s) => s.item <= MaxItems
          BY <4>1, PositionFields, Items
        <4>3. Number(s.item) <= s.item - 1 /\ Number(s.item) \in Nat
          BY <1>1, <1>7, Numbers
        <4>4. QED
          BY <1>1, <3>1, <4>2, <4>3, ItemsAssumption DEF Ids
      <3>4. ASSUME NEW i \in Ids, i < N + 1
            PROVE  \E k \in 1..(s.item - 1) : /\ message[k].kind = "tool" /\ Number(k) = i
                                              /\ Slotted(d.slots[i], TRUE, TRUE, message[k].size)
        <4>1. i < N \/ i = N
          BY <1>1, <3>4
        <4>2. CASE i < N
          BY <1>3, <2>1, <4>2
        <4>3. CASE i = N
          BY <1>7, <2>2, <2>3, <3>1, <4>3
        <4>4. QED
          BY <4>1, <4>2, <4>3
      <3>5. ASSUME NEW i \in Ids, i > N + 1 \/ i = N + 1 PROVE Slotted(d.slots[i], FALSE, FALSE, 0)
        <4>1. i > N
          BY <1>1, <3>5
        <4>2. QED
          BY <1>4, <4>1
      <3> HIDE DEF N
      <3>6. ToolHere(s) => Slotted(d.slots[Number(s.item)], "id" \in s.flags, "name" \in s.flags, s.part)
        <4>1. ~("id" \in s.flags) /\ ~("name" \in s.flags) /\ s.part = 0
          BY <1>7
        <4>2. QED
          BY <3>1, <3>2, <3>3, <4>1 DEF Slotted
      <3>7. QED
        <4>1. \A i \in Ids : i < Number(s.item) =>
                 \E k \in 1..(s.item - 1) : /\ message[k].kind = "tool" /\ Number(k) = i
                                            /\ Slotted(d.slots[i], TRUE, TRUE, message[k].size)
          <5>1. \A i \in Ids : i < Number(s.item) => i < N + 1
            BY <3>1
          <5>2. QED
            BY <3>4, <5>1, Zenon
        <4>2. \A i \in Ids : i > Number(s.item) \/ (i = Number(s.item) /\ ~ToolHere(s)) =>
                 Slotted(d.slots[i], FALSE, FALSE, 0)
          BY <3>1, <3>5
        <4>3. QED
          BY <3>6, <4>1, <4>2 DEF DecodedOpenAi
    <2>4. CASE TextHere(sv)
      <3>1. Number(s.item) = N
        BY <1>1, <1>7, <2>4 DEF TextHere
      <3>2. N \in Ids
        <4>1. N <= sv.item - 1 /\ sv.item <= MaxItems
          BY <1>1, Numbers, Items
        <4>2. QED
          BY <1>1, <4>1, ItemsAssumption DEF Ids
      <3> HIDE DEF N
      <3>3. ToolHere(s) => Slotted(d.slots[Number(s.item)], "id" \in s.flags, "name" \in s.flags, s.part)
        <4>1. ~("id" \in s.flags) /\ ~("name" \in s.flags) /\ s.part = 0
          BY <1>7
        <4>2. QED
          BY <1>5, <2>4, <3>1, <3>2, <4>1 DEF Slotted
      <3>4. QED
        BY <1>3, <1>4, <1>5, <2>1, <2>4, <3>1, <3>3 DEF DecodedOpenAi
    <2>5. QED
      BY <1>2, <2>3, <2>4
  <1>8. QED
    BY <1>6, <1>7

(* A fragment of a call, in the slot of the call.                               *)
LEMMA Fragment ==
  ASSUME NEW old \in Slot, NEW has \in SUBSET {"id", "name"}, NEW n \in 0..2, old.acc + n \in 0..2
  PROVE  LET known   == [old EXCEPT !.id = @ \/ "id" \in has, !.name = @ \/ "name" \in has]
             started == known.id /\ known.name
             new     == [known EXCEPT !.started = started, !.acc = @ + n]
         IN  /\ new \in Slot
             /\ started <=> (old.id \/ "id" \in has) /\ (old.name \/ "name" \in has)
             /\ Slotted(new, old.id \/ "id" \in has, old.name \/ "name" \in has, old.acc + n)
  <1> DEFINE known   == [old EXCEPT !.id = @ \/ "id" \in has, !.name = @ \/ "name" \in has]
  <1> DEFINE started == known.id /\ known.name
  <1> DEFINE new     == [known EXCEPT !.started = started, !.acc = @ + n]
  <1>1. known \in Slot /\ known.acc = old.acc
    BY DEF Slot
  <1>2. (known.id <=> old.id \/ "id" \in has) /\ (known.name <=> old.name \/ "name" \in has)
    BY DEF Slot
  <1>3. started \in BOOLEAN
    OBVIOUS
  <1> HIDE DEF known
  <1>4. new \in Slot /\ new.acc = known.acc + n
    BY <1>1, <1>3 DEF Slot, None, Whole
  <1>5. (new.id <=> known.id) /\ (new.name <=> known.name) /\ (new.started <=> started)
    BY <1>1, <1>3 DEF Slot
  <1> HIDE DEF new
  <1>6. Slotted(new, old.id \/ "id" \in has, old.name \/ "name" \in has, old.acc + n)
    BY <1>1, <1>2, <1>4, <1>5 DEF Slotted
  <1>7. QED
    BY <1>2, <1>4, <1>6 DEF known, new

(* OpenAI's decoder.                                                         *)
LEMMA ReceivesOpenAi ==
  ASSUME AnswerShape, Stands(sv), dialect = "openai", dec \in Decoders, DecodedOpenAi(dec, sv),
         blocks \in Seq(Block), Held(blocks, sv, 0), NEW c, NEW s \in Positions, OpenAiStep(c, s),
         c.type # "[DONE]"
  PROVE  Follows(ParseOpenAi(c, dec).dec, ParseOpenAi(c, dec).events, s)
  <1> DEFINE r == ParseOpenAi(c, dec)
  <1> DEFINE N == Number(sv.item)
  <1>1. /\ sv \in Positions /\ sv.item \in Nat /\ sv.part \in 0..2 /\ Len(message) \in Nat /\ N \in Nat
        /\ sv.item <= Len(message) + 1 /\ StandsOpenAi(sv) /\ s.item \in Nat
    BY PositionFields DEF Stands
  <1>2. Here(sv) => /\ sv.item \in 1..Len(message) /\ sv.item \in Ids /\ message[sv.item].size \in 0..2
                    /\ message[sv.item].kind \in BlockKinds /\ sv.part <= message[sv.item].size
    BY Items DEF Here, Stands
  <1>3. /\ dec.slots \in [Ids -> Slot] /\ dec.usage \in SUBSET Parts /\ dec.final \in BOOLEAN
        /\ \A i \in Ids : dec.slots[i] \in Slot
    BY DEF Decoders
  <1>4. \A d, evs : Yields(d, evs).dec = d /\ Yields(d, evs).events = evs
    BY DEF Yields
  <1>5. 0 \in Ids /\ 0 \in 0..3 /\ 0 \in Int
    BY ItemsAssumption DEF Ids
  <1>6. Stands(s)
    BY <1>1, StaysOpenAi
  <1>7. ASSUME NEW d \in Decoders, d.usage = dec.usage, Here(sv), s.item = sv.item \/ s.flags = {}
        PROVE  Counted(dec, sv) => Counted(d, s)
    BY <1>7 DEF Counted, Here
  <1>8. CASE /\ TextHere(sv) /\ c.type = message[sv.item].kind
             /\ c.n \in 1..(message[sv.item].size - sv.part)
             /\ Advances(s, c.n, {})
             /\ s.item = sv.item => s.part < message[sv.item].size
    <2> DEFINE e == Ev(c.type, 0, c.n)
    <2>1. Here(sv) /\ c.type \in {"text", "think"} /\ c.n \in 0..3
      BY <1>1, <1>2, <1>8 DEF TextHere, BlockKinds
    <2>2. r.dec = dec /\ r.events = <<e>>
      BY <1>4, <2>1 DEF ParseOpenAi
    <2>3. e \in Event /\ e # Error
      <3>1. c.type \in {"text", "think", "sign", "start", "delta", "complete", "stop", "error"} /\ c.type # "error"
        BY <2>1
      <3>2. QED
        BY <1>5, <2>1, <3>1, Events
    <2>4. Gathered(blocks, e) = AfterDelta(blocks, c.type, c.n)
      BY <2>1, Gathers
    <2>5. \/ s.item = sv.item /\ s.part = sv.part + c.n /\ s.flags = sv.flags
          \/ /\ s.item = sv.item + 1 /\ s.part = 0 /\ s.flags = {}
             /\ sv.part + c.n = message[sv.item].size /\ dialect # "anthropic"
      BY <1>8 DEF Advances
    <2>6. Held(AfterDelta(blocks, message[sv.item].kind, c.n), s, 0)
      BY <1>1, <1>8, <2>5, Texted
    <2>7. Held(Gathered(blocks, e), s, 0)
      BY <1>8, <2>4, <2>6
    <2>8. HeldAfter(blocks, <<e>>, s)
      <3> HIDE DEF e
      <3> QED
        BY <2>7, HeldByEvents
    <2>9. ~ToolHere(sv)
      BY <1>8 DEF ToolHere, TextHere
    <2>10. DecodedOpenAi(dec, s)
      BY <1>1, <2>1, <2>5, <2>9, Fill
    <2>11. Counted(dec, sv) => Counted(dec, s)
      BY <1>7, <2>1, <2>5
    <2> HIDE DEF e
    <2>12. QED
      BY <2>2, <2>3, <2>8, <2>10, <2>11 DEF Follows, DecodedTo
  <1>9. CASE /\ ToolHere(sv) /\ c.type = "tool" /\ c.index = N
             /\ c.has \subseteq {"id", "name"} \ sv.flags
             /\ c.n = 0 \/ c.n \in 1..(message[sv.item].size - sv.part)
             /\ c.has # {} \/ c.n # 0
             /\ Advances(s, c.n, c.has)
             /\ s.item = sv.item =>
                   ~({"id", "name"} \subseteq sv.flags \cup c.has /\ sv.part + c.n = message[sv.item].size)
             /\ s.item # sv.item => {"id", "name"} \subseteq sv.flags \cup c.has
    <2> DEFINE F == sv.flags \cup c.has
    <2>1. /\ Here(sv) /\ message[sv.item].kind = "tool" /\ sv.flags \subseteq {"id", "name"}
          /\ N \in Ids
      <3>1. Here(sv) /\ message[sv.item].kind = "tool" /\ sv.flags \subseteq {"id", "name"}
        BY <1>1, <1>9 DEF ToolHere, StandsOpenAi
      <3>2. N <= sv.item - 1 /\ sv.item <= MaxItems
        <4>1. sv.item > 0
          BY <1>2, <3>1
        <4>2. N <= sv.item - 1
          BY <1>1, <4>1, Numbers
        <4>3. QED
          BY <1>1, <3>1, <4>2, Within
      <3>3. QED
        BY <1>1, <3>1, <3>2, ItemsAssumption DEF Ids
    <2>2. c.n \in 0..2 /\ c.n \in 0..3 /\ sv.part + c.n \in 0..2 /\ sv.part + c.n <= message[sv.item].size
      BY <1>1, <1>2, <1>9, <2>1
    <2> DEFINE old == dec.slots[N]
    <2>3. old \in Slot /\ Slotted(old, "id" \in sv.flags, "name" \in sv.flags, sv.part)
      BY <1>3, <1>9, <2>1 DEF DecodedOpenAi
    <2> DEFINE known   == [old EXCEPT !.id = @ \/ "id" \in c.has, !.name = @ \/ "name" \in c.has]
    <2> DEFINE started == known.id /\ known.name
    <2> DEFINE new     == [known EXCEPT !.started = started, !.acc = @ + c.n]
    <2> DEFINE es      == IF started /\ ~old.started THEN <<Ev("start", N, 0)>> ELSE <<>>
    <2> DEFINE ed      == IF started /\ c.n > 0 THEN <<Ev("delta", N, c.n)>> ELSE <<>>
    <2>4. /\ new \in Slot
          /\ started <=> (old.id \/ "id" \in c.has) /\ (old.name \/ "name" \in c.has)
          /\ Slotted(new, old.id \/ "id" \in c.has, old.name \/ "name" \in c.has, old.acc + c.n)
      <3>1. c.has \in SUBSET {"id", "name"} /\ old.acc = sv.part /\ old.acc + c.n \in 0..2
        BY <1>9, <2>2, <2>3 DEF Slotted
      <3> HIDE DEF old
      <3>2. QED
        BY <2>2, <2>3, <3>1, Fragment
    <2>5. r = Yields([dec EXCEPT !.slots[N] = new], es \o ed)
      BY <1>9 DEF ParseOpenAi
    <2> HIDE DEF known, started, new, es, ed, r
    <2>6. r.dec = [dec EXCEPT !.slots[N] = new] /\ r.events = es \o ed
      BY <1>4, <2>5
    <2>7. /\ old.id <=> "id" \in sv.flags
          /\ old.name <=> "name" \in sv.flags
          /\ old.started <=> {"id", "name"} \subseteq sv.flags
          /\ old.acc = sv.part
      BY <2>3 DEF Slotted
    <2> HIDE DEF old
    <2>8. /\ started <=> {"id", "name"} \subseteq F
          /\ Slotted(new, "id" \in F, "name" \in F, sv.part + c.n)
      BY <2>4, <2>7 DEF Slotted
    <2>9. /\ r.dec \in Decoders /\ r.dec.slots[N] = new
          /\ \A j \in Ids : j # N => r.dec.slots[j] = dec.slots[j]
          /\ r.dec.usage = dec.usage
          /\ r.dec.final <=> dec.final
      BY <2>1, <2>4, <2>6, Slotting
    <2>10. \/ s.item = sv.item /\ s.part = sv.part + c.n /\ s.flags = F
           \/ /\ s.item = sv.item + 1 /\ s.part = 0 /\ s.flags = {}
              /\ sv.part + c.n = message[sv.item].size /\ {"id", "name"} \subseteq F
      BY <1>1, <1>9 DEF Advances
    <2>11. DecodedOpenAi(r.dec, s)
      <3>1. ~TextHere(sv)
        BY <1>9 DEF TextHere, ToolHere
      <3>2. CASE s.item = sv.item /\ s.part = sv.part + c.n /\ s.flags = F
        <4>1. Slotted(r.dec.slots[N], "id" \in s.flags, "name" \in s.flags, s.part)
          BY <2>8, <2>9, <3>2
        <4>2. QED
          BY <1>1, <2>1, <2>9, <3>1, <3>2, <4>1, Fill
      <3>3. CASE /\ s.item = sv.item + 1 /\ s.part = 0 /\ s.flags = {}
                 /\ sv.part + c.n = message[sv.item].size /\ {"id", "name"} \subseteq F
        <4>1. Slotted(r.dec.slots[N], TRUE, TRUE, message[sv.item].size)
          BY <2>8, <2>9, <3>3 DEF Slotted
        <4>2. QED
          BY <1>1, <2>1, <2>9, <3>1, <3>3, <4>1, Fill
      <3>4. QED
        BY <2>10, <3>2, <3>3
    <2>12. Counted(dec, sv) => Counted(r.dec, s)
      BY <1>7, <2>1, <2>9, <2>10
    <2>13. /\ Opened(sv, 0) <=> {"id", "name"} \subseteq sv.flags
           /\ s.item = sv.item => (Opened(s, 0) <=> {"id", "name"} \subseteq F)
           /\ s.item # sv.item => ~Opened(s, 0)
      <3>1. Opened(sv, 0) <=> {"id", "name"} \subseteq sv.flags
        BY <1>1, <1>9 DEF Opened, TextHere, ToolHere
      <3>2. s.item = sv.item => ToolHere(s) /\ s.flags = F /\ Number(s.item) = N
        BY <1>1, <1>9, <2>10 DEF ToolHere, Here
      <3>3. s.item = sv.item => (Opened(s, 0) <=> {"id", "name"} \subseteq F)
        BY <1>1, <3>2 DEF Opened, TextHere, ToolHere
      <3>4. s.item # sv.item => ~Opened(s, 0)
        BY <1>1, <2>10, Unopened
      <3>5. QED
        BY <3>1, <3>3, <3>4
    <2>14. IdOf(sv.item) = N
      BY <2>1 DEF IdOf
    <2>15. r.events \in Seq(Event) /\ r.events # <<Error>> /\ HeldAfter(blocks, r.events, s)
      <3> DEFINE a == Ev("start", N, 0)
      <3> DEFINE b == Ev("delta", N, c.n)
      <3>1. a \in Event /\ a # Error /\ b \in Event /\ b # Error
        BY <1>5, <2>1, <2>2, Events
      <3>2. /\ \A bs : Gathered(bs, a) = Append(bs, NewBlock("tool", IdOf(sv.item), None))
            /\ \A bs : Gathered(bs, b) = AfterToolDelta(bs, IdOf(sv.item), c.n)
        BY <2>14, Gathers
      <3>3. /\ ~({"id", "name"} \subseteq F) => r.events = <<>>
            /\ {"id", "name"} \subseteq F /\ ~({"id", "name"} \subseteq sv.flags) /\ c.n = 0 => r.events = <<a>>
            /\ {"id", "name"} \subseteq F /\ ~({"id", "name"} \subseteq sv.flags) /\ c.n > 0 => r.events = <<a, b>>
            /\ {"id", "name"} \subseteq sv.flags /\ c.n > 0 => r.events = <<b>>
        <4>1. /\ es = IF {"id", "name"} \subseteq F /\ ~({"id", "name"} \subseteq sv.flags) THEN <<a>> ELSE <<>>
              /\ ed = IF {"id", "name"} \subseteq F /\ c.n > 0 THEN <<b>> ELSE <<>>
          BY <2>7, <2>8 DEF es, ed
        <4>2. {"id", "name"} \subseteq sv.flags => {"id", "name"} \subseteq F
          OBVIOUS
        <4> HIDE DEF F, a, b
        <4>3. ~({"id", "name"} \subseteq F) => r.events = <<>>
          BY <2>6, <4>1, <4>2
        <4>4. {"id", "name"} \subseteq F /\ ~({"id", "name"} \subseteq sv.flags) /\ c.n = 0 => r.events = <<a>>
          BY <2>6, <4>1, <4>2
        <4>5. {"id", "name"} \subseteq F /\ ~({"id", "name"} \subseteq sv.flags) /\ c.n > 0 => r.events = <<a, b>>
          <5>1. <<a>> \o <<b>> = <<a, b>>
            <6>1. /\ <<a>> \in Seq(Event) /\ <<b>> \in Seq(Event) /\ <<a, b>> \in Seq(Event)
                  /\ Len(<<a>>) = 1 /\ Len(<<b>>) = 1 /\ Len(<<a, b>>) = 2
                  /\ <<a>>[1] = a /\ <<b>>[1] = b /\ <<a, b>>[1] = a /\ <<a, b>>[2] = b
              BY <3>1
            <6>2. <<a>> \o <<b>> \in Seq(Event) /\ Len(<<a>> \o <<b>>) = 2
              BY <6>1
            <6>3. (<<a>> \o <<b>>)[1] = a /\ (<<a>> \o <<b>>)[2] = b
              BY <6>1
            <6>4. ASSUME NEW x \in Seq(Event), NEW y \in Seq(Event), Len(x) = 2, Len(y) = 2,
                         x[1] = y[1], x[2] = y[2]
                  PROVE  x = y
              BY <6>4
            <6>5. QED
              BY <6>1, <6>2, <6>3, <6>4
          <5>2. QED
            BY <2>2, <2>6, <4>1, <5>1
        <4>6. {"id", "name"} \subseteq sv.flags /\ c.n > 0 => r.events = <<b>>
          BY <2>6, <4>1, <4>2
        <4>7. QED
          BY <4>3, <4>4, <4>5, <4>6
      <3> HIDE DEF a, b
      <3>4. CASE ~({"id", "name"} \subseteq F)
        <4>1. s.item = sv.item /\ ~Opened(sv, 0) /\ ~Opened(s, 0) /\ Passed(s) = Passed(sv)
          BY <2>10, <2>13, <3>4 DEF Passed
        <4>2. Held(blocks, s, 0)
          BY <1>1, <4>1, Waits
        <4>3. HeldAfter(blocks, <<>>, s)
          BY <4>2, HeldByEvents
        <4>4. <<>> \in Seq(Event) /\ <<>> # <<Error>>
          OBVIOUS
        <4>5. QED
          BY <3>3, <3>4, <4>3, <4>4
      <3>5. ASSUME {"id", "name"} \subseteq F, ~({"id", "name"} \subseteq sv.flags)
            PROVE  /\ Held(Gathered(blocks, a), s, 0)
                   /\ Gathered(blocks, a)[sv.item].size = 0
        <4>1. ~Opened(sv, 0)
          BY <2>13, <3>5
        <4>2. \/ s.item = sv.item /\ Opened(s, 0) /\ (dialect = "anthropic" => s.part = 0)
              \/ s.item = sv.item + 1 /\ ~Opened(s, 0) /\ dialect = "openai"
          BY <1>1, <2>10, <2>13, <3>5
        <4>3. /\ Held(Append(blocks, NewBlock("tool", IdOf(sv.item), None)), s, 0)
              /\ Append(blocks, NewBlock("tool", IdOf(sv.item), None))[sv.item].size = 0
          BY <1>1, <1>9, <4>1, <4>2, Starts
        <4>4. QED
          BY <3>2, <4>3
      <3>6. CASE {"id", "name"} \subseteq F /\ ~({"id", "name"} \subseteq sv.flags) /\ c.n = 0
        <4>1. Held(Gathered(blocks, a), s, 0) /\ r.events = <<a>>
          BY <3>3, <3>5, <3>6
        <4>2. HeldAfter(blocks, <<a>>, s)
          BY <4>1, HeldByEvents
        <4>3. QED
          BY <3>1, <4>1, <4>2
      <3>7. CASE {"id", "name"} \subseteq F /\ ~({"id", "name"} \subseteq sv.flags) /\ c.n > 0
        <4> DEFINE bs == Gathered(blocks, a)
        <4>1. Held(bs, s, 0) /\ bs[sv.item].size = 0 /\ r.events = <<a, b>>
          BY <3>3, <3>5, <3>7
        <4>2. bs \in Seq(Block) /\ sv.item \in 1..Len(bs)
          <5>1. bs \in Seq(Block)
            BY <4>1 DEF Held
          <5>2. Len(bs) = IF Opened(s, 0) THEN Passed(s) + 1 ELSE Passed(s)
            BY <4>1 DEF Held
          <5>3. QED
            BY <1>1, <1>2, <2>1, <2>10, <2>13, <3>7, <5>1, <5>2 DEF Passed
        <4>3. bs[sv.item].size + c.n <= IF sv.item = s.item THEN s.part ELSE message[sv.item].size
          BY <1>1, <1>2, <2>1, <2>2, <2>10, <4>1
        <4> HIDE DEF bs
        <4>4. Held(AfterToolDelta(bs, IdOf(sv.item), c.n), s, 0)
          BY <1>6, <2>1, <2>2, <4>1, <4>2, <4>3, Fills
        <4>5. Held(Gathered(Gathered(blocks, a), b), s, 0) /\ Held(Gathered(blocks, a), s, 0)
          BY <3>2, <4>1, <4>4 DEF bs
        <4>6. HeldAfter(blocks, <<a, b>>, s)
          BY <4>5, HeldByEvents
        <4>7. QED
          BY <3>1, <4>1, <4>6
      <3>8. CASE {"id", "name"} \subseteq sv.flags
        <4>1. c.has = {} /\ c.n > 0 /\ F = sv.flags
          BY <1>9, <2>2, <3>8
        <4>2. Opened(sv, 0)
          BY <2>13, <3>8
        <4>3. \/ s.item = sv.item /\ Opened(s, 0) /\ s.part = sv.part + c.n
              \/ /\ s.item = sv.item + 1 /\ ~Opened(s, 0) /\ dialect = "openai"
                 /\ message[sv.item].size = sv.part + c.n
          BY <1>1, <2>10, <2>13, <3>8, <4>1
        <4>4. c.n \in 1..(message[sv.item].size - sv.part)
          BY <1>9, <4>1
        <4>5. Held(AfterToolDelta(blocks, IdOf(sv.item), c.n), s, 0)
          BY <1>1, <1>9, <4>2, <4>3, <4>4, Deltas
        <4>6. Held(Gathered(blocks, b), s, 0) /\ r.events = <<b>>
          BY <3>2, <3>3, <3>8, <4>1, <4>5
        <4>7. HeldAfter(blocks, <<b>>, s)
          BY <4>6, HeldByEvents
        <4>8. QED
          BY <3>1, <4>6, <4>7
      <3>9. QED
        BY <2>2, <3>4, <3>6, <3>7, <3>8
    <2>16. Follows(r.dec, r.events, s)
      BY <2>9, <2>11, <2>12, <2>15 DEF Follows, DecodedTo
    <2>17. QED
      BY <2>16 DEF r
  <1>10. ASSUME ~Here(sv), s.item = sv.item, s.part = sv.part, NEW d \in Decoders, d.slots = dec.slots,
                d.final <=> dec.final, Counted(dec, sv) => Counted(d, s)
         PROVE  Follows(d, <<>>, s)
    <2>1. ~Here(s) /\ Passed(s) = Passed(sv) /\ Number(s.item) = N
      BY <1>10 DEF Here, Passed
    <2>2. Held(blocks, s, 0)
      BY <1>1, <1>10, <2>1, Unopened, Waits
    <2>3. HeldAfter(blocks, <<>>, s)
      BY <2>2, HeldByEvents
    <2>4. DecodedOpenAi(d, s)
      BY <1>10, <2>1 DEF DecodedOpenAi, ToolHere
    <2>5. QED
      BY <1>10, <2>3, <2>4 DEF Follows, DecodedTo
  <1>11. CASE /\ ~Here(sv) /\ sv.flags = {} /\ c.type = "reason"
              /\ s.item = sv.item /\ s.part = sv.part /\ s.flags = {"reason"}
    <2>1. r.dec = dec /\ r.events = <<>>
      BY <1>4, <1>11 DEF ParseOpenAi
    <2>2. Counted(dec, s)
      BY <1>11 DEF Counted, Parts
    <2>3. QED
      BY <1>10, <1>11, <2>1, <2>2
  <1>12. CASE /\ ~Here(sv) /\ sv.flags = {"reason"} /\ c.type = "usage" /\ c.has = Parts
              /\ s.item = sv.item /\ s.part = sv.part /\ s.flags = {"reason"} \cup Parts
    <2>1. r.dec = [dec EXCEPT !.usage = Parts] /\ r.events = <<>>
      BY <1>4, <1>12 DEF ParseOpenAi
    <2>2. /\ [dec EXCEPT !.usage = Parts] \in Decoders /\ [dec EXCEPT !.usage = Parts].slots = dec.slots
          /\ [dec EXCEPT !.usage = Parts].usage = Parts /\ ([dec EXCEPT !.usage = Parts].final <=> dec.final)
      <3>1. Parts \in SUBSET Parts
        OBVIOUS
      <3>2. QED
        BY <3>1, Counting
    <2>3. Counted([dec EXCEPT !.usage = Parts], s)
      BY <2>2 DEF Counted
    <2>4. QED
      BY <1>10, <1>12, <2>1, <2>2, <2>3
  <1>13. QED
    BY <1>8, <1>9, <1>11, <1>12 DEF OpenAiStep

-------------------------------------------------------------------------------
(* The end of an OpenAI answer.                                               *)

(* The calls whose id has come.                                               *)
LEMMA NamedAre ==
  ASSUME AnswerShape, sv \in Positions, Stands(sv), NEW d \in Decoders, DecodedOpenAi(d, sv)
  PROVE  /\ NamedCalls(sv) \in Nat
         /\ Named(d) = 0..(NamedCalls(sv) - 1)
         /\ \A i \in Named(d) : i \in Ids
  <1> DEFINE N == Number(sv.item)
  <1>1. N \in Nat /\ sv.item \in Nat /\ Len(message) \in Nat /\ sv.item <= Len(message) + 1 /\ Len(message) <= MaxItems
    BY PositionFields DEF Stands
  <1>2. N <= MaxItems /\ (ToolHere(sv) => N < MaxItems)
    <2>1. sv.item > 0 => N <= sv.item - 1
      BY <1>1, Numbers
    <2>2. sv.item = 0 => N = 0
      BY <1>1, Numbers
    <2>3. ToolHere(sv) => sv.item > 0 /\ sv.item <= Len(message)
      BY DEF ToolHere, Here
    <2>4. QED
      BY <1>1, <2>1, <2>2, <2>3, ItemsAssumption
  <1>3. \A i \in Ids : i \in Nat /\ i <= MaxItems
    BY ItemsAssumption DEF Ids
  <1>4. ASSUME NEW i \in Ids, i < N PROVE d.slots[i].id
    BY <1>4 DEF DecodedOpenAi, Slotted
  <1>5. ASSUME NEW i \in Ids, i > N \/ (i = N /\ ~ToolHere(sv)) PROVE ~d.slots[i].id
    BY <1>5 DEF DecodedOpenAi, Slotted
  <1>6. ToolHere(sv) => (d.slots[N].id <=> "id" \in sv.flags)
    BY DEF DecodedOpenAi, Slotted
  <1>7. ASSUME NEW i \in Ids PROVE i \in Named(d) <=> i < NamedCalls(sv)
    <2>1. i \in Named(d) <=> d.slots[i].id
      BY DEF Named
    <2> HIDE DEF N
    <2>2. CASE i < N
      BY <1>1, <1>3, <1>4, <2>1, <2>2 DEF NamedCalls, N
    <2>3. CASE i > N
      BY <1>1, <1>3, <1>5, <2>1, <2>3 DEF NamedCalls, N
    <2>4. CASE i = N
      BY <1>1, <1>5, <1>6, <2>1, <2>4 DEF NamedCalls, N
    <2>5. QED
      BY <1>1, <1>3, <2>2, <2>3, <2>4
  <1>8. NamedCalls(sv) \in Nat /\ NamedCalls(sv) <= MaxItems
    BY <1>1, <1>2, ItemsAssumption DEF NamedCalls
  <1>9. Named(d) \subseteq Ids
    BY DEF Named
  <1>10. ASSUME NEW i PROVE i \in Named(d) <=> i \in 0..(NamedCalls(sv) - 1)
    <2>1. ASSUME i \in Named(d) PROVE i \in 0..(NamedCalls(sv) - 1)
      <3>1. i \in Ids /\ i < NamedCalls(sv)
        BY <1>7, <1>9, <2>1
      <3>2. QED
        BY <1>3, <1>8, <3>1
    <2>2. ASSUME i \in 0..(NamedCalls(sv) - 1) PROVE i \in Named(d)
      <3>1. i \in Ids /\ i < NamedCalls(sv)
        BY <1>8, <2>2, ItemsAssumption DEF Ids
      <3>2. QED
        BY <1>7, <3>1
    <2>3. QED
      BY <2>1, <2>2
  <1>11. QED
    BY <1>8, <1>9, <1>10

(* In their order they are numbered from 0.                                     *)
LEMMA RankedAre ==
  ASSUME NEW d, NEW n \in Nat, Named(d) = 0..(n - 1)
  PROVE  /\ Cardinality(Named(d)) = n
         /\ \A k \in 1..n : Ranked(d, k) = k - 1
  <1>1. \A i \in Nat : Cardinality(0..(i - 1)) = i
    BY FS_Interval
  <1>2. ASSUME NEW i \in Named(d) PROVE Cardinality({j \in Named(d) : j < i}) = i
    <2>1. i \in Nat /\ i < n
      OBVIOUS
    <2>2. {j \in Named(d) : j < i} = 0..(i - 1)
      BY <2>1
    <2>3. QED
      BY <1>1, <2>1, <2>2
  <1>3. ASSUME NEW k \in 1..n PROVE Ranked(d, k) = k - 1
    <2>1. k - 1 \in Named(d) /\ Named(d) \subseteq Nat
      OBVIOUS
    <2>2. \A i \in Named(d) : Cardinality({j \in Named(d) : j < i}) = k - 1 <=> i = k - 1
      BY <1>2
    <2>3. QED
      BY <2>1, <2>2 DEF Ranked
  <1>4. QED
    BY <1>1, <1>3

(* finalize: what it makes of the decoder's state, and the events that are left.   *)
LEMMA Finalizes ==
  ASSUME AnswerShape, sv \in Positions, Stands(sv), dec \in Decoders, DecodedOpenAi(dec, sv), ~dec.final
  PROVE  LET d   == FinalizeOpenAi(dec).dec
             evs == FinalizeOpenAi(dec).events
         IN  /\ d \in Decoders /\ d.final /\ d.slots = dec.slots /\ d.usage = dec.usage
             /\ d.minted = dec.minted
             /\ evs \in Seq(Event) /\ evs # <<Error>> /\ Len(evs) > 0 /\ evs[Len(evs)] = StopWith(dec.usage)
             /\ Finals(d, evs, sv) /\ Completed(evs, sv) = 0
  <1> DEFINE n   == NamedCalls(sv)
  <1> DEFINE d   == [dec EXCEPT !.final = TRUE]
  <1> DEFINE f   == [k \in 1..n |-> Ev("complete", k - 1, Input(dec.slots[k - 1].acc))]
  <1> DEFINE evs == f \o <<StopWith(dec.usage)>>
  <1>1. n \in Nat /\ Named(dec) = 0..(n - 1) /\ \A i \in Named(dec) : i \in Ids
    BY NamedAre
  <1>2. Cardinality(Named(dec)) = n /\ \A k \in 1..n : Ranked(dec, k) = k - 1
    <2> HIDE DEF n
    <2> QED
      BY <1>1, RankedAre
  <1>3. [k \in 1..Cardinality(Named(dec)) |->
            Ev("complete", Ranked(dec, k), Input(dec.slots[Ranked(dec, k)].acc))] = f
    <2> HIDE DEF n
    <2> QED
      BY <1>2
  <1>4. FinalizeOpenAi(dec).dec = d /\ FinalizeOpenAi(dec).events = evs
    <2>1. FinalizeOpenAi(dec) = Yields(d, evs)
      BY <1>3 DEF FinalizeOpenAi
    <2> HIDE DEF d, evs
    <2>2. QED
      BY <2>1 DEF Yields
  <1>5. /\ dec.slots \in [Ids -> Slot] /\ dec.usage \in SUBSET Parts
    BY DEF Decoders
  <1>6. d \in Decoders /\ d.final /\ d.slots = dec.slots /\ d.usage = dec.usage /\ d.minted = dec.minted
    BY DEF Decoders
  <1>7. ASSUME NEW k \in 1..n PROVE f[k] \in Event
    <2>1. k - 1 \in Ids
      <3> HIDE DEF n
      <3> QED
        BY <1>1
    <2>2. dec.slots[k - 1] \in Slot
      BY <1>5, <2>1
    <2>3. Input(dec.slots[k - 1].acc) \in 0..3
      BY <2>2 DEF Slot, Input, None, Whole, Null
    <2>4. Ev("complete", k - 1, Input(dec.slots[k - 1].acc)) \in Event
      BY <2>1, <2>3, Events
    <2>5. QED
      BY <2>4
  <1>8. StopWith(dec.usage) \in Event /\ StopWith(dec.usage) # Error
    BY <1>5, Stops
  <1> HIDE DEF n
  <1>9. f \in Seq(Event) /\ Len(f) = n
    BY <1>1, <1>7
  <1>10. /\ evs \in Seq(Event) /\ Len(evs) = n + 1
         /\ evs[n + 1] = StopWith(dec.usage)
         /\ \A k \in 1..n : evs[k] = f[k]
    <2> HIDE DEF f
    <2>1. \A st \in Event : /\ f \o <<st>> \in Seq(Event) /\ Len(f \o <<st>>) = n + 1
                            /\ (f \o <<st>>)[n + 1] = st
                            /\ \A k \in 1..n : (f \o <<st>>)[k] = f[k]
      BY <1>1, <1>9
    <2>2. QED
      BY <1>8, <2>1
  <1>11. Completed(evs, sv) = 0
    BY <1>1, <1>10 DEF Completed, n
  <1>12. Finals(d, evs, sv)
    <2>1. Len(evs) <= NamedCalls(sv) + 1
      BY <1>1, <1>10 DEF n
    <2>2. ASSUME NEW k \in 1..Len(evs)
          PROVE  LET i == Completed(evs, sv) + k - 1
                 IN  evs[k] = IF k = Len(evs) THEN StopWith(d.usage)
                              ELSE Ev("complete", i, Input(d.slots[i].acc))
      <3>1. Completed(evs, sv) + k - 1 = k - 1
        BY <1>1, <1>10, <1>11
      <3>2. CASE k = n + 1
        <4> HIDE DEF evs, d
        <4> QED
          BY <1>6, <1>10, <3>2
      <3>3. CASE k \in 1..n
        <4>1. evs[k] = Ev("complete", k - 1, Input(dec.slots[k - 1].acc)) /\ k # Len(evs)
          <5> HIDE DEF evs
          <5> QED
            BY <1>1, <1>10, <3>3
        <4> HIDE DEF evs, d
        <4>2. QED
          BY <1>6, <3>1, <4>1
      <3>4. QED
        <4> HIDE DEF evs, d
        <4> QED
          BY <1>1, <1>10, <3>2, <3>3
    <2> HIDE DEF evs, d
    <2>3. QED
      BY <2>1, <2>2 DEF Finals
  <1>13. evs # <<Error>>
    <2> HIDE DEF evs
    <2> QED
      BY <1>1, <1>8, <1>10
  <1> HIDE DEF evs, d
  <1>14. QED
    BY <1>1, <1>4, <1>6, <1>10, <1>11, <1>12, <1>13

-------------------------------------------------------------------------------
(* The turn takes an event.                                                   *)

(* A sequence that is not empty, and what is left of it.                         *)
LEMMA Queue ==
  ASSUME NEW evs \in Seq(Event), evs # <<>>
  PROVE  /\ Len(evs) \in Nat \ {0} /\ Head(evs) = evs[1] /\ Head(evs) \in Event
         /\ Tail(evs) \in Seq(Event) /\ Len(Tail(evs)) = Len(evs) - 1
         /\ \A k \in 1..Len(Tail(evs)) : Tail(evs)[k] = evs[k + 1]
         /\ Len(evs) = 1 => Tail(evs) = <<>>
  <1>1. Len(evs) \in Nat \ {0} /\ Head(evs) = evs[1] /\ Head(evs) \in Event
    OBVIOUS
  <1>2. /\ Tail(evs) \in Seq(Event) /\ Len(Tail(evs)) = Len(evs) - 1
        /\ \A k \in 1..Len(Tail(evs)) : Tail(evs)[k] = evs[k + 1]
    BY <1>1
  <1>3. Len(evs) = 1 => Tail(evs) = <<>>
    <2>1. \A q \in Seq(Event) : Len(q) = 0 => q = <<>>
      OBVIOUS
    <2>2. Len(evs) = 1 => Len(Tail(evs)) = 0
      BY <1>2
    <2>3. QED
      BY <1>2, <2>1, <2>2
  <1>4. QED
    BY <1>1, <1>2, <1>3

(* An event of a chunk.                                                       *)
LEMMA Takes ==
  ASSUME NEW s, NEW evs \in Seq(Event), evs # <<>>, HeldAfter(blocks, evs, s)
  PROVE  /\ Held(Gathered(blocks, Head(evs)), s, 0)
         /\ HeldAfter(Gathered(blocks, Head(evs)), Tail(evs), s)
  <1>1. Len(evs) = 1 \/ Len(evs) = 2
    <2>1. Len(evs) <= 2
      BY DEF HeldAfter
    <2>2. Len(evs) \in Nat /\ Len(evs) > 0
      OBVIOUS
    <2>3. \A n \in Nat : n > 0 /\ n <= 2 => n = 1 \/ n = 2
      OBVIOUS
    <2>4. QED
      BY <2>1, <2>2, <2>3
  <1>2. CASE Len(evs) = 1
    <2>1. Head(evs) = evs[1] /\ Tail(evs) = <<>>
      BY <1>2, Queue
    <2>2. Held(Gathered(blocks, Head(evs)), s, 0)
      BY <1>2, <2>1 DEF HeldAfter, After
    <2>3. QED
      BY <2>1, <2>2, HeldByEvents
  <1>3. CASE Len(evs) = 2
    <2>1. Head(evs) = evs[1] /\ Len(Tail(evs)) = 1 /\ Tail(evs)[1] = evs[2]
      BY <1>3, Queue
    <2>2. Held(Gathered(Gathered(blocks, evs[1]), evs[2]), s, 0) /\ Held(Gathered(blocks, evs[1]), s, 0)
      BY <1>3 DEF HeldAfter, After
    <2>3. ASSUME NEW bs, NEW q, Len(q) = 1, Held(Gathered(bs, q[1]), s, 0) PROVE HeldAfter(bs, q, s)
      BY <2>3 DEF HeldAfter, After
    <2>4. QED
      BY <2>1, <2>2, <2>3
  <1>4. QED
    BY <1>1, <1>2, <1>3

(* A block that is not a call of OpenAI's fits whatever calls are completed, and   *)
(* one of a call if it is another's completion.                                  *)
LEMMA FitsOn ==
  ASSUME AnswerShape, dialect = "openai", NEW j \in Int, NEW k \in 1..Len(message),
         message[k].kind = "tool" => Number(k) # j,
         NEW b, NEW acc, NEW over, NEW sealed, Fits(b, k, acc, over, sealed, j)
  PROVE  Fits(b, k, acc, over, sealed, j + 1)
  <1>1. k \in Nat
    BY DEF AnswerShape
  <1>2. Number(k) \in Nat
    BY <1>1, Numbers
  <1>3. message[k].kind = "tool" => (Number(k) < j <=> Number(k) < j + 1)
    BY <1>2
  <1>4. Amounts(k, acc, over, j + 1) = Amounts(k, acc, over, j)
    BY <1>3 DEF Amounts
  <1>5. QED
    BY <1>4 DEF Fits

(* The completion of call j of an OpenAI answer.                                 *)
LEMMA CallCompletes ==
  ASSUME AnswerShape, sv \in Positions, Stands(sv), dialect = "openai", dec \in Decoders, DecodedOpenAi(dec, sv),
         NEW j \in Ids, j < NamedCalls(sv), NEW bs \in Seq(Block), Held(bs, sv, j)
  PROVE  Held(AfterComplete(bs, j, Input(dec.slots[j].acc)), sv, j + 1)
  <1> DEFINE n   == Input(dec.slots[j].acc)
  <1> DEFINE bs2 == AfterComplete(bs, j, n)
  <1>1. /\ sv.item \in Nat /\ sv.part \in 0..2 /\ Len(message) \in Nat /\ Number(sv.item) \in Nat
        /\ sv.item <= Len(message) + 1 /\ j \in Nat /\ j \in Int /\ j + 1 \in Int /\ MaxItems \in Nat
    BY PositionFields, ItemsAssumption DEF Stands, Ids
  <1>2. /\ Len(bs) \in Nat
        /\ \A l \in 1..Len(bs) : /\ l \in 1..Len(message) /\ bs[l] \in Block /\ bs[l].kind = message[l].kind
                                 /\ bs[l].id = IdOf(l)
                                 /\ l # sv.item => Fits(bs[l], l, message[l].size, TRUE, TRUE, j)
    <2>1. Len(bs) \in Nat
      OBVIOUS
    <2>2. \A l \in 1..Len(bs) : /\ l \in 1..Len(message) /\ bs[l] \in Block /\ bs[l].kind = message[l].kind
                                /\ bs[l].id = IdOf(l)
                                /\ l # sv.item => Fits(bs[l], l, message[l].size, TRUE, TRUE, j)
      BY <1>1, HeldItems
    <2>3. QED
      BY <2>1, <2>2
  <1>3. Len(bs) = IF Opened(sv, j) THEN Passed(sv) + 1 ELSE Passed(sv)
    BY DEF Held
  <1>4. dec.slots[j] \in Slot
    BY DEF Decoders
  <1>5. n \in 0..3 /\ n \in 0..(3 + 2 * MaxItems)
    <2>1. n \in {0, 2, 3}
      BY <1>4 DEF Input, None, Whole, Null
    <2> HIDE DEF n
    <2>2. QED
      BY <1>1, <2>1
  <1>6. PICK k \in 1..Len(message) :
            /\ message[k].kind = "tool" /\ Number(k) = j
            /\ \/ k < sv.item /\ dec.slots[j].acc = message[k].size
               \/ k = sv.item /\ "id" \in sv.flags /\ dec.slots[j].acc = sv.part
    <2>1. CASE j < Number(sv.item)
      <3>1. PICK k \in 1..(sv.item - 1) : /\ message[k].kind = "tool" /\ Number(k) = j
                                          /\ Slotted(dec.slots[j], TRUE, TRUE, message[k].size)
        BY <2>1 DEF DecodedOpenAi
      <3>2. k \in 1..Len(message) /\ k < sv.item
        BY <1>1
      <3>3. QED
        BY <3>1, <3>2 DEF Slotted
    <2>2. CASE ~(j < Number(sv.item))
      <3>1. ToolHere(sv) /\ "id" \in sv.flags /\ j = Number(sv.item)
        BY <1>1, <2>2 DEF NamedCalls
      <3>2. dec.slots[j].acc = sv.part
        BY <3>1 DEF DecodedOpenAi, Slotted
      <3>3. QED
        BY <3>1, <3>2 DEF ToolHere, Here
    <2>3. QED
      BY <2>1, <2>2
  <1>7. k \in Nat \ {0} /\ IdOf(k) = j
    BY <1>6 DEF IdOf, AnswerShape
  <1>8. ASSUME NEW l \in 1..Len(message), l # k, message[l].kind = "tool" PROVE Number(l) # j
    <2>1. IdOf(l) # IdOf(k)
      BY <1>6, <1>8, OwnIds
    <2>2. QED
      BY <1>7, <1>8, <2>1 DEF IdOf
  <1>9. \A l \in 1..Len(bs) : \A acc, over, sealed :
            l # k /\ Fits(bs[l], l, acc, over, sealed, j) => Fits(bs[l], l, acc, over, sealed, j + 1)
    BY <1>1, <1>2, <1>8, FitsOn
  <1>10. ASSUME NEW b \in Block, NEW acc,
                b.kind = "tool", b.id = j, b.size = Input(acc), ~b.signed
         PROVE  /\ Fits(b, k, acc, TRUE, TRUE, j + 1)
                /\ Fits(b, k, acc, FALSE, "signed" \in sv.flags, j + 1)
    <2>1. \A over : Amounts(k, acc, over, j + 1) = {Input(acc)}
      BY <1>1, <1>6 DEF Amounts
    <2>2. QED
      BY <1>6, <1>7, <1>10, <2>1 DEF Fits
  <1>11. /\ Opened(sv, j) /\ k # sv.item => Opened(sv, j + 1)
         /\ Opened(sv, j + 1) /\ k # sv.item => Opened(sv, j)
         /\ k = sv.item => Opened(sv, j + 1)
    <2>1. k = sv.item => ToolHere(sv) /\ "id" \in sv.flags /\ Number(sv.item) < j + 1
      BY <1>1, <1>6 DEF ToolHere, Here
    <2>2. k # sv.item /\ ToolHere(sv) => Number(sv.item) # j
      BY <1>8 DEF ToolHere, Here
    <2>3. k # sv.item /\ ToolHere(sv) => (Number(sv.item) < j <=> Number(sv.item) < j + 1)
      BY <1>1, <2>2
    <2>4. QED
      BY <2>1, <2>3 DEF Opened
  <1>12. CASE k \in 1..Len(bs)
    <2> DEFINE b == [bs[k] EXCEPT !.size = n]
    <2>1. bs[k] \in Block /\ bs[k].kind = "tool" /\ bs[k].id = j /\ ~bs[k].signed
      <3>1. bs[k] \in Block /\ bs[k].kind = "tool" /\ bs[k].id = j
        BY <1>2, <1>6, <1>7, <1>12
      <3>2. \E acc, over, sealed : Fits(bs[k], k, acc, over, sealed, j)
        <4>1. CASE k # sv.item
          BY <1>2, <1>12, <4>1
        <4>2. CASE k = sv.item
          <5>1. Opened(sv, j)
            BY <1>1, <1>3, <1>12, <4>2 DEF Passed
          <5>2. QED
            BY <4>2, <5>1 DEF Held
        <4>3. QED
          BY <4>1, <4>2
      <3>3. QED
        BY <1>6, <3>1, <3>2 DEF Fits
    <2>2. Opened(sv, j) <=> Opened(sv, j + 1)
      <3>1. k = sv.item => Opened(sv, j)
        BY <1>1, <1>3, <1>12 DEF Passed
      <3>2. QED
        BY <1>11, <3>1
    <2>3. Tool(bs, j) = {k}
      BY <1>1, <1>6, <1>7, <1>12, ToolHeld
    <2> HIDE DEF n
    <2>4. Puts(AfterComplete(bs, j, n), bs, k, b)
      <3>1. bs2 = [bs EXCEPT ![k] = b]
        BY <2>3 DEF AfterComplete
      <3>2. b \in Block
        BY <1>5, <2>1, Resized
      <3>3. b \in Block => Puts([bs EXCEPT ![k] = b], bs, k, b)
        <4> HIDE DEF b
        <4> QED
          BY <1>12, ExceptPuts
      <3>4. QED
        BY <3>1, <3>2, <3>3
    <2>5. b \in Block /\ b.kind = "tool" /\ b.id = j /\ ~b.signed /\ b.size = n
      BY <1>5, <2>1, Resized
    <2>6. bs2[k] = b /\ Puts(bs2, bs, k, bs2[k])
      BY <2>4 DEF Puts
    <2> HIDE DEF b, bs2
    <2>7. k # sv.item => Fits(bs2[k], k, message[k].size, TRUE, TRUE, j + 1)
      BY <1>6, <1>10, <2>5, <2>6 DEF n
    <2>8. k = sv.item => Fits(bs2[k], k, sv.part, FALSE, "signed" \in sv.flags, j + 1)
      <3>1. k = sv.item => dec.slots[j].acc = sv.part
        BY <1>1, <1>6
      <3>2. Fits(b, k, dec.slots[j].acc, FALSE, "signed" \in sv.flags, j + 1)
        BY <1>10, <2>5 DEF n
      <3>3. QED
        BY <2>6, <3>1, <3>2, Zenon
    <2>9. Held(bs2, sv, j + 1)
      BY <1>1, <1>9, <1>12, <2>2, <2>6, <2>7, <2>8, Replaces
    <2>10. QED
      BY <2>9 DEF bs2, n
  <1>13. CASE k \notin 1..Len(bs)
    <2> DEFINE b == NewBlock("tool", j, n)
    <2>1. k = sv.item /\ ~Opened(sv, j) /\ Len(bs) = sv.item - 1 /\ k > Len(bs) /\ Passed(sv) = sv.item - 1
      BY <1>1, <1>3, <1>6, <1>7, <1>13 DEF Passed
    <2>2. Tool(bs, j) = {}
      BY <1>1, <1>6, <1>7, <2>1, ToolNotYet
    <2>3. b \in Block /\ b.kind = "tool" /\ b.id = j /\ ~b.signed /\ b.size = n
      <3>1. "tool" \in BlockKinds
        BY DEF BlockKinds
      <3> HIDE DEF n
      <3>2. QED
        BY <1>5, <3>1, NewBlocks
    <2> HIDE DEF n
    <2>4. bs2 = Append(bs, b)
      BY <2>2 DEF AfterComplete
    <2> HIDE DEF b, bs2
    <2>5. /\ bs2 \in Seq(Block) /\ Len(bs2) = sv.item /\ bs2[sv.item] = b
          /\ \A l \in 1..(sv.item - 1) : bs2[l] = bs[l] /\ l \in 1..Len(bs) /\ l # k
      BY <1>1, <2>1, <2>3, <2>4
    <2>6. Fits(bs2[sv.item], sv.item, sv.part, FALSE, "signed" \in sv.flags, j + 1)
      <3>1. dec.slots[j].acc = sv.part
        BY <1>1, <1>6, <2>1
      <3>2. Fits(b, k, dec.slots[j].acc, FALSE, "signed" \in sv.flags, j + 1)
        BY <1>10, <2>3 DEF n
      <3>3. QED
        BY <2>1, <2>5, <3>1, <3>2, Zenon
    <2>7. \A l \in 1..Passed(sv) : Fits(bs2[l], l, message[l].size, TRUE, TRUE, j + 1)
      BY <1>2, <1>9, <2>1, <2>5
    <2>8. Opened(sv, j + 1) /\ Len(bs2) = Passed(sv) + 1
      BY <1>1, <1>11, <2>1, <2>5
    <2>9. Held(bs2, sv, j + 1)
      BY <2>5, <2>6, <2>7, <2>8 DEF Held
    <2>10. QED
      BY <2>9 DEF bs2, n
  <1>14. QED
    BY <1>12, <1>13

(* Beyond the last of them nothing is left to complete.                          *)
LEMMA AllComplete ==
  ASSUME AnswerShape, sv \in Positions, Stands(sv), dialect = "openai",
         NEW j \in Int, j = NamedCalls(sv), NEW bs \in Seq(Block), Held(bs, sv, j)
  PROVE  Held(bs, sv, j + 1)
  <1>1. /\ sv.item \in Nat /\ Len(message) \in Nat /\ Number(sv.item) \in Nat
        /\ sv.item <= Len(message) + 1
    BY PositionFields DEF Stands
  <1>2. ASSUME NEW k \in 1..Len(message), k < sv.item, message[k].kind = "tool" PROVE Number(k) < j
    <2>1. k \in Nat \ {0} /\ Number(k) < Number(sv.item)
      BY <1>1, <1>2, NumberLess
    <2>2. Number(k) \in Nat
      BY <2>1, Numbers
    <2>3. QED
      BY <1>1, <2>1, <2>2 DEF NamedCalls
  <1>3. ToolHere(sv) /\ "id" \in sv.flags => Number(sv.item) < j
    BY <1>1 DEF NamedCalls
  <1>4. Opened(sv, j) <=> Opened(sv, j + 1)
    BY <1>1, <1>3 DEF Opened
  <1>5. ASSUME NEW k \in 1..Passed(sv) PROVE Fits(bs[k], k, message[k].size, TRUE, TRUE, j + 1)
    <2>1. k \in 1..Len(message) /\ k < sv.item
      BY <1>1 DEF Passed
    <2>2. message[k].kind = "tool" => Number(k) # j
      <3>1. Number(k) \in Nat
        BY <2>1, <1>1, Numbers
      <3>2. QED
        BY <1>2, <2>1, <3>1
    <2>3. Fits(bs[k], k, message[k].size, TRUE, TRUE, j)
      BY DEF Held
    <2>4. QED
      BY <2>1, <2>2, <2>3, FitsOn
  <1>6. ASSUME Opened(sv, j)
        PROVE  Fits(bs[sv.item], sv.item, sv.part, FALSE, "signed" \in sv.flags, j + 1)
    <2>1. sv.item \in 1..Len(message) /\ (message[sv.item].kind = "tool" => "id" \in sv.flags /\ ToolHere(sv))
      BY <1>6 DEF Opened, ToolHere, TextHere, Here
    <2>2. message[sv.item].kind = "tool" => Number(sv.item) # j
      BY <1>1, <1>3, <2>1
    <2>3. Fits(bs[sv.item], sv.item, sv.part, FALSE, "signed" \in sv.flags, j)
      BY <1>6 DEF Held
    <2>4. QED
      BY <2>1, <2>2, <2>3, FitsOn
  <1>7. QED
    BY <1>4, <1>5, <1>6 DEF Held

(* An event of a finalized OpenAI stream.                                       *)
LEMMA FinalTakes ==
  ASSUME AnswerShape, sv \in Positions, Stands(sv), dialect = "openai", dec \in Decoders, DecodedOpenAi(dec, sv),
         NEW evs \in Seq(Event), evs # <<>>, Finals(dec, evs, sv),
         NEW bs \in Seq(Block), Held(bs, sv, Completed(evs, sv))
  PROVE  /\ Finals(dec, Tail(evs), sv)
         /\ Held(Gathered(bs, Head(evs)), sv, Completed(Tail(evs), sv))
         /\ Len(evs) = 1 => Head(evs) = StopWith(dec.usage)
         /\ Len(evs) # 1 => Head(evs).type = "complete"
  <1> DEFINE j == Completed(evs, sv)
  <1> DEFINE n == NamedCalls(sv)
  <1>1. n \in Nat /\ \A i \in 0..(n - 1) : i \in Ids
    BY NamedAre
  <1>2. /\ Len(evs) \in Nat \ {0} /\ Head(evs) = evs[1] /\ Tail(evs) \in Seq(Event)
        /\ Len(Tail(evs)) = Len(evs) - 1
        /\ \A k \in 1..Len(Tail(evs)) : Tail(evs)[k] = evs[k + 1]
    BY Queue
  <1>3. /\ Len(evs) <= n + 1
        /\ \A k \in 1..Len(evs) :
              evs[k] = IF k = Len(evs) THEN StopWith(dec.usage)
                       ELSE Ev("complete", j + k - 1, Input(dec.slots[j + k - 1].acc))
    BY DEF Finals
  <1>4. j = n + 1 - Len(evs) /\ Completed(Tail(evs), sv) = j + 1
    BY <1>1, <1>2 DEF Completed
  <1> HIDE DEF j, n
  <1>5. j \in Nat /\ j \in Int /\ j <= n
    <2>1. Len(evs) <= n + 1 /\ Len(evs) \in Nat \ {0} /\ n \in Nat
      BY <1>1, <1>2, <1>3
    <2>2. QED
      BY <1>4, <2>1
  <1>6. Finals(dec, Tail(evs), sv)
    <2>1. Len(Tail(evs)) <= n + 1
      BY <1>1, <1>2, <1>3
    <2>2. ASSUME NEW k \in 1..Len(Tail(evs))
          PROVE  Tail(evs)[k] = IF k = Len(Tail(evs)) THEN StopWith(dec.usage)
                                ELSE Ev("complete", j + 1 + k - 1, Input(dec.slots[j + 1 + k - 1].acc))
      <3>1. k + 1 \in 1..Len(evs) /\ (k = Len(Tail(evs)) <=> k + 1 = Len(evs)) /\ j + (k + 1) - 1 = j + 1 + k - 1
        BY <1>2, <1>5
      <3>2. evs[k + 1] = IF k + 1 = Len(evs) THEN StopWith(dec.usage)
                         ELSE Ev("complete", j + (k + 1) - 1, Input(dec.slots[j + (k + 1) - 1].acc))
        BY <1>3, <3>1
      <3>3. QED
        BY <1>2, <3>1, <3>2
    <2>3. QED
      BY <1>4, <2>1, <2>2 DEF Finals, n
  <1>7. evs[1] = IF 1 = Len(evs) THEN StopWith(dec.usage) ELSE Ev("complete", j, Input(dec.slots[j].acc))
    <2>1. 1 \in 1..Len(evs) /\ j + 1 - 1 = j
      BY <1>2, <1>5
    <2>2. QED
      BY <1>3, <2>1
  <1>8. Held(bs, sv, j)
    BY DEF j
  <1>9. CASE Len(evs) = 1
    <2>1. Head(evs) = StopWith(dec.usage) /\ j = n
      BY <1>1, <1>2, <1>4, <1>7, <1>9
    <2>2. dec.usage \in SUBSET Parts
      BY DEF Decoders
    <2>3. Gathered(bs, Head(evs)) = bs
      BY <2>1, <2>2, Stops
    <2>4. Held(bs, sv, j + 1)
      BY <1>5, <1>8, <2>1, AllComplete DEF n
    <2>5. QED
      BY <1>4, <1>6, <1>9, <2>1, <2>3, <2>4
  <1>10. CASE Len(evs) # 1
    <2>1. Head(evs) = Ev("complete", j, Input(dec.slots[j].acc)) /\ j < n /\ j \in 0..(n - 1)
      BY <1>1, <1>2, <1>4, <1>5, <1>7, <1>10
    <2>2. j \in Ids
      BY <1>1, <2>1
    <2>3. Held(AfterComplete(bs, j, Input(dec.slots[j].acc)), sv, j + 1)
      BY <1>8, <2>1, <2>2, CallCompletes DEF n
    <2>4. Gathered(bs, Head(evs)) = AfterComplete(bs, j, Input(dec.slots[j].acc))
      BY <2>1, Gathers
    <2>5. Head(evs).type = "complete"
      BY <2>1 DEF Ev
    <2>6. QED
      BY <1>4, <1>6, <1>10, <2>3, <2>4, <2>5
  <1>11. QED
    BY <1>9, <1>10

-------------------------------------------------------------------------------
(* The row that is stored.                                                    *)

(* What is held is a beginning of the answer.                                   *)
LEMMA HeldBegins ==
  ASSUME AnswerShape, NEW s \in Positions, Stands(s), NEW j \in Int, NEW bs \in Seq(Block), Held(bs, s, j)
  PROVE  Beginning(bs)
  <1>1. /\ s.item \in Nat /\ s.part \in 0..2 /\ Len(message) \in Nat
        /\ s.item <= Len(message) + 1
        /\ Here(s) => s.part <= message[s.item].size
    BY PositionFields DEF Stands
  <1>2. /\ Len(bs) \in Nat /\ Len(bs) <= Len(message)
        /\ \A k \in 1..Len(bs) : /\ k \in 1..Len(message) /\ bs[k] \in Block /\ bs[k].kind = message[k].kind
                                 /\ k # s.item => Fits(bs[k], k, message[k].size, TRUE, TRUE, j)
    <2>1. Len(bs) <= Len(message)
      BY HeldItems
    <2>2. \A k \in 1..Len(bs) : /\ k \in 1..Len(message) /\ bs[k] \in Block /\ bs[k].kind = message[k].kind
                                /\ k # s.item => Fits(bs[k], k, message[k].size, TRUE, TRUE, j)
      BY HeldItems
    <2>3. Len(bs) \in Nat
      OBVIOUS
    <2>4. QED
      BY <2>1, <2>2, <2>3
  <1>3. ASSUME NEW k \in 1..Len(message), NEW acc \in 0..2, acc <= message[k].size, NEW x,
               x \in Amounts(k, acc, TRUE, j) \/ x \in Amounts(k, acc, FALSE, j)
        PROVE  /\ message[k].kind # "tool" => x = acc
               /\ x \in Nat
               /\ x <= message[k].size \/ (message[k].kind = "tool" /\ x = Null)
    <2>1. message[k].size \in 0..2
      BY Items
    <2>2. message[k].kind # "tool" => x = acc
      BY <1>3 DEF Amounts
    <2>3. x = acc \/ x = 0 \/ (x = Null /\ message[k].kind = "tool") \/ x \in 0..acc
      BY <1>3 DEF Amounts, Input, None
    <2>4. QED
      BY <1>3, <2>1, <2>2, <2>3 DEF Null
  <1>4. ASSUME NEW k \in 1..Len(bs)
        PROVE  /\ bs[k].kind = message[k].kind
               /\ IsTool(bs[k]) => bs[k].size <= message[k].size \/ bs[k].size = Null
               /\ ~IsTool(bs[k]) => bs[k].size <= message[k].size
               /\ ~IsTool(bs[k]) /\ k < Len(bs) => bs[k].size = message[k].size
    <2>1. k \in 1..Len(message) /\ bs[k].kind = message[k].kind /\ message[k].size \in 0..2
      BY <1>2, Items
    <2>2. CASE k # s.item
      <3>1. bs[k].size \in Amounts(k, message[k].size, TRUE, j)
        BY <1>2, <2>2 DEF Fits
      <3>2. /\ message[k].kind # "tool" => bs[k].size = message[k].size
            /\ bs[k].size <= message[k].size \/ (message[k].kind = "tool" /\ bs[k].size = Null)
        <4>1. message[k].size <= message[k].size
          BY <2>1
        <4>2. QED
          BY <1>3, <2>1, <3>1, <4>1
      <3>3. QED
        BY <2>1, <3>2 DEF IsTool
    <2>3. CASE k = s.item
      <3>1. Here(s) /\ k = Len(bs) /\ Opened(s, j)
        BY <1>1, <1>2, <2>1, <2>3 DEF Held, Passed, Here
      <3>2. bs[k].size \in Amounts(k, s.part, FALSE, j)
        BY <2>3, <3>1 DEF Held, Fits
      <3>3. bs[k].size <= message[k].size \/ (message[k].kind = "tool" /\ bs[k].size = Null)
        BY <1>1, <1>3, <2>1, <2>3, <3>1, <3>2
      <3>4. QED
        BY <1>2, <2>1, <3>1, <3>3 DEF IsTool
    <2>4. QED
      BY <2>2, <2>3
  <1>5. QED
    BY <1>2, <1>4 DEF Beginning

(* The blocks of an answer that came to its end and was not cut are its items.     *)
Complete(bs) ==
    /\ Len(bs) = Len(message)
    /\ \A k \in 1..Len(bs) : /\ bs[k] \in Block
                             /\ bs[k].kind = message[k].kind
                             /\ bs[k].size = message[k].size
                             /\ bs[k].signed <=> bs[k].kind = "think" /\ dialect = "anthropic"
    /\ \A i, k \in 1..Len(bs) : IsTool(bs[i]) /\ IsTool(bs[k]) /\ bs[i].id = bs[k].id => i = k

(* What is held at the end of an answer that was not cut is all of it.            *)
LEMMA HeldWhole ==
  ASSUME AnswerShape, NEW s \in Positions, Stands(s), s.item > Len(message), ~Truncated,
         NEW j \in Int, dialect = "openai" => j >= Number(s.item),
         NEW bs \in Seq(Block), Held(bs, s, j)
  PROVE  Complete(bs)
  <1>1. s.item \in Nat /\ Len(message) \in Nat /\ s.item = Len(message) + 1 /\ ~Here(s)
    BY PositionFields DEF Stands, Here
  <1>2. /\ Len(bs) = Len(message)
        /\ \A k \in 1..Len(bs) : Fits(bs[k], k, message[k].size, TRUE, TRUE, j)
    <2>1. ~Opened(s, j) /\ Passed(s) = Len(message)
      BY <1>1 DEF Opened, TextHere, ToolHere, Passed
    <2>2. QED
      BY <2>1 DEF Held
  <1>3. ASSUME NEW k \in 1..Len(bs)
        PROVE  /\ bs[k] \in Block
               /\ bs[k].kind = message[k].kind
               /\ bs[k].id = IdOf(k)
               /\ bs[k].size = message[k].size
               /\ bs[k].signed <=> bs[k].kind = "think" /\ dialect = "anthropic"
    <2>1. k \in 1..Len(message) /\ k \in Nat \ {0}
      BY <1>1, <1>2
    <2>2. message[k].kind = "tool" => message[k].size \in {None, Whole}
      BY <2>1 DEF Truncated, AnswerShape
    <2>3. message[k].kind = "tool" /\ dialect = "openai" => Number(k) < j
      <3>1. message[k].kind = "tool" => Number(k) < Number(s.item)
        BY <1>1, <2>1, NumberLess
      <3>2. Number(k) \in Nat /\ Number(s.item) \in Nat
        BY <1>1, <2>1, Numbers
      <3>3. QED
        BY <3>1, <3>2
    <2>4. Amounts(k, message[k].size, TRUE, j) = {message[k].size}
      BY <2>2, <2>3 DEF Amounts, Input, AnswerShape, None, Whole
    <2>5. QED
      BY <1>2, <2>4 DEF Fits
  <1>4. ASSUME NEW i \in 1..Len(bs), NEW k \in 1..Len(bs), IsTool(bs[i]), IsTool(bs[k]), bs[i].id = bs[k].id
        PROVE  i = k
    BY <1>2, <1>3, <1>4, OwnIds DEF IsTool
  <1>5. QED
    BY <1>2, <1>3, <1>4 DEF Complete

(* The rows of RowIsBeginning.                                                 *)
RowBegins(r) ==
    /\ Len(r) <= Len(message)
    /\ \A k \in DOMAIN r :
         /\ r[k].kind = message[k].kind
         /\ IsTool(r[k]) => r[k].size \in {None, Null} \/ r[k].size = message[k].size
         /\ ~IsTool(r[k]) => r[k].size <= message[k].size
         /\ ~IsTool(r[k]) /\ k < Len(r) => r[k].size = message[k].size

(* Blocks are stored with the arguments that are JSON.                           *)
LEMMA Stores ==
  ASSUME AnswerShape, blocks \in Seq(Block)
  PROVE  /\ Stored \in Seq(Block)
         /\ Len(Stored) = Len(blocks)
         /\ Stored = <<>> <=> blocks = <<>>
         /\ Callable \subseteq Block
         /\ Beginning(blocks) => RowBegins(Stored)
  <1>1. /\ Len(blocks) \in Nat /\ DOMAIN blocks = 1..Len(blocks)
        /\ \A k \in 1..Len(blocks) : blocks[k] \in Block
    OBVIOUS
  <1>2. Stored = [k \in 1..Len(blocks) |->
                    IF Malformed(blocks[k]) THEN [blocks[k] EXCEPT !.size = None] ELSE blocks[k]]
    BY <1>1 DEF Stored
  <1>3. ASSUME NEW k \in 1..Len(blocks)
        PROVE  /\ Stored[k] \in Block /\ Stored[k].kind = blocks[k].kind
               /\ Malformed(blocks[k]) => Stored[k].size = None
               /\ ~Malformed(blocks[k]) => Stored[k] = blocks[k]
    <2>1. 0 \in 0..(3 + 2 * MaxItems)
      BY ItemsAssumption
    <2>2. /\ [blocks[k] EXCEPT !.size = 0] \in Block /\ [blocks[k] EXCEPT !.size = 0].kind = blocks[k].kind
          /\ [blocks[k] EXCEPT !.size = 0].size = 0
      BY <1>1, <2>1, Resized
    <2>3. Stored[k] = IF Malformed(blocks[k]) THEN [blocks[k] EXCEPT !.size = 0] ELSE blocks[k]
      BY <1>2 DEF None
    <2>4. QED
      BY <1>1, <2>2, <2>3 DEF None
  <1>4. Stored \in Seq(Block) /\ Len(Stored) = Len(blocks) /\ DOMAIN Stored = 1..Len(blocks)
    <2>1. DOMAIN Stored = 1..Len(blocks) /\ Stored = [k \in 1..Len(blocks) |-> Stored[k]]
      BY <1>2
    <2>2. QED
      BY <1>1, <1>3, <2>1
  <1>5. Stored = <<>> <=> blocks = <<>>
    <2>1. \A q \in Seq(Block) : q = <<>> <=> Len(q) = 0
      OBVIOUS
    <2>2. QED
      BY <1>4, <2>1
  <1>6. Callable \subseteq Block
    BY <1>1 DEF Callable, ToSet
  <1>7. ASSUME Beginning(blocks) PROVE RowBegins(Stored)
    <2>1. ASSUME NEW k \in 1..Len(blocks)
          PROVE  /\ Stored[k].kind = message[k].kind
                 /\ IsTool(Stored[k]) => Stored[k].size \in {None, Null} \/ Stored[k].size = message[k].size
                 /\ ~IsTool(Stored[k]) => Stored[k].size <= message[k].size
                 /\ ~IsTool(Stored[k]) /\ k < Len(Stored) => Stored[k].size = message[k].size
      <3>1. /\ blocks[k].kind = message[k].kind
            /\ IsTool(blocks[k]) => blocks[k].size <= message[k].size \/ blocks[k].size = Null
            /\ ~IsTool(blocks[k]) => blocks[k].size <= message[k].size
            /\ ~IsTool(blocks[k]) /\ k < Len(blocks) => blocks[k].size = message[k].size
            /\ Len(blocks) <= Len(message)
        BY <1>1, <1>7 DEF Beginning
      <3>2. message[k].size \in 0..2 /\ blocks[k].size \in Nat
        <4>1. k \in 1..Len(message)
          BY <1>1, <3>1, PositionFields DEF AnswerShape
        <4>2. QED
          BY <1>1, <4>1, Items, BlockFields, ItemsAssumption
      <3>3. CASE Malformed(blocks[k])
        BY <1>3, <3>1, <3>3 DEF Malformed, IsTool
      <3>4. CASE ~Malformed(blocks[k])
        <4>1. Stored[k] = blocks[k]
          BY <1>3, <3>4
        <4>2. IsTool(blocks[k]) => blocks[k].size \in {0, 2, 3}
          BY <3>4 DEF Malformed, IsTool, None, Whole, Null
        <4>3. IsTool(blocks[k]) => blocks[k].size \in {0, 3} \/ blocks[k].size = message[k].size
          BY <3>1, <3>2, <4>2 DEF Null
        <4>4. QED
          BY <1>4, <3>1, <4>1, <4>3 DEF None, Null
      <3>5. QED
        BY <3>3, <3>4
    <2>2. Len(Stored) <= Len(message)
      BY <1>4, <1>7 DEF Beginning
    <2>3. QED
      BY <1>4, <2>1, <2>2 DEF RowBegins
  <1>8. QED
    BY <1>4, <1>5, <1>6, <1>7

(* A complete row is the answer, and its calls are what runs.                    *)
LEMMA StoredWhole ==
  ASSUME AnswerShape, ~Truncated, blocks \in Seq(Block), Complete(blocks)
  PROVE  /\ Stored = blocks
         /\ [k \in DOMAIN blocks |-> [kind |-> blocks[k].kind, size |-> blocks[k].size]] = message
         /\ Callable = {b \in ToSet(blocks) : IsTool(b)}
  <1>1. /\ Len(blocks) \in Nat /\ DOMAIN blocks = 1..Len(blocks) /\ Len(blocks) = Len(message)
        /\ blocks = [k \in 1..Len(blocks) |-> blocks[k]]
    BY DEF Complete
  <1>2. ASSUME NEW k \in 1..Len(blocks) PROVE ~Malformed(blocks[k])
    <2>1. k \in 1..Len(message) /\ blocks[k].kind = message[k].kind /\ blocks[k].size = message[k].size
      BY <1>1 DEF Complete
    <2>2. message[k].kind = "tool" => message[k].size \in {None, Whole}
      BY <2>1 DEF Truncated, AnswerShape
    <2>3. QED
      BY <2>1, <2>2 DEF Malformed
  <1>3. Stored = blocks
    BY <1>1, <1>2 DEF Stored
  <1>4. Callable = {b \in ToSet(blocks) : IsTool(b)}
    BY <1>1, <1>2 DEF Callable, ToSet, IsTool
  <1>5. [k \in DOMAIN blocks |-> [kind |-> blocks[k].kind, size |-> blocks[k].size]] = message
    <2>1. ASSUME NEW k \in 1..Len(message)
          PROVE  [kind |-> blocks[k].kind, size |-> blocks[k].size] = message[k]
      <3>1. message[k] \in Item
        BY Items
      <3>2. message[k] = [kind |-> message[k].kind, size |-> message[k].size]
        BY <3>1 DEF Item
      <3>3. QED
        BY <1>1, <3>2 DEF Complete
    <2>2. message = [k \in 1..Len(message) |-> message[k]]
      BY DEF AnswerShape
    <2>3. QED
      BY <1>1, <2>1, <2>2
  <1>6. QED
    BY <1>3, <1>4, <1>5

-------------------------------------------------------------------------------
(* What does not depend on the step, since the answer and its provider stay.      *)

Stays == message' = message /\ dialect' = dialect

(* The items, their numbers and their ids;                                     *)
LEMMA SameAnswer ==
  ASSUME Stays
  PROVE  /\ AnswerShape' <=> AnswerShape
         /\ \A k : Number(k)' = Number(k)
         /\ \A s : (Here(s)' <=> Here(s)) /\ (ToolHere(s)' <=> ToolHere(s)) /\ (TextHere(s)' <=> TextHere(s))
         /\ \A k : IdOf(k)' = IdOf(k)
  <1>1. \A k : Number(k)' = Number(k)
    BY DEF Stays, Number
  <1>2. \A s : (Here(s)' <=> Here(s)) /\ (ToolHere(s)' <=> ToolHere(s)) /\ (TextHere(s)' <=> TextHere(s))
    BY DEF Stays, Here, ToolHere, TextHere
  <1>3. \A k : IdOf(k)' = IdOf(k)
    BY <1>1 DEF Stays, IdOf
  <1>4. AnswerShape' <=> AnswerShape
    BY DEF Stays, AnswerShape
  <1>5. QED
    BY <1>1, <1>2, <1>3, <1>4

(* where a position stands;                                                    *)
LEMMA SamePlaces ==
  ASSUME Stays, NEW s
  PROVE  /\ Stands(s)' <=> Stands(s)
         /\ EndsAt(s)' <=> EndsAt(s)
         /\ NamedCalls(s)' = NamedCalls(s)
  <1>1. StandsAnthropic(s)' <=> StandsAnthropic(s)
    BY SameAnswer DEF Stays, StandsAnthropic
  <1>2. StandsOpenAi(s)' <=> StandsOpenAi(s)
    BY SameAnswer DEF Stays, StandsOpenAi
  <1>3. StandsGemini(s)' <=> StandsGemini(s)
    BY SameAnswer DEF Stays, StandsGemini
  <1>4. Stands(s)' <=> Stands(s)
    BY <1>1, <1>2, <1>3, SameAnswer DEF Stays, Stands
  <1>5. EndsAt(s)' <=> EndsAt(s)
    BY DEF Stays, EndsAt
  <1>6. NamedCalls(s)' = NamedCalls(s)
    BY SameAnswer DEF NamedCalls
  <1>7. QED
    BY <1>4, <1>5, <1>6

(* what the blocks hold;                                                       *)
LEMMA SameBlocks ==
  ASSUME Stays
  PROVE  /\ \A bs, s, j : Held(bs, s, j)' <=> Held(bs, s, j)
         /\ \A bs : Beginning(bs)' <=> Beginning(bs)
         /\ \A bs, evs, s : HeldAfter(bs, evs, s)' <=> HeldAfter(bs, evs, s)
  <1>1. ASSUME NEW k, NEW acc, NEW over, NEW j PROVE Amounts(k, acc, over, j)' = Amounts(k, acc, over, j)
    BY SameAnswer DEF Stays, Amounts
  <1>2. ASSUME NEW b, NEW k, NEW acc, NEW over, NEW sealed, NEW j
        PROVE  Fits(b, k, acc, over, sealed, j)' <=> Fits(b, k, acc, over, sealed, j)
    BY <1>1, SameAnswer DEF Stays, Fits
  <1>3. ASSUME NEW s, NEW j PROVE Opened(s, j)' <=> Opened(s, j)
    BY SameAnswer DEF Stays, Opened
  <1>4. ASSUME NEW bs, NEW s, NEW j PROVE Held(bs, s, j)' <=> Held(bs, s, j)
    BY <1>2, <1>3 DEF Stays, Held
  <1>5. ASSUME NEW bs PROVE Beginning(bs)' <=> Beginning(bs)
    BY DEF Stays, Beginning
  <1>6. ASSUME NEW bs, NEW evs, NEW s PROVE HeldAfter(bs, evs, s)' <=> HeldAfter(bs, evs, s)
    BY <1>4 DEF HeldAfter
  <1>7. QED
    BY <1>4, <1>5, <1>6

(* and what the decoder holds.                                                 *)
LEMMA SameDecoder ==
  ASSUME Stays, NEW d, NEW s
  PROVE  /\ DecodedTo(d, s)' <=> DecodedTo(d, s)
         /\ Counted(d, s)' <=> Counted(d, s)
         /\ \A evs : Finals(d, evs, s)' <=> Finals(d, evs, s)
         /\ \A evs : Completed(evs, s)' = Completed(evs, s)
  <1>1. DecodedAnthropic(d, s)' <=> DecodedAnthropic(d, s)
    BY SameAnswer DEF DecodedAnthropic, OpenCall
  <1>2. DecodedOpenAi(d, s)' <=> DecodedOpenAi(d, s)
    BY SameAnswer DEF Stays, DecodedOpenAi
  <1>3. DecodedGemini(d, s)' <=> DecodedGemini(d, s)
    BY SameAnswer DEF DecodedGemini
  <1>4. DecodedTo(d, s)' <=> DecodedTo(d, s)
    BY <1>1, <1>2, <1>3 DEF Stays, DecodedTo
  <1>5. Counted(d, s)' <=> Counted(d, s)
    BY SameAnswer DEF Stays, Counted
  <1>6. \A evs : Completed(evs, s)' = Completed(evs, s)
    BY SamePlaces DEF Completed
  <1>7. \A evs : Finals(d, evs, s)' <=> Finals(d, evs, s)
    BY <1>6, SamePlaces DEF Finals
  <1>8. QED
    BY <1>4, <1>5, <1>6, <1>7

(* Nothing has happened.                                                      *)
LEMMA Unmoved ==
  ASSUME Stays, UNCHANGED <<sv, dec, pending, finished, blocks, usage, lost>>
  PROVE  /\ Stands(sv)' <=> Stands(sv)
         /\ Beginning(blocks)' <=> Beginning(blocks)
         /\ Lively' <=> Lively
  <1>1. Intact' <=> Intact
    BY DEF Stays, Intact
  <1>2. DecodedTo(dec, sv)' <=> DecodedTo(dec, sv)
    BY SameDecoder
  <1>3. /\ Finals(dec, pending, sv)' <=> Finals(dec, pending, sv)
        /\ Completed(pending, sv)' = Completed(pending, sv)
    BY SameDecoder
  <1>4. /\ Held(blocks, sv, Completed(pending, sv))' <=> Held(blocks, sv, Completed(pending, sv))
        /\ HeldAfter(blocks, pending, sv)' <=> HeldAfter(blocks, pending, sv)
        /\ Beginning(blocks)' <=> Beginning(blocks)
    BY <1>3, SameBlocks
  <1>5. Gathering' <=> Gathering
    BY <1>1, <1>3, <1>4 DEF Stays, Gathering, Finalized
  <1>6. Bounds' <=> Bounds
    BY DEF Stays, Bounds
  <1>7. Counted(dec, sv)' <=> Counted(dec, sv)
    BY SameDecoder
  <1>8. (EndsAt(sv)' <=> EndsAt(sv)) /\ (Stands(sv)' <=> Stands(sv))
    BY SamePlaces
  <1>9. Told' <=> Told
    BY <1>7, <1>8 DEF Stays, Told, Owes
  <1>10. QED
    BY <1>1, <1>2, <1>4, <1>5, <1>6, <1>8, <1>9 DEF Lively

(* No row is stored before the turn is over.                                    *)
LEMMA NoRow ==
  ASSUME message' \in Seq(Item), outcome' # "done", row' = <<>>
  PROVE  RowFaithful' /\ RowIsBeginning' /\ ChargedInFull'
  BY DEF RowFaithful, RowIsBeginning, ChargedInFull

(* Initially nothing has come.                                                 *)
LEMMA StreamStarts == StreamInit => StreamInv
  <1> SUFFICES ASSUME StreamInit PROVE StreamInv
    OBVIOUS
  <1> USE DEF StreamInit
  <1>1. AnswerShape /\ dialect \in {"anthropic", "openai", "gemini"}
    BY Answered DEF AnswerShape
  <1>2. Len(message) \in Nat /\ Len(message) <= MaxItems /\ MaxItems \in Nat
    BY <1>1, ItemsAssumption DEF AnswerShape
  <1>3. /\ sv.item = IF dialect = "anthropic" THEN 0 ELSE 1
        /\ sv.part = 0 /\ sv.flags = {} /\ sv \in Positions
    BY <1>2 DEF Positions, None, Whole
  <1>4. Here(sv) => message[sv.item].size \in 0..2 /\ (message[sv.item].kind # "tool" => message[sv.item].size > 0)
    BY <1>1, Items DEF Here
  <1>5. Stands(sv)
    BY <1>1, <1>2, <1>3, <1>4 DEF Stands, StandsAnthropic, StandsOpenAi, StandsGemini, Here, TextHere, ToolHere
  <1>6. 0 \in Ids /\ NoSlot \in Slot /\ 0 \in Nat
    BY Slots, ItemsAssumption DEF Ids
  <1>7. /\ dec \in Decoders /\ dec.usage = {} /\ dec.minted = 0 /\ ~dec.final
        /\ \A i \in Ids : dec.slots[i] = NoSlot
    BY <1>6 DEF Fresh, Decoders
  <1>8. Number(sv.item) = 0
    <2>1. sv.item \in Nat /\ sv.item <= 1
      BY <1>3
    <2>2. QED
      BY <1>1, <2>1, Numbers
  <1>9. DecodedTo(dec, sv)
    <2>1. ~NoSlot.id /\ ~NoSlot.name /\ ~NoSlot.started /\ NoSlot.acc = 0
      BY Slots
    <2>2. Slotted(NoSlot, FALSE, FALSE, 0)
      BY <2>1 DEF Slotted
    <2>3. DecodedAnthropic(dec, sv)
      BY <1>3, <1>7, <2>1 DEF DecodedAnthropic, OpenCall
    <2>4. DecodedOpenAi(dec, sv)
      <3>1. \A i \in Ids : ~(i < Number(sv.item))
        BY <1>8, ItemsAssumption DEF Ids
      <3>2. Slotted(dec.slots[Number(sv.item)], "id" \in sv.flags, "name" \in sv.flags, sv.part)
        BY <1>3, <1>6, <1>7, <1>8, <2>1 DEF Slotted
      <3>3. \A i \in Ids : Slotted(dec.slots[i], FALSE, FALSE, 0)
        BY <1>7, <2>2
      <3>4. QED
        BY <3>1, <3>2, <3>3 DEF DecodedOpenAi
    <2>5. DecodedGemini(dec, sv)
      BY <1>7, <1>8 DEF DecodedGemini
    <2>6. QED
      BY <2>3, <2>4, <2>5 DEF DecodedTo
  <1>10. blocks \in Seq(Block) /\ pending \in Seq(Event) /\ row \in Seq(Block) /\ Len(blocks) = 0 /\ Len(pending) = 0
    OBVIOUS
  <1>11. Held(blocks, sv, 0)
    <2>1. ~Opened(sv, 0)
      BY <1>1, <1>3, Unopened
    <2>2. Passed(sv) = 0
      BY <1>3 DEF Passed
    <2>3. \A k : k \notin 1..Passed(sv)
      BY <2>2
    <2>4. blocks \in Seq(Block) /\ Len(blocks) = Passed(sv)
      BY <1>10, <2>2
    <2> HIDE DEF StreamInit
    <2>5. QED
      BY <2>1, <2>3, <2>4, Zenon DEF Held
  <1>12. Gathering
    <2>1. HeldAfter(blocks, pending, sv)
      BY <1>11, HeldByEvents
    <2>2. QED
      BY <1>7, <2>1 DEF Gathering, Finalized
  <1>13. Bounds
    <2>1. Bounded(After(blocks, pending), sv)
      BY <1>10 DEF Bounded, After
    <2>2. QED
      BY <1>3, <1>7, <1>10, <2>1 DEF Bounds
  <1>14. Told
    <2>1. ~EndsAt(sv)
      BY <1>3 DEF EndsAt, Parts
    <2>2. Counted(dec, sv)
      BY <1>2, <1>3 DEF Counted
    <2>3. QED
      BY <2>1, <2>2 DEF Told
  <1>15. Beginning(blocks)
    BY <1>2, <1>10 DEF Beginning
  <1>16. StreamTypeOK
    BY <1>3, <1>7, <1>10 DEF StreamTypeOK, Decoders, Positions
  <1>17. RowFaithful /\ RowIsBeginning /\ ChargedInFull
    BY <1>2 DEF RowFaithful, RowIsBeginning, ChargedInFull
  <1>18. QED
    BY <1>5, <1>7, <1>9, <1>12, <1>13, <1>14, <1>15, <1>16, <1>17 DEF StreamInv, Lively

-------------------------------------------------------------------------------
(* Every step.                                                               *)

(* What the invariant says of a turn that reads the stream.                      *)
LEMMA Reads ==
  ASSUME StreamInv, Reading
  PROVE  /\ AnswerShape /\ Stands(sv) /\ sv \in Positions /\ dec \in Decoders /\ ~dec.final
         /\ blocks \in Seq(Block) /\ row = <<>> /\ billed = {} /\ runs = {}
         /\ Told
         /\ dialect # "gemini" \/ ~lost => DecodedTo(dec, sv) /\ Held(blocks, sv, 0)
         /\ dialect = "gemini" => dec.minted < sv.item /\ Bounded(blocks, sv)
  <1>1. AnswerShape /\ Stands(sv) /\ sv \in Positions /\ dec \in Decoders /\ ~dec.final /\ blocks \in Seq(Block)
    BY Answered DEF StreamInv, StreamTypeOK, Stands, Reading
  <1>2. Lively /\ row = <<>> /\ billed = {} /\ runs = {}
    BY DEF StreamInv, Active, Reading
  <1>3. pending = <<>> /\ pending # <<Error>> /\ Len(pending) = 0
    BY DEF Reading
  <1>4. dialect # "gemini" \/ ~lost => Intact
    BY <1>3 DEF Intact
  <1>5. ~Finalized
    BY <1>1 DEF Finalized
  <1>6. HeldAfter(blocks, pending, sv) => Held(blocks, sv, 0)
    BY <1>3 DEF HeldAfter, After
  <1>7. After(blocks, pending) = blocks
    BY <1>3 DEF After
  <1>8. QED
    BY <1>1, <1>2, <1>3, <1>4, <1>5, <1>6, <1>7 DEF Lively, Gathering, Bounds

(* The type invariant, when the provider sent something.                         *)
LEMMA ReadTypes ==
  ASSUME StreamTypeOK, UNCHANGED <<dialect, message, turnVars, cancelled>>,
         sv' \in Positions, dec' \in Decoders, pending' \in Seq(Event), finished' \in BOOLEAN, lost' \in BOOLEAN
  PROVE  StreamTypeOK'
  BY DEF StreamTypeOK, turnVars, Positions, Decoders

(* A request that is made, and what comes of it.                                 *)
LEMMA Requests == StreamInv /\ Request => StreamInv'
  <1> SUFFICES ASSUME StreamInv, Request PROVE StreamInv'
    OBVIOUS
  <1>1. /\ Stays /\ UNCHANGED <<sv, dec, pending, finished, blocks, usage, lost, row, runs, billed, cancelled>>
        /\ outcome = "opening"
    BY DEF Request, Stays, wireVars, decodeVars
  <1>2. outcome' \in {"opening", "running", "error"} /\ compacted' \in BOOLEAN
    BY DEF Request, StreamInv, StreamTypeOK
  <1>3. StreamTypeOK'
    BY <1>1, <1>2 DEF StreamInv, StreamTypeOK, Stays
  <1>4. row' = <<>> /\ billed' = {} /\ runs' = {} /\ Lively
    BY <1>1 DEF StreamInv, Active
  <1>5. Stands(sv)' /\ Lively' /\ (dialect' # "gemini" \/ ~lost' => Beginning(blocks)')
    BY <1>1, <1>4, Unmoved DEF StreamInv, Stays
  <1>6. RowFaithful' /\ RowIsBeginning' /\ ChargedInFull'
    <2>1. message' \in Seq(Item)
      BY <1>1, Answered DEF StreamInv, StreamTypeOK, Stays, AnswerShape
    <2>2. outcome' # "done"
      BY <1>2
    <2>3. QED
      BY <1>4, <2>1, <2>2, NoRow
  <1>7. dec' \in Decoders /\ (dec'.final <=> finished' /\ dialect' # "anthropic")
    BY <1>1 DEF StreamInv, Stays
  <1>8. QED
    BY <1>3, <1>4, <1>5, <1>6, <1>7 DEF StreamInv

(* The user aborts.                                                           *)
LEMMA Aborts == StreamInv /\ Abort => StreamInv'
  <1> SUFFICES ASSUME StreamInv, Abort PROVE StreamInv'
    OBVIOUS
  <1>1. /\ Stays /\ UNCHANGED <<sv, dec, pending, finished, blocks, usage, lost, row, runs, billed, outcome, compacted>>
        /\ outcome \in {"opening", "running"} /\ cancelled' \in BOOLEAN
    BY DEF Abort, Stays, wireVars, decodeVars, turnVars
  <1>2. StreamTypeOK'
    BY <1>1 DEF StreamInv, StreamTypeOK, Stays
  <1>3. row' = <<>> /\ billed' = {} /\ runs' = {} /\ Lively
    BY <1>1 DEF StreamInv, Active
  <1>4. Stands(sv)' /\ Lively' /\ (dialect' # "gemini" \/ ~lost' => Beginning(blocks)')
    BY <1>1, <1>3, Unmoved DEF StreamInv, Stays
  <1>5. RowFaithful' /\ RowIsBeginning' /\ ChargedInFull'
    <2>1. message' \in Seq(Item)
      BY <1>1, Answered DEF StreamInv, StreamTypeOK, Stays, AnswerShape
    <2>2. outcome' # "done"
      BY <1>1
    <2>3. QED
      BY <1>3, <2>1, <2>2, NoRow
  <1>6. dec' \in Decoders /\ (dec'.final <=> finished' /\ dialect' # "anthropic")
    BY <1>1 DEF StreamInv, Stays
  <1>7. QED
    BY <1>2, <1>3, <1>4, <1>5, <1>6 DEF StreamInv

(* Nothing of the turn but the decoder and its events has changed.                *)
LEMMA ReadSteps ==
  ASSUME StreamInv, Reading, UNCHANGED <<dialect, message, turnVars, cancelled>>,
         sv' \in Positions, Stands(sv'), dec' \in Decoders, pending' \in Seq(Event),
         finished' \in BOOLEAN, lost' \in BOOLEAN, lost => lost',
         dec'.final <=> finished' /\ dialect # "anthropic",
         Lively'
  PROVE  StreamInv'
  <1>1. Stays /\ UNCHANGED <<blocks, usage, row, runs, billed, outcome>> /\ outcome = "running"
    BY DEF Stays, turnVars, Reading
  <1>2. StreamTypeOK'
    BY ReadTypes DEF StreamInv
  <1>3. row' = <<>> /\ billed' = {} /\ runs' = {}
    BY <1>1, Reads
  <1>4. Stands(sv)'
    BY <1>1, SamePlaces
  <1>5. Beginning(blocks)' <=> Beginning(blocks)
    BY <1>1, SameBlocks
  <1>6. RowFaithful' /\ RowIsBeginning' /\ ChargedInFull'
    <2>1. message' \in Seq(Item)
      BY <1>1, Reads DEF Stays, AnswerShape
    <2>2. outcome' # "done"
      BY <1>1
    <2>3. QED
      BY <1>3, <2>1, <2>2, NoRow
  <1>7. dec'.final <=> finished' /\ dialect' # "anthropic"
    BY <1>1 DEF Stays
  <1>8. dialect' # "gemini" \/ ~lost' => Beginning(blocks)'
    BY <1>1, <1>5 DEF Stays, StreamInv
  <1>9. QED
    BY <1>2, <1>3, <1>4, <1>6, <1>7, <1>8 DEF StreamInv

(* The transport fails: the event that the turn takes next is an error.            *)
LEMMA TransportBreaks == StreamInv /\ TransportFails => StreamInv'
  <1> SUFFICES ASSUME StreamInv, TransportFails PROVE StreamInv'
    OBVIOUS
  <1>1. /\ Reading /\ Stays /\ UNCHANGED <<dialect, message, turnVars, cancelled>>
        /\ UNCHANGED <<sv, dec, finished>> /\ pending' = <<Error>> /\ lost' = TRUE
    BY DEF TransportFails, Stays, wireVars
  <1>2. Error \in Event
    BY Events, ItemsAssumption DEF Error, Ids
  <1>3. pending' \in Seq(Event)
    BY <1>1, <1>2
  <1>4. ~Intact'
    BY <1>1 DEF Intact
  <1>5. Lively'
    <2>1. Bounds'
      BY <1>1, Reads DEF Bounds, Stays
    <2>2. Told'
      BY <1>1 DEF Told
    <2>3. QED
      BY <1>4, <2>1, <2>2 DEF Lively, Gathering
  <1>6. /\ sv' \in Positions /\ Stands(sv') /\ dec' \in Decoders /\ finished' \in BOOLEAN
        /\ dec'.final <=> finished' /\ dialect # "anthropic"
    <2>1. UNCHANGED <<sv, dec, finished>>
      BY <1>1
    <2>2. finished \in BOOLEAN /\ (dec.final <=> finished /\ dialect # "anthropic")
      BY DEF StreamInv, StreamTypeOK
    <2>3. QED
      BY <1>1, <2>1, <2>2, Reads
  <1>7. QED
    BY <1>1, <1>3, <1>5, <1>6, ReadSteps

(* A chunk comes through, and the decoder follows the answer.                     *)
LEMMA Proceeds ==
  ASSUME StreamInv, Reading, UNCHANGED <<dialect, message, turnVars, cancelled, lost, finished>>,
         sv' \in Positions, Stands(sv'), dec' \in Decoders, dec'.final <=> dec.final, pending' \in Seq(Event),
         dialect # "gemini" \/ ~lost => Follows(dec', pending', sv'),
         dialect = "gemini" => dec'.minted < sv'.item /\ Len(pending') <= 1 /\ Bounded(After(blocks, pending'), sv')
  PROVE  StreamInv'
  <1>1. Stays /\ UNCHANGED <<blocks, usage, lost, finished>> /\ finished = FALSE /\ lost \in BOOLEAN
    BY DEF Stays, turnVars, Reading, StreamInv, StreamTypeOK
  <1>2. dec'.final <=> FALSE
    BY Reads
  <1>3. Intact' => Follows(dec', pending', sv')
    BY <1>1 DEF Intact, Stays
  <1>4. Follows(dec', pending', sv') => DecodedTo(dec, sv)' /\ HeldAfter(blocks, pending, sv)'
    <2>1. DecodedTo(dec', sv') => DecodedTo(dec, sv)'
      BY <1>1, SameDecoder
    <2>2. HeldAfter(blocks, pending', sv') => HeldAfter(blocks, pending, sv)'
      BY <1>1, SameBlocks
    <2>3. QED
      BY <2>1, <2>2 DEF Follows
  <1>5. Gathering'
    BY <1>2, <1>3, <1>4 DEF Gathering, Finalized
  <1>6. Bounds'
    <2>1. Bounded(After(blocks, pending'), sv') => Bounded(After(blocks, pending), sv)'
      <3>1. blocks' = blocks
        BY <1>1
      <3>2. After(blocks, pending)' = After(blocks, pending')
        BY <3>1
      <3>3. QED
        BY <3>2 DEF Bounded
    <2>2. QED
      BY <1>1, <2>1 DEF Bounds, Stays
  <1>7. Told'
    <2>1. ASSUME ~lost'
          PROVE  Counted(dec, sv)' /\ (dialect' = "anthropic" /\ EndsAt(sv)' => Owes(pending, Parts)')
      <3>1. Follows(dec', pending', sv') /\ Counted(dec, sv)
        BY <1>1, <2>1, Reads DEF Told
      <3>2. Counted(dec', sv') => Counted(dec, sv)'
        BY <1>1, SameDecoder
      <3>3. EndsAt(sv)' => EndsAt(sv')
        BY <1>1, SamePlaces
      <3>4. Owes(pending', Parts) => Owes(pending, Parts)'
        BY <1>1 DEF Owes
      <3>5. QED
        BY <1>1, <3>1, <3>2, <3>3, <3>4 DEF Follows, Stays
    <2>2. QED
      BY <1>1, <2>1 DEF Told
  <1>8. Lively'
    BY <1>3, <1>4, <1>5, <1>6, <1>7 DEF Lively
  <1>9. finished' \in BOOLEAN /\ lost' \in BOOLEAN /\ (lost => lost') /\ (dec'.final <=> finished' /\ dialect # "anthropic")
    <2>1. finished' = FALSE /\ lost' = lost
      BY <1>1
    <2>2. dec'.final <=> finished' /\ dialect # "anthropic"
      BY <1>2, <2>1
    <2>3. finished' \in BOOLEAN
      BY <2>1
    <2>4. lost' \in BOOLEAN /\ (lost => lost')
      BY <1>1, <2>1
    <2>5. QED
      BY <2>2, <2>3, <2>4, Zenon
  <1>10. UNCHANGED <<dialect, message, turnVars, cancelled>>
    OBVIOUS
  <1>11. QED
    BY <1>8, <1>9, <1>10, ReadSteps

(* A chunk of Anthropic's.                                                     *)
LEMMA FromAnthropic ==
  ASSUME StreamInv, Receive, dialect = "anthropic"
  PROVE  StreamInv'
  <1>1. /\ Reading /\ UNCHANGED <<dialect, message, turnVars, cancelled, lost>>
    BY DEF Receive
  <1>2. PICK st \in AnthropicSends : sv' = st.sv /\ ReceiveAnthropic(st.chunk)
    BY DEF Receive, Sends
  <1>3. /\ AnswerShape /\ Stands(sv) /\ dec \in Decoders /\ blocks \in Seq(Block)
        /\ DecodedAnthropic(dec, sv) /\ Held(blocks, sv, 0)
    BY <1>1, Reads DEF DecodedTo
  <1>4. AnthropicStep(st.chunk, sv') /\ sv' \in Positions
    BY <1>2, <1>3, AnthropicSteps
  <1>5. Stands(sv')
    BY <1>3, <1>4, StaysAnthropic
  <1>6. Follows(dec', pending', sv')
    BY <1>2, <1>3, <1>4, ReceivesAnthropic DEF ReceiveAnthropic, Decoded
  <1>7. dec' \in Decoders /\ (dec'.final <=> dec.final) /\ pending' \in Seq(Event)
    BY <1>6 DEF Follows
  <1>8. UNCHANGED <<dialect, message, turnVars, cancelled, lost, finished>>
    BY <1>1, <1>2 DEF ReceiveAnthropic
  <1>9. QED
    BY <1>1, <1>4, <1>5, <1>6, <1>7, <1>8, Proceeds

(* A chunk of Gemini's.                                                        *)
LEMMA FromGemini ==
  ASSUME StreamInv, Receive, dialect = "gemini"
  PROVE  StreamInv'
  <1>1. /\ Reading /\ UNCHANGED <<dialect, message, turnVars, cancelled, lost>>
    BY DEF Receive
  <1>2. PICK st \in GeminiSends : sv' = st.sv /\ ReceiveGemini(st.chunk)
    BY DEF Receive, Sends
  <1>3. /\ AnswerShape /\ Stands(sv) /\ dec \in Decoders /\ dec.minted < sv.item /\ Bounded(blocks, sv)
        /\ ~lost => DecodedGemini(dec, sv) /\ Held(blocks, sv, 0)
    BY <1>1, Reads DEF DecodedTo
  <1>4. GeminiStep(st.chunk, sv') /\ sv' \in Positions
    BY <1>2, <1>3, GeminiSteps
  <1>5. Stands(sv')
    BY <1>3, <1>4, StaysGemini
  <1>6. dec' = ParseGemini(st.chunk, dec).dec /\ pending' = ParseGemini(st.chunk, dec).events
    BY <1>2 DEF ReceiveGemini, Decoded
  <1>7. /\ dec' \in Decoders /\ (dec'.final <=> dec.final) /\ dec'.minted < sv'.item
        /\ pending' \in Seq(Event) /\ Len(pending') <= 1
        /\ Bounded(After(blocks, pending'), sv')
        /\ ~lost => Follows(dec', pending', sv')
    BY <1>3, <1>4, <1>6, ReceivesGemini
  <1>8. UNCHANGED <<dialect, message, turnVars, cancelled, lost, finished>>
    BY <1>1, <1>2 DEF ReceiveGemini
  <1>9. QED
    BY <1>1, <1>4, <1>5, <1>7, <1>8, Proceeds

(* An OpenAI stream is finalized.                                               *)
LEMMA Concludes ==
  ASSUME StreamInv, Reading, dialect = "openai", UNCHANGED <<dialect, message, turnVars, cancelled>>,
         Decoded(FinalizeOpenAi(dec)), finished' = TRUE,
         sv' \in Positions, Stands(sv'),
         \/ sv' = sv
         \/ /\ ~Here(sv) /\ sv'.item = sv.item /\ sv'.part = sv.part
            /\ Parts \subseteq sv.flags /\ sv'.flags = sv.flags \cup {"end"},
         lost' \in BOOLEAN, lost => lost', ~lost' => EndsAt(sv)
  PROVE  StreamInv'
  <1>1. /\ Stays /\ UNCHANGED <<blocks, usage>> /\ dialect' = "openai"
        /\ dec' = FinalizeOpenAi(dec).dec /\ pending' = FinalizeOpenAi(dec).events
    BY DEF Stays, turnVars, Decoded
  <1>2. /\ AnswerShape /\ Stands(sv) /\ sv \in Positions /\ dec \in Decoders /\ ~dec.final /\ Told
        /\ DecodedOpenAi(dec, sv) /\ Held(blocks, sv, 0)
    BY Reads DEF DecodedTo
  <1>3. /\ dec' \in Decoders /\ dec'.final /\ dec'.slots = dec.slots /\ dec'.usage = dec.usage
        /\ pending' \in Seq(Event) /\ pending' # <<Error>> /\ Len(pending') > 0
        /\ pending'[Len(pending')] = StopWith(dec.usage)
        /\ Finals(dec', pending', sv) /\ Completed(pending', sv) = 0
    BY <1>1, <1>2, Finalizes
  <1>4. /\ sv'.item = sv.item /\ sv'.part = sv.part
        /\ (Here(sv') <=> Here(sv)) /\ (ToolHere(sv') <=> ToolHere(sv)) /\ (TextHere(sv') <=> TextHere(sv))
        /\ Here(sv) => sv'.flags = sv.flags
    BY DEF Here, ToolHere, TextHere
  <1>5. NamedCalls(sv') = NamedCalls(sv) /\ Passed(sv') = Passed(sv)
    BY <1>4 DEF NamedCalls, ToolHere, Passed
  <1>6. Completed(pending', sv') = Completed(pending', sv)
    BY <1>5 DEF Completed
  <1>7. Finals(dec', pending', sv')
    BY <1>3, <1>5, <1>6 DEF Finals
  <1>8. DecodedOpenAi(dec', sv')
    <2>1. ToolHere(sv') => Slotted(dec'.slots[Number(sv'.item)], "id" \in sv'.flags, "name" \in sv'.flags, sv'.part)
      <3>1. ToolHere(sv') => Slotted(dec.slots[Number(sv.item)], "id" \in sv.flags, "name" \in sv.flags, sv.part)
        BY <1>2, <1>4 DEF DecodedOpenAi
      <3>2. ToolHere(sv') => sv'.flags = sv.flags
        BY <1>4 DEF ToolHere
      <3>3. QED
        BY <1>3, <1>4, <3>1, <3>2
    <2>2. QED
      BY <1>2, <1>3, <1>4, <2>1 DEF DecodedOpenAi
  <1>9. Held(blocks, sv', 0)
    <2>1. Opened(sv', 0) <=> Opened(sv, 0)
      BY <1>4 DEF Opened, TextHere, ToolHere
    <2>2. Opened(sv, 0) => Here(sv)
      BY DEF Opened, TextHere, ToolHere
    <2>3. QED
      BY <1>2, <1>4, <1>5, <2>1, <2>2 DEF Held
  <1>10. DecodedTo(dec, sv)'
    <2>1. DecodedTo(dec', sv')
      BY <1>8 DEF DecodedTo
    <2>2. QED
      BY <1>1, <2>1, SameDecoder
  <1>11. Gathering'
    <2>1. Finals(dec, pending, sv)'
      BY <1>1, <1>7, SameDecoder
    <2>2. Completed(pending, sv)' = 0
      BY <1>1, <1>3, <1>6, SameDecoder
    <2>3. Held(blocks', sv', Completed(pending, sv)')
      BY <1>1, <1>9, <2>2
    <2>4. Held(blocks, sv, Completed(pending, sv))'
      BY <1>1, <2>3, SameBlocks
    <2>5. Finalized'
      BY <1>1, <1>3 DEF Finalized
    <2>6. QED
      BY <2>1, <2>4, <2>5 DEF Gathering
  <1>12. Bounds'
    BY <1>1 DEF Bounds
  <1>13. Told'
    <2>1. ASSUME ~lost' PROVE Counted(dec, sv)' /\ EndsAt(sv)' /\ Owes(pending, Parts)'
      <3>1. EndsAt(sv) /\ Counted(dec, sv) /\ Parts \subseteq sv.flags /\ dec.usage \subseteq Parts
        BY <1>1, <1>2, <2>1 DEF Told, EndsAt, Decoders
      <3>2. ~Here(sv)
        <4>1. sv.item > Len(message) /\ sv.item \in Nat /\ Len(message) \in Nat
          BY <1>2, <3>1, PositionFields DEF EndsAt
        <4>2. QED
          BY <4>1 DEF Here
      <3>3. dec.usage = Parts
        BY <3>1, <3>2 DEF Counted
      <3>4. Owes(pending, Parts)'
        <4>1. pending' # <<>>
          BY <1>3
        <4>2. QED
          BY <1>3, <3>3, <4>1 DEF Owes
      <3>5. Counted(dec', sv')
        BY <1>3, <3>3 DEF Counted
      <3>6. EndsAt(sv')
        BY <1>4, <3>1 DEF EndsAt
      <3>7. Counted(dec, sv)' /\ EndsAt(sv)'
        BY <1>1, <3>5, <3>6, SameDecoder, SamePlaces
      <3>8. QED
        BY <3>4, <3>7
    <2>2. QED
      BY <1>1, <2>1 DEF Told
  <1>14. Lively'
    BY <1>10, <1>11, <1>12, <1>13 DEF Lively
  <1>15. finished' \in BOOLEAN /\ (dec'.final <=> finished' /\ dialect # "anthropic")
    <2>1. dec'.final <=> TRUE
      BY <1>3
    <2>2. QED
      BY <2>1
  <1>16. QED
    BY <1>3, <1>14, <1>15, ReadSteps

(* A chunk of an OpenAI-compatible provider's.                                   *)
LEMMA FromOpenAi ==
  ASSUME StreamInv, Receive, dialect = "openai"
  PROVE  StreamInv'
  <1>1. /\ Reading /\ UNCHANGED <<dialect, message, turnVars, cancelled, lost>> /\ lost \in BOOLEAN
    BY DEF Receive, StreamInv, StreamTypeOK
  <1>2. PICK st \in OpenAiSends : sv' = st.sv /\ ReceiveOpenAi(st.chunk)
    BY DEF Receive, Sends
  <1>3. /\ AnswerShape /\ Stands(sv) /\ sv \in Positions /\ dec \in Decoders /\ blocks \in Seq(Block)
        /\ DecodedOpenAi(dec, sv) /\ Held(blocks, sv, 0)
    BY <1>1, Reads DEF DecodedTo
  <1>4. OpenAiStep(st.chunk, sv') /\ sv' \in Positions
    BY <1>2, <1>3, OpenAiSteps
  <1>5. Stands(sv')
    BY <1>3, <1>4, StaysOpenAi
  <1>6. CASE st.chunk.type # "[DONE]"
    <2>1. dec' = ParseOpenAi(st.chunk, dec).dec /\ pending' = ParseOpenAi(st.chunk, dec).events /\ finished' = finished
      BY <1>2, <1>6 DEF ReceiveOpenAi, Decoded
    <2>2. Follows(dec', pending', sv')
      BY <1>3, <1>4, <1>6, <2>1, ReceivesOpenAi
    <2>3. dec' \in Decoders /\ (dec'.final <=> dec.final) /\ pending' \in Seq(Event)
      BY <2>2 DEF Follows
    <2>4. UNCHANGED <<dialect, message, turnVars, cancelled, lost, finished>>
      BY <1>1, <2>1
    <2>5. QED
      BY <1>1, <1>4, <1>5, <2>2, <2>3, <2>4, Proceeds
  <1>7. CASE st.chunk.type = "[DONE]"
    <2>1. Decoded(FinalizeOpenAi(dec)) /\ finished' = TRUE
      BY <1>2, <1>7 DEF ReceiveOpenAi
    <2>2. /\ ~Here(sv) /\ sv'.item = sv.item /\ sv'.part = sv.part
          /\ sv.flags = {"reason"} \cup Parts /\ sv'.flags = sv.flags \cup {"end"}
      <3>1. Here(sv) => message[sv.item].kind \in BlockKinds
        BY <1>3, Items DEF Here
      <3>2. QED
        BY <1>4, <1>7, <3>1 DEF OpenAiStep, TextHere, ToolHere, BlockKinds
    <2>3. EndsAt(sv)
      BY <1>3, <2>2, PositionFields DEF EndsAt, Here, Stands, StandsOpenAi
    <2>4. Parts \subseteq sv.flags
      BY <2>2
    <2>5. lost' \in BOOLEAN /\ (lost => lost') /\ (~lost' => EndsAt(sv))
      BY <1>1, <2>3
    <2>6. UNCHANGED <<dialect, message, turnVars, cancelled>>
      BY <1>1
    <2>7. QED
      BY <1>1, <1>4, <1>5, <2>1, <2>2, <2>4, <2>5, <2>6, Concludes
  <1>8. QED
    BY <1>6, <1>7

(* A chunk comes through.                                                      *)
LEMMA Receives == StreamInv /\ Receive => StreamInv'
  <1> SUFFICES ASSUME StreamInv, Receive PROVE StreamInv'
    OBVIOUS
  <1>1. dialect \in {"anthropic", "openai", "gemini"}
    BY DialectsAssumption DEF StreamInv, StreamTypeOK
  <1>2. QED
    BY <1>1, FromAnthropic, FromOpenAi, FromGemini

(* Of any provider: a chunk that is sent leads to a position that is one.           *)
LEMMA SendsReach ==
  ASSUME AnswerShape, Stands(sv), NEW st \in Sends
  PROVE  /\ st.sv \in Positions /\ Stands(st.sv)
         /\ dialect = "gemini" => GeminiStep(st.chunk, st.sv)
  <1>1. CASE dialect = "anthropic"
    BY <1>1, AnthropicSteps, StaysAnthropic DEF Sends
  <1>2. CASE dialect = "openai"
    BY <1>2, OpenAiSteps, StaysOpenAi DEF Sends
  <1>3. CASE dialect = "gemini"
    BY <1>3, GeminiSteps, StaysGemini DEF Sends
  <1>4. QED
    BY <1>1, <1>2, <1>3 DEF AnswerShape

(* Of a Gemini answer with a gap the blocks are still bounded by what was sent.     *)
LEMMA BoundedOn ==
  ASSUME AnswerShape, Stands(sv), dialect = "gemini", NEW bs, Bounded(bs, sv),
         NEW c, NEW s \in Positions, GeminiStep(c, s)
  PROVE  sv.item <= s.item /\ Bounded(bs, s)
  <1>1. /\ sv \in Positions /\ sv.item \in Nat /\ sv.part \in 0..2 /\ sv.item > 0
        /\ s.item \in Nat /\ s.part \in 0..2
    BY PositionFields DEF Stands, StandsGemini
  <1>2. \/ s.item = sv.item /\ s.part >= sv.part
        \/ s.item = sv.item + 1
    <2>1. CASE TextHere(sv)
      <3>1. message[sv.item].size \in 0..2
        BY <2>1, Items DEF TextHere, Here
      <3>2. c.n \in 1..(message[sv.item].size - sv.part) /\ Advances(s, c.n, {})
        BY <2>1 DEF GeminiStep, TextHere, ToolHere
      <3>3. QED
        BY <1>1, <3>1, <3>2 DEF Advances
    <2>2. CASE ~TextHere(sv)
      BY <1>1, <2>2 DEF GeminiStep, TextHere
    <2>3. QED
      BY <2>1, <2>2
  <1>3. Whole * (sv.item - 1) + sv.part <= Whole * (s.item - 1) + s.part
    BY <1>1, <1>2 DEF Whole
  <1>4. ASSUME NEW k \in DOMAIN bs PROVE bs[k].size <= Whole * (s.item - 1) + s.part
    <2>1. bs \in Seq(Block) /\ bs[k] \in Block
      BY DEF Bounded
    <2>2. bs[k].size \in Nat
      BY <2>1, BlockFields, ItemsAssumption
    <2>3. bs[k].size <= Whole * (sv.item - 1) + sv.part
      BY DEF Bounded
    <2>4. QED
      BY <1>1, <1>3, <2>2, <2>3 DEF Whole
  <1>5. QED
    BY <1>1, <1>2, <1>4 DEF Bounded

(* A chunk that is not JSON.                                                   *)
LEMMA Garbles == StreamInv /\ Garbled => StreamInv'
  <1> SUFFICES ASSUME StreamInv, Garbled PROVE StreamInv'
    OBVIOUS
  <1>1. /\ Reading /\ Stays /\ UNCHANGED <<dialect, message, turnVars, cancelled>> /\ blocks' = blocks
        /\ dec' = dec /\ finished' = finished /\ lost' = TRUE
        /\ pending' = IF dialect = "gemini" THEN <<>> ELSE <<Error>>
    BY DEF Garbled, Stays, turnVars
  <1>2. PICK st \in Sends : sv' = st.sv
    BY DEF Garbled
  <1>3. /\ AnswerShape /\ Stands(sv) /\ dec \in Decoders
        /\ dialect = "gemini" => dec.minted < sv.item /\ Bounded(blocks, sv)
    BY <1>1, Reads
  <1>4. sv' \in Positions /\ Stands(sv') /\ (dialect = "gemini" => GeminiStep(st.chunk, sv'))
    BY <1>2, <1>3, SendsReach
  <1>5. pending' \in Seq(Event)
    <2>1. Error \in Event
      BY Events, ItemsAssumption DEF Error, Ids
    <2>2. <<Error>> \in Seq(Event) /\ <<>> \in Seq(Event)
      BY <2>1
    <2>3. QED
      BY <1>1, <2>2
  <1>6. ~Intact'
    BY <1>1 DEF Intact, Stays
  <1>7. Bounds'
    <2>1. ASSUME dialect = "gemini"
          PROVE  dec'.minted < sv'.item /\ Len(pending') <= 1 /\ Bounded(After(blocks, pending), sv)'
      <3>1. sv.item <= sv'.item /\ Bounded(blocks, sv')
        BY <1>3, <1>4, <2>1, BoundedOn
      <3>2. dec.minted \in Nat /\ sv.item \in Nat /\ sv'.item \in Nat
        BY <1>3, <1>4, PositionFields, ItemsAssumption DEF Decoders, Ids, Stands
      <3>3. pending' = <<>> /\ Len(pending') = 0
        BY <1>1, <2>1
      <3>4. After(blocks, pending)' = blocks
        BY <1>1, <3>3 DEF After
      <3>5. Bounded(After(blocks, pending), sv)'
        BY <3>1, <3>4 DEF Bounded
      <3>6. QED
        BY <1>1, <1>3, <2>1, <3>1, <3>2, <3>3, <3>5
    <2>2. QED
      BY <1>1, <2>1 DEF Bounds
  <1>8. Told'
    BY <1>1 DEF Told
  <1>9. Lively'
    BY <1>6, <1>7, <1>8 DEF Lively, Gathering
  <1>10. /\ dec' \in Decoders /\ finished' \in BOOLEAN /\ lost' \in BOOLEAN /\ (lost => lost')
         /\ dec'.final <=> finished' /\ dialect # "anthropic"
    <2>1. finished \in BOOLEAN /\ (dec.final <=> finished /\ dialect # "anthropic")
      BY DEF StreamInv, StreamTypeOK
    <2>2. QED
      BY <1>1, <1>3, <2>1
  <1>11. QED
    BY <1>1, <1>4, <1>5, <1>9, <1>10, ReadSteps

(* The stream ends, of any provider.                                            *)
LEMMA Ends == StreamInv /\ StreamEnds => StreamInv'
  <1> SUFFICES ASSUME StreamInv, StreamEnds PROVE StreamInv'
    OBVIOUS
  <1>1. /\ Reading /\ Stays /\ UNCHANGED <<dialect, message, turnVars, cancelled>>
        /\ UNCHANGED <<blocks, usage, sv, dialect>> /\ finished' = TRUE /\ pending = <<>> /\ Len(pending) = 0
    BY DEF StreamEnds, Stays, turnVars, wireVars, Reading
  <1>2. /\ AnswerShape /\ Stands(sv) /\ sv \in Positions /\ dec \in Decoders /\ ~dec.final /\ Told
        /\ blocks \in Seq(Block)
    BY <1>1, Reads
  <1>3. lost' \in BOOLEAN /\ (lost => lost') /\ (~lost' => ~lost /\ SentAll)
    BY DEF StreamEnds, StreamInv, StreamTypeOK
  <1>4. SentAll => EndsAt(sv)
    <2>1. sv.item \in Nat /\ Len(message) \in Nat
      BY <1>2, PositionFields
    <2>2. SentAll => ~Here(sv) /\ sv.item > 0
      BY <1>2, Sendings DEF SentAll
    <2>3. SentAll => sv.item > Len(message)
      BY <2>1, <2>2 DEF Here
    <2>4. QED
      BY <1>2, <2>3 DEF SentAll, EndsAt, AnswerShape
  <1>5. sv' \in Positions /\ Stands(sv') /\ finished' \in BOOLEAN
    BY <1>1, <1>2
  <1>6. CASE dialect = "openai"
    <2>1. Decoded(FinalizeOpenAi(dec)) /\ finished' = TRUE /\ sv' = sv
      BY <1>1, <1>6 DEF StreamEnds
    <2>2. UNCHANGED <<dialect, message, turnVars, cancelled>>
      BY <1>1
    <2>3. ~lost' => EndsAt(sv)
      BY <1>3, <1>4
    <2>4. QED
      BY <1>1, <1>3, <1>5, <1>6, <2>1, <2>2, <2>3, Concludes
  <1>7. CASE dialect = "anthropic"
    <2>1. dec' = dec /\ pending' = pending
      BY <1>1, <1>7 DEF StreamEnds
    <2>2. pending' \in Seq(Event) /\ Lively
      BY <1>1, <2>1 DEF StreamInv, StreamTypeOK, Active, Reading
    <2>3. Intact' <=> Intact
      BY <1>1, <1>7, <2>1 DEF Intact
    <2>4. DecodedTo(dec, sv)' <=> DecodedTo(dec, sv)
      BY <1>1, <2>1, SameDecoder
    <2>5. HeldAfter(blocks, pending, sv)' <=> HeldAfter(blocks, pending, sv)
      BY <1>1, <2>1, SameBlocks
    <2>6. Gathering'
      BY <1>1, <1>7, <2>2, <2>3, <2>5 DEF Gathering, Finalized, Lively
    <2>7. Bounds'
      BY <1>1, <1>7 DEF Bounds
    <2>8. Told'
      <3>1. ASSUME ~lost' PROVE Counted(dec, sv)' /\ EndsAt(sv)' /\ Owes(pending, Parts)'
        <4>1. EndsAt(sv) /\ Counted(dec, sv) /\ Owes(pending, Parts)
          BY <1>2, <1>3, <1>4, <1>7, <3>1 DEF Told
        <4>2. Counted(dec, sv)' /\ EndsAt(sv)'
          BY <1>1, <2>1, <4>1, SameDecoder, SamePlaces
        <4>3. Owes(pending, Parts)'
          BY <1>1, <2>1, <4>1 DEF Owes
        <4>4. QED
          BY <4>2, <4>3
      <3>2. QED
        BY <3>1 DEF Told
    <2>9. Lively'
      BY <2>2, <2>3, <2>4, <2>6, <2>7, <2>8 DEF Lively
    <2>10. dec' \in Decoders /\ (dec'.final <=> finished' /\ dialect # "anthropic")
      <3>1. dec'.final <=> FALSE
        BY <1>2, <2>1
      <3>2. QED
        BY <1>2, <1>7, <2>1, <3>1
    <2>11. UNCHANGED <<dialect, message, turnVars, cancelled>>
      BY <1>1
    <2>12. QED
      BY <1>1, <1>3, <1>5, <2>2, <2>9, <2>10, <2>11, ReadSteps
  <1>8. CASE dialect = "gemini"
    <2>1. dec' = [dec EXCEPT !.final = TRUE] /\ pending' = <<StopWith(dec.usage)>>
      BY <1>2, <1>8 DEF StreamEnds, Decoded, FinalizeGemini, Yields
    <2>2. /\ dec' \in Decoders /\ dec'.final /\ dec'.slots = dec.slots /\ dec'.usage = dec.usage
          /\ dec'.minted = dec.minted /\ dec.usage \in SUBSET Parts
      BY <1>2, <2>1 DEF Decoders
    <2>3. /\ StopWith(dec.usage) \in Event /\ StopWith(dec.usage) # Error
          /\ \A bs : Gathered(bs, StopWith(dec.usage)) = bs
      BY <2>2, Stops
    <2>4. pending' \in Seq(Event) /\ pending' # <<Error>> /\ Len(pending') = 1 /\ pending'[1] = StopWith(dec.usage)
      BY <2>1, <2>3
    <2>5. ~Finalized'
      BY <1>1, <1>8 DEF Finalized
    <2>6. Intact' => DecodedGemini(dec, sv) /\ Held(blocks, sv, 0)
      BY <1>1, <1>3, <1>8, Reads DEF Intact, DecodedTo
    <2>7. DecodedGemini(dec, sv) => DecodedTo(dec, sv)'
      <3>1. DecodedGemini(dec, sv) => DecodedTo(dec', sv')
        BY <1>1, <1>8, <2>2 DEF DecodedTo, DecodedGemini
      <3>2. QED
        BY <1>1, <3>1, SameDecoder
    <2>8. Held(blocks, sv, 0) => HeldAfter(blocks, pending, sv)'
      <3>1. Held(blocks, sv, 0) => HeldAfter(blocks, <<StopWith(dec.usage)>>, sv)
        BY <2>3, HeldByEvents
      <3>2. Held(blocks, sv, 0) => HeldAfter(blocks', pending', sv')
        BY <1>1, <2>1, <3>1
      <3>3. QED
        BY <1>1, <3>2, SameBlocks
    <2>9. Gathering'
      BY <2>5, <2>6, <2>8 DEF Gathering
    <2>10. Bounds'
      <3>1. dec.minted < sv.item /\ Bounded(blocks, sv)
        BY <1>1, <1>8, Reads
      <3>2. After(blocks, pending)' = blocks
        <4>1. After(blocks', pending') = Gathered(blocks, StopWith(dec.usage))
          BY <1>1, <2>4 DEF After
        <4>2. QED
          BY <2>3, <4>1
      <3>3. Bounded(After(blocks, pending), sv)'
        BY <1>1, <3>1, <3>2 DEF Bounded
      <3>4. QED
        BY <1>1, <2>2, <2>4, <3>1, <3>3 DEF Bounds
    <2>11. Told'
      <3>1. ASSUME ~lost' PROVE Counted(dec, sv)' /\ EndsAt(sv)' /\ Owes(pending, Parts)'
        <4>1. EndsAt(sv) /\ Counted(dec, sv)
          BY <1>2, <1>3, <1>4, <3>1 DEF Told
        <4>2. Parts \subseteq sv.flags /\ ~Here(sv)
          <5>1. sv.item \in Nat /\ Len(message) \in Nat
            BY <1>2, PositionFields
          <5>2. QED
            BY <1>8, <4>1, <5>1 DEF EndsAt, Here
        <4>3. dec.usage = Parts
          BY <1>8, <2>2, <4>1, <4>2 DEF Counted
        <4>4. Counted(dec', sv')
          BY <1>1, <1>8, <2>2, <4>3 DEF Counted
        <4>5. Counted(dec, sv)' /\ EndsAt(sv)'
          BY <1>1, <4>1, <4>4, SameDecoder, SamePlaces
        <4>6. Owes(pending, Parts)'
          BY <2>4, <4>3 DEF Owes
        <4>7. QED
          BY <4>5, <4>6
      <3>2. QED
        BY <1>1, <1>8, <3>1 DEF Told
    <2>12. Lively'
      BY <2>6, <2>7, <2>9, <2>10, <2>11 DEF Lively
    <2>13. dec'.final <=> finished' /\ dialect # "anthropic"
      BY <1>1, <1>8, <2>2
    <2>14. UNCHANGED <<dialect, message, turnVars, cancelled>>
      BY <1>1
    <2>15. QED
      BY <1>1, <1>3, <1>5, <2>2, <2>4, <2>12, <2>13, <2>14, ReadSteps
  <1>9. QED
    BY <1>2, <1>6, <1>7, <1>8 DEF AnswerShape

(* The turn takes the next event.                                              *)
LEMMA TakesNext == StreamInv /\ Take => StreamInv'
  <1> SUFFICES ASSUME StreamInv, Take PROVE StreamInv'
    OBVIOUS
  <1> DEFINE hd == Head(pending)
             tl == Tail(pending)
             bs == Gathered(blocks, hd)
  <1>1. /\ Stays /\ UNCHANGED <<sv, dec, finished, outcome, row, runs, billed, compacted, cancelled, lost>>
        /\ outcome = "running" /\ pending # <<>> /\ hd.type # "error"
        /\ pending' = tl /\ blocks' = bs
        /\ usage' = IF hd.type = "stop" THEN hd.usage ELSE usage
    BY DEF Take, Stays, wireVars
  <1>2. /\ AnswerShape /\ Stands(sv) /\ sv \in Positions /\ dec \in Decoders /\ pending \in Seq(Event)
        /\ blocks \in Seq(Block) /\ usage \subseteq Parts
        /\ dec.final <=> finished /\ dialect # "anthropic"
    BY Answered DEF StreamInv, StreamTypeOK, Stands
  <1>3. Lively /\ row = <<>> /\ billed = {} /\ runs = {}
    BY <1>1 DEF StreamInv, Active
  <1>4. /\ Len(pending) \in Nat \ {0} /\ hd = pending[1] /\ hd \in Event
        /\ tl \in Seq(Event) /\ Len(tl) = Len(pending) - 1
        /\ \A k \in 1..Len(tl) : tl[k] = pending[k + 1]
        /\ Len(pending) = 1 => tl = <<>>
    BY <1>1, <1>2, Queue
  <1>5. Error.type = "error" /\ hd # Error /\ pending # <<Error>>
    <2>1. Error.type = "error"
      BY DEF Error, Ev
    <2>2. pending = <<Error>> => pending[1] = Error
      OBVIOUS
    <2>3. QED
      BY <1>1, <1>4, <2>1, <2>2
  <1>6. dialect # "gemini" \/ ~lost => Intact
    BY <1>5 DEF Intact
  <1>7. Intact =>
          /\ bs \in Seq(Block) /\ Beginning(bs)
          /\ IF Finalized THEN Finals(dec, tl, sv) /\ Held(bs, sv, Completed(tl, sv)) ELSE HeldAfter(bs, tl, sv)
    <2> HIDE DEF hd, tl, bs
    <2> SUFFICES ASSUME Intact
                 PROVE  /\ bs \in Seq(Block) /\ Beginning(bs)
                        /\ IF Finalized THEN Finals(dec, tl, sv) /\ Held(bs, sv, Completed(tl, sv))
                           ELSE HeldAfter(bs, tl, sv)
      OBVIOUS
    <2>1. CASE Finalized
      <3>1. Finals(dec, pending, sv) /\ Held(blocks, sv, Completed(pending, sv)) /\ dialect = "openai"
        BY <1>3, <2>1 DEF Lively, Gathering, Finalized
      <3>2. DecodedOpenAi(dec, sv)
        BY <1>3, <3>1 DEF Lively, DecodedTo
      <3>3. Finals(dec, tl, sv) /\ Held(bs, sv, Completed(tl, sv))
        BY <1>1, <1>2, <3>1, <3>2, FinalTakes DEF bs, tl, hd
      <3>4. Completed(tl, sv) \in Int
        BY <1>2, <1>4, <3>2, NamedAre DEF Completed
      <3>5. bs \in Seq(Block)
        BY <3>3 DEF Held
      <3>6. Beginning(bs)
        BY <1>2, <3>3, <3>4, <3>5, HeldBegins
      <3>7. QED
        BY <2>1, <3>3, <3>5, <3>6
    <2>2. CASE ~Finalized
      <3>1. HeldAfter(blocks, pending, sv)
        BY <1>3, <2>2 DEF Lively, Gathering
      <3>2. Held(bs, sv, 0) /\ HeldAfter(bs, tl, sv)
        BY <1>1, <1>2, <3>1, Takes DEF bs, tl, hd
      <3>3. bs \in Seq(Block) /\ 0 \in Int
        BY <3>2 DEF Held
      <3>4. Beginning(bs)
        BY <1>2, <3>2, <3>3, HeldBegins
      <3>5. QED
        BY <2>2, <3>2, <3>3, <3>4
    <2>3. QED
      BY <2>1, <2>2
  <1>8. dialect = "gemini" =>
          dec.minted < sv.item /\ tl = <<>> /\ Len(tl) = 0 /\ bs \in Seq(Block) /\ Bounded(bs, sv)
    <2>1. dialect = "gemini" =>
            dec.minted < sv.item /\ Len(pending) <= 1 /\ Bounded(After(blocks, pending), sv)
      BY <1>3, <1>5 DEF Lively, Bounds
    <2>2. dialect = "gemini" => Len(pending) = 1
      BY <1>4, <2>1
    <2>3. dialect = "gemini" => After(blocks, pending) = bs
      BY <1>4, <2>2 DEF After
    <2>4. dialect = "gemini" => bs \in Seq(Block) /\ Bounded(bs, sv)
      BY <2>1, <2>3 DEF Bounded
    <2>5. QED
      BY <1>4, <2>1, <2>2, <2>4
  <1>9. bs \in Seq(Block)
    BY <1>6, <1>7, <1>8
  <1>10. usage' \subseteq Parts
    BY <1>1, <1>2, <1>4 DEF Event
  <1>11. \A u \in SUBSET Parts : Owes(pending, u) => Owes(pending, u)'
    <2>1. SUFFICES ASSUME NEW u \in SUBSET Parts, Owes(pending, u) PROVE Owes(pending, u)'
      OBVIOUS
    <2>2. pending[Len(pending)] = StopWith(u)
      BY <1>1, <2>1 DEF Owes
    <2>3. CASE Len(pending) = 1
      <3>1. hd = StopWith(u) /\ hd.type = "stop" /\ hd.usage = u
        BY <1>4, <2>2, <2>3, Stops
      <3>2. pending' = <<>> /\ usage' = u
        BY <1>1, <1>4, <2>3, <3>1
      <3>3. QED
        BY <3>2 DEF Owes
    <2>4. CASE Len(pending) # 1
      <3> HIDE DEF tl
      <3>1. Len(tl) \in 1..Len(tl) /\ Len(tl) + 1 = Len(pending)
        BY <1>4, <2>4
      <3>2. tl[Len(tl)] = pending[Len(pending)]
        BY <1>4, <3>1
      <3>3. tl # <<>>
        BY <3>1
      <3>4. QED
        BY <1>1, <2>2, <3>2, <3>3 DEF Owes
    <2>5. QED
      BY <2>3, <2>4
  <1>12. Intact' => dialect # "gemini" \/ ~lost
    BY <1>1 DEF Intact, Stays
  <1>13. Intact' => DecodedTo(dec, sv)'
    BY <1>1, <1>3, <1>6, <1>12, SameDecoder DEF Lively
  <1>14. Gathering'
    <2> HIDE DEF bs, tl
    <2>1. Finals(dec, tl, sv) => Finals(dec, pending, sv)'
      BY <1>1, SameDecoder
    <2>2. Completed(pending, sv)' = Completed(tl, sv)
      BY <1>1, SameDecoder
    <2>3. Held(bs, sv, Completed(tl, sv)) => Held(blocks, sv, Completed(pending, sv))'
      BY <1>1, <2>2, SameBlocks
    <2>4. HeldAfter(bs, tl, sv) => HeldAfter(blocks, pending, sv)'
      BY <1>1, SameBlocks
    <2>5. Finalized' <=> Finalized
      BY <1>1 DEF Finalized, Stays
    <2>6. QED
      BY <1>6, <1>7, <1>12, <2>1, <2>3, <2>4, <2>5 DEF Gathering
  <1>15. Bounds'
    <2> HIDE DEF bs, tl
    <2>1. ASSUME dialect = "gemini"
          PROVE  dec'.minted < sv'.item /\ Len(pending') <= 1 /\ Bounded(After(blocks, pending), sv)'
      <3>1. pending' = <<>> /\ Len(pending') = 0 /\ dec' = dec /\ sv' = sv
        BY <1>1, <1>8, <2>1
      <3>2. After(blocks, pending)' = bs
        BY <1>1, <3>1 DEF After
      <3>3. Bounded(After(blocks, pending), sv)'
        BY <1>8, <2>1, <3>1, <3>2 DEF Bounded
      <3>4. QED
        BY <1>8, <2>1, <3>1, <3>3
    <2>2. QED
      BY <1>1, <2>1 DEF Bounds, Stays
  <1>16. Told'
    <2>1. ASSUME ~lost' PROVE Counted(dec, sv)' /\ (finished' => EndsAt(sv)' /\ Owes(pending, Parts)')
                              /\ (dialect' = "anthropic" /\ EndsAt(sv)' => Owes(pending, Parts)')
      <3>1. Told /\ ~lost
        BY <1>1, <1>3, <2>1 DEF Lively
      <3>2. Counted(dec, sv)' /\ (EndsAt(sv)' <=> EndsAt(sv))
        BY <1>1, <3>1, SameDecoder, SamePlaces DEF Told
      <3>3. Parts \in SUBSET Parts
        OBVIOUS
      <3>4. Owes(pending, Parts) => Owes(pending, Parts)'
        BY <1>11, <3>3
      <3>5. QED
        BY <1>1, <3>1, <3>2, <3>4 DEF Told, Stays
    <2>2. QED
      BY <2>1 DEF Told
  <1>17. Lively'
    BY <1>13, <1>14, <1>15, <1>16 DEF Lively
  <1>18. StreamTypeOK'
    BY <1>1, <1>4, <1>9, <1>10 DEF StreamInv, StreamTypeOK, Stays
  <1>19. Stands(sv)' /\ (dialect' # "gemini" \/ ~lost' => Beginning(blocks)')
    <2>1. Beginning(blocks)' <=> Beginning(bs)
      BY <1>1, SameBlocks
    <2>2. Stands(sv)'
      BY <1>1, <1>2, SamePlaces
    <2>3. QED
      BY <1>1, <1>6, <1>7, <2>1, <2>2 DEF Stays
  <1>20. RowFaithful' /\ RowIsBeginning' /\ ChargedInFull'
    <2>1. message' \in Seq(Item) /\ outcome' # "done" /\ row' = <<>>
      BY <1>1, <1>2, <1>3 DEF Stays, AnswerShape
    <2>2. QED
      BY <2>1, NoRow
  <1>21. dec' \in Decoders /\ (dec'.final <=> finished' /\ dialect' # "anthropic")
    BY <1>1, <1>2 DEF Stays
  <1>22. QED
    BY <1>1, <1>3, <1>17, <1>18, <1>19, <1>20, <1>21 DEF StreamInv

(* A stream that came to its end without a loss: its blocks are the answer, and its *)
(* usage is known.                                                            *)
LEMMA EndsWhole ==
  ASSUME StreamInv, outcome = "running", pending = <<>>, finished, ~lost
  PROVE  usage = Parts /\ (~Truncated => Complete(blocks))
  <1>1. /\ AnswerShape /\ Stands(sv) /\ sv \in Positions /\ dec \in Decoders /\ blocks \in Seq(Block)
        /\ dec.final <=> finished /\ dialect # "anthropic"
    BY Answered DEF StreamInv, StreamTypeOK, Stands
  <1>2. Lively
    BY DEF StreamInv, Active
  <1>3. Len(pending) = 0 /\ pending # <<Error>>
    OBVIOUS
  <1>4. Intact
    BY <1>3 DEF Intact
  <1>5. EndsAt(sv) /\ Owes(pending, Parts)
    BY <1>2 DEF Lively, Told
  <1>6. usage = Parts
    BY <1>5 DEF Owes
  <1>7. sv.item > Len(message)
    BY <1>5 DEF EndsAt
  <1>8. ASSUME ~Truncated PROVE Complete(blocks)
    <2>1. CASE dialect = "openai"
      <3>1. Finalized
        BY <1>1, <2>1 DEF Finalized
      <3>2. Held(blocks, sv, Completed(pending, sv)) /\ DecodedOpenAi(dec, sv)
        BY <1>2, <1>4, <2>1, <3>1 DEF Lively, Gathering, DecodedTo
      <3>3. NamedCalls(sv) \in Nat /\ Number(sv.item) \in Nat
        BY <1>1, <3>2, NamedAre, PositionFields
      <3>4. NamedCalls(sv) >= Number(sv.item)
        BY <3>3 DEF NamedCalls
      <3>5. Completed(pending, sv) \in Int /\ Completed(pending, sv) >= Number(sv.item)
        BY <1>3, <3>3, <3>4 DEF Completed
      <3>6. QED
        BY <1>1, <1>7, <1>8, <3>2, <3>5, HeldWhole
    <2>2. CASE dialect # "openai"
      <3>1. HeldAfter(blocks, pending, sv)
        BY <1>2, <1>4, <2>2 DEF Lively, Gathering, Finalized
      <3>2. Held(blocks, sv, 0) /\ 0 \in Int
        BY <1>3, <3>1 DEF HeldAfter, After
      <3>3. QED
        BY <1>1, <1>7, <1>8, <2>2, <3>2, HeldWhole
    <2>3. QED
      BY <2>1, <2>2
  <1>9. QED
    BY <1>6, <1>8

(* The turn is over.                                                           *)
LEMMA Settles ==
  ASSUME StreamInv, outcome = "running", NEW how \in {"done", "error", "cancelled"}, Settle(how),
         how = "done" => pending = <<>> /\ finished
  PROVE  StreamInv'
  <1>1. /\ Stays /\ UNCHANGED <<sv, dec, pending, finished, blocks, usage, compacted, cancelled, lost>>
        /\ outcome' = how /\ row' = Stored
        /\ billed' = IF blocks # <<>> THEN usage ELSE {}
        /\ runs' = IF how = "done" THEN Callable ELSE {}
    BY DEF Settle, Stays, wireVars
  <1>2. /\ AnswerShape /\ Stands(sv) /\ sv \in Positions /\ dec \in Decoders /\ blocks \in Seq(Block)
        /\ usage \subseteq Parts /\ (dec.final <=> finished /\ dialect # "anthropic")
        /\ dialect # "gemini" \/ ~lost => Beginning(blocks)
    BY Answered DEF StreamInv, StreamTypeOK, Stands
  <1>3. /\ Stored \in Seq(Block) /\ (Stored = <<>> <=> blocks = <<>>) /\ Callable \subseteq Block
        /\ Beginning(blocks) => RowBegins(Stored)
    BY <1>2, Stores
  <1>4. runs' \subseteq Block /\ billed' \subseteq Parts
    BY <1>1, <1>2, <1>3
  <1>5. StreamTypeOK'
    BY <1>1, <1>3, <1>4 DEF StreamInv, StreamTypeOK, Stays
  <1>6. Stands(sv)' /\ (dialect' # "gemini" \/ ~lost' => Beginning(blocks)')
    <2>1. Stands(sv)' /\ (Beginning(blocks)' <=> Beginning(blocks))
      BY <1>1, <1>2, SamePlaces, SameBlocks
    <2>2. QED
      BY <1>1, <1>2, <2>1 DEF Stays
  <1>7. RowIsBeginning'
    <2>1. ASSUME dialect' # "gemini" \/ ~lost' PROVE RowBegins(row')
      BY <1>1, <1>2, <1>3, <2>1 DEF Stays
    <2>2. RowBegins(row') => RowBegins(row)'
      BY <1>1 DEF Stays, RowBegins
    <2>3. QED
      BY <2>1, <2>2 DEF RowIsBeginning, RowBegins
  <1>8. RowFaithful'
    <2>1. ASSUME outcome' = "done", ~lost', ~Truncated'
          PROVE  /\ row' = blocks /\ runs' = {b \in ToSet(blocks) : IsTool(b)}
                 /\ [k \in DOMAIN blocks |-> [kind |-> blocks[k].kind, size |-> blocks[k].size]] = message
                 /\ Complete(blocks)
      <3>1. ~Truncated /\ how = "done" /\ ~lost
        BY <1>1, <2>1 DEF Truncated, Stays
      <3>2. Complete(blocks)
        BY <3>1, EndsWhole
      <3>3. QED
        BY <1>1, <1>2, <3>1, <3>2, StoredWhole
    <2>2. ASSUME outcome' = "done", ~lost', ~Truncated'
          PROVE  /\ [k \in DOMAIN row' |-> [kind |-> row'[k].kind, size |-> row'[k].size]] = message'
                 /\ \A k \in DOMAIN row' : row'[k].signed <=> row'[k].kind = "think" /\ dialect' = "anthropic"
                 /\ \A j, k \in DOMAIN row' : IsTool(row'[j]) /\ IsTool(row'[k]) /\ row'[j].id = row'[k].id => j = k
                 /\ runs' = {b \in ToSet(row') : IsTool(b)}
      <3>1. row' = blocks /\ message' = message /\ dialect' = dialect
        BY <1>1, <2>1, <2>2 DEF Stays
      <3>2. DOMAIN blocks = 1..Len(blocks) /\ Complete(blocks)
        BY <1>2, <2>1, <2>2
      <3>3. \A k \in DOMAIN blocks : blocks[k].signed <=> blocks[k].kind = "think" /\ dialect = "anthropic"
        BY <3>2 DEF Complete
      <3>4. \A j, k \in DOMAIN blocks : IsTool(blocks[j]) /\ IsTool(blocks[k]) /\ blocks[j].id = blocks[k].id => j = k
        BY <3>2 DEF Complete
      <3>5. QED
        BY <2>1, <2>2, <3>1, <3>3, <3>4
    <2>3. QED
      BY <2>2 DEF RowFaithful, IsTool, ToSet
  <1>9. ChargedInFull'
    <2>1. ASSUME outcome' = "done", ~lost', row' # <<>> PROVE billed' = Parts
      <3>1. how = "done" /\ ~lost /\ blocks # <<>>
        BY <1>1, <1>3, <2>1
      <3>2. usage = Parts
        BY <3>1, EndsWhole
      <3>3. QED
        BY <1>1, <3>1, <3>2
    <2>2. QED
      BY <2>1 DEF ChargedInFull
  <1>10. ~Active'
    BY <1>1 DEF Active
  <1>11. dec' \in Decoders /\ (dec'.final <=> finished' /\ dialect' # "anthropic")
    BY <1>1, <1>2 DEF Stays
  <1>12. QED
    BY <1>5, <1>6, <1>7, <1>8, <1>9, <1>10, <1>11 DEF StreamInv

(* Every step of a turn keeps the invariant.                                     *)
LEMMA StreamSteps == StreamInv /\ [StreamNext]_streamVars => StreamInv'
  <1> SUFFICES ASSUME StreamInv, [StreamNext]_streamVars PROVE StreamInv'
    OBVIOUS
  <1>1. CASE Request
    BY <1>1, Requests
  <1>2. CASE Receive
    BY <1>2, Receives
  <1>3. CASE Garbled
    BY <1>3, Garbles
  <1>4. CASE TransportFails
    BY <1>4, TransportBreaks
  <1>5. CASE StreamEnds
    BY <1>5, Ends
  <1>6. CASE Take
    BY <1>6, TakesNext
  <1>7. CASE TakeError
    BY <1>7, Settles DEF TakeError
  <1>8. CASE TakeEnd
    BY <1>8, Settles DEF TakeEnd
  <1>9. CASE SeeAbort
    BY <1>9, Settles DEF SeeAbort
  <1>10. CASE Abort
    BY <1>10, Aborts
  <1>11. CASE UNCHANGED streamVars
    <2>1. /\ Stays /\ UNCHANGED <<sv, dec, pending, finished, blocks, usage, lost>>
          /\ UNCHANGED <<dialect, message, cancelled, outcome, row, runs, billed, compacted>>
      BY <1>11 DEF streamVars, wireVars, decodeVars, turnVars, Stays
    <2>2. StreamTypeOK' /\ RowFaithful' /\ RowIsBeginning' /\ ChargedInFull'
      BY <2>1 DEF StreamInv, StreamTypeOK, RowFaithful, RowIsBeginning, ChargedInFull, Truncated, IsTool
    <2>3. (Stands(sv)' <=> Stands(sv)) /\ (Beginning(blocks)' <=> Beginning(blocks)) /\ (Lively' <=> Lively)
      BY <2>1, Unmoved
    <2>4. Active' <=> Active
      BY <2>1 DEF Active
    <2>5. dec' \in Decoders /\ (dec'.final <=> finished' /\ dialect' # "anthropic")
      BY <2>1 DEF StreamInv
    <2>6. QED
      BY <2>1, <2>2, <2>3, <2>4, <2>5 DEF StreamInv
  <1>12. QED
    BY <1>1, <1>2, <1>3, <1>4, <1>5, <1>6, <1>7, <1>8, <1>9, <1>10, <1>11 DEF StreamNext

(* What is stored of an answer, and what runs, is what the model said, however the  *)
(* provider cut it into chunks and whatever broke it off: the whole of it when it   *)
(* came whole, a beginning of it otherwise (run_session_turn and the decoders).     *)
THEOREM KeptHolds == StreamSpec => []Kept
  <1>1. StreamInit => StreamInv
    BY StreamStarts
  <1>2. StreamInv /\ [StreamNext]_streamVars => StreamInv'
    BY StreamSteps
  <1>3. StreamInv => Kept
    BY DEF StreamInv, Kept
  <1>4. QED
    BY <1>1, <1>2, <1>3, PTL DEF StreamSpec

(* A turn that came to its end is charged for the tokens in and the tokens out       *)
(* (update_usage, finalize, finalize_gemini and the end of run_session_turn).       *)
THEOREM ChargedInFullHolds == StreamSpec => []ChargedInFull
  <1>1. StreamInit => StreamInv
    BY StreamStarts
  <1>2. StreamInv /\ [StreamNext]_streamVars => StreamInv'
    BY StreamSteps
  <1>3. StreamInv => ChargedInFull
    BY DEF StreamInv
  <1>4. QED
    BY <1>1, <1>2, <1>3, PTL DEF StreamSpec
================================================================================
