------------------------------ MODULE Checkpoints ------------------------------
(***************************************************************************)
(* The snapshots of one session's workspace (checkpoint.rs) and what takes     *)
(* and restores them: the turn around its steps, revert_session and            *)
(* unrevert_session, with the user and the tools editing files meanwhile.      *)
(*                                                                         *)
(* Every engine brings a lock of its own, so operations of two engines on one  *)
(* shadow directory interleave file by file.  A tree is a function from files  *)
(* to contents.  Ignored files are never staged, nor restored, nor removed,    *)
(* and are left out.  A restore looks at a file and removes it in two steps; a *)
(* file that outgrows the limit between a snapshot's look at it and its reading *)
(* is left out.                                                               *)
(***************************************************************************)
EXTENDS Integers, FiniteSets, FiniteSetsExt

CONSTANTS
    Files,
    Small,      \* contents of up to SNAPSHOT_SIZE_LIMIT bytes
    Large,      \* larger contents
    Absent,     \* no such file
    Turn,       \* the session's turn: at most one runs
    Calls,      \* the calls of revert_session and unrevert_session under way at once
    MaxRows,    \* bound: checkpoint rows ever written
    MaxEdits,   \* bound: edits
    MayFail     \* bound: whether a git or database operation may fail

ASSUME ContentsAssumption ==
    /\ Small \cap Large = {}
    /\ Absent \notin Small \cup Large
    /\ Turn \notin Calls
ASSUME BoundsAssumption ==
    MaxRows \in Nat /\ MaxEdits \in Nat /\ MayFail \in BOOLEAN

VARIABLES
    ws,         \* the files of the workspace
    index,      \* the index file of the shadow directory
    rows,       \* the checkpoint table
    pointer,    \* is session.revert set?
    op,         \* what the turn and each call are doing
    taken,      \* the kind of the turn's latest checkpoint
    stored,     \* checkpoint rows written so far
    edits,      \* edits made so far

    \* History, read by properties only.
    before,     \* before[a]: the workspace when a's present operation began
    alone,      \* the operations nothing has interfered with since then
    truth       \* truth[r]: the workspace that row r is a snapshot of, if known

vars == <<ws, index, rows, pointer, op, taken, stored, edits, before, alone, truth>>

Actors    == {Turn} \cup Calls
Workspace == [Files -> Small \cup Large \cup {Absent}]
Tree      == [Files -> Small \cup {Absent}]
Empty     == [f \in Files |-> Absent]
RowIds    == 1..MaxRows
OfTurn    == {"turn_start", "pre_step", "post_step"}
Kinds     == OfTurn \cup {"revert_backup"}
Row       == [id : RowIds, kind : Kinds, tree : Tree]

\* kind: of the row to be stored; target: the checkpoint to restore; tree: the index
\* in memory; todo: files to visit; doomed: the file about to be removed
Idle == [pc |-> "idle", kind |-> "revert_backup", undo |-> FALSE, target |-> Empty,
         row |-> 0, tree |-> Empty, todo |-> {}, doomed |-> {}]
Ops  == [pc : {"idle", "track", "record", "restore", "note", "drop", "clear"},
         kind : Kinds, undo : BOOLEAN, target : Tree, row : 0..MaxRows, tree : Tree,
         todo : SUBSET Files, doomed : SUBSET Files]

Init ==
    /\ ws \in Workspace
    /\ index = Empty
    /\ rows = {}
    /\ pointer = FALSE
    /\ op = [a \in Actors |-> Idle]
    /\ taken = "none"
    /\ stored = 0
    /\ edits = 0
    /\ before = [a \in Actors |-> Empty]
    /\ alone = {}
    /\ truth = [r \in RowIds |-> {}]

-----------------------------------------------------------------------------
Busy        == {a \in Actors : op[a].pc # "idle"}
IsLarge(f)  == ws[f] \in Large
Newest(kinds) == {r \in rows : r.kind \in kinds
                               /\ \A s \in rows : s.kind \in kinds => s.id <= r.id}

\* Begins: a reads the workspace of this moment, and is no longer alone when
\* another operation is under way.
Begins(a) ==
    /\ before' = [before EXCEPT ![a] = ws]
    /\ alone' = IF Busy = {} THEN {a} ELSE {}

Finish(a) ==
    /\ op' = [op EXCEPT ![a] = Idle]
    /\ before' = [before EXCEPT ![a] = Empty]
    /\ alone' = alone \ {a}

(* A tool, the user or another session changes a file.                        *)
Edit(f) ==
    /\ edits < MaxEdits
    /\ edits' = edits + 1
    /\ \E v \in (Small \cup Large \cup {Absent}) \ {ws[f]} : ws' = [ws EXCEPT ![f] = v]
    /\ alone' = {}
    /\ UNCHANGED <<index, rows, pointer, op, taken, stored, before, truth>>

-----------------------------------------------------------------------------
(* track.                                                                    *)

TrackFrom(a, kind, target, row) ==
    op' = [op EXCEPT ![a] = [pc |-> "track", kind |-> kind, undo |-> FALSE, target |-> target,
                             row |-> row, tree |-> index, todo |-> Files, doomed |-> {}]]

Checkpoint(kind) ==
    /\ op[Turn].pc = "idle"
    /\ stored < MaxRows
    /\ Begins(Turn)
    /\ TrackFrom(Turn, kind, Empty, 0)
    /\ UNCHANGED <<ws, index, rows, pointer, taken, stored, edits, truth>>

(* A turn begins with a checkpoint, ...                                       *)
TurnStart == Checkpoint("turn_start")

(* ... each tool that mutates is run behind another ...                       *)
PreStep == taken # "none" /\ Checkpoint("pre_step")

(* ... and before one more, if the run was neither aborted nor in error.      *)
PostStep == taken = "pre_step" /\ Checkpoint("post_step")

(* revert_session: the newest checkpoint that is no backup is chosen first.   *)
Revert(c) ==
    /\ op[c].pc = "idle"
    /\ stored < MaxRows
    /\ \E r \in Newest(OfTurn) : TrackFrom(c, "revert_backup", r.tree, r.id)
    /\ Begins(c)
    /\ UNCHANGED <<ws, index, rows, pointer, taken, stored, edits, truth>>

(* Staged, if the size were not looked at.                                    *)
StagedWhole(a, f) == ws[f]

(* Staged, if files that have gone kept their entry.                          *)
StagedKeepingDeleted(a, f) == IF ws[f] \in Small THEN ws[f] ELSE op[a].tree[f]

(* add_all with should_skip_snapshot: what is too large keeps the entry the    *)
(* index has for it.                                                           *)
Staged(a, f) == IF IsLarge(f) THEN op[a].tree[f] ELSE ws[f]

TrackFile(a) ==
    /\ op[a].pc = "track"
    /\ \E f \in op[a].todo :
         op' = [op EXCEPT ![a].tree[f] = Staged(a, f), ![a].todo = @ \ {f}]
    /\ UNCHANGED <<ws, index, rows, pointer, taken, stored, edits, before, alone, truth>>

(* The index file is replaced, and the tree written from memory.              *)
TrackEnds(a) ==
    /\ op[a].pc = "track"
    /\ op[a].todo = {}
    /\ index' = op[a].tree
    /\ op' = [op EXCEPT ![a].pc = "record"]
    /\ UNCHANGED <<ws, rows, pointer, taken, stored, edits, before, alone, truth>>

BeginRestore(a) ==
    /\ index' = op[a].target
    /\ op' = [op EXCEPT ![a].pc = "restore", ![a].tree = Empty, ![a].todo = Files]

(* An error while a revert stages: it goes on without a backup.               *)
TrackFails(c) ==
    /\ MayFail
    /\ op[c].pc = "track"
    /\ BeginRestore(c)
    /\ alone' = alone \ {c}
    /\ UNCHANGED <<ws, rows, pointer, taken, stored, edits, before, truth>>

Store(a) ==
    /\ stored < MaxRows
    /\ stored' = stored + 1
    /\ rows' = rows \cup {[id |-> stored + 1, kind |-> op[a].kind, tree |-> op[a].tree]}
    /\ truth' = [truth EXCEPT ![stored + 1] = IF a \in alone THEN {before[a]} ELSE {}]

(* create_checkpoint of the turn.                                             *)
Record ==
    /\ op[Turn].pc = "record"
    /\ Store(Turn)
    /\ taken' = op[Turn].kind
    /\ Finish(Turn)
    /\ UNCHANGED <<ws, index, pointer, edits>>

-----------------------------------------------------------------------------
(* revert_session after its snapshot, and unrevert_session.                   *)

(* Backup, if its transaction were never committed.                           *)
BackupUncommitted(c) ==
    /\ op[c].pc = "record"
    /\ BeginRestore(c)
    /\ UNCHANGED <<ws, rows, pointer, taken, stored, edits, before, alone, truth>>

(* The backup row; an error here is dropped.                                  *)
Backup(c) ==
    /\ op[c].pc = "record"
    /\ \/ Store(c) /\ UNCHANGED alone
       \/ MayFail /\ alone' = alone \ {c} /\ UNCHANGED <<rows, stored, truth>>
    /\ BeginRestore(c)
    /\ UNCHANGED <<ws, pointer, taken, edits, before>>

(* Unrevert, if it took the first backup ever made.                           *)
UnrevertOldest(c) ==
    /\ op[c].pc = "idle"
    /\ \E r \in rows :
         /\ r.kind = "revert_backup"
         /\ \A s \in rows : s.kind = "revert_backup" => r.id <= s.id
         /\ index' = r.tree
         /\ op' = [op EXCEPT ![c] = [Idle EXCEPT !.pc = "restore", !.undo = TRUE,
                                     !.target = r.tree, !.row = r.id, !.todo = Files]]
    /\ Begins(c)
    /\ UNCHANGED <<ws, rows, pointer, taken, stored, edits, truth>>

(* unrevert_session restores the newest backup.                               *)
Unrevert(c) ==
    /\ op[c].pc = "idle"
    /\ \E r \in Newest({"revert_backup"}) :
         /\ index' = r.tree
         /\ op' = [op EXCEPT ![c] = [Idle EXCEPT !.pc = "restore", !.undo = TRUE,
                                     !.target = r.tree, !.row = r.id, !.todo = Files]]
    /\ Begins(c)
    /\ UNCHANGED <<ws, rows, pointer, taken, stored, edits, truth>>

(* restore: first the files of the tree are written, whatever stands there ... *)
CheckoutFile(c) ==
    /\ op[c].pc = "restore"
    /\ \E f \in op[c].todo :
         /\ op[c].target[f] # Absent
         /\ ws' = [ws EXCEPT ![f] = op[c].target[f]]
         /\ op' = [op EXCEPT ![c].todo = @ \ {f}]
    /\ UNCHANGED <<index, rows, pointer, taken, stored, edits, before, alone, truth>>

CheckedOut(c) == \A f \in op[c].todo : op[c].target[f] = Absent

(* LooksAt, if the limit on the size were forgotten.                          *)
LooksAtExistence(c) ==
    /\ op[c].pc = "restore"
    /\ CheckedOut(c)
    /\ op[c].doomed = {}
    /\ \E f \in op[c].todo :
         op' = [op EXCEPT ![c].todo = @ \ {f}, ![c].doomed = {g \in {f} : ws[g] # Absent}]
    /\ UNCHANGED <<ws, index, rows, pointer, taken, stored, edits, before, alone, truth>>

(* ... then each other file is looked at: it has to go if a snapshot would have *)
(* captured it, ...                                                           *)
LooksAt(c) ==
    /\ op[c].pc = "restore"
    /\ CheckedOut(c)
    /\ op[c].doomed = {}
    /\ \E f \in op[c].todo :
         op' = [op EXCEPT ![c].todo = @ \ {f}, ![c].doomed = {g \in {f} : ws[g] \in Small}]
    /\ UNCHANGED <<ws, index, rows, pointer, taken, stored, edits, before, alone, truth>>

(* ... and is removed next, whatever it has become since the look.              *)
RemoveFile(c) ==
    /\ op[c].pc = "restore"
    /\ \E f \in op[c].doomed : ws' = [ws EXCEPT ![f] = Absent]
    /\ op' = [op EXCEPT ![c].doomed = {}]
    /\ UNCHANGED <<index, rows, pointer, taken, stored, edits, before, alone, truth>>

RestoreEnds(c) ==
    /\ op[c].pc = "restore"
    /\ op[c].todo = {}
    /\ op[c].doomed = {}
    /\ op' = [op EXCEPT ![c].pc = IF op[c].undo THEN "drop" ELSE "note"]
    /\ UNCHANGED <<ws, index, rows, pointer, taken, stored, edits, before, alone, truth>>

(* The revert pointer, set in one transaction with the note.                  *)
Note(c) ==
    /\ op[c].pc = "note"
    /\ pointer' = TRUE
    /\ Finish(c)
    /\ UNCHANGED <<ws, index, rows, taken, stored, edits, truth>>

(* The used backup goes and the pointer is cleared, in a statement each.      *)
Drop(c) ==
    /\ op[c].pc = "drop"
    /\ rows' = {r \in rows : r.id # op[c].row}
    /\ truth' = [truth EXCEPT ![op[c].row] = {}]
    /\ op' = [op EXCEPT ![c].pc = "clear"]
    /\ UNCHANGED <<ws, index, pointer, taken, stored, edits, before, alone>>

Clear(c) ==
    /\ op[c].pc = "clear"
    /\ pointer' = FALSE
    /\ Finish(c)
    /\ UNCHANGED <<ws, index, rows, taken, stored, edits, truth>>

(* Any other error, an abort of the turn, or the end of the process.          *)
Fails(a) ==
    /\ MayFail
    /\ a \in Busy
    /\ Finish(a)
    /\ UNCHANGED <<ws, index, rows, pointer, taken, stored, edits, truth>>

Next ==
    \/ \E f \in Files : Edit(f)
    \/ TurnStart \/ PreStep \/ PostStep \/ Record
    \/ \E a \in Actors : TrackFile(a) \/ TrackEnds(a) \/ Fails(a)
    \/ \E c \in Calls :
         \/ Revert(c) \/ TrackFails(c) \/ Backup(c) \/ Unrevert(c)
         \/ CheckoutFile(c) \/ LooksAt(c) \/ RemoveFile(c) \/ RestoreEnds(c)
         \/ Note(c) \/ Drop(c) \/ Clear(c)

Spec == Init /\ [][Next]_vars

-----------------------------------------------------------------------------
(* Properties.                                                               *)

(* Type invariant.                                                           *)
TypeOK ==
    /\ ws \in Workspace
    /\ index \in Tree
    /\ rows \subseteq Row
    /\ \A r, s \in rows : r.id = s.id => r = s
    /\ pointer \in BOOLEAN
    /\ op \in [Actors -> Ops]
    /\ taken \in OfTurn \cup {"none"}
    /\ stored \in 0..MaxRows
    /\ edits \in 0..MaxEdits
    /\ before \in [Actors -> Workspace]
    /\ alone \subseteq Actors
    /\ truth \in [RowIds -> SUBSET Workspace]

(* A checkpoint taken while nothing interfered holds every file that was small *)
(* enough, as it was, and none that did not exist, whatever was tracked,        *)
(* restored or cut short in the shadow directory before.                        *)
SnapshotFaithful ==
    \A r \in rows : \A t \in truth[r.id] :
        \A f \in Files : t[f] \notin Large => r.tree[f] = t[f]

(* "reversible via unrevert_session": an unrevert that nothing disturbs brings  *)
(* the workspace back to what it was before the last revert not yet undone,     *)
(* files beyond the limit aside, whatever was edited or checkpointed since.     *)
LastBackup == {r \in rows : r.kind = "revert_backup" /\ \A s \in rows : s.kind = "revert_backup" => s.id <= r.id}
Unreverted(c) == op[c].pc = "drop" /\ c \in alone
TooLarge(w, f) == w[f] \in Large \/ ws[f] \in Large

RoundTrip ==
    \A c \in Calls : Unreverted(c) =>
        \A r \in LastBackup : \A t \in truth[r.id] :
            \A f \in Files : ws[f] = t[f] \/ TooLarge(t, f)

(* A revert that has replaced a file while nothing interfered has stored what    *)
(* was there: the backup is committed before the first file is touched.         *)
BackupFirst ==
    \A c \in Calls :
        /\ c \in alone
        /\ op[c].pc \in {"restore", "note"}
        /\ ~op[c].undo
        /\ ws # before[c]
        => \E r \in rows : r.kind = "revert_backup" /\ \A f \in Files :
               before[c][f] \notin Large => r.tree[f] = before[c][f]

(* What a restore of c that began with before[c] makes of a file.               *)
RestoredAs(c, f) ==
    CASE op[c].target[f] # Absent -> op[c].target[f]
      [] op[c].target[f] = Absent /\ before[c][f] \in Large -> before[c][f]
      [] OTHER -> Absent

(* A restore that nothing disturbed writes every file of its tree, removes what  *)
(* a snapshot would have captured and the tree lacks, and touches nothing else:  *)
(* "restore must NEVER delete ... files > 2 MB".                                *)
RestoreExact ==
    \A c \in alone : op[c].pc \in {"note", "drop"} => \A f \in Files : ws[f] = RestoredAs(c, f)

(* A revert can be undone: first it keeps what it replaces, later unrevert       *)
(* brings that back.                                                           *)
Undoable == TypeOK /\ BackupFirst /\ RoundTrip
================================================================================
