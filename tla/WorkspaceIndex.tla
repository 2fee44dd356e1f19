--------------------------- MODULE WorkspaceIndex ---------------------------
(***************************************************************************)
(* The symbol index of a workspace: the background scan that fills it, the *)
(* watcher that keeps it up to date and the repository map rendered from   *)
(* it (crates/core indexer.rs, watcher.rs, symbols.rs, repomap.rs and      *)
(* crates/codeintel walk.rs).                                              *)
(*                                                                         *)
(* A file is what its symbols are: 0 is no file, 1 a file without symbols  *)
(* (another language, not UTF-8, unreadable) and n + 1 a source file with n *)
(* symbols.  A path is a directory and a name, and <<d, Whole>> is the      *)
(* directory d itself, which is all a rename of d delivers.                *)
(***************************************************************************)
EXTENDS Naturals, Sequences, FiniteSets, SequencesExt

CONSTANTS
    Dirs, Names,      \* the directories under the root, the file names in one
    Ignored,          \* the names an ignore file lists
    PathOrder,        \* all paths, in the order of their text
    MaxSymbols,       \* symbols in the richest file
    Starts,           \* the situations a behaviour begins in: what is on disk, what
                      \* an earlier process left in the table, whether the scan is
                      \* over, the runners at work, and bounds on what follows
    ChannelSize,      \* the bound of the scan's channel (64)
    Budget,           \* token_budget, and the tokens of a path's line, of a
    HeaderCost, LineCost, MarkerCost   \* symbol's and of an omission marker

Whole == "the directory"

Paths == Dirs \X Names

ASSUME IndexAssumption ==
    /\ Whole \notin Names
    /\ Ignored \subseteq Names
    /\ PathOrder \in Seq(Paths) /\ ToSet(PathOrder) = Paths /\ Len(PathOrder) = Cardinality(Paths)
    /\ MaxSymbols \in Nat \ {0} /\ ChannelSize \in Nat \ {0}
    /\ Budget \in Nat
    /\ HeaderCost \in Nat \ {0} /\ LineCost \in Nat \ {0} /\ MarkerCost \in Nat \ {0}
    /\ \A s \in Starts : /\ s.tree \in [Paths -> 0..MaxSymbols + 1]
                         /\ s.table \in [Paths -> 0..MaxSymbols]
                         /\ s.scanned \in BOOLEAN
                         /\ s.changes \in Nat /\ s.errors \in Nat

VARIABLES
    disk,      \* the files
    index,     \* the symbols table: a file's number of rows
    scan,      \* the producer: its step, the files of its walk yet to be read
               \* and the batches its workers hold for the channel
    channel,   \* the batches on their way to the writer
    events,    \* the paths on their way to the watcher's consumer
    consumer,  \* the consumer: its step, whether it walks a directory, the
               \* paths to do, and the symbols of the one it writes
    changes,   \* bound: changes outside the program yet to come
    errors,    \* bound: statements of the database yet to fail
    orphaned   \* history: paths whose rows nothing is going to correct

indexVars == <<disk, index, scan, channel, events, consumer, changes, errors, orphaned>>

-----------------------------------------------------------------------------
(* Files, walks and rows.                                                  *)

(* SymbolExtractor::extract, as the number of symbols it finds.             *)
Symbols(content) == IF content = 0 THEN 0 ELSE content - 1

(* A scan that is over has written the rows of every file that has symbols. *)
ASSUME ScannedAssumption ==
    \A s \in Starts : s.scanned =>
       \A p \in Paths : p[2] \notin Ignored => Symbols(s.tree[p]) \in {0, s.table[p]}

(* walk: the files under some directories, but those an ignore file lists. *)
Walk(dirs) == {p \in dirs \X (Names \ Ignored) : disk[p] # 0}

Exists(d) == \E n \in Names : disk[<<d, n>>] # 0

(* path = ?1 OR path LIKE ?1/%: the path itself and what lies under it.     *)
Under(p) == IF p[2] = Whole THEN {p[1]} \X Names ELSE {p}

(* remove_under without the LIKE, as remove_file deletes.                   *)
OnlyItself(p) == {p} \cap Paths

(* remove_under deletes those rows and index_file replaces a file's.        *)
RemoveUnder(p) == index' = [q \in Paths |-> IF q \in Under(p) THEN 0 ELSE index[q]]

RemoveExact(p) == index' = [q \in Paths |-> IF q \in OnlyItself(p) THEN 0 ELSE index[q]]

IndexFile(p, n) == index' = [index EXCEPT ![p] = n]

(* A statement may fail; what it was about is then stale until the next change. *)
StatementFails(paths) ==
    /\ errors > 0
    /\ errors' = errors - 1
    /\ orphaned' = orphaned \cup paths
    /\ UNCHANGED index

Succeeds == UNCHANGED <<errors, orphaned>>

-----------------------------------------------------------------------------
(* The world.  Every change is an event for the watcher.  Rows of a file   *)
(* that changes while the scan is under way may be replaced by an older    *)
(* batch of the scan.                                                      *)

Changes(paths) ==
    /\ changes > 0
    /\ changes' = changes - 1
    /\ orphaned' = IF scan.step = "done" THEN orphaned \ paths ELSE orphaned \cup paths
    /\ UNCHANGED <<index, scan, channel, consumer, errors>>

WriteOrDelete ==
    \E p \in Paths, c \in 0..MaxSymbols + 1 :
       /\ c # disk[p]
       /\ disk' = [disk EXCEPT ![p] = c]
       /\ events' = Append(events, p)
       /\ Changes({p})

(* The files of a renamed directory move with it and get no event of their own. *)
RenameDir ==
    \E d, e \in Dirs :
       /\ Exists(d) /\ ~Exists(e)
       /\ disk' = [p \in Paths |-> CASE p[1] = e -> disk[<<d, p[2]>>]
                                     [] p[1] = d -> 0
                                     [] OTHER -> disk[p]]
       /\ events' = events \o <<<<d, Whole>>, <<e, Whole>>>>
       /\ Changes({d, e} \X Names)

-----------------------------------------------------------------------------
(* index_workspace_background: the walk, then the files in parallel, each  *)
(* batch sent through a bounded channel to one writer.                     *)

ScanWalks ==
    /\ scan.step = "start"
    /\ scan' = [scan EXCEPT !.step = "read", !.todo = Walk(Dirs)]
    /\ UNCHANGED <<disk, index, channel, events, consumer, changes, errors, orphaned>>

(* A file without symbols is skipped; so is one that has gone.             *)
ScanReads ==
    /\ scan.step = "read"
    /\ \E p \in scan.todo :
         scan' = [scan EXCEPT !.todo = @ \ {p},
                              !.held = IF Symbols(disk[p]) = 0 THEN @
                                       ELSE @ \cup {[path |-> p, rows |-> Symbols(disk[p])]}]
    /\ UNCHANGED <<disk, index, channel, events, consumer, changes, errors, orphaned>>

(* ScanSends over an unbounded channel.                                    *)
SendsAtOnce ==
    /\ \E b \in scan.held :
         /\ scan' = [scan EXCEPT !.held = @ \ {b}]
         /\ channel' = Append(channel, b)
    /\ UNCHANGED <<disk, index, events, consumer, changes, errors, orphaned>>

(* blocking_send: a worker waits while the channel is full.                *)
ScanSends ==
    /\ Len(channel) < ChannelSize
    /\ \E b \in scan.held :
         /\ scan' = [scan EXCEPT !.held = @ \ {b}]
         /\ channel' = Append(channel, b)
    /\ UNCHANGED <<disk, index, events, consumer, changes, errors, orphaned>>

(* The writer: a batch that cannot be stored is skipped.                   *)
ScanPersists ==
    /\ channel # <<>>
    /\ channel' = Tail(channel)
    /\ LET b == Head(channel) IN
         \/ IndexFile(b.path, b.rows) /\ Succeeds
         \/ StatementFails({b.path})
    /\ UNCHANGED <<disk, scan, events, consumer, changes>>

(* The last sender is dropped and the writer's loop ends.                  *)
ScanEnds ==
    /\ scan.step = "read" /\ scan.todo = {} /\ scan.held = {} /\ channel = <<>>
    /\ scan' = [scan EXCEPT !.step = "done"]
    /\ UNCHANGED <<disk, index, channel, events, consumer, changes, errors, orphaned>>

-----------------------------------------------------------------------------
(* watch_workspace's consumer: reindex_path for each path, in order.       *)

Idle == [step |-> "idle", dir |-> FALSE, todo |-> {}, rows |-> 0]

(* The path is a directory: reindex_dir walks it.  Rows of its files that   *)
(* are no longer there stay.                                               *)
TakeDir ==
    /\ consumer.step = "idle" /\ events # <<>>
    /\ LET p == Head(events) IN
         /\ p[2] = Whole /\ Exists(p[1])
         /\ consumer' = [Idle EXCEPT !.step = "read", !.dir = TRUE, !.todo = Walk({p[1]})]
         /\ orphaned' = orphaned \cup {q \in Under(p) : disk[q] = 0 /\ index[q] # 0}
    /\ events' = Tail(events)
    /\ UNCHANGED <<disk, index, scan, channel, changes, errors>>

(* The path cannot be read: a file or a directory that has gone.           *)
DropsExact(p) == RemoveExact(p)

Drops(p) == RemoveUnder(p)

TakeGone ==
    /\ consumer.step = "idle" /\ events # <<>>
    /\ LET p == Head(events) IN
         /\ IF p[2] = Whole THEN ~Exists(p[1]) ELSE disk[p] = 0
         /\ \/ Drops(p) /\ Succeeds
            \/ StatementFails(Under(p))
    /\ events' = Tail(events)
    /\ UNCHANGED <<disk, scan, channel, consumer, changes>>

(* The path is a file: it is read now and stored in a later step.          *)
TakeFile ==
    /\ consumer.step = "idle" /\ events # <<>>
    /\ LET p == Head(events) IN
         /\ p[2] # Whole /\ disk[p] # 0
         /\ consumer' = [Idle EXCEPT !.step = "write", !.todo = {p}, !.rows = Symbols(disk[p])]
    /\ events' = Tail(events)
    /\ UNCHANGED <<disk, index, scan, channel, changes, errors, orphaned>>

(* A file without symbols loses its rows.                                   *)
ConsumerWrites ==
    /\ consumer.step = "write" /\ ~consumer.dir
    /\ consumer' = Idle
    /\ \E p \in consumer.todo :
         \/ Succeeds /\ IF consumer.rows = 0 THEN RemoveUnder(p) ELSE IndexFile(p, consumer.rows)
         \/ StatementFails({p})
    /\ UNCHANGED <<disk, scan, channel, events, changes>>

(* reindex_dir, one file: a file without symbols is skipped with its rows,  *)
(* and the first failing statement ends the walk.                          *)
WalksFile ==
    /\ consumer.step = "read" /\ consumer.todo # {}
    /\ \E p \in consumer.todo :
         IF Symbols(disk[p]) = 0
           THEN /\ orphaned' = orphaned \cup (IF index[p] # 0 THEN {p} ELSE {})
                /\ consumer' = [consumer EXCEPT !.todo = @ \ {p}]
                /\ UNCHANGED <<index, errors>>
           ELSE \/ /\ IndexFile(p, Symbols(disk[p])) /\ Succeeds
                   /\ consumer' = [consumer EXCEPT !.todo = @ \ {p}]
                \/ StatementFails(consumer.todo) /\ consumer' = Idle
    /\ UNCHANGED <<disk, scan, channel, events, changes>>

WalkEnds ==
    /\ consumer.step = "read" /\ consumer.todo = {}
    /\ consumer' = Idle
    /\ UNCHANGED <<disk, index, scan, channel, events, changes, errors, orphaned>>

-----------------------------------------------------------------------------
(* render: the files by number of symbols, then by path, each cut to what   *)
(* is left of the budget, and one omitted when not even its header fits.   *)

Before(rows, i, j) ==
    LET m == rows[PathOrder[i]]  n == rows[PathOrder[j]] IN m > n \/ (m = n /\ i < j)

Ranked(rows) ==
    LET listed == {i \in DOMAIN PathOrder : rows[PathOrder[i]] # 0}
        ranks  == 1..Cardinality(listed)
        sorted == CHOOSE s \in [ranks -> listed] : \A j, k \in ranks : j < k => Before(rows, s[j], s[k])
    IN  [k \in ranks |-> PathOrder[sorted[k]]]

(* render_file_block: the header, then the lines that fit.                 *)
FileBlock(p, n, room) ==
    LET fit == CHOOSE k \in 0..n : /\ k = 0 \/ HeaderCost + k * LineCost <= room
                                   /\ k = n \/ HeaderCost + (k + 1) * LineCost > room
    IN  [path |-> p, shown |-> fit, cut |-> n - fit]

BlockCost(b) == HeaderCost + b.shown * LineCost + (IF b.cut > 0 THEN MarkerCost ELSE 0)

Blocks == [path : Paths, shown : Nat, cut : Nat]

Cost(map) ==
    LET sum[blocks \in Seq(Blocks)] ==
            IF blocks = <<>> THEN 0 ELSE sum[Front(blocks)] + BlockCost(Last(blocks))
    IN  sum[map.blocks] + (IF map.omitted > 0 THEN MarkerCost ELSE 0)

Remaining(map) == IF map.used >= Budget THEN 0 ELSE Budget - map.used

Emit(rows, map, p) ==
    LET b == FileBlock(p, rows[p], Remaining(map))
    IN  [map EXCEPT !.blocks = Append(@, b), !.used = @ + BlockCost(b)]

(* AddBlock, if a file's header were always worth emitting.                *)
AddBlockAlways(rows, map, p) == Emit(rows, map, p)

(* render's step for one file.                                             *)
AddBlock(rows, map, p) ==
    IF Remaining(map) <= HeaderCost THEN [map EXCEPT !.omitted = @ + 1] ELSE Emit(rows, map, p)

NoMap == [blocks |-> <<>>, used |-> 0, omitted |-> 0]

RepoMap(rows) ==
    LET render[order \in Seq(Paths)] ==
            IF order = <<>> THEN NoMap ELSE AddBlock(rows, render[Front(order)], Last(order))
    IN  render[Ranked(rows)]

-----------------------------------------------------------------------------
IndexInit(start) ==
    /\ disk = start.tree /\ index = start.table
    /\ scan = [step |-> IF start.scanned THEN "done" ELSE "start", todo |-> {}, held |-> {}]
    /\ channel = <<>> /\ events = <<>> /\ consumer = Idle
    /\ changes = start.changes /\ errors = start.errors
    /\ orphaned = {p \in Paths : index[p] # 0 /\ Symbols(disk[p]) = 0}

Scan == ScanWalks \/ ScanReads \/ ScanSends \/ ScanPersists \/ ScanEnds

Consume == TakeDir \/ TakeGone \/ TakeFile \/ ConsumerWrites \/ WalksFile \/ WalkEnds

IndexNext == WriteOrDelete \/ RenameDir \/ Scan \/ Consume

(* No work is under way: the scan is over and every event is handled.      *)
Settled == scan.step = "done" /\ events = <<>> /\ consumer.step = "idle"
=============================================================================
