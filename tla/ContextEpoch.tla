---------------------------- MODULE ContextEpoch ----------------------------
(***************************************************************************)
(* What a session's model is told about its surroundings: at the start of  *)
(* a turn the context sources are loaded and compared with the snapshot of *)
(* the context epoch (crates/core context.rs, orchestrator.rs, db.rs).  An *)
(* epoch's baseline never changes; a changed source is told by a system    *)
(* row, written together with the snapshot under a revision check.         *)
(*                                                                         *)
(* A runner is a process's turn of the session: two processes may share    *)
(* the database, one process runs a session's turns one at a time.         *)
(***************************************************************************)
EXTENDS WorkspaceIndex

CONSTANTS
    Runners,      \* turns of the session that may overlap
    Levels,       \* 1..Levels: the active directory, its parent, ...
    MaxTexts      \* texts an AGENTS.md may have

Sources == {"date", "environment", "instructions", "repomap"}

ASSUME ContextAssumption ==
    /\ Levels \in Nat \ {0} /\ MaxTexts \in Nat \ {0}
    /\ \A s \in Starts : s.open \subseteq Runners /\ s.folds \in Nat

VARIABLES
    world,     \* the date, the directories that hold a .git, the AGENTS.md at
               \* each level (0: none)
    epoch,     \* session_context_epoch's row: whether there is one, its
               \* baseline, its snapshot and its revision
    told,      \* the system rows of the conversation, oldest first
    turn,      \* per runner: its step and what it has read
    folds,     \* bound: compactions yet to come
    lost       \* history: sources the model may have been made to forget

contextVars == <<world, epoch, told, turn, folds, lost>>

allVars == <<indexVars, contextVars>>

-----------------------------------------------------------------------------
(* The sources' values, loads and texts.                                   *)

(* DateSource: the local day, compared as a string, named in full.         *)
Today == world.date

(* EnvironmentSource::load: Git, if either directory holds a .git.         *)
Vcs == world.git \cap {"workspace", "active"} # {}

(* InstructionsSource::load: the nearest AGENTS.md upward, or null (0).     *)
Instructions ==
    LET found == {l \in 1..Levels : world.agents[l] # 0}
    IN  IF found = {} THEN 0
        ELSE world.agents[CHOOSE l \in found : \A k \in found : l <= k]

(* What a set of sources, `of', is known to be.                            *)
Facts == [of : SUBSET Sources, date : Nat, git : BOOLEAN, text : 0..MaxTexts,
          map : [blocks : Seq(Blocks), used : Nat, omitted : Nat]]

Nothing == [of |-> {}, date |-> 0, git |-> FALSE, text |-> 0, map |-> NoMap]

(* All sources' values now; the map is missing when the index cannot be read. *)
Loaded(available) ==
    [of   |-> IF available THEN Sources ELSE Sources \ {"repomap"},
     date |-> Today, git |-> Vcs, text |-> Instructions,
     map  |-> IF available THEN RepoMap(index) ELSE NoMap]

(* compare: whether a source's value differs between two sets of facts.    *)
Differs(s, old, new) ==
    CASE s = "date" -> old.date # new.date
      [] s = "environment" -> old.git # new.git
      [] s = "instructions" -> old.text # new.text
      [] s = "repomap" -> old.map # new.map

(* The facts `old' with the sources `changed' taken from `new'.            *)
Overlay(old, new, changed) ==
    [of   |-> old.of \cup changed,
     date |-> IF "date" \in changed THEN new.date ELSE old.date,
     git  |-> IF "environment" \in changed THEN new.git ELSE old.git,
     text |-> IF "instructions" \in changed THEN new.text ELSE old.text,
     map  |-> IF "repomap" \in changed THEN new.map ELSE old.map]

(* The sources reconcile finds changed, if it passed over new ones.        *)
ChangedKnown(old, new) == {s \in new.of \cap old.of : Differs(s, old, new)}

(* The sources reconcile finds changed: new ones, removed or re-added ones, *)
(* and those whose value differs.                                          *)
Changed(old, new) == {s \in new.of : s \notin old.of \/ Differs(s, old, new)}

(* render_update: that of the environment names only the working directory, *)
(* which does not change; a new source is rendered like a baseline.        *)
Named(s, old) == s # "environment" \/ s \notin old.of

(* The text of an update, as the facts it tells.                           *)
Texts(old, new) == Overlay(Nothing, new, {s \in Changed(old, new) : Named(s, old)})

-----------------------------------------------------------------------------
(* The world, and the conversation being folded into a summary.            *)

WorldChanges ==
    /\ changes > 0
    /\ changes' = changes - 1
    /\ \/ world' = [world EXCEPT !.date = @ + 1]
       \/ \E d \in {"workspace", "active"} :
            world' = [world EXCEPT !.git = IF d \in @ THEN @ \ {d} ELSE @ \cup {d}]
       \/ \E l \in 1..Levels, x \in 0..MaxTexts :
            x # world.agents[l] /\ world' = [world EXCEPT !.agents[l] = x]
    /\ UNCHANGED <<disk, index, scan, channel, events, consumer, errors, orphaned>>
    /\ UNCHANGED <<epoch, told, turn, folds, lost>>

(* build_summary: of each folded row 300 characters stay, and of them all   *)
(* the newest 6000, so anything the rows told may be cut; compact_session   *)
(* keeps nothing of them.                                                  *)
Cuttable(rows) == UNION {f.of : f \in ToSet(rows)}

(* perform_compaction folds the oldest rows; the epoch stays as it is.      *)
Fold ==
    /\ folds > 0 /\ told # <<>>
    /\ folds' = folds - 1
    /\ \E n \in 1..Len(told) :
         /\ told' = SubSeq(told, n + 1, Len(told))
         /\ lost' = lost \cup Cuttable(SubSeq(told, 1, n))
    /\ UNCHANGED <<indexVars, world, epoch, turn>>

-----------------------------------------------------------------------------
(* run_session_turn, step 4, and SystemContextRegistry::reconcile.          *)

Resting == [step |-> "rest", had |-> FALSE, revision |-> 0, now |-> Nothing,
            seen |-> FALSE, snapshot |-> Nothing]

(* The epoch's revision is read before the sources ...                     *)
ReadRevision(r) ==
    /\ turn[r].step = "rest"
    /\ turn' = [turn EXCEPT ![r] = [Resting EXCEPT !.step = "load", !.had = epoch.here,
                                                   !.revision = epoch.revision]]
    /\ UNCHANGED <<indexVars, world, epoch, told, folds, lost>>

(* ... and its snapshot after them.                                        *)
LoadSources(r) ==
    /\ turn[r].step = "load"
    /\ \/ /\ turn' = [turn EXCEPT ![r].step = "compare", ![r].now = Loaded(TRUE)]
          /\ UNCHANGED errors
       \/ /\ errors > 0
          /\ errors' = errors - 1
          /\ turn' = [turn EXCEPT ![r].step = "compare", ![r].now = Loaded(FALSE)]
    /\ UNCHANGED <<disk, index, scan, channel, events, consumer, changes, orphaned>>
    /\ UNCHANGED <<world, epoch, told, folds, lost>>

ReadSnapshot(r) ==
    /\ turn[r].step = "compare"
    /\ turn' = [turn EXCEPT ![r].step = "commit", ![r].seen = epoch.here,
                            ![r].snapshot = epoch.snapshot]
    /\ UNCHANGED <<indexVars, world, epoch, told, folds, lost>>

(* InsertEpoch without the conflict clause: a later insert would win.      *)
InsertOver(t) ==
    /\ epoch' = [here |-> TRUE, baseline |-> t.now, snapshot |-> t.now, revision |-> 0]
    /\ UNCHANGED told

(* insert_context_epoch: the first insert wins.                            *)
InsertEpoch(t) ==
    /\ IF epoch.here
         THEN UNCHANGED epoch
         ELSE epoch' = [here |-> TRUE, baseline |-> t.now, snapshot |-> t.now, revision |-> 0]
    /\ UNCHANGED told

(* AdvanceEpoch without the revision check.                                *)
AdvanceBlindly(t) ==
    /\ epoch' = [epoch EXCEPT !.snapshot = Overlay(t.snapshot, t.now, Changed(t.snapshot, t.now)),
                              !.revision = @ + 1]
    /\ told' = Append(told, Texts(t.snapshot, t.now))

(* advance_context_epoch: the row is updated if nobody has done so since.  *)
Unsurpassed(t) == epoch.revision = t.revision

(* append_message and advance_context_epoch, both or neither.              *)
AdvanceEpoch(t) ==
    IF Unsurpassed(t)
      THEN /\ epoch' = [epoch EXCEPT !.snapshot = Overlay(t.snapshot, t.now,
                                                          Changed(t.snapshot, t.now)),
                                     !.revision = @ + 1]
           /\ told' = Append(told, Texts(t.snapshot, t.now))
      ELSE UNCHANGED <<epoch, told>>

(* What reconcile returned is written: a first baseline, an update, or     *)
(* nothing when no source changed or a known one could not be loaded.      *)
Commit(r) ==
    LET t == turn[r] IN
    /\ t.step = "commit"
    /\ turn' = [turn EXCEPT ![r] = Resting]
    /\ CASE ~t.seen -> InsertEpoch(t)
         [] t.seen /\ t.snapshot.of \subseteq t.now.of /\ Changed(t.snapshot, t.now) # {} ->
              AdvanceEpoch(t)
         [] OTHER -> UNCHANGED <<epoch, told>>
    /\ UNCHANGED <<indexVars, world, folds, lost>>

-----------------------------------------------------------------------------
ContextInit ==
    \E start \in Starts :
       /\ IndexInit(start)
       /\ world = [date |-> 0, git |-> {},
                   agents |-> [l \in 1..Levels |-> IF l = Levels THEN 1 ELSE 0]]
       /\ epoch = [here |-> FALSE, baseline |-> Nothing, snapshot |-> Nothing, revision |-> 0]
       /\ told = <<>>
       /\ turn = [r \in Runners |-> IF r \in start.open THEN Resting
                                    ELSE [Resting EXCEPT !.step = "closed"]]
       /\ folds = start.folds /\ lost = {}

Turn(r) == LoadSources(r) \/ ReadSnapshot(r) \/ Commit(r)

ContextNext ==
    \/ IndexNext /\ UNCHANGED contextVars
    \/ WorldChanges \/ Fold
    \/ \E r \in Runners : ReadRevision(r) \/ Turn(r)

ContextSpec == ContextInit /\ [][ContextNext]_allVars

(* The scan's threads and the watcher's task run on, and so does a turn    *)
(* once it has begun.  No fairness makes a user begin one.                 *)
ContextFairSpec ==
    /\ ContextSpec
    /\ WF_allVars(Scan /\ UNCHANGED contextVars)
    /\ WF_allVars(Consume /\ UNCHANGED contextVars)
    /\ \A r \in Runners : WF_allVars(Turn(r))

-----------------------------------------------------------------------------
(* Properties.                                                             *)

ContextTypeOK ==
    /\ disk \in [Paths -> 0..MaxSymbols + 1]
    /\ index \in [Paths -> 0..MaxSymbols]
    /\ scan.step \in {"start", "read", "done"} /\ scan.todo \subseteq Paths
    /\ scan.held \subseteq [path : Paths, rows : 1..MaxSymbols]
    /\ Len(channel) <= ChannelSize
    /\ \A i \in DOMAIN events : events[i] \in Dirs \X (Names \cup {Whole})
    /\ consumer.step \in {"idle", "read", "write"} /\ consumer.todo \subseteq Paths
    /\ changes \in Nat /\ errors \in Nat /\ folds \in Nat
    /\ orphaned \subseteq Paths /\ lost \subseteq Sources
    /\ epoch.here \in BOOLEAN /\ epoch.revision \in Nat
    /\ epoch.baseline \in Facts /\ epoch.snapshot \in Facts
    /\ \A i \in DOMAIN told : told[i] \in Facts
    /\ \A r \in Runners : /\ turn[r].step \in {"closed", "rest", "load", "compare", "commit"}
                          /\ turn[r].now \in Facts /\ turn[r].snapshot \in Facts

(* Once the scan is over and the watcher has handled every event, the      *)
(* table holds each file's present symbols, renamed directories included   *)
(* (watcher.rs:48-76, symbols.rs:71-93); the exceptions are the ignored    *)
(* files, which the scan skips and the watcher does not, and the rows that *)
(* the code leaves behind.                                                 *)
IndexCurrent ==
    Settled => \A p \in Paths \ orphaned :
                  p[2] \notin Ignored => index[p] = Symbols(disk[p])

(* The map never exceeds its token budget by more than two omission        *)
(* markers, whatever is indexed (repomap.rs:54-66, 82-85).                  *)
MapBounded == Cost(RepoMap(index)) <= Budget + 2 * MarkerCost

(* What the model was last told of a source, the baseline first.           *)
Belief(s) ==
    LET telling == {i \in DOMAIN told : s \in told[i].of}
    IN  IF telling # {} THEN told[Max(telling)]
        ELSE IF s \in epoch.baseline.of THEN epoch.baseline ELSE Nothing

(* The model has been told exactly what the snapshot says it has: the      *)
(* system rows and the snapshot never diverge, whichever turns overlap     *)
(* (specs/context_engine.md:92, orchestrator.rs:410-447).  A fold of the   *)
(* conversation is the exception, and so is .git, of which no update tells. *)
Told ==
    epoch.here => \A s \in {"date", "instructions", "repomap"} \ lost :
                     ~Differs(s, Belief(s), epoch.snapshot)

(* The baseline is byte-stable for the life of the epoch, which the        *)
(* provider's prompt cache depends on (specs/context_engine.md:127,        *)
(* db.rs:414-415).                                                         *)
BaselineStable == [][epoch.here => epoch'.baseline = epoch.baseline]_allVars

(* Every source is known to the epoch as it is now.                        *)
UpToDate ==
    LET now == Loaded(TRUE)
    IN  epoch.here /\ epoch.snapshot.of = Sources /\ \A s \in Sources : ~Differs(s, epoch.snapshot, now)

(* In a session that goes on being prompted, a change of any source, a      *)
(* file's symbols reaching the map included, is told in the end, whatever   *)
(* failed to load in between (context.rs:485-488, :507-523).               *)
EventuallyTold ==
    (\E r \in Runners : []<>(turn[r].step = "commit")) => <>[]UpToDate

(* The epoch's record of what the model was told is true.                  *)
RecordTrue == ContextTypeOK /\ Told
=============================================================================
