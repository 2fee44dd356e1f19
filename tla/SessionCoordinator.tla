------------------------- MODULE SessionCoordinator -------------------------
(***************************************************************************)
(* One session of the daemon as crates/core/src/coordinator.rs keeps it:    *)
(* the live entry of the sessions map, the durable inbox rows, the prompts  *)
(* that run_turn admits in three separately locked phases, the drain task   *)
(* that runs one admitted input after another, the router task that parks   *)
(* permission prompts, and abort, eviction, deletion and shutdown.          *)
(*                                                                         *)
(* An input is submitted by one run_turn call and is popped from the queue  *)
(* at most once, so one identity serves the call, the inbox row, the turn   *)
(* that opens with it and the CancellationToken minted for that turn.       *)
(* Rust's `sessions` Mutex is never held across an await: every action is   *)
(* one stretch of code between two awaits, or one database transaction.     *)
(***************************************************************************)
EXTENDS Integers, Sequences, FiniteSets

CONSTANTS
    Inputs,         \* the prompts clients submit
    Steers,         \* those submitted with delivery = "steer"; the rest "queue"
    None,           \* no token, no parked prompt
    MaxBacklog,     \* MAX_BACKLOG
    MaxTurns,       \* app_config.max_turns: provider turns of one activity
    MaxLives,       \* bound: how often the live entry may be built
    MayForce,       \* bound: whether the session may be deleted or shut down
    MayFail         \* bound: whether a turn may fail before it promotes

ASSUME InputsAssumption == IsFiniteSet(Inputs) /\ None \notin Inputs
ASSUME SteersAssumption == Steers \subseteq Inputs
ASSUME BoundsAssumption ==
    /\ MaxBacklog \in Nat
    /\ MaxTurns \in Nat
    /\ MaxLives \in Nat
    /\ MayForce \in BOOLEAN
    /\ MayFail \in BOOLEAN

VARIABLES
    live,       \* is the session in the coordinator's map?
    life,       \* how many entries were built for it so far
    queued,     \* ActiveSession.queued
    active,     \* ActiveSession.active_turn_cancel: the turn whose token it is
    pending,    \* ActiveSession.pending_permission: the turn that asked
    down,       \* shutdown_token

    hasRow,     \* does the session row exist?
    seq,        \* session.seq_counter
    admitted,   \* session_input.admitted_seq, 0 while there is no row
    promoted,   \* session_input.promoted_seq, 0 while NULL

    call,       \* where the run_turn call of an input stands
    turn,       \* where the turn opened by an input stands
    owner,      \* the entry whose orchestrator the turn's drain holds
    rounds,     \* provider turns the activity has begun
    cancelled,  \* the turns whose token is cancelled
    prompt,     \* the oneshot between a turn's Ask and its reply

    \* History, read by properties only.
    opener,     \* the turn that promoted an input
    dropped,    \* inputs taken out of the queue while unpromoted
    failed,     \* inputs whose turn failed before it promoted them
    orphaned,   \* turns that were running when their entry was removed
    before      \* before[i]: calls that had returned Ok when i's began

mapVars  == <<live, life, queued, active, pending, down>>
rowVars  == <<hasRow, seq, admitted, promoted>>
turnVars == <<turn, owner, rounds, cancelled, prompt>>
histVars == <<opener, dropped, failed, orphaned, before>>
vars     == <<mapVars, rowVars, call, turnVars, histVars>>

CallSteps == {"idle", "build", "cap", "admit", "enqueue", "ok", "err"}
Running   == {"begin", "boundary", "fold", "stream", "await", "settle"}
TurnSteps == Running \cup {"none", "done", "dead"}
Oneshot   == {"none", "sent", "parked", "answered", "dropped"}

IsRunning(i) == turn[i] \in Running
IsDead(i)    == turn[i] = "dead"
Elements(s)  == {s[k] : k \in DOMAIN s}
Goto(i, pc)  == turn' = [turn EXCEPT ![i] = pc]

Init ==
    /\ live = FALSE
    /\ life = 0
    /\ queued = <<>>
    /\ active = None
    /\ pending = None
    /\ down = FALSE
    /\ hasRow = TRUE
    /\ seq = 0
    /\ admitted = [i \in Inputs |-> 0]
    /\ promoted = [i \in Inputs |-> 0]
    /\ call = [i \in Inputs |-> "idle"]
    /\ turn = [i \in Inputs |-> "none"]
    /\ owner = [i \in Inputs |-> 0]
    /\ rounds = [i \in Inputs |-> 0]
    /\ cancelled = {}
    /\ prompt = [i \in Inputs |-> "none"]
    /\ opener = [i \in Inputs |-> None]
    /\ dropped = {}
    /\ failed = {}
    /\ orphaned = {}
    /\ before = [i \in Inputs |-> {}]

-----------------------------------------------------------------------------
(* run_turn: get_or_create_session, then three phases with the lock released *)
(* between them.                                                             *)

CallTo(i, pc) == call' = [call EXCEPT ![i] = pc]

(* The client's call: a live entry is found, or the row is looked up. *)
Lookup(i) ==
    /\ call[i] = "idle"
    /\ ~down
    /\ CallTo(i, IF live THEN "cap" ELSE IF hasRow THEN "build" ELSE "err")
    /\ before' = [before EXCEPT ![i] = {j \in Inputs : call[j] = "ok"}]
    /\ UNCHANGED <<mapVars, rowVars, turnVars, opener, dropped, failed, orphaned>>

(* Build, if the map were not looked at again under the lock.                *)
BuildWithoutRecheck(i) ==
    /\ call[i] = "build"
    /\ CallTo(i, "cap")
    /\ live' = TRUE
    /\ life' = life + 1
    /\ queued' = <<>>
    /\ active' = None
    /\ pending' = None
    /\ UNCHANGED <<down, rowVars, turnVars, histVars>>

(* The double-check after the unlocked row lookup: another caller's entry is *)
(* kept, otherwise a fresh one is inserted.                                   *)
Build(i) ==
    /\ call[i] = "build"
    /\ CallTo(i, "cap")
    /\ IF live
         THEN UNCHANGED mapVars
         ELSE /\ live' = TRUE
              /\ life' = life + 1
              /\ queued' = <<>>
              /\ active' = None
              /\ pending' = None
              /\ UNCHANGED down
    /\ UNCHANGED <<rowVars, turnVars, histVars>>

(* Phase 1: the backlog cap, checked before anything is written. *)
CheckCap(i) ==
    /\ call[i] = "cap"
    /\ CallTo(i, IF live /\ (active = None \/ Len(queued) < MaxBacklog)
                   THEN "admit" ELSE "err")
    /\ UNCHANGED <<mapVars, rowVars, turnVars, histVars>>

(* Phase 2: admit_input, one transaction without the lock. *)
Admit(i) ==
    /\ call[i] = "admit"
    /\ IF hasRow
         THEN /\ seq' = seq + 1
              /\ admitted' = [admitted EXCEPT ![i] = seq + 1]
              /\ CallTo(i, "enqueue")
         ELSE /\ CallTo(i, "err")
              /\ UNCHANGED <<seq, admitted>>
    /\ UNCHANGED <<mapVars, hasRow, promoted, turnVars, histVars>>

(* Enqueue, if a new input overtook those already waiting. *)
EnqueueAtFront(i) ==
    /\ call[i] = "enqueue"
    /\ live
    /\ CallTo(i, "ok")
    /\ IF active # None
         THEN /\ queued' = <<i>> \o queued
              /\ UNCHANGED <<active, turn, owner>>
         ELSE /\ active' = i
              /\ Goto(i, "begin")
              /\ owner' = [owner EXCEPT ![i] = life]
              /\ UNCHANGED queued
    /\ UNCHANGED <<live, life, pending, down, rowVars, rounds, cancelled, prompt, histVars>>

(* Phase 3: queue the input, and start a drain iff none owns the slot.       *)
Enqueue(i) ==
    /\ call[i] = "enqueue"
    /\ \/ /\ ~live
          /\ CallTo(i, "err")
          /\ UNCHANGED <<queued, active, turn, owner>>
       \/ /\ live
          /\ active # None
          /\ CallTo(i, "ok")
          /\ queued' = Append(queued, i)
          /\ UNCHANGED <<active, turn, owner>>
       \/ /\ live
          /\ active = None
          /\ CallTo(i, "ok")
          /\ LET first == Head(Append(queued, i)) IN
               /\ queued' = Tail(Append(queued, i))
               /\ active' = first
               /\ Goto(first, "begin")
               /\ owner' = [owner EXCEPT ![first] = life]
    /\ UNCHANGED <<live, life, pending, down, rowVars, rounds, cancelled, prompt, histVars>>

-----------------------------------------------------------------------------
(* run_session_turn, as far as the coordinator can tell its steps apart.     *)

Pending(i) == hasRow /\ admitted[i] # 0 /\ promoted[i] = 0

(* Begin, if an input were promoted without looking whether it is pending.   *)
BeginUnchecked(i) ==
    /\ turn[i] = "begin"
    /\ seq' = seq + 1
    /\ promoted' = [promoted EXCEPT ![i] = seq + 1]
    /\ opener' = [opener EXCEPT ![i] = i]
    /\ Goto(i, "boundary")
    /\ UNCHANGED <<mapVars, hasRow, admitted, call, owner, rounds, cancelled, prompt,
                   dropped, failed, orphaned, before>>

(* The opening input is promoted iff its row is still pending; a steer that  *)
(* was folded into an earlier activity finds nothing to do.                  *)
Begin(i) ==
    /\ turn[i] = "begin"
    /\ IF Pending(i)
         THEN /\ seq' = seq + 1
              /\ promoted' = [promoted EXCEPT ![i] = seq + 1]
              /\ opener' = [opener EXCEPT ![i] = i]
              /\ Goto(i, "boundary")
         ELSE /\ Goto(i, "settle")
              /\ UNCHANGED <<seq, promoted, opener>>
    /\ UNCHANGED <<mapVars, hasRow, admitted, call, owner, rounds, cancelled, prompt,
                   dropped, failed, orphaned, before>>

(* A database error before the promotion commits: the drain only logs it.    *)
BeginFails(i) ==
    /\ MayFail
    /\ turn[i] = "begin"
    /\ Goto(i, "settle")
    /\ failed' = IF Pending(i) THEN failed \cup {i} ELSE failed
    /\ UNCHANGED <<mapVars, rowVars, call, owner, rounds, cancelled, prompt,
                   opener, dropped, orphaned, before>>

(* The head of the provider-turn loop: max_turns, then the abort check.      *)
Boundary(i) ==
    /\ turn[i] = "boundary"
    /\ IF rounds[i] < MaxTurns /\ i \notin cancelled
         THEN /\ rounds' = [rounds EXCEPT ![i] = @ + 1]
              /\ Goto(i, "fold")
         ELSE /\ Goto(i, "settle")
              /\ UNCHANGED rounds
    /\ UNCHANGED <<mapVars, rowVars, call, owner, cancelled, prompt, histVars>>

(* Foldable, if every pending steer were folded, whatever chain it is from.  *)
FoldableFromAnyChain(i) == {s \in Steers : Pending(s)}

(* promote_pending_steers(chain_watermark = admitted[i]).                    *)
Foldable(i) == {s \in Steers : Pending(s) /\ admitted[s] > admitted[i]}

FoldSteers(i) ==
    /\ turn[i] = "fold"
    /\ LET steers == Foldable(i)
           Rank(s) == Cardinality({t \in steers : admitted[t] <= admitted[s]})
       IN /\ seq' = seq + Cardinality(steers)
          /\ promoted' = [s \in Inputs |-> IF s \in steers THEN seq + Rank(s)
                                                           ELSE promoted[s]]
          /\ opener' = [s \in Inputs |-> IF s \in steers THEN i ELSE opener[s]]
    /\ Goto(i, "stream")
    /\ UNCHANGED <<mapVars, hasRow, admitted, call, owner, rounds, cancelled, prompt,
                   dropped, failed, orphaned, before>>

(* No tool call, a stream error, an abort seen by the stream's select, or a  *)
(* write that finds the session row gone.                                    *)
StreamEnds(i) ==
    /\ turn[i] = "stream"
    /\ Goto(i, "settle")
    /\ UNCHANGED <<mapVars, rowVars, call, owner, rounds, cancelled, prompt, histVars>>

(* Tool calls that need no answer have run and their results are stored.     *)
ToolRound(i) ==
    /\ turn[i] = "stream"
    /\ hasRow
    /\ Goto(i, "boundary")
    /\ UNCHANGED <<mapVars, rowVars, call, owner, rounds, cancelled, prompt, histVars>>

RouterAlive(i) == live /\ owner[i] = life

(* PermissionDecision::Ask: the prompt goes to the entry's permission router.*)
Ask(i) ==
    /\ turn[i] = "stream"
    /\ hasRow
    /\ Goto(i, "await")
    /\ prompt' = [prompt EXCEPT ![i] = IF RouterAlive(i) THEN "sent" ELSE "dropped"]
    /\ UNCHANGED <<mapVars, rowVars, call, owner, rounds, cancelled, histVars>>

(* The permission router parks the prompt, without asking whether the turn   *)
(* still waits for it; a prompt it replaces loses its reply channel.         *)
RouterParks(i) ==
    /\ prompt[i] = "sent"
    /\ RouterAlive(i)
    /\ pending' = i
    /\ prompt' = [j \in Inputs |-> IF j = i THEN "parked"
                                   ELSE IF j = pending THEN "dropped" ELSE prompt[j]]
    /\ UNCHANGED <<live, life, queued, active, down, rowVars, call, turn, owner, rounds,
                   cancelled, histVars>>

(* AwaitCancelled, if the wait for a reply could not be interrupted.         *)
AwaitCancelledAfterReply(i) ==
    /\ turn[i] = "await"
    /\ i \in cancelled
    /\ prompt[i] = "answered"
    /\ Goto(i, "settle")
    /\ UNCHANGED <<mapVars, rowVars, call, owner, rounds, cancelled, prompt, histVars>>

(* The select on cancel and the reply is biased: an abort wins.              *)
AwaitCancelled(i) ==
    /\ turn[i] = "await"
    /\ i \in cancelled
    /\ Goto(i, "settle")
    /\ UNCHANGED <<mapVars, rowVars, call, owner, rounds, cancelled, prompt, histVars>>

(* Allowed or denied, the tool call gets a result and the loop goes on; the  *)
(* write of that result fails if the session row is gone.                    *)
AwaitAnswered(i) ==
    /\ turn[i] = "await"
    /\ i \notin cancelled
    /\ prompt[i] \in {"answered", "dropped"}
    /\ prompt' = [prompt EXCEPT ![i] = "none"]
    /\ Goto(i, IF hasRow THEN "boundary" ELSE "settle")
    /\ UNCHANGED <<mapVars, rowVars, call, owner, rounds, cancelled, histVars>>

(* A tool panics, as apply_patch does on a chunk longer than its file, at once *)
(* or when the user has allowed it.  Nothing catches the panic: the drain task *)
(* ends without settling, and the slot of the entry stays taken.             *)
Panics(i) ==
    /\ hasRow
    /\ \/ turn[i] = "stream"
       \/ turn[i] = "await" /\ i \notin cancelled /\ prompt[i] = "answered"
    /\ Goto(i, "dead")
    /\ prompt' = [prompt EXCEPT ![i] = "none"]
    /\ UNCHANGED <<mapVars, rowVars, call, owner, rounds, cancelled, histVars>>

(* Settle, if the slot were cleared without popping the queue.               *)
SettleWithoutPop(i) ==
    /\ turn[i] = "settle"
    /\ active' = IF live THEN None ELSE active
    /\ Goto(i, "done")
    /\ UNCHANGED <<live, life, queued, pending, down, rowVars, call, owner, rounds, cancelled,
                   prompt, histVars>>

(* Settlement: under one lock either the next input takes over the slot or   *)
(* the slot is cleared.  The entry is looked up by session id.               *)
Settle(i) ==
    /\ turn[i] = "settle"
    /\ \/ /\ ~live
          /\ Goto(i, "done")
          /\ UNCHANGED <<queued, active, owner>>
       \/ /\ live
          /\ queued = <<>>
          /\ active' = None
          /\ Goto(i, "done")
          /\ UNCHANGED <<queued, owner>>
       \/ /\ live
          /\ queued # <<>>
          /\ active' = Head(queued)
          /\ queued' = Tail(queued)
          /\ turn' = [turn EXCEPT ![i] = "done", ![Head(queued)] = "begin"]
          /\ owner' = [owner EXCEPT ![Head(queued)] = owner[i]]
    /\ UNCHANGED <<live, life, pending, down, rowVars, call, rounds, cancelled, prompt, histVars>>

-----------------------------------------------------------------------------
(* The other handlers.                                                       *)

Waiting == {i \in Elements(queued) : promoted[i] = 0}

(* Abort, if it took the token out of the slot as shutdown does.             *)
AbortTakesSlot ==
    /\ live
    /\ queued' = <<>>
    /\ active' = None
    /\ dropped' = dropped \cup Waiting
    /\ cancelled' = cancelled \cup ({active} \ {None})
    /\ UNCHANGED <<live, life, pending, down, rowVars, call, turn, owner, rounds,
                   prompt, opener, failed, orphaned, before>>

(* Abort, if it cancelled without looking whether a token is there.          *)
AbortWithoutToken ==
    /\ live
    /\ queued' = <<>>
    /\ dropped' = dropped \cup Waiting
    /\ cancelled' = cancelled \cup {active}
    /\ UNCHANGED <<live, life, active, pending, down, rowVars, call, turn, owner, rounds,
                   prompt, opener, failed, orphaned, before>>

(* abort_turn: the queue goes, the token is cancelled, the slot stays owned. *)
Abort ==
    /\ live
    /\ queued' = <<>>
    /\ dropped' = dropped \cup Waiting
    /\ cancelled' = cancelled \cup ({active} \ {None})
    /\ UNCHANGED <<live, life, active, pending, down, rowVars, call, turn, owner, rounds,
                   prompt, opener, failed, orphaned, before>>

(* reply_permission for the prompt that is parked.                           *)
Reply ==
    /\ live
    /\ pending # None
    /\ pending' = None
    /\ prompt' = [prompt EXCEPT ![pending] = "answered"]
    /\ UNCHANGED <<live, life, queued, active, down, rowVars, call, turn, owner, rounds,
                   cancelled, histVars>>

(* The reaper, and evict_session when set_model changes the provider.        *)
Idle == active = None /\ pending = None /\ queued = <<>>

Evict ==
    /\ life < MaxLives
    /\ live
    /\ Idle
    /\ live' = FALSE
    /\ UNCHANGED <<life, queued, active, pending, down, rowVars, call, turnVars, histVars>>

(* RemoveEntry, if parked reply channels outlived the entry.                 *)
RemoveEntryOnly ==
    /\ live' = FALSE
    /\ queued' = <<>>
    /\ active' = None
    /\ pending' = None
    /\ dropped' = dropped \cup Waiting
    /\ orphaned' = orphaned \cup {i \in Inputs : IsRunning(i)}
    /\ UNCHANGED <<life, call, turn, owner, rounds, prompt, opener, failed, before>>

(* Taking a busy entry out of the map drops its queue and its reply channels.*)
RemoveEntry ==
    /\ live' = FALSE
    /\ queued' = <<>>
    /\ active' = None
    /\ pending' = None
    /\ dropped' = dropped \cup Waiting
    /\ orphaned' = orphaned \cup {i \in Inputs : IsRunning(i)}
    /\ prompt' = [i \in Inputs |-> IF prompt[i] \in {"sent", "parked"}
                                     THEN "dropped" ELSE prompt[i]]
    /\ UNCHANGED <<life, call, turn, owner, rounds, opener, failed, before>>

CancelActive == cancelled' = cancelled \cup ({active} \ {None})

(* Deletion: the rows first, the map entry afterwards under the lock.  The   *)
(* desktop's command calls remove_session, which cancels the active turn; the *)
(* daemon's DELETE route only takes the entry out of the map.                 *)
DeleteRows ==
    /\ MayForce
    /\ hasRow
    /\ live => life < MaxLives
    /\ hasRow' = FALSE
    /\ UNCHANGED <<mapVars, seq, admitted, promoted, call, turnVars, histVars>>

Deleted == ~hasRow /\ live /\ life < MaxLives

RemoveSession ==
    /\ Deleted
    /\ RemoveEntry
    /\ CancelActive
    /\ UNCHANGED <<down, rowVars>>

DeleteRoute ==
    /\ Deleted
    /\ RemoveEntry
    /\ UNCHANGED <<down, cancelled, rowVars>>

Shutdown ==
    /\ MayForce
    /\ ~down
    /\ live => life < MaxLives
    /\ down' = TRUE
    /\ RemoveEntry
    /\ CancelActive
    /\ UNCHANGED rowVars

-----------------------------------------------------------------------------
CallStep(i) == Build(i) \/ CheckCap(i) \/ Admit(i) \/ Enqueue(i)

StreamStep(i) == StreamEnds(i) \/ ToolRound(i) \/ Ask(i)

AwaitStep(i) == AwaitCancelled(i) \/ AwaitAnswered(i)

TurnStep(i) ==
    \/ Begin(i) \/ BeginFails(i)
    \/ Boundary(i) \/ FoldSteers(i)
    \/ StreamStep(i)
    \/ AwaitStep(i)
    \/ Panics(i)
    \/ Settle(i)

Next ==
    \/ \E i \in Inputs : Lookup(i) \/ CallStep(i) \/ TurnStep(i) \/ RouterParks(i)
    \/ Abort \/ Reply \/ Evict
    \/ DeleteRows \/ RemoveSession \/ DeleteRoute \/ Shutdown

(* Every spawned task keeps running, a provider answers and its stream ends,   *)
(* and the lock of the tool registry is got; nothing is assumed of clients: no *)
(* call, reply, abort or eviction ever has to happen.                        *)
Fairness ==
    \A i \in Inputs : /\ WF_vars(CallStep(i))
                      /\ WF_vars(TurnStep(i))
                      /\ WF_vars(RouterParks(i))

Spec     == Init /\ [][Next]_vars
FairSpec == Spec /\ Fairness

-----------------------------------------------------------------------------
(* Properties.                                                               *)

MapTypes ==
    /\ live \in BOOLEAN
    /\ down \in BOOLEAN
    /\ life \in Nat
    /\ queued \in Seq(Inputs)
    /\ active \in Inputs \cup {None}
    /\ pending \in Inputs \cup {None}

RowTypes ==
    /\ hasRow \in BOOLEAN
    /\ seq \in Nat
    /\ admitted \in [Inputs -> Nat]
    /\ promoted \in [Inputs -> Nat]

TaskTypes ==
    /\ call \in [Inputs -> CallSteps]
    /\ turn \in [Inputs -> TurnSteps]
    /\ owner \in [Inputs -> Nat]
    /\ rounds \in [Inputs -> Nat]
    /\ cancelled \subseteq Inputs
    /\ prompt \in [Inputs -> Oneshot]

HistTypes ==
    /\ opener \in [Inputs -> Inputs \cup {None}]
    /\ dropped \subseteq Inputs
    /\ failed \subseteq Inputs
    /\ orphaned \subseteq Inputs
    /\ before \in [Inputs -> SUBSET Inputs]

(* Every variable has its type. *)
TypeOK == MapTypes /\ RowTypes /\ TaskTypes /\ HistTypes

(* "That makes parallel drains ... impossible" (active_turn_cancel): unless   *)
(* an entry was torn out under a running turn, a turn runs only while it owns  *)
(* the live entry's slot, so two turns never run at once, across evictions     *)
(* and rebuilds too.                                                           *)
OneDrain ==
    orphaned = {} => \A i \in Inputs : IsRunning(i) => live /\ active = i

(* "... and stranded queue items impossible": whatever sits in the queue of a *)
(* live entry has a running turn in the slot that will pop it at settlement,   *)
(* unless the turn in the slot is one that a panicking tool has ended.        *)
NoStrandedInput ==
    live /\ queued # <<>> => active # None /\ (IsRunning(active) \/ IsDead(active))

(* The inductive invariant behind both: the slot names a turn that runs, or one *)
(* that a panic has ended; a free slot has an empty queue; what is queued      *)
(* waits, once, for its turn; and no turn exists before its run_turn has        *)
(* returned.                                                                   *)
SlotHasDrain   == live /\ active # None =>
                    active \in Inputs /\ (IsRunning(active) \/ IsDead(active))
FreeSlotNoWork == live /\ active = None => queued = <<>>
QueuedWaits    == \A i \in Elements(queued) : call[i] = "ok" /\ turn[i] = "none"
QueuedOnce     == \A k, l \in DOMAIN queued : queued[k] = queued[l] => k = l
CallBeforeTurn == \A i \in Inputs : call[i] # "ok" => turn[i] = "none"

DrainInv ==
    SlotHasDrain /\ FreeSlotNoWork /\ OneDrain /\ QueuedWaits /\ QueuedOnce /\ CallBeforeTurn

(* Prompts are answered in the order a client saw them accepted: a "queue"    *)
(* input never becomes a message before one whose run_turn had returned Ok    *)
(* when its own run_turn began, aborts, failures and removals aside.          *)
AcceptedOrder ==
    \A i \in Inputs \ Steers : \A j \in before[i] \ (dropped \cup failed \cup orphaned) :
        promoted[i] # 0 => promoted[j] # 0 /\ promoted[j] < promoted[i]

(* Within one activity messages stand in durable admission order, the opening *)
(* input first (promote_pending_steers and its chain_watermark).              *)
ChainInAdmissionOrder ==
    \A i, j \in Inputs :
        /\ opener[i] # None
        /\ opener[i] = opener[j]
        /\ admitted[i] < admitted[j]
        => promoted[i] < promoted[j]

(* "never lost, never double-run": a promoted input is not promoted again,    *)
(* not by its queued copy and not by a later fold.                            *)
PromotedOnce ==
    [][\A i \in Inputs : promoted[i] # 0 => promoted'[i] = promoted[i]]_vars

(* The inbox that clients are promised: the queue, the turn in the slot, and  *)
(* each input's place in the order of promoted_seq.                           *)
Place == [i \in Inputs |-> Cardinality({j \in Inputs : 0 < promoted[j] /\ promoted[j] <= promoted[i]})]

Inbox == INSTANCE SessionInbox WITH inbox <- queued, open <- active, place <- Place

(* The coordinator implements SessionInbox: accepting, handing over, folding, *)
(* aborting, evicting and rebuilding each do one of its steps or none.        *)
ImplementsInbox == Inbox!Spec

(* An aborted turn ends although it may be parked on a permission prompt.     *)
AbortEndsTurn == \A i \in Inputs : i \in cancelled ~> ~IsRunning(i)

(* A turn whose entry was removed ends, also where the DELETE route does not  *)
(* cancel it and it waits for an answer: shutdown's tracker.wait() returns.   *)
RemovalEndsTurn == \A i \in Inputs : i \in orphaned ~> ~IsRunning(i)

AwaitingClient == \E i \in Inputs : turn[i] = "await" /\ prompt[i] = "parked"

(* No accepted input is lost: if no prompt stays unanswered for ever, a       *)
(* run_turn that returned Ok becomes a message, unless an abort or removal     *)
(* dropped it, its turn failed first, the session was deleted, or a tool's      *)
(* panic has ended the drain behind which it is queued.                       *)
Stuck(i) == i \in Elements(queued) /\ active # None /\ IsDead(active)

AcceptedRuns ==
    []<>~AwaitingClient =>
        \A i \in Inputs : call[i] = "ok" ~>
            promoted[i] # 0 \/ i \in dropped \cup failed \/ ~hasRow \/ Stuck(i)

(* What all the rest relies on: the types, the invariant of the drain, and      *)
(* with them at most one drain and nothing stranded in the queue.             *)
Inv == TypeOK /\ DrainInv /\ NoStrandedInput

(* Messages stand in the order that was promised: across activities that of    *)
(* acceptance, within one that of admission.                                  *)
PromptOrder == AcceptedOrder /\ ChainInAdmissionOrder

(* Neither an abort nor a removal leaves a turn behind.                        *)
StoppedTurnsEnd == AbortEndsTurn /\ RemovalEndsTurn
=============================================================================
