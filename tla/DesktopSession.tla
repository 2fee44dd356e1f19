---------------------------- MODULE DesktopSession ----------------------------
(***************************************************************************)
(* The desktop's session store (apps/desktop/src/stores/session.ts) against   *)
(* the coordinator it invokes: switching sessions, attaching to their events, *)
(* switching a session's provider and re-applying a switch that a running     *)
(* turn had deferred.                                                         *)
(*                                                                         *)
(* Every invoke is answered by a task of its own, so two commands of one      *)
(* window interleave at each await.  Only the provider of a model_config      *)
(* matters here.  A generation is a value of subscriptionSeq and names the    *)
(* attempt to attach that minted it.                                          *)
(***************************************************************************)
EXTENDS Integers, FiniteSets

CONSTANTS
    Sessions,
    Providers,
    None,
    Calls,          \* bound: the set_model invocations
    MaxGens,        \* bound: attempts to attach
    MaxLives        \* bound: entries built per session

ASSUME NoneAssumption == None \notin Sessions \cup Providers
ASSUME DesktopBounds == {MaxGens, MaxLives} \subseteq Nat \ {0}

VARIABLES
    row,        \* session.model_config in the database
    entry,      \* entry[s]: provider the live entry was built with, or None
    life,       \* entries built for a session so far
    building,   \* the row a get_or_create_session has read, not yet inserted
    busy,       \* does the entry's slot hold a turn?
    armed,      \* subscribe_forwarders: the generation whose token is in it

    active,     \* sessionStore.activeSession
    config,     \* the model_config the store shows for each session
    streaming,  \* messageStore.isStreaming
    pendingChange,  \* pendingModelChange
    gen,        \* subscriptionSeq
    view,       \* view[g]: how far generation g has come in attaching
    call,       \* call[c]: a set_model invocation

    chosen,     \* history only: the session the user selected last
    picked      \* history only: the providers the user picked for a session

serverVars  == <<row, entry, life, building, busy, armed>>
storeVars   == <<active, config, streaming, pendingChange, gen, view>>
desktopVars == <<serverVars, storeVars, call, chosen, picked>>

Gens  == 1..MaxGens
Views == [pc : {"none", "load", "receive", "arm", "fed", "superseded"},
          session : Sessions \cup {None}, rx : 0..MaxLives]
Invocations ==
    [pc : {"none", "read", "write", "evict", "resolve", "done"},
     session : Sessions \cup {None}, provider : Providers \cup {None},
     old : Providers \cup {None}, changed : BOOLEAN, live : BOOLEAN]
NoView == [pc |-> "none", session |-> None, rx |-> 0]
NoCall == [pc |-> "none", session |-> None, provider |-> None, old |-> None,
           changed |-> FALSE, live |-> FALSE]

DesktopInit ==
    /\ \E p \in Providers :
         /\ row = [s \in Sessions |-> p]
         /\ config = row
         /\ picked = [s \in Sessions |-> {p}]
    /\ entry = [s \in Sessions |-> None]
    /\ life = [s \in Sessions |-> 0]
    /\ building = [s \in Sessions |-> None]
    /\ busy = [s \in Sessions |-> FALSE]
    /\ armed = [s \in Sessions |-> 0]
    /\ active = None
    /\ streaming = FALSE
    /\ pendingChange = None
    /\ gen = 0
    /\ view = [g \in Gens |-> NoView]
    /\ call = [c \in Calls |-> NoCall]
    /\ chosen = None

-----------------------------------------------------------------------------
(* The coordinator.                                                          *)

(* get_or_create_session in its two halves: the row is read with the sessions *)
(* lock released, then the entry built from it is inserted unless there is    *)
(* one by now.                                                                *)
BeginBuild(s) ==
    /\ entry[s] = None
    /\ building[s] = None
    /\ life[s] < MaxLives
    /\ building' = [building EXCEPT ![s] = row[s]]
    /\ UNCHANGED <<row, entry, life, busy, armed, storeVars, call, chosen, picked>>

FinishBuild(s) ==
    /\ building[s] # None
    /\ building' = [building EXCEPT ![s] = None]
    /\ IF entry[s] = None
         THEN /\ entry' = [entry EXCEPT ![s] = building[s]]
              /\ life' = [life EXCEPT ![s] = @ + 1]
         ELSE UNCHANGED <<entry, life>>
    /\ UNCHANGED <<row, busy, armed, storeVars, call, chosen, picked>>

(* The user's prompt takes the slot of the live entry.                        *)
TurnStarts ==
    /\ active # None
    /\ entry[active] # None
    /\ ~busy[active]
    /\ busy' = [busy EXCEPT ![active] = TRUE]
    /\ streaming' = TRUE
    /\ UNCHANGED <<row, entry, life, building, armed, active, config, pendingChange, gen, view,
                   call, chosen, picked>>

TurnSettles(s) ==
    /\ busy[s]
    /\ busy' = [busy EXCEPT ![s] = FALSE]
    /\ UNCHANGED <<row, entry, life, building, armed, storeVars, call, chosen, picked>>

(* set_model: the row is read, the row is written, and a changed provider     *)
(* evicts the entry if it is idle.                                            *)
SetModelReads(c) ==
    /\ call[c].pc = "read"
    /\ call' = [call EXCEPT ![c].pc = "write", ![c].old = row[call[c].session]]
    /\ UNCHANGED <<serverVars, storeVars, chosen, picked>>

SetModelWrites(c) ==
    /\ call[c].pc = "write"
    /\ row' = [row EXCEPT ![call[c].session] = call[c].provider]
    /\ call' = [call EXCEPT ![c].pc =
                    IF call[c].old = call[c].provider THEN "resolve" ELSE "evict",
                            ![c].live = (call[c].old = call[c].provider)]
    /\ UNCHANGED <<entry, life, building, busy, armed, storeVars, chosen, picked>>

EvictSession(c) ==
    /\ call[c].pc = "evict"
    /\ LET s == call[c].session IN
         /\ entry' = [entry EXCEPT ![s] = IF busy[s] THEN @ ELSE None]
         /\ call' = [call EXCEPT ![c].pc = "resolve", ![c].live = ~busy[s]]
    /\ UNCHANGED <<row, life, building, busy, armed, storeVars, chosen, picked>>

-----------------------------------------------------------------------------
(* setActiveSession and the command it invokes.                              *)

(* The part before the first await, from the step that also changes config    *)
(* and pending.                                                               *)
Attach(s) ==
    /\ gen < MaxGens
    /\ active' = s
    /\ gen' = gen + 1
    /\ view' = [view EXCEPT ![gen + 1] = [pc |-> "load", session |-> s, rx |-> 0]]
    /\ streaming' = FALSE

Issue(c, s, p) ==
    call' = [call EXCEPT ![c] = [NoCall EXCEPT !.pc = "read", !.session = s,
                                 !.provider = p, !.changed = (config[s] # p)]]

(* Flush, if the pending change were not keyed by its session.                *)
FlushUnkeyed(s) ==
    IF pendingChange # None /\ s # None
      THEN \E c \in Calls : call[c].pc = "none" /\ Issue(c, s, pendingChange.provider)
      ELSE UNCHANGED call

(* flushPendingModelChange, an effect of isStreaming: setActiveModel again    *)
(* with what was stashed, if it belongs to the active session.                *)
Flush(s) ==
    IF pendingChange # None /\ pendingChange.session = s
      THEN \E c \in Calls : call[c].pc = "none" /\ Issue(c, s, pendingChange.provider)
      ELSE UNCHANGED call

(* The user selects a session; clearing the messages ends the streaming state *)
(* of the one before.                                                         *)
Select(s) ==
    /\ Attach(s)
    /\ chosen' = s
    /\ IF streaming THEN Flush(s) ELSE UNCHANGED call
    /\ UNCHANGED <<serverVars, config, pendingChange, picked>>

(* loadMessages resolves; a newer switch supersedes this one.                 *)
LoadMessages(g) ==
    /\ view[g].pc = "load"
    /\ view' = [view EXCEPT ![g].pc = IF g = gen THEN "receive" ELSE "superseded"]
    /\ UNCHANGED <<serverVars, active, config, streaming, pendingChange, gen, call, chosen, picked>>

(* subscribe_session: a receiver of the live entry's broadcast ...            *)
Receive(g) ==
    /\ view[g].pc = "receive"
    /\ entry[view[g].session] # None
    /\ view' = [view EXCEPT ![g].pc = "arm", ![g].rx = life[view[g].session]]
    /\ UNCHANGED <<serverVars, active, config, streaming, pendingChange, gen, call, chosen, picked>>

(* ... and, after the replay, a forwarder whose token replaces the armed one. *)
Arm(g) ==
    /\ view[g].pc = "arm"
    /\ view' = [view EXCEPT ![g].pc = "fed"]
    /\ armed' = [armed EXCEPT ![view[g].session] = g]
    /\ UNCHANGED <<row, entry, life, building, busy, active, config, streaming, pendingChange, gen,
                   call, chosen, picked>>

(* Events reach the store through the generation's channel.                   *)
Fed(g) == LET s == view[g].session IN
    view[g].pc = "fed" /\ armed[s] = g /\ entry[s] # None /\ view[g].rx = life[s]

DeltaArrives ==
    /\ gen # 0
    /\ Fed(gen)
    /\ busy[active]
    /\ streaming' = TRUE
    /\ UNCHANGED <<serverVars, active, config, pendingChange, gen, view, call, chosen, picked>>

(* A message.completed or error event ends the streaming state, and with it   *)
(* runs the flush.  The slot may still be taken.                              *)
StreamingEnds ==
    /\ streaming
    /\ Fed(gen)
    /\ streaming' = FALSE
    /\ Flush(active)
    /\ UNCHANGED <<serverVars, active, config, pendingChange, gen, view, chosen, picked>>

-----------------------------------------------------------------------------
(* setActiveModel.                                                           *)

(* The user picks a model for the active session.                             *)
Pick(c, p) ==
    /\ active # None
    /\ call[c].pc = "none"
    /\ Issue(c, active, p)
    /\ picked' = [picked EXCEPT ![active] = @ \cup {p}]
    /\ UNCHANGED <<serverVars, storeVars, chosen>>

(* Stash, if the deferred change did not say which session it is for.         *)
StashUnkeyed(c) ==
    /\ call[c].pc = "resolve"
    /\ call' = [call EXCEPT ![c].pc = "done"]
    /\ config' = [config EXCEPT ![call[c].session] = call[c].provider]
    /\ pendingChange' = IF call[c].live THEN None ELSE call[c].provider

(* What the answer changes in the store whichever session is active.          *)
Stash(c) ==
    /\ call[c].pc = "resolve"
    /\ call' = [call EXCEPT ![c].pc = "done"]
    /\ config' = [config EXCEPT ![call[c].session] = call[c].provider]
    /\ pendingChange' = IF call[c].live THEN None
                  ELSE [session |-> call[c].session, provider |-> call[c].provider]

(* Resolve, if the session were attached to again without asking whether it   *)
(* is still the active one.                                                   *)
ResolveUnguarded(c) ==
    /\ Stash(c)
    /\ IF call[c].live /\ call[c].changed
         THEN Attach(call[c].session)
         ELSE UNCHANGED <<active, streaming, gen, view>>
    /\ UNCHANGED <<serverVars, chosen, picked>>

(* The answer arrives: the store is patched, a deferred switch is stashed, and*)
(* a live provider change attaches again, unless the user has moved on.       *)
Resolve(c) ==
    /\ Stash(c)
    /\ IF call[c].live /\ call[c].changed /\ active = call[c].session
         THEN Attach(call[c].session)
         ELSE UNCHANGED <<active, streaming, gen, view>>
    /\ UNCHANGED <<serverVars, chosen, picked>>

DesktopNext ==
    \/ \E s \in Sessions : BeginBuild(s) \/ FinishBuild(s) \/ TurnSettles(s) \/ Select(s)
    \/ TurnStarts \/ DeltaArrives \/ StreamingEnds
    \/ \E c \in Calls :
         \/ SetModelReads(c) \/ SetModelWrites(c) \/ EvictSession(c) \/ Resolve(c)
         \/ \E p \in Providers : Pick(c, p)
    \/ \E g \in Gens : LoadMessages(g) \/ Receive(g) \/ Arm(g)

DesktopSpec == DesktopInit /\ [][DesktopNext]_desktopVars

-----------------------------------------------------------------------------
(* Properties.                                                               *)

(* Type invariant.                                                           *)
DesktopTypeOK ==
    /\ row \in [Sessions -> Providers]
    /\ entry \in [Sessions -> Providers \cup {None}]
    /\ life \in [Sessions -> 0..MaxLives]
    /\ building \in [Sessions -> Providers \cup {None}]
    /\ busy \in [Sessions -> BOOLEAN]
    /\ armed \in [Sessions -> 0..MaxGens]
    /\ active \in Sessions \cup {None}
    /\ config \in [Sessions -> Providers]
    /\ streaming \in BOOLEAN
    /\ pendingChange \in {None} \cup [session : Sessions, provider : Providers]
    /\ gen \in 0..MaxGens
    /\ view \in [Gens -> Views]
    /\ call \in [Calls -> Invocations]
    /\ chosen \in Sessions \cup {None}
    /\ picked \in [Sessions -> SUBSET Providers]

(* A deferred switch is only ever written to the row of the session it was    *)
(* picked for, wherever the user has gone when it is flushed.  The key of     *)
(* pendingModelChange.                                                        *)
NoForeignWrite == \A s \in Sessions : row[s] \in picked[s]

(* The window shows the session the user selected last, however late the      *)
(* answer to an earlier set_model arrives.                                    *)
DisplayFollowsUser == active = chosen

(* A switch of model stays with the session it was picked for.                *)
SwitchStays == DesktopTypeOK /\ NoForeignWrite
===============================================================================
