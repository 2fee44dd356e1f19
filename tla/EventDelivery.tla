---------------------------- MODULE EventDelivery ----------------------------
(***************************************************************************)
(* How one session's events reach its clients: the turn's sends into the     *)
(* bounded event channel, the router task that files durable events in the   *)
(* entry's history and broadcasts everything, and the clients that attach,   *)
(* replay and follow.  WebSocket and desktop clients run the same forwarder  *)
(* (watermark, lag recovery); SSE clients run sse_handler.                   *)
(*                                                                         *)
(* A broadcast channel is the log of what was sent on it, a receiver is a    *)
(* position in that log, and it lags when more than RingCap entries of the   *)
(* log lie ahead of it.  Every entry built for the session has its own       *)
(* channels.  The payload of an event is its number.                         *)
(***************************************************************************)
EXTENDS Integers, Sequences, FiniteSets, SequencesExt

CONSTANTS
    Clients,
    RingCap,        \* capacity of the broadcast channel
    HistoryCap,     \* capacity of ActiveSession.history
    ChanCap,        \* capacity of the event mpsc channel
    MaxBatch,       \* tool outputs that share the sequence of their message
    MaxEvents,      \* bound: events sent
    MaxLives        \* bound: entries built

ASSUME CapsAssumption ==
    {RingCap, HistoryCap, ChanCap, MaxBatch, MaxEvents, MaxLives} \subseteq Nat \ {0}

VARIABLES
    live,       \* is the session in the coordinator's map?
    life,       \* the entry built last
    seq,        \* session.seq_counter
    sent,       \* events sent so far
    emit,       \* the durable events the turn is about to send
    chan,       \* the event channel of the live entry
    history,    \* ActiveSession.history
    log,        \* log[l]: what was broadcast on entry l

    via,        \* how a client is connected: a socket's forwarder, or sse_handler
    at,         \* where its connection stands
    rx,         \* the entry whose broadcast it listens to
    pos,        \* how far it has received
    after,      \* the cursor it attached with
    mark,       \* its forwarder's watermark
    got,        \* what its client's store has applied

    trimmed     \* history only: events the history's cap has pushed out

entryVars  == <<live, life, chan, history, log, trimmed>>
turnVars   == <<seq, sent, emit>>
clientVars == <<via, at, rx, pos, after, mark, got>>
vars       == <<entryVars, turnVars, clientVars>>

Lives == 1..MaxLives
Kinds == {"delta", "candidate", "durable"}
Event == [id : 1..MaxEvents, kind : Kinds, seq : 0..MaxEvents]

(* is_durable_event of the coordinator, and the SSE handler's own version.  *)
IsDurable(e)    == e.kind = "durable"
IsSseDurable(e) == e.kind # "delta"

(* A watermark moved past the events of s, or left where it is.              *)
SeqMax(n, s) == Max({n} \cup {s[k].seq : k \in DOMAIN s})

Init ==
    /\ live = FALSE
    /\ life = 0
    /\ seq = 0
    /\ sent = 0
    /\ emit = [seq |-> 0, left |-> 0]
    /\ chan = <<>>
    /\ history = <<>>
    /\ log = [l \in Lives |-> <<>>]
    /\ via = [c \in Clients |-> "socket"]
    /\ at = [c \in Clients |-> "off"]
    /\ rx = [c \in Clients |-> 0]
    /\ pos = [c \in Clients |-> 0]
    /\ after = [c \in Clients |-> 0]
    /\ mark = [c \in Clients |-> 0]
    /\ got = [c \in Clients |-> <<>>]
    /\ trimmed = {}

-----------------------------------------------------------------------------
(* The entry and the turn that runs on it.                                   *)

(* get_or_create_session finds no live entry and inserts a fresh one.        *)
Build ==
    /\ ~live
    /\ life < MaxLives
    /\ live' = TRUE
    /\ life' = life + 1
    /\ UNCHANGED <<chan, history, log, trimmed, turnVars, clientVars>>

(* Eviction or deletion: the router breaks, what it had not routed is gone,   *)
(* and a torn-out turn sends into a channel nobody reads.                     *)
RemoveEntry ==
    /\ live
    /\ live' = FALSE
    /\ chan' = <<>>
    /\ history' = <<>>
    /\ emit' = [seq |-> 0, left |-> 0]
    /\ UNCHANGED <<life, log, trimmed, seq, sent, clientVars>>

(* The turn takes a fresh sequence: for one event, or for a message whose     *)
(* tool outputs all carry it.                                                 *)
Allocate ==
    /\ live
    /\ emit.left = 0
    /\ seq < MaxEvents
    /\ \E k \in 1..MaxBatch :
         /\ sent + k <= MaxEvents
         /\ emit' = [seq |-> seq + 1, left |-> k]
    /\ seq' = seq + 1
    /\ UNCHANGED <<sent, entryVars, clientVars>>

(* next_event_seq falls back to 0 when the database write fails.              *)
AllocateFails ==
    /\ live
    /\ emit.left = 0
    /\ sent < MaxEvents
    /\ emit' = [seq |-> 0, left |-> 1]
    /\ UNCHANGED <<seq, sent, entryVars, clientVars>>

(* event_tx.send().await: a durable event waits for room in the channel.      *)
SendDurable ==
    /\ emit.left > 0
    /\ Len(chan) < ChanCap
    /\ sent' = sent + 1
    /\ chan' = Append(chan, [id |-> sent + 1, kind |-> "durable", seq |-> emit.seq])
    /\ emit' = [emit EXCEPT !.left = @ - 1]
    /\ UNCHANGED <<live, life, history, log, trimmed, seq, clientVars>>

(* emit_delta: try_send, so on a full channel the delta is dropped.           *)
SendEphemeral(kind) ==
    /\ live
    /\ emit.left = 0
    /\ sent < MaxEvents
    /\ sent' = sent + 1
    /\ chan' = IF Len(chan) < ChanCap
                 THEN Append(chan, [id |-> sent + 1, kind |-> kind, seq |-> 0])
                 ELSE chan
    /\ UNCHANGED <<live, life, history, log, trimmed, seq, emit, clientVars>>

(* Route, if every event entered the history.                                 *)
RouteAllToHistory ==
    /\ live
    /\ chan # <<>>
    /\ LET e == Head(chan)
           h == Append(history, e)
       IN /\ history' = IF Len(h) > HistoryCap THEN Tail(h) ELSE h
          /\ trimmed' = IF Len(h) > HistoryCap /\ IsDurable(Head(h))
                          THEN trimmed \cup {Head(h).id} ELSE trimmed
          /\ log' = [log EXCEPT ![life] = Append(@, e)]
    /\ chan' = Tail(chan)
    /\ UNCHANGED <<live, life, turnVars, clientVars>>

(* The router task: filed and broadcast under one lock.                       *)
Route ==
    /\ live
    /\ chan # <<>>
    /\ LET e == Head(chan)
           h == IF IsDurable(e) THEN Append(history, e) ELSE history
           full == Len(h) > HistoryCap
       IN /\ history' = IF full THEN Tail(h) ELSE h
          /\ trimmed' = IF full THEN trimmed \cup {Head(h).id} ELSE trimmed
          /\ log' = [log EXCEPT ![life] = Append(@, e)]
    /\ chan' = Tail(chan)
    /\ UNCHANGED <<live, life, turnVars, clientVars>>

-----------------------------------------------------------------------------
(* A connection.                                                             *)

Goto(c, pc)   == at' = [at EXCEPT ![c] = pc]
Apply(c, s)   == got' = [got EXCEPT ![c] = @ \o s]
(* durable_after, and the filter of get_history: the events of the history    *)
(* past n, in its order.                                                     *)
Nth(S, j) == CHOOSE k \in S : Cardinality({m \in S : m <= k}) = j

DurableAfter(n) ==
    LET past == {k \in DOMAIN history : history[k].seq > n}
    IN  [j \in 1..Cardinality(past) |-> history[Nth(past, j)]]

(* The receiver is created before the history is read.  The client comes with *)
(* an empty store and cursor 0, or again with what it has and the cursor of    *)
(* that.                                                                      *)
Subscribe(c) ==
    /\ live
    /\ at[c] = "off"
    /\ Goto(c, "subscribed")
    /\ rx' = [rx EXCEPT ![c] = life]
    /\ pos' = [pos EXCEPT ![c] = Len(log[life])]
    /\ \/ /\ \E kind \in {"socket", "sse"} : via' = [via EXCEPT ![c] = kind]
          /\ got' = [got EXCEPT ![c] = <<>>]
          /\ after' = [after EXCEPT ![c] = 0]
       \/ /\ got[c] # <<>>
          /\ after' = [after EXCEPT ![c] = SeqMax(0, got[c])]
          /\ UNCHANGED <<got, via>>
    /\ UNCHANGED <<entryVars, turnVars, mark>>

(* Replay, if the watermark stayed at the cursor the client came with.        *)
ReplayKeepsCursor(c) ==
    /\ live
    /\ at[c] = "subscribed"
    /\ Goto(c, "live")
    /\ Apply(c, DurableAfter(after[c]))
    /\ mark' = [mark EXCEPT ![c] = after[c]]
    /\ UNCHANGED <<entryVars, turnVars, via, rx, pos, after>>

(* get_history of whichever entry is live now.                                *)
Replay(c) ==
    /\ live
    /\ at[c] = "subscribed"
    /\ Goto(c, "live")
    /\ Apply(c, DurableAfter(after[c]))
    /\ mark' = [mark EXCEPT ![c] = SeqMax(after[c], DurableAfter(after[c]))]
    /\ UNCHANGED <<entryVars, turnVars, via, rx, pos, after>>

(* The entry went away between get_history's lookup and its read: the socket  *)
(* goes on without a replay, the SSE request fails.                           *)
ReplayFails(c) ==
    /\ ~live
    /\ at[c] = "subscribed"
    /\ Goto(c, IF via[c] = "sse" THEN "off" ELSE "live")
    /\ mark' = [mark EXCEPT ![c] = after[c]]
    /\ UNCHANGED <<entryVars, turnVars, via, rx, pos, after, got>>

Ahead(c)     == Len(log[rx[c]]) - pos[c]
Next1(c)     == log[rx[c]][pos[c] + 1]
SenderGone(c) == ~live \/ rx[c] # life

ShouldForward(c, e) == e.seq = 0 \/ e.seq > mark[c]

(* The forwarder's Ok arm: a durable event at or below the watermark has been *)
(* delivered already.                                                         *)
Forward(c) ==
    /\ via[c] = "socket"
    /\ at[c] = "live"
    /\ Ahead(c) \in 1..RingCap
    /\ pos' = [pos EXCEPT ![c] = @ + 1]
    /\ IF ShouldForward(c, Next1(c))
         THEN /\ mark' = [mark EXCEPT ![c] = SeqMax(@, <<Next1(c)>>)]
              /\ Apply(c, <<Next1(c)>>)
         ELSE UNCHANGED <<mark, got>>
    /\ UNCHANGED <<entryVars, turnVars, via, at, rx, after>>

(* Lag, if the forwarder just went on with the oldest event still retained.   *)
LagIgnored(c) ==
    /\ at[c] = "live"
    /\ Ahead(c) > RingCap
    /\ pos' = [pos EXCEPT ![c] = Len(log[rx[c]]) - RingCap]
    /\ UNCHANGED <<entryVars, turnVars, via, at, rx, after, mark, got>>

(* RecvError::Lagged: the receiver skips to the oldest event retained.  The   *)
(* forwarder goes on to recover what it missed, the SSE stream ends.          *)
Lag(c) ==
    /\ at[c] = "live"
    /\ Ahead(c) > RingCap
    /\ pos' = [pos EXCEPT ![c] = Len(log[rx[c]]) - RingCap]
    /\ Goto(c, IF via[c] = "sse" THEN "off" ELSE "lagged")
    /\ UNCHANGED <<entryVars, turnVars, via, rx, after, mark, got>>

(* Recover, if it replayed from the cursor the client attached with.          *)
RecoverFromCursor(c) ==
    /\ at[c] = "lagged"
    /\ Goto(c, "live")
    /\ LET missed == IF live THEN DurableAfter(after[c]) ELSE <<>> IN
         /\ Apply(c, missed)
         /\ mark' = [mark EXCEPT ![c] = SeqMax(@, missed)]
    /\ UNCHANGED <<entryVars, turnVars, via, rx, pos, after>>

(* Lag recovery, from the history of the entry found under the session's id. *)
Recover(c) ==
    /\ at[c] = "lagged"
    /\ Goto(c, "live")
    /\ LET missed == IF live THEN DurableAfter(mark[c]) ELSE <<>> IN
         /\ Apply(c, missed)
         /\ mark' = [mark EXCEPT ![c] = SeqMax(@, missed)]
    /\ UNCHANGED <<entryVars, turnVars, via, rx, pos, after>>

(* RecvError::Closed, after what was still buffered: the forwarder ends and   *)
(* the socket stays open; an SSE stream ends.                                 *)
Closed(c) ==
    /\ at[c] = "live"
    /\ Ahead(c) = 0
    /\ SenderGone(c)
    /\ Goto(c, IF via[c] = "sse" THEN "off" ELSE "deaf")
    /\ UNCHANGED <<entryVars, turnVars, via, rx, pos, after, mark, got>>

(* sse_handler's stream: no watermark, and its own idea of what is durable.   *)
SseNext(c) ==
    /\ via[c] = "sse"
    /\ at[c] = "live"
    /\ Ahead(c) \in 1..RingCap
    /\ pos' = [pos EXCEPT ![c] = @ + 1]
    /\ Apply(c, IF IsSseDurable(Next1(c)) THEN <<Next1(c)>> ELSE <<>>)
    /\ UNCHANGED <<entryVars, turnVars, via, at, rx, after, mark>>

(* The connection breaks; a suffix of what was written to it may be lost.     *)
Disconnect(c) ==
    /\ at[c] # "off"
    /\ Goto(c, "off")
    /\ \E n \in 0..Len(got[c]) : got' = [got EXCEPT ![c] = SubSeq(@, 1, n)]
    /\ UNCHANGED <<entryVars, turnVars, via, rx, pos, after, mark>>

Ephemeral == \E kind \in Kinds \ {"durable"} : SendEphemeral(kind)

Next ==
    \/ Build \/ RemoveEntry
    \/ Allocate \/ AllocateFails \/ SendDurable \/ Ephemeral \/ Route
    \/ \E c \in Clients :
         \/ Subscribe(c) \/ Replay(c) \/ ReplayFails(c)
         \/ Forward(c) \/ Lag(c) \/ Recover(c) \/ Closed(c) \/ SseNext(c)
         \/ Disconnect(c)

Spec == Init /\ [][Next]_vars

(* The tasks of the daemon run: the router, and the forwarder of a socket     *)
(* whose client keeps reading.  Nothing is assumed of clients and the turn.   *)
Fairness ==
    /\ WF_vars(Route)
    /\ \A c \in Clients :
         WF_vars(Forward(c) \/ Lag(c) \/ Recover(c))

FairSpec == Spec /\ Fairness

-----------------------------------------------------------------------------
(* Properties.                                                               *)

(* Type invariant.                                                           *)
TypeOK ==
    /\ live \in BOOLEAN
    /\ life \in 0..MaxLives
    /\ seq \in 0..MaxEvents
    /\ sent \in 0..MaxEvents
    /\ emit \in [seq : 0..MaxEvents, left : 0..MaxBatch]
    /\ chan \in Seq(Event) /\ Len(chan) <= ChanCap
    /\ history \in Seq({e \in Event : IsDurable(e)}) /\ Len(history) <= HistoryCap
    /\ log \in [Lives -> Seq(Event)]
    /\ via \in [Clients -> {"socket", "sse"}]
    /\ at \in [Clients -> {"off", "subscribed", "live", "lagged", "deaf"}]
    /\ rx \in [Clients -> 0..MaxLives]
    /\ pos \in [Clients -> 0..MaxEvents]
    /\ after \in [Clients -> 0..MaxEvents]
    /\ mark \in [Clients -> 0..MaxEvents]
    /\ got \in [Clients -> Seq(Event)]
    /\ trimmed \subseteq 1..MaxEvents

Forwarded == {c \in Clients : via[c] = "socket"}
Sequenced(e) == IsDurable(e) /\ e.seq > 0
AppliedOnce(c) == \A j, k \in DOMAIN got[c] : got[c][j].id = got[c][k].id => j = k

(* Exactly-once, the "no more than once" half: no event reaches a forwarder's *)
(* client twice, whatever mix of replay, live stream, lag recovery, eviction  *)
(* and reconnection brought it.  Watermark of handle_socket and of            *)
(* subscribe_session.                                                         *)
ExactlyOnce == \A c \in Forwarded : AppliedOnce(c)

(* Sequenced durable events are applied in the order of their sequences, so   *)
(* that a client's largest sequence is a sound cursor for its next attach.    *)
InOrder ==
    \A c \in Forwarded : \A j, k \in DOMAIN got[c] :
        j < k /\ Sequenced(got[c][j]) /\ Sequenced(got[c][k])
            => got[c][j].seq <= got[c][k].seq

(* Exactly-once, the "no less" half: while its entry is live, everything the  *)
(* watermark of a forwarder has passed has been delivered, unless the client  *)
(* came with a later cursor or the history's cap had dropped it.  Of the tool *)
(* outputs that share a sequence only the first has this promise: the         *)
(* watermark stands at their sequence when the second comes.                  *)
Opens(e) == \A f \in ToSet(log[life]) : f.seq = e.seq => e.id <= f.id

NothingSkipped ==
    \A c \in Forwarded :
        at[c] \in {"live", "lagged"} /\ ~SenderGone(c)
            => \A e \in ToSet(log[life]) :
                 Sequenced(e) /\ Opens(e) /\ e.seq > after[c] /\ e.seq <= mark[c]
                     => e \in ToSet(got[c]) \/ e.id \in trimmed

(* An SSE stream never jumps over a durable event: it ends when it lags.      *)
SseNoGap ==
    \A c \in Clients \ Forwarded :
        at[c] = "live" /\ ~SenderGone(c)
            => \A k \in 1..pos[c] :
                 LET e == log[life][k] IN
                   Sequenced(e) /\ e.seq > after[c]
                       => e \in ToSet(got[c]) \/ e.id \in trimmed

(* A durable event filed while a client follows the live entry reaches that   *)
(* client: a burst that overflows its ring view only delays it.               *)
Reaches(c, n) == \/ \E e \in ToSet(got[c]) : e.id = n
                 \/ n \in trimmed
                 \/ c \notin Forwarded
                 \/ at[c] \notin {"live", "lagged"}
                 \/ SenderGone(c)
Filed(c, n) == /\ c \in Forwarded
               /\ at[c] \in {"live", "lagged"}
               /\ ~SenderGone(c)
               /\ \E e \in ToSet(history) : e.id = n /\ Opens(e) /\ e.seq > after[c]

Delivered ==
    \A c \in Clients : \A n \in 1..MaxEvents : Filed(c, n) ~> Reaches(c, n)

(* What reaches a forwarder's client comes once and in order.                 *)
OnceInOrder == TypeOK /\ ExactlyOnce /\ InOrder

(* No client is taken past an event it should have had.                       *)
NoGap == NothingSkipped /\ SseNoGap
=============================================================================
