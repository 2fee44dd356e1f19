---------------------------- MODULE TerminalClient ----------------------------
(***************************************************************************)
(* The terminal interface: ws_manager keeps a socket to the daemon, numbers     *)
(* the durable events it has read and asks for the later ones when it            *)
(* reconnects; the interface draws rows it reads from the shared database and      *)
(* takes events only as the sign to read them again.                          *)
(*                                                                         *)
(* The daemon's side is one session: its rows, its durable events, and a turn      *)
(* cut at the points a client can tell apart.  What TurnLoop, SessionCoordinator    *)
(* and EventDelivery say of it in detail is not repeated: a prompt starts a turn     *)
(* of its own, a message makes at most one tool call, no client lags, and the       *)
(* durable events the interface ignores are represented by Error alone.            *)
(***************************************************************************)
EXTENDS Integers, Sequences, FiniteSets, SequencesExt

CONSTANTS
    Keep,         \* rows that a compaction leaves
    MaxPrompts,   \* bound: prompts typed
    MaxMessages,  \* bound: assistant messages streamed
    MaxBreaks,    \* bound: connections lost
    MaxActs       \* bound: Esc, /revert, /compact, what other clients do and reads that fail, together

ASSUME BoundsAssumption ==
    {Keep, MaxPrompts, MaxMessages, MaxBreaks, MaxActs} \subseteq Nat

VARIABLES
    \* The daemon.
    rows,       \* session_message, in order
    hist,       \* ActiveSession.history
    seq,        \* the session's last sequence number
    turn,       \* the turn: its step, its message, what was streamed of it
    inbox,      \* prompts accepted and not begun
    rule,       \* is an "always" rule saved?
    pending,    \* pending_permission: a permission id, or 0
    routing,    \* the id on its way to the routing task, or 0
    perms,      \* permission ids issued
    rpcs,       \* requests whose tasks have been spawned

    \* The socket and ws_manager.
    link,       \* "down" -> "joining" -> "up" -> "broken" -> "down"
    after,      \* the after_seq of this connection
    wire,       \* events sent and not read; the receiver's ring while "joining"
    latest,     \* latest_seq
    ctl,        \* control channel to the interface
    out,        \* outgoing channel from the interface

    \* The interface's AppState.
    shown,      \* messages
    dialog,     \* active_prompt: a permission id, or 0
    buffer,     \* streaming_text: the message each delta is of
    connected,

    \* History and bounds.
    failed,     \* messages whose stream failed
    caught,     \* messages completed while this client was joining
    finished,   \* messages whose completion the interface has handled
    answers,    \* what users answered to the dialogs
    granted,    \* permission ids that let a tool run
    gone,       \* permission ids whose answer was lost or refused
    behind,     \* since the list was last read: was it emptied, left unread or outdated without an event?
    used        \* how much of each bound is used up

daemonVars == <<rows, hist, seq, turn, inbox, rule, pending, routing, perms>>
socketVars == <<link, after, wire, latest>>
stateVars  == <<shown, dialog, buffer, connected, behind, finished>>
vars == <<daemonVars, socketVars, stateVars, rpcs, ctl, out, failed, caught, answers, granted, gone, used>>

Replies  == {"once", "always", "reject"}
Steps    == {"idle", "stream", "announce", "call", "ask", "tool", "output"}
Row(k, n) == [kind |-> k, of |-> n]
Event(k, n, s) == [kind |-> k, of |-> n, seq |-> s]
Request(m, n, reply) == [method |-> m, of |-> n, reply |-> reply]
Idle     == [step |-> "idle", msg |-> 0, seq |-> 0, delta |-> FALSE, cancelled |-> FALSE]
Uses(b, limit) == used[b] < limit /\ used' = [used EXCEPT ![b] = @ + 1]

Init ==
    /\ rows = <<>> /\ hist = <<>> /\ seq = 0
    /\ turn = Idle
    /\ inbox = <<>> /\ rule = FALSE
    /\ pending = 0 /\ routing = 0 /\ perms = 0
    /\ rpcs = {}
    /\ link = "down" /\ after = 0 /\ wire = <<>> /\ latest = 0
    /\ ctl = <<>> /\ out = <<>>
    /\ shown = <<>> /\ dialog = 0 /\ buffer = <<>> /\ connected = FALSE
    /\ failed = {} /\ caught = {} /\ finished = {}
    /\ answers = {} /\ granted = {} /\ gone = {}
    /\ behind = FALSE
    /\ used = [b \in {"prompts", "messages", "breaks", "acts"} |-> 0]

-----------------------------------------------------------------------------
(* The turn, as far as a client sees it.                                      *)

Live == link \in {"joining", "up"}

(* The router appends a durable event to the history and broadcasts it.           *)
Emit(e) ==
    /\ hist' = Append(hist, e)
    /\ wire' = IF Live THEN Append(wire, e) ELSE wire

EmitDelta(e) == wire' = IF Live THEN Append(wire, e) ELSE wire

NextMessage ==
    /\ Uses("messages", MaxMessages)
    /\ turn' = [Idle EXCEPT !.step = "stream", !.msg = used["messages"] + 1]

(* The next prompt is promoted, and its turn's stream opens.                      *)
Promote ==
    /\ turn.step = "idle" /\ inbox # <<>>
    /\ rows' = Append(rows, Row("user", Head(inbox)))
    /\ inbox' = Tail(inbox)
    /\ seq' = seq + 1
    /\ NextMessage
    /\ UNCHANGED <<hist, rule, pending, routing, perms, socketVars, stateVars, rpcs, ctl, out, failed, caught,
                   answers, granted, gone>>

Delta ==
    /\ turn.step = "stream" /\ ~turn.delta /\ ~turn.cancelled
    /\ turn' = [turn EXCEPT !.delta = TRUE]
    /\ EmitDelta(Event("delta", turn.msg, 0))
    /\ UNCHANGED <<rows, hist, seq, inbox, rule, pending, routing, perms, link, after, latest, stateVars, rpcs,
                   ctl, out, failed, caught, answers, granted, gone, used>>

(* The stream has ended: the message is stored, when it has content.               *)
Store ==
    /\ turn.step = "stream"
    /\ IF turn.delta
         THEN /\ rows' = Append(rows, Row("assistant", turn.msg))
              /\ seq' = seq + 1
              /\ turn' = [turn EXCEPT !.step = "announce", !.seq = seq + 1]
         ELSE turn' = Idle /\ UNCHANGED <<rows, seq>>
    /\ UNCHANGED <<hist, inbox, rule, pending, routing, perms, socketVars, stateVars, rpcs, ctl, out, failed,
                   caught, answers, granted, gone, used>>

(* The stream has failed: what there is of the message is stored, and an Error with   *)
(* a number of its own is the only event.                                       *)
Fail ==
    LET stored == IF turn.delta THEN 1 ELSE 0 IN
    /\ turn.step = "stream" /\ ~turn.cancelled
    /\ rows' = IF turn.delta THEN Append(rows, Row("assistant", turn.msg)) ELSE rows
    /\ seq' = seq + stored + 1
    /\ Emit(Event("error", turn.msg, seq'))
    /\ failed' = failed \cup {turn.msg}
    /\ turn' = Idle
    /\ UNCHANGED <<inbox, rule, pending, routing, perms, link, after, latest, stateVars, rpcs, ctl, out, caught,
                   answers, granted, gone, used>>

(* The completion is announced with the row's number; the turn ends, or calls a tool. *)
Announce ==
    /\ turn.step = "announce"
    /\ Emit(Event("completed", turn.msg, turn.seq))
    /\ \/ turn' = Idle
       \/ ~turn.cancelled /\ turn' = [turn EXCEPT !.step = "call"]
    /\ UNCHANGED <<rows, seq, inbox, rule, pending, routing, perms, link, after, latest, stateVars, rpcs, ctl,
                   out, failed, caught, answers, granted, gone, used>>

(* The tool is allowed by a rule, or the user is asked: the event goes to the client  *)
(* and the prompt to the task that keeps it, each through a channel of its own.       *)
Call ==
    /\ turn.step = "call"
    /\ \/ /\ rule
          /\ turn' = [turn EXCEPT !.step = "tool"]
          /\ UNCHANGED <<hist, wire, seq, routing, perms>>
       \/ /\ ~rule /\ routing = 0
          /\ turn' = [turn EXCEPT !.step = "ask"]
          /\ perms' = perms + 1
          /\ seq' = seq + 1
          /\ Emit(Event("ask", perms + 1, seq + 1))
          /\ routing' = perms + 1
    /\ UNCHANGED <<rows, inbox, rule, pending, link, after, latest, stateVars, rpcs, ctl, out, failed, caught,
                   answers, granted, gone, used>>

Route ==
    /\ routing # 0
    /\ pending' = routing
    /\ routing' = 0
    /\ UNCHANGED <<rows, hist, seq, turn, inbox, rule, perms, socketVars, stateVars, rpcs, ctl, out, failed,
                   caught, answers, granted, gone, used>>

(* A cancelled wait ends the turn; the prompt stays where it was put.               *)
AskAborted ==
    /\ turn.step = "ask" /\ turn.cancelled
    /\ turn' = Idle
    /\ UNCHANGED <<rows, hist, seq, inbox, rule, pending, routing, perms, socketVars, stateVars, rpcs, ctl, out,
                   failed, caught, answers, granted, gone, used>>

(* The result, a refusal's too, is stored, then announced with the row's number; a    *)
(* cancelled call has none.                                                   *)
StoreResult ==
    /\ turn.step = "tool"
    /\ \/ /\ rows' = Append(rows, Row("result", turn.msg))
          /\ seq' = seq + 1
          /\ turn' = [turn EXCEPT !.step = "output", !.seq = seq + 1]
       \/ turn.cancelled /\ turn' = Idle /\ UNCHANGED <<rows, seq>>
    /\ UNCHANGED <<hist, inbox, rule, pending, routing, perms, socketVars, stateVars, rpcs, ctl, out, failed,
                   caught, answers, granted, gone, used>>

Output ==
    /\ turn.step = "output"
    /\ Emit(Event("output", turn.msg, turn.seq))
    /\ \/ ~turn.cancelled /\ NextMessage
       \/ /\ turn.cancelled \/ used["messages"] = MaxMessages
          /\ turn' = Idle
          /\ UNCHANGED used
    /\ UNCHANGED <<rows, seq, inbox, rule, pending, routing, perms, link, after, latest, stateVars, rpcs, ctl,
                   out, failed, caught, answers, granted, gone>>

-----------------------------------------------------------------------------
(* process_rpc: each request in a task of its own, so in any order.               *)

(* ReplyTo, if it did not compare the ids.                                      *)
ReplyToAny(p, reply) ==
    /\ pending # 0
    /\ pending' = 0
    /\ rule' = (rule \/ reply = "always")
    /\ IF turn.step = "ask" /\ ~turn.cancelled /\ perms = pending
         THEN /\ turn' = [turn EXCEPT !.step = "tool"]
              /\ granted' = IF reply = "reject" THEN granted ELSE granted \cup {pending}
         ELSE UNCHANGED <<turn, granted>>

(* reply_permission takes the prompt the session waits for, only by its own id; the   *)
(* answer reaches the turn unless that has stopped waiting.                       *)
ReplyTo(p, reply) ==
    /\ pending = p
    /\ pending' = 0
    /\ rule' = (rule \/ reply = "always")
    /\ IF turn.step = "ask" /\ ~turn.cancelled /\ perms = p
         THEN /\ turn' = [turn EXCEPT !.step = "tool"]
              /\ granted' = IF reply = "reject" THEN granted ELSE granted \cup {p}
         ELSE UNCHANGED <<turn, granted>>

Reply(r) ==
    /\ r.method = "permission.reply"
    /\ \/ ReplyTo(r.of, r.reply) /\ UNCHANGED gone
       \/ /\ pending # r.of
          /\ gone' = gone \cup {r.of}
          /\ UNCHANGED <<pending, rule, turn, granted>>
    /\ UNCHANGED inbox

Prompt(r) ==
    /\ r.method = "session.prompt"
    /\ inbox' = Append(inbox, r.of)
    /\ UNCHANGED <<turn, pending, rule, granted, gone>>

Abort(r) ==
    /\ r.method = "session.abort"
    /\ inbox' = <<>>
    /\ turn' = [turn EXCEPT !.cancelled = (turn.step # "idle")]
    /\ UNCHANGED <<pending, rule, granted, gone>>

ProcessRpc(r) ==
    /\ rpcs' = rpcs \ {r}
    /\ \/ Reply(r)
       \/ Prompt(r)
       \/ Abort(r)
    /\ UNCHANGED <<rows, hist, seq, routing, perms, socketVars, stateVars, ctl, out, failed, caught, answers, used>>

LastN(s, n) == SubSeq(s, Len(s) - n + 1, Len(s))

RowsDropped == Len(rows) > Keep /\ rows' = LastN(rows, Keep)

(* Another client compacts the session, or this one whose own request's answer is lost: *)
(* old rows go, and no event says so.                                           *)
OtherCompacts ==
    /\ Uses("acts", MaxActs)
    /\ RowsDropped
    /\ behind' = TRUE
    /\ UNCHANGED <<hist, seq, turn, inbox, rule, pending, routing, perms, rpcs, socketVars, shown, dialog, buffer,
                   connected, finished, ctl, out, failed, caught, answers, granted, gone>>

(* Another client of the session answers the prompt.                             *)
OtherReplies ==
    /\ pending # 0
    /\ Uses("acts", MaxActs)
    /\ \E reply \in Replies :
         /\ ReplyTo(pending, reply)
         /\ answers' = answers \cup {[of |-> pending, reply |-> reply]}
    /\ UNCHANGED <<rows, hist, seq, inbox, routing, perms, rpcs, socketVars, stateVars, ctl, out, failed, caught,
                   gone>>

-----------------------------------------------------------------------------
(* ws_manager and the handler of its socket.                                   *)

(* Connect, if it asked for the last event again.                                 *)
ConnectEarlier ==
    /\ link = "down"
    /\ link' = "joining"
    /\ after' = latest - 1
    /\ ctl' = Append(ctl, Event("connected", 0, 0))
    /\ UNCHANGED <<daemonVars, wire, latest, stateVars, rpcs, out, failed, caught, answers, granted, gone, used>>

(* The handshake: the daemon subscribes the socket to the broadcast.               *)
Connect ==
    /\ link = "down"
    /\ link' = "joining"
    /\ after' = latest
    /\ ctl' = Append(ctl, Event("connected", 0, 0))
    /\ UNCHANGED <<daemonVars, wire, latest, stateVars, rpcs, out, failed, caught, answers, granted, gone, used>>

(* What of a sequence is wanted, in its order.                                   *)
Only(s, wanted) ==
    LET kept[n \in 0..Len(s)] ==
            IF n = 0 THEN <<>>
            ELSE IF s[n] \in wanted THEN Append(kept[n - 1], s[n]) ELSE kept[n - 1]
    IN  kept[Len(s)]

MaxSeq(events, least) == Max({least} \cup {e.seq : e \in Range(events)})

(* The events after after_seq are sent, then from the ring what these did not cover:   *)
(* every delta, and the later durable events.                                   *)
Replay ==
    LET replayed == Only(hist, {e \in Range(hist) : e.seq > after})
        mark     == MaxSeq(replayed, after) IN
    /\ link = "joining"
    /\ link' = "up"
    /\ wire' = replayed \o Only(wire, {e \in Range(wire) : e.seq = 0 \/ e.seq > mark})
    /\ caught' = caught \cup {e.of : e \in {x \in Range(wire) : x.kind = "completed"}}
    /\ UNCHANGED <<daemonVars, after, latest, stateVars, rpcs, ctl, out, failed, answers, granted, gone, used>>

(* The connection is lost with whatever was not delivered yet.                     *)
Break ==
    /\ Live
    /\ Uses("breaks", MaxBreaks)
    /\ link' = "broken"
    /\ IF link = "joining" THEN wire' = <<>>
       ELSE \E n \in 0..Len(wire) : wire' = SubSeq(wire, 1, n)
    /\ UNCHANGED <<daemonVars, after, latest, stateVars, rpcs, ctl, out, failed, caught, answers, granted, gone>>

Read ==
    LET e == Head(wire) IN
    /\ link \in {"up", "broken"} /\ wire # <<>>
    /\ wire' = Tail(wire)
    /\ latest' = IF e.seq > 0 THEN e.seq ELSE latest
    /\ ctl' = Append(ctl, e)
    /\ UNCHANGED <<daemonVars, link, after, stateVars, rpcs, out, failed, caught, answers, granted, gone, used>>

LoseLink ==
    /\ link' = "down"
    /\ wire' = <<>>
    /\ ctl' = Append(ctl, Event("disconnected", 0, 0))

Notice ==
    /\ link = "broken" /\ wire = <<>>
    /\ LoseLink
    /\ UNCHANGED <<daemonVars, after, latest, stateVars, rpcs, out, failed, caught, answers, granted, gone, used>>

(* A request taken from the channel is written once: over a broken connection it is    *)
(* lost, whether or not the write reports it.                                   *)
Write ==
    LET r == Head(out) IN
    /\ link \in {"up", "broken"} /\ out # <<>>
    /\ out' = Tail(out)
    /\ IF link = "up"
         THEN rpcs' = rpcs \cup {r} /\ UNCHANGED <<link, wire, ctl, gone>>
         ELSE /\ gone' = IF r.method = "permission.reply" THEN gone \cup {r.of} ELSE gone
              /\ UNCHANGED rpcs
              /\ LoseLink \/ UNCHANGED <<link, wire, ctl>>
    /\ UNCHANGED <<daemonVars, after, latest, stateVars, failed, caught, answers, granted, used>>

-----------------------------------------------------------------------------
(* The interface: keys, and events from the control channel.                      *)

Sends(r) == out' = Append(out, r)

(* Enter with a prompt: it is shown at once.                                    *)
TypePrompt ==
    /\ dialog = 0
    /\ Uses("prompts", MaxPrompts)
    /\ shown' = Append(shown, Row("user", used'["prompts"]))
    /\ Sends(Request("session.prompt", used'["prompts"], ""))
    /\ UNCHANGED <<daemonVars, socketVars, dialog, buffer, connected, behind, finished, rpcs, ctl, failed,
                   caught, answers, granted, gone>>

(* Esc, which a dialog swallows.                                                *)
PressEsc ==
    /\ dialog = 0
    /\ Uses("acts", MaxActs)
    /\ buffer' = <<>>
    /\ Sends(Request("session.abort", used'["acts"], ""))
    /\ UNCHANGED <<daemonVars, socketVars, shown, dialog, connected, behind, finished, rpcs, ctl, failed, caught,
                   answers, granted, gone>>

(* y, n or a: the dialog closes whatever becomes of the answer.                    *)
Answer(reply) ==
    /\ dialog # 0
    /\ Sends(Request("permission.reply", dialog, reply))
    /\ answers' = answers \cup {[of |-> dialog, reply |-> reply]}
    /\ dialog' = 0
    /\ UNCHANGED <<daemonVars, socketVars, shown, buffer, connected, behind, finished, rpcs, ctl, failed, caught,
                   granted, gone, used>>

(* /revert appends a row and /compact drops old ones, both without an event; the list  *)
(* is emptied and latest_seq forgotten.                                         *)
Command ==
    /\ dialog = 0
    /\ Uses("acts", MaxActs)
    /\ \/ rows' = Append(rows, Row("note", used'["acts"])) /\ seq' = seq + 1
       \/ RowsDropped /\ UNCHANGED seq
    /\ shown' = <<>>
    /\ latest' = 0
    /\ behind' = TRUE
    /\ UNCHANGED <<hist, turn, inbox, rule, pending, routing, perms, link, after, wire, dialog, buffer, connected,
                   finished, rpcs, ctl, out, failed, caught, answers, granted, gone>>

(* reload_messages: when the database cannot be read, the old list stays.             *)
Reload ==
    \/ shown' = rows /\ behind' = FALSE /\ UNCHANGED used
    \/ Uses("acts", MaxActs) /\ behind' = TRUE /\ UNCHANGED shown

(* One event of the control channel, with the kinds that make it read the rows, empty   *)
(* the stream buffers and close the dialog.                                     *)
Takes(reloads, clears, closes) ==
    LET e == Head(ctl) IN
    /\ ctl # <<>>
    /\ ctl' = Tail(ctl)
    /\ IF e.kind \in reloads THEN Reload ELSE UNCHANGED <<shown, behind, used>>
    /\ buffer' = IF e.kind = "delta" THEN Append(buffer, e.of)
                 ELSE IF e.kind \in clears THEN <<>> ELSE buffer
    /\ finished' = IF e.kind = "completed" THEN finished \cup {e.of} ELSE finished
    /\ dialog' = IF e.kind = "ask" THEN e.of ELSE IF e.kind \in closes THEN 0 ELSE dialog
    /\ connected' = IF e.kind \in {"connected", "disconnected"} THEN e.kind = "connected" ELSE connected
    /\ UNCHANGED <<daemonVars, socketVars, rpcs, out, failed, caught, answers, granted, gone>>

(* Handle, if a completion left the stream buffers alone.                          *)
HandleKeepingBuffer == Takes({"connected", "completed", "output"}, {}, {})

(* Handle, if the rows were read only when a message completes.                     *)
HandleCompletions == Takes({"completed"}, {"completed"}, {})

(* Handle, if the rows were read only on a new connection.                          *)
HandleConnections == Takes({"connected"}, {"completed"}, {})

(* Handle, if a lost connection closed the dialog.                                *)
HandleClosing == Takes({"connected", "completed", "output"}, {"completed"}, {"disconnected"})

(* One event of the control channel; an Error changes nothing.                      *)
Handle == Takes({"connected", "completed", "output"}, {"completed"}, {})

-----------------------------------------------------------------------------

Turn == Promote \/ Delta \/ Store \/ Fail \/ Announce \/ Call \/ Route \/ AskAborted \/ StoreResult \/ Output
Socket == Connect \/ Replay \/ Break \/ Read \/ Notice \/ Write
Interface == TypePrompt \/ PressEsc \/ Command \/ Handle \/ \E reply \in Replies : Answer(reply)

Next == Turn \/ Socket \/ Interface \/ OtherReplies \/ OtherCompacts \/ \E r \in rpcs : ProcessRpc(r)

Spec == Init /\ [][Next]_vars

(* A turn announces what it has stored; ws_manager reconnects, joins and reads; the    *)
(* interface takes what is in its channel.  Neither the model nor the users owe        *)
(* anything.                                                                *)
Fairness ==
    /\ WF_vars(Announce) /\ WF_vars(Output)
    /\ WF_vars(Connect) /\ WF_vars(Replay) /\ WF_vars(Read) /\ WF_vars(Notice)
    /\ WF_vars(Handle)

FairSpec == Spec /\ Fairness

-----------------------------------------------------------------------------
(* Properties.                                                               *)

RowSet   == [kind : {"user", "assistant", "result", "note"}, of : Nat]
EventSet == [kind : {"delta", "error", "completed", "ask", "output", "connected", "disconnected"},
             of : Nat, seq : Nat]

(* The type invariant.                                                         *)
TypeOK ==
    /\ rows \in Seq(RowSet) /\ shown \in Seq(RowSet)
    /\ hist \in Seq(EventSet) /\ wire \in Seq(EventSet) /\ ctl \in Seq(EventSet)
    /\ {seq, pending, routing, perms, after, latest, dialog} \subseteq Nat
    /\ turn \in [step : Steps, msg : Nat, seq : Nat, delta : BOOLEAN, cancelled : BOOLEAN]
    /\ inbox \in Seq(Nat) /\ buffer \in Seq(Nat)
    /\ out \in Seq([method : {"session.prompt", "session.abort", "permission.reply"}, of : Nat, reply : Replies \cup {""}])
    /\ rpcs \subseteq [method : {"session.prompt", "session.abort", "permission.reply"}, of : Nat, reply : Replies \cup {""}]
    /\ link \in {"down", "joining", "up", "broken"}
    /\ {rule, connected, behind} \subseteq BOOLEAN

(* Everything the daemon has sent so far has been handled.                          *)
CaughtUp == link = "up" /\ wire = <<>> /\ ctl = <<>>

(* The rows that an event has told of.                                           *)
Announced ==
    {Row("assistant", e.of) : e \in {x \in Range(hist) : x.kind = "completed"}}
      \cup {Row("result", e.of) : e \in {x \in Range(hist) : x.kind = "output"}}

(* An interface that has caught up shows the announced messages and results of the     *)
(* database, all of them and in order, however often its socket broke.  Excepted is a    *)
(* list that a command emptied, that could not be read, or from which another client      *)
(* dropped rows: until it is read again (reload_messages).                          *)
Converged ==
    CaughtUp /\ ~behind => Only(shown, Announced) = Only(rows, Announced)

(* While a turn waits for permission, an interface that has caught up shows that very  *)
(* request, unless an answer to it is under way, was lost with a connection, or was    *)
(* refused because it outran the task that keeps the prompt.                        *)
DialogCurrent ==
    CaughtUp /\ turn.step = "ask" /\ ~turn.cancelled =>
        \/ dialog = perms
        \/ perms \in gone
        \/ \E r \in rpcs \cup Range(out) : r.method = "permission.reply" /\ r.of = perms

(* A tool runs by permission only if the user granted that request, seeing that         *)
(* request; a rule is saved only after somebody answered "always".                    *)
ConsentIsOwn ==
    /\ \A p \in granted : \E a \in answers : a.of = p /\ a.reply # "reject"
    /\ rule => \E a \in answers : a.reply = "always"

(* The live buffer holds nothing of a message that the interface has seen complete,      *)
(* except when the message completed between a socket's subscription and its replay:     *)
(* then the replayed completion comes before the deltas still in the ring.             *)
BufferFresh == Range(buffer) \cap finished \subseteq caught

(* A stored message that did not fail is eventually shown, whatever connections are     *)
(* lost, unless a compaction drops it or the list falls behind in another way: it was   *)
(* emptied, or could not be read.                                               *)
AnswersShown ==
    \A m \in 1..MaxMessages :
        (Row("assistant", m) \in Range(rows) /\ m \notin failed)
            ~> (Row("assistant", m) \in Range(shown) \/ Row("assistant", m) \notin Range(rows) \/ behind)

(* What is on the screen is stored, or still being streamed.                       *)
ScreenTrue == TypeOK /\ Converged /\ BufferFresh
=============================================================================
