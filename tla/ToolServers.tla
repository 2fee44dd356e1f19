------------------------------ MODULE ToolServers ------------------------------
(***************************************************************************)
(* The processes the turns' tools talk to: an MCP server whose tools are        *)
(* registered in the background, a language server told of every written file,  *)
(* and the registry lock the bootstrap and the turns of all sessions share.      *)
(*                                                                         *)
(* The registry's RwLock is fair: whoever asks waits behind all who asked        *)
(* before, so a waiting bootstrap holds up the turns that come after it.         *)
(* One round with at most one tool call stands for a turn, one file for the       *)
(* workspace, and its n-th text is n.  didSave, which carries nothing, is left     *)
(* out, and so is the initialized notification.                               *)
(***************************************************************************)
EXTENDS Integers, Sequences, FiniteSets, FiniteSetsExt, SequencesExt

CONSTANTS
    Turns,      \* one of each session
    Boot,       \* the task that bootstraps the ecosystem
    None,
    OwnIds,     \* the ids the MCP server gives to requests of its own
    Room,       \* messages that fit into a pipe nobody reads
    MaxPrompts  \* bound: turns ever begun

ASSUME TasksAssumption == Boot \notin Turns /\ None \notin Turns \cup {Boot}
ASSUME OwnIdsAssumption == OwnIds \subseteq Nat
ASSUME BoundsAssumption == {Room, MaxPrompts} \subseteq Nat \ {0}

VARIABLES
    \* The registry and its lock.
    queue, readers, writer,
    tools,      \* are the MCP tools registered?
    eco,        \* is the ecosystem slot filled?

    boot,       \* where the bootstrap stands
    turn,       \* where each turn stands
    kind,       \* what kind of tool it calls
    cancelled,  \* the turns whose CancellationToken is set

    mcp,        \* McpClient, the pipes and the server
    req,        \* each task's request to it

    file,       \* the text of the file
    lsp,        \* LspClient, the pipe and the server
    note,       \* what each turn is about to tell it

    prompts,    \* bound: turns begun so far

    \* History, read by properties only.
    overlap,    \* has a notify_file begun before another ended?
    dropped     \* the requests whose calls were aborted

lockVars == <<queue, readers, writer>>
vars     == <<lockVars, tools, eco, boot, turn, kind, cancelled, mcp, req, file, lsp, note, prompts, overlap,
              dropped>>

Ids       == 1..(MaxPrompts + 2)   \* the bootstrap makes two requests
Tasks     == Turns \cup {Boot}
Garbage   == 0
TurnSteps == {"idle", "schemas", "model", "guard", "held", "ask", "run", "call", "note", "version",
              "send", "settle"}
BootSteps == {"start", "queued", "lsp", "init", "list", "unlock", "slot", "done"}
ReqSteps  == {"none", "begin", "write", "wait", "over"}
NoReq     == [step |-> "none", id |-> 0, got |-> "none", of |-> 0]
NoNote    == [version |-> 0, text |-> 0]

Init ==
    /\ queue = <<>> /\ readers = {} /\ writer = FALSE
    /\ tools = FALSE /\ eco = FALSE
    /\ boot = "start"
    /\ turn = [t \in Turns |-> "idle"]
    /\ kind = [t \in Turns |-> "core"]
    /\ cancelled = {}
    /\ mcp = [next |-> 1, pending |-> {}, lock |-> None, pipe |-> <<>>, torn |-> FALSE,
              heard |-> {}, answers |-> <<>>, asked |-> {}, alive |-> TRUE, reading |-> TRUE]
    /\ req = [k \in Tasks |-> NoReq]
    /\ file = 0
    /\ lsp = [known |-> FALSE, up |-> FALSE, version |-> 0, lock |-> None, pipe |-> <<>>, told |-> <<>>]
    /\ note = [t \in Turns |-> NoNote]
    /\ prompts = 0
    /\ overlap = FALSE
    /\ dropped = {}

Goes(t, step) == turn' = [turn EXCEPT ![t] = step]

(* Finish, if the guard outlived the call.                                      *)
FinishHolding(t) ==
    /\ Goes(t, "idle")
    /\ cancelled' = cancelled \ {t}
    /\ kind' = [kind EXCEPT ![t] = "core"]
    /\ UNCHANGED <<queue, readers, writer>>

(* The call is over: the guard on the registry is dropped, and the turn ends.      *)
Finish(t) ==
    /\ Goes(t, "idle")
    /\ readers' = readers \ {t}
    /\ cancelled' = cancelled \ {t}
    /\ kind' = [kind EXCEPT ![t] = "core"]
    /\ UNCHANGED <<queue, writer>>

-----------------------------------------------------------------------------
(* The registry's lock.                                                       *)

(* The first in the queue gets the lock, when it can; the schemas are listed under   *)
(* it at once, a call keeps it.                                               *)
Grant ==
    LET k == Head(queue) IN
    /\ queue # <<>> /\ ~writer
    /\ queue' = Tail(queue)
    /\ IF k = Boot
         THEN /\ readers = {}
              /\ writer' = TRUE
              /\ boot' = "lsp"
              /\ UNCHANGED <<readers, turn>>
         ELSE /\ readers' = IF turn[k] = "guard" THEN readers \cup {k} ELSE readers
              /\ Goes(k, IF turn[k] = "guard" THEN "held" ELSE "model")
              /\ UNCHANGED <<writer, boot>>
    /\ UNCHANGED <<tools, eco, kind, cancelled, mcp, req, file, lsp, note, prompts,
                   overlap, dropped>>

-----------------------------------------------------------------------------
(* McpClient::request, for the bootstrap and the turns.                        *)

Step(k, step) == req' = [req EXCEPT ![k].step = step]
Over(k, got, of) == req' = [req EXCEPT ![k].step = "over", ![k].got = got, ![k].of = of]
Entries(k) == {e \in mcp.pending : e.task = k /\ e.id = req[k].id}

MCP == <<lockVars, tools, eco, boot, turn, kind, cancelled, file, lsp, note, prompts, overlap,
         dropped>>

Begin(k) ==
    /\ req[k].step = "begin"
    /\ req' = [req EXCEPT ![k] = [NoReq EXCEPT !.step = "write", !.id = mcp.next]]
    /\ mcp' = [mcp EXCEPT !.next = @ + 1, !.pending = @ \cup {[id |-> mcp.next, task |-> k]}]
    /\ UNCHANGED MCP

Full(pipe) == Len(pipe) >= Room

(* A write takes the lock on stdin, and keeps it while the pipe is full; what an      *)
(* aborted one left there spoils the next line.                                *)
Block(k) ==
    /\ req[k].step = "write" /\ mcp.lock = None
    /\ mcp.alive /\ Full(mcp.pipe)
    /\ mcp' = [mcp EXCEPT !.lock = k]
    /\ UNCHANGED <<req, MCP>>

Write(k) ==
    /\ req[k].step = "write" /\ mcp.lock \in {None, k}
    /\ IF mcp.alive
         THEN /\ ~Full(mcp.pipe)
              /\ mcp' = [mcp EXCEPT !.lock = None, !.torn = FALSE,
                           !.pipe = Append(@, IF mcp.torn THEN Garbage ELSE req[k].id)]
              /\ Step(k, "wait")
         ELSE /\ mcp' = [mcp EXCEPT !.lock = None, !.pending = @ \ Entries(k)]
              /\ Over(k, "error", 0)
    /\ UNCHANGED MCP

(* TimesOut, with the entry left behind.                                       *)
TimesOutLeaky(k) ==
    /\ req[k].step = "wait" /\ req[k].got = "none"
    /\ Over(k, "error", 0)
    /\ UNCHANGED <<mcp, MCP>>

(* TimesOut, for a server that is gone only.                                    *)
TimesOutGone(k) ==
    /\ req[k].step = "wait" /\ req[k].got = "none" /\ ~mcp.reading
    /\ mcp' = [mcp EXCEPT !.pending = @ \ Entries(k)]
    /\ Over(k, "error", 0)
    /\ UNCHANGED MCP

TimesOut(k) ==
    /\ req[k].step = "wait" /\ req[k].got = "none"
    /\ mcp' = [mcp EXCEPT !.pending = @ \ Entries(k)]
    /\ Over(k, "error", 0)
    /\ UNCHANGED MCP

Receives(k) ==
    /\ req[k].step = "wait" /\ req[k].got # "none"
    /\ Step(k, "over")
    /\ UNCHANGED <<mcp, MCP>>

(* A oneshot takes a value while its request still waits for one.                  *)
Deliver(entries, got, of) ==
    req' = [k \in Tasks |->
              IF req[k].step \in {"write", "wait"} /\ [id |-> req[k].id, task |-> k] \in entries
                THEN [req[k] EXCEPT !.got = got, !.of = of] ELSE req[k]]

(* Of which request a line carries the result: a request of the server's own carries   *)
(* none.                                                                      *)
AnswerOf(a) == IF a.own \/ a.got = "error" THEN 0 ELSE a.id

(* Route, if answers came back in the order of the requests.                       *)
RouteInOrder ==
    /\ mcp.reading /\ mcp.answers # <<>>
    /\ LET a == Head(mcp.answers)
           entries == {e \in mcp.pending : \A d \in mcp.pending : e.id <= d.id}
       IN  /\ mcp' = [mcp EXCEPT !.answers = Tail(@), !.pending = @ \ entries]
           /\ Deliver(entries, a.got, AnswerOf(a))
    /\ UNCHANGED MCP

(* spawn_reader: any line with an id goes to the request with that id, as its answer,   *)
(* be it an answer or a request of the server's own.                              *)
Route ==
    /\ mcp.reading /\ mcp.answers # <<>>
    /\ LET a == Head(mcp.answers)
           entries == {e \in mcp.pending : e.id = a.id}
       IN  /\ mcp' = [mcp EXCEPT !.answers = Tail(@), !.pending = @ \ entries]
           /\ Deliver(entries, a.got, AnswerOf(a))
    /\ UNCHANGED MCP

(* connect_stdio has started the server, and the reader.                             *)
Launched == boot \notin {"start", "queued", "lsp"}

(* At the end of the stream every request that waits fails; what the server says from   *)
(* now on goes nowhere, so that it is as good as deaf.                              *)
Stops ==
    /\ mcp.reading
    /\ mcp' = [mcp EXCEPT !.reading = FALSE, !.pending = {}, !.answers = <<>>, !.heard = {}]
    /\ Deliver(mcp.pending, "error", 0)
    /\ UNCHANGED MCP

ReaderEnds == ~mcp.alive /\ mcp.answers = <<>> /\ Stops

(* The server closes its output, or a line cannot be read, while it lives: requests     *)
(* that come later are written all the same, and wait out their time.               *)
ReaderFails == mcp.alive /\ Launched /\ Stops

(* The future of an aborted call is dropped, wherever it stood.                    *)
Dropped(k) ==
    /\ req' = [req EXCEPT ![k] = NoReq]
    /\ dropped' = dropped \cup {req[k].id}
    /\ mcp' = IF mcp.lock = k THEN [mcp EXCEPT !.lock = None, !.torn = TRUE] ELSE mcp

ServerReads ==
    /\ mcp.alive /\ mcp.pipe # <<>>
    /\ mcp' = [mcp EXCEPT !.pipe = Tail(@),
                           !.heard = IF mcp.reading THEN @ \cup ({Head(mcp.pipe)} \ {Garbage}) ELSE @]
    /\ UNCHANGED <<req, MCP>>

ServerAnswers(id, got) ==
    /\ mcp.alive /\ id \in mcp.heard
    /\ mcp' = [mcp EXCEPT !.heard = @ \ {id}, !.answers = Append(@, [id |-> id, got |-> got, own |-> FALSE])]
    /\ UNCHANGED <<req, MCP>>

(* While it serves a request, the server makes one of its own, which it numbers itself   *)
(* and which nobody answers.                                                   *)
ServerAsks(id) ==
    /\ mcp.alive /\ mcp.heard # {} /\ id \notin mcp.asked
    /\ mcp' = [mcp EXCEPT !.asked = @ \cup {id}, !.answers = Append(@, [id |-> id, got |-> "ok", own |-> TRUE])]
    /\ UNCHANGED <<req, MCP>>

ServerDies ==
    /\ mcp.alive /\ Launched
    /\ mcp' = [mcp EXCEPT !.alive = FALSE, !.pipe = <<>>, !.heard = {}]
    /\ UNCHANGED <<req, MCP>>

-----------------------------------------------------------------------------
(* Ecosystem::bootstrap, run by start_daemon in a task of its own.              *)

BootRest == <<readers, turn, kind, cancelled, file, note, prompts, overlap, dropped>>

BootAsks ==
    /\ boot = "start"
    /\ boot' = "queued"
    /\ queue' = Append(queue, Boot)
    /\ UNCHANGED <<writer, tools, eco, mcp, req, lsp, BootRest>>

(* discover_servers: the workspace has files of a language whose server is installed.   *)
Discovered == BOOLEAN

(* LspClient::spawn: the server starts and takes its first messages in time, or not.   *)
Spawned == BOOLEAN

(* LspManager::new.                                                           *)
StartLsp ==
    /\ boot = "lsp"
    /\ boot' = "init"
    /\ \E found \in Discovered, started \in Spawned : 
         lsp' = [lsp EXCEPT !.known = found /\ started, !.up = found /\ started]
    /\ Step(Boot, "begin")
    /\ UNCHANGED <<queue, writer, tools, eco, mcp, BootRest>>

(* connect_stdio has failed or not; if it has, the client is dropped and the server    *)
(* killed.                                                                    *)
Connected ==
    /\ boot = "init" /\ req[Boot].step = "over"
    /\ IF req[Boot].got = "ok"
         THEN boot' = "list" /\ req' = [req EXCEPT ![Boot] = [NoReq EXCEPT !.step = "begin"]]
              /\ UNCHANGED mcp
         ELSE /\ boot' = "unlock"
              /\ req' = [req EXCEPT ![Boot] = NoReq]
              /\ mcp' = [mcp EXCEPT !.alive = FALSE, !.pipe = <<>>, !.heard = {}]
    /\ UNCHANGED <<queue, writer, tools, eco, lsp, BootRest>>

Listed ==
    /\ boot = "list" /\ req[Boot].step = "over"
    /\ boot' = "unlock"
    /\ tools' = (req[Boot].got = "ok")
    /\ req' = [req EXCEPT ![Boot] = NoReq]
    /\ mcp' = IF tools' THEN mcp ELSE [mcp EXCEPT !.alive = FALSE, !.pipe = <<>>, !.heard = {}]
    /\ UNCHANGED <<queue, writer, eco, lsp, BootRest>>

Unlock ==
    /\ boot = "unlock"
    /\ boot' = "slot"
    /\ writer' = FALSE
    /\ UNCHANGED <<queue, tools, eco, mcp, req, lsp, BootRest>>

FillSlot ==
    /\ boot = "slot"
    /\ boot' = "done"
    /\ eco' = TRUE
    /\ UNCHANGED <<queue, writer, tools, mcp, req, lsp, BootRest>>

-----------------------------------------------------------------------------
(* Orchestrator::run_session_turn, around its tools.                            *)

TurnRest == <<tools, eco, boot, lsp, overlap>>
OfTurn   == <<lockVars, cancelled, kind>>
Count    == <<prompts, dropped>>

Prompt(t) ==
    /\ turn[t] = "idle" /\ prompts < MaxPrompts
    /\ prompts' = prompts + 1
    /\ Goes(t, "schemas")
    /\ queue' = Append(queue, t)
    /\ UNCHANGED <<readers, writer, kind, cancelled, mcp, req, file, note, TurnRest, dropped>>

(* What a tool does after it has written its file, no abort interrupts: one that comes  *)
(* so late is left out.                                                       *)
Abort(t) ==
    /\ turn[t] \notin {"idle", "note", "version", "send", "settle"} /\ t \notin cancelled
    /\ cancelled' = cancelled \cup {t}
    /\ UNCHANGED <<lockVars, turn, kind, mcp, req, file, note, TurnRest, Count>>

(* The provider's answer: a call of some tool, or none.                            *)
Model(t) ==
    /\ turn[t] = "model"
    /\ \/ Finish(t)
       \/ /\ t \notin cancelled
          /\ \E k \in {"core", "write", "mcp"} : kind' = [kind EXCEPT ![t] = k]
          /\ Goes(t, "guard")
          /\ queue' = Append(queue, t)
          /\ UNCHANGED <<readers, writer, cancelled>>
    /\ UNCHANGED <<mcp, req, file, note, TurnRest, Count>>

(* The tool is looked up and the permission judged, with the registry locked.        *)
LookUp(t) ==
    /\ turn[t] = "held"
    /\ IF kind[t] = "mcp" /\ ~tools THEN Finish(t)
       ELSE /\ \/ Goes(t, "ask") \/ Goes(t, "run")
            /\ UNCHANGED OfTurn
    /\ UNCHANGED <<mcp, req, file, note, TurnRest, Count>>

Reply(t) ==
    /\ turn[t] = "ask" /\ t \notin cancelled
    /\ \/ Goes(t, "run") /\ UNCHANGED OfTurn
       \/ Finish(t)   \* denied
    /\ UNCHANGED <<mcp, req, file, note, TurnRest, Count>>

AskAborted(t) ==
    /\ turn[t] = "ask" /\ t \in cancelled
    /\ Finish(t)
    /\ UNCHANGED <<mcp, req, file, note, TurnRest, Count>>

Run(t) ==
    /\ turn[t] = "run"
    /\ \/ /\ t \in cancelled \/ kind[t] = "core"
          /\ Finish(t)
          /\ UNCHANGED <<req, file>>
       \/ /\ t \notin cancelled /\ kind[t] = "write"
          /\ file' = file + 1
          /\ Goes(t, "note")
          /\ UNCHANGED <<OfTurn, req>>
       \/ /\ t \notin cancelled /\ kind[t] = "mcp"
          /\ Step(t, "begin")
          /\ Goes(t, "call")
          /\ UNCHANGED <<OfTurn, file>>
    /\ UNCHANGED <<mcp, note, TurnRest, Count>>

CallAborted(t) ==
    /\ turn[t] = "call" /\ t \in cancelled
    /\ Dropped(t)
    /\ Finish(t)
    /\ UNCHANGED <<file, note, TurnRest, prompts>>

CallOver(t) ==
    /\ turn[t] = "call" /\ req[t].step = "over"
    /\ req' = [req EXCEPT ![t] = NoReq]
    /\ Finish(t)
    /\ UNCHANGED <<mcp, file, note, TurnRest, Count>>

-----------------------------------------------------------------------------
(* Ecosystem::lsp_after_write and LspClient::notify_file, which nothing aborts.     *)

LspRest == <<tools, eco, boot, mcp, req, file, prompts, dropped>>

(* resolve_for_path: the manager of a bootstrapped ecosystem has a client for the file.  *)
Resolved == eco /\ lsp.known

(* The file is read back; without a server for it there is nothing to tell.          *)
ReadBack(t) ==
    /\ turn[t] = "note"
    /\ IF Resolved
         THEN /\ note' = [note EXCEPT ![t].text = file]
              /\ Goes(t, "version")
              /\ UNCHANGED OfTurn
         ELSE Finish(t) /\ UNCHANGED note
    /\ UNCHANGED <<lsp, overlap, LspRest>>

(* TakeVersion, if every change had the version the open had.                        *)
TakeVersionOnce(t) ==
    /\ turn[t] = "version"
    /\ lsp' = [lsp EXCEPT !.version = 1]
    /\ note' = [note EXCEPT ![t].version = 1]
    /\ overlap' = (overlap \/ \E u \in Turns \ {t} : turn[u] \in {"version", "send"})
    /\ Goes(t, "send")
    /\ UNCHANGED <<OfTurn, LspRest>>

(* open_docs is locked to take the version and unlocked before it is sent.            *)
TakeVersion(t) ==
    /\ turn[t] = "version"
    /\ lsp' = [lsp EXCEPT !.version = @ + 1]
    /\ note' = [note EXCEPT ![t].version = lsp.version + 1]
    /\ overlap' = (overlap \/ \E u \in Turns \ {t} : turn[u] \in {"version", "send"})
    /\ Goes(t, "send")
    /\ UNCHANGED <<OfTurn, LspRest>>

LspBlock(t) ==
    /\ turn[t] = "send" /\ lsp.lock = None
    /\ lsp.up /\ Full(lsp.pipe)
    /\ lsp' = [lsp EXCEPT !.lock = t]
    /\ UNCHANGED <<OfTurn, turn, note, overlap, LspRest>>

Send(t) ==
    /\ turn[t] = "send" /\ lsp.lock \in {None, t}
    /\ IF lsp.up
         THEN /\ ~Full(lsp.pipe)
              /\ lsp' = [lsp EXCEPT !.lock = None, !.pipe = Append(@, note[t])]
              /\ Goes(t, "settle")
              /\ UNCHANGED OfTurn
         ELSE lsp' = [lsp EXCEPT !.lock = None] /\ Finish(t)
    /\ note' = [note EXCEPT ![t] = NoNote]
    /\ UNCHANGED <<overlap, LspRest>>

(* 200 ms later the call takes what diagnostics there are.                          *)
Settle(t) ==
    /\ turn[t] = "settle"
    /\ Finish(t)
    /\ UNCHANGED <<lsp, note, overlap, LspRest>>

LspReads ==
    /\ lsp.up /\ lsp.pipe # <<>>
    /\ lsp' = [lsp EXCEPT !.pipe = Tail(@), !.told = Append(@, Head(lsp.pipe))]
    /\ UNCHANGED <<OfTurn, turn, note, overlap, LspRest>>

LspDies ==
    /\ lsp.up /\ boot \in {"slot", "done"}
    /\ lsp' = [lsp EXCEPT !.up = FALSE, !.pipe = <<>>]
    /\ UNCHANGED <<OfTurn, turn, note, overlap, LspRest>>

-----------------------------------------------------------------------------

Client(k) == Begin(k) \/ Block(k) \/ Write(k) \/ TimesOut(k) \/ Receives(k)
Reader    == Route \/ ReaderEnds
Boots     == BootAsks \/ StartLsp \/ Connected \/ Listed \/ Unlock \/ FillSlot
Goes_on(t) == \/ Model(t) \/ LookUp(t) \/ AskAborted(t) \/ Run(t) \/ CallAborted(t) \/ CallOver(t)
              \/ ReadBack(t) \/ TakeVersion(t) \/ LspBlock(t) \/ Send(t) \/ Settle(t)

Next ==
    \/ Grant \/ Boots \/ Reader
    \/ \E k \in Tasks : Client(k)
    \/ \E t \in Turns : Prompt(t) \/ Abort(t) \/ Reply(t) \/ Goes_on(t)
    \/ ReaderFails \/ ServerReads \/ ServerDies \/ LspReads \/ LspDies
    \/ \E id \in Ids, got \in {"ok", "error"} : ServerAnswers(id, got)
    \/ \E id \in OwnIds : ServerAsks(id)

Spec == Init /\ [][Next]_vars

(* Tasks run on, time passes, and a server reads its input, but need not answer.      *)
Fairness ==
    /\ WF_vars(Grant) /\ WF_vars(Boots) /\ WF_vars(Reader)
    /\ \A k \in Tasks : WF_vars(Client(k))
    /\ \A t \in Turns : WF_vars(Goes_on(t)) /\ WF_vars(Reply(t))
    /\ WF_vars(ServerReads) /\ WF_vars(LspReads)

FairSpec == Spec /\ Fairness

-----------------------------------------------------------------------------
(* Properties.                                                               *)

Waits(k) == req[k].step \in {"write", "wait"} /\ req[k].got = "none"

TypeOK ==
    /\ boot \in BootSteps
    /\ turn \in [Turns -> TurnSteps]
    /\ \A k \in Tasks : req[k].step \in ReqSteps /\ req[k].id \in Ids \cup {0}
    /\ ToSet(queue) \cup readers \subseteq Tasks
    /\ writer => readers = {}
    /\ \A t \in readers : turn[t] \notin {"idle", "schemas", "model", "guard"}
    /\ Len(mcp.pipe) <= Room /\ Len(lsp.pipe) <= Room
    /\ ToSet(mcp.pipe) \subseteq Ids \cup {Garbage}
    /\ file \in 0..MaxPrompts

(* A request that succeeds has the answer to that very request, whatever the order in    *)
(* which a server answers, whoever gave up waiting before and wherever the reader ended,  *)
(* unless the server has used the same id for a request of its own: spawn_reader takes   *)
(* that for the answer (McpClient::request, spawn_reader).                           *)
RightAnswer == \A k \in Tasks : req[k].got = "ok" /\ req[k].id \notin mcp.asked => req[k].of = req[k].id

(* The requests the router knows are the ones somebody waits for: nobody waits for an     *)
(* answer that would not be delivered, and nothing is kept for a request that ended,     *)
(* also when the reader has ended before its server.  The entry of an aborted call       *)
(* stays, although request promises to clean up "on every exit path".                 *)
PendingExact ==
    {e \in mcp.pending : e.id \notin dropped} = {[id |-> req[k].id, task |-> k] : k \in {t \in Tasks : Waits(t)}}

Ascending(notes) ==
    \A i, j \in DOMAIN notes : i < j => notes[i].version < notes[j].version /\ notes[i].text <= notes[j].text

(* What the language server is told of a file comes in the order the texts were written,  *)
(* with versions that go up from one, unless two turns wrote the file at the same time    *)
(* (LspClient::notify_file).  Not every text is told of: apply_patch announces none.      *)
LspInOrder ==
    LET notes == lsp.told \o lsp.pipe
    IN  ~overlap => Ascending(notes) /\ (notes # <<>> => Head(notes).version = 1)

(* Every turn ends: neither a server that does not answer, nor the bootstrap, nor another  *)
(* session's permission prompt stops it for good, as long as servers read what they      *)
(* are sent and users answer.                                                  *)
TurnsEnd == \A t \in Turns : turn[t] # "idle" ~> turn[t] = "idle"

(* Requests and answers pair up, and nothing else is kept of them.              *)
Matched == TypeOK /\ RightAnswer /\ PendingExact
===============================================================================
