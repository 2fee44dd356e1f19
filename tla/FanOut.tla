-------------------------------- MODULE FanOut --------------------------------
(***************************************************************************)
(* The multi-model turns of one session: run_orchestrated_turn with its two    *)
(* modes, the concurrent candidates of fan_out, the final stream, and the      *)
(* desktop's comparison panes that show the candidates.                        *)
(*                                                                         *)
(* A candidate and a role's stage are a model 0..N-1; Final is the stream that *)
(* becomes the answer, of the synthesizer or of the last role.  Text is        *)
(* abstracted to whether there is any.  Candidate events are ephemeral, so a   *)
(* client that lags or looks away has lost them.                              *)
(***************************************************************************)
EXTENDS Integers, Sequences, FiniteSets, SequencesExt

CONSTANTS
    N,          \* candidates, or roles
    Final,
    RingCap,    \* capacity of the client's event buffer
    MaxTurns,   \* bound: turns
    MayFail     \* bound: whether the transaction of the answer may fail

Indices == 0..(N - 1)
Models  == Indices \cup {Final}

ASSUME ModelsAssumption == N \in Nat \ {0} /\ Final \notin Indices
ASSUME BoundsAssumption ==
    RingCap \in Nat \ {0} /\ MaxTurns \in Nat \ {0} /\ MayFail \in BOOLEAN

VARIABLES
    turn,       \* turns begun
    cfg,        \* the turn's orchestration config
    phase,      \* what the turn is doing
    stage,      \* the role whose turn it is
    run,        \* run[m]: how far the stream of m has come
    text,       \* the models that have produced text
    usage,      \* the models whose MessageStop reported usage
    given,      \* the models whose answers the final stream was given
    cancelled,  \* the turn's CancellationToken
    answers,    \* the durable answers
    errors,     \* the turns that sent an Error

    attached,   \* does the desktop show this session?
    wire,       \* candidate events on their way to it
    panes,      \* candidateStore.panes

    \* History, read by properties only.
    lost,       \* has an event been lost since the turn began?
    quiet       \* was the turn aborted before its outcome was settled?

turnFixed  == <<turn, cfg, answers, errors, quiet>>
turnVars   == <<turnFixed, phase, stage, given, cancelled>>
streamVars == <<run, text, usage>>
viewVars   == <<attached, wire, panes, lost>>
vars       == <<turnVars, streamVars, viewVars>>

Invalid == [mode |-> "invalid", registered |-> {}, synthesizer |-> "unset"]
Config  == [mode : {"fan_out", "role_based"}, registered : SUBSET Indices,
            synthesizer : {"unset", "registered", "unknown"}] \cup {Invalid}
Ended  == {"ok", "error", "timeout", "cancelled"}
States == Ended \cup {"none", "ready", "waiting", "polled", "late"}
Event  == [type : {"started", "delta", "completed"}, index : Indices, turn : 1..MaxTurns,
           error : BOOLEAN]
Pane   == [index : Indices, turn : 0..MaxTurns, text : BOOLEAN,
           status : {"streaming", "done", "error"}]
Answer == [turn : 1..MaxTurns, from : SUBSET Indices, usage : SUBSET Models]

Fresh == [m \in Models |-> "none"]

Init ==
    /\ turn = 0
    /\ cfg = Invalid
    /\ phase = "idle"
    /\ stage = 0
    /\ run = Fresh
    /\ text = {} /\ usage = {}
    /\ given = {}
    /\ cancelled = FALSE
    /\ answers = {} /\ errors = {}
    /\ attached = TRUE
    /\ wire = <<>>
    /\ panes \in SUBSET {[index |-> i, turn |-> 0, text |-> TRUE, status |-> "done"] :
                         i \in Indices}    \* of a turn before
    /\ lost = FALSE
    /\ quiet = FALSE

-----------------------------------------------------------------------------
(* Candidate events and the panes.                                           *)

CandidateEvent(type, i, err) == [type |-> type, index |-> i, turn |-> turn, error |-> err]

\* What does not fit pushes the oldest events out.
Send(events) ==
    LET all  == wire \o events
        over == IF Len(all) > RingCap THEN Len(all) - RingCap ELSE 0
    IN  /\ wire' = IF attached THEN SubSeq(all, over + 1, Len(all)) ELSE <<>>
        /\ lost' = (lost \/ (events # <<>> /\ ~attached) \/ (attached /\ over > 0))
        /\ UNCHANGED <<attached, panes>>
\* Only candidates have events of this kind.
SendOf(m, type, err) ==
    IF m \in Indices THEN Send(<<CandidateEvent(type, m, err)>>) ELSE UNCHANGED viewVars

(* handleCandidateEvent.                                                     *)
PanesAfter(e) ==
    LET others == {p \in panes : p.index # e.index}
        mine   == panes \ others
    IN  CASE e.type = "started" ->
               (IF e.index = 0 THEN {} ELSE others)
                 \cup {[index |-> e.index, turn |-> e.turn, text |-> FALSE,
                        status |-> "streaming"]}
          [] e.type = "delta" -> others \cup {[p EXCEPT !.text = TRUE] : p \in mine}
          [] e.type = "completed" ->
               others \cup {[p EXCEPT !.status = IF e.error THEN "error" ELSE "done"] :
                            p \in mine}

Deliver ==
    /\ wire # <<>>
    /\ panes' = PanesAfter(Head(wire))
    /\ wire' = Tail(wire)
    /\ UNCHANGED <<turnVars, streamVars, attached, lost>>

(* Another session is shown: the panes are cleared and events dropped.        *)
Leave ==
    /\ attached /\ ~lost    \* bound: a second loss adds nothing
    /\ attached' = FALSE
    /\ wire' = <<>>
    /\ panes' = {}
    /\ lost' = TRUE
    /\ UNCHANGED <<turnVars, streamVars>>

(* The session is shown again; its replay has no candidate events.            *)
Return ==
    /\ ~attached
    /\ attached' = TRUE
    /\ UNCHANGED <<turnVars, streamVars, wire, panes, lost>>

-----------------------------------------------------------------------------
(* One model's stream: run_candidate and stream_single.                       *)

Becomes(m, state) == run' = [run EXCEPT ![m] = state]

(* Announce, if the candidates were tasks of their own.                       *)
AnnounceInAnyOrder(i) ==
    /\ run[i] = "ready"
    /\ Becomes(i, "waiting")
    /\ SendOf(i, "started", FALSE)
    /\ UNCHANGED <<turnVars, text, usage>>

(* CandidateStarted: join_all polls in order, and the channel is fair.        *)
Announce(i) ==
    /\ run[i] = "ready"
    /\ \A j \in Indices : j < i => run[j] # "ready"
    /\ Becomes(i, "waiting")
    /\ SendOf(i, "started", FALSE)
    /\ UNCHANGED <<turnVars, text, usage>>

(* A poll looks at the token first; polls that find nothing are left out.     *)
Poll(m) ==
    /\ run[m] = "waiting"
    /\ ~cancelled
    /\ Becomes(m, "polled")
    /\ UNCHANGED <<turnVars, text, usage, viewVars>>

Cancelled(m) ==
    /\ run[m] = "waiting"
    /\ cancelled
    /\ Becomes(m, "cancelled")
    /\ SendOf(m, "completed", TRUE)
    /\ UNCHANGED <<turnVars, text, usage>>

(* Expires, if the final stream had no timeout.                              *)
ExpiresForCandidate(m) ==
    /\ m \in Indices
    /\ run[m] = "waiting"
    /\ ~cancelled
    /\ Becomes(m, "late")
    /\ UNCHANGED <<turnVars, text, usage, viewVars>>

(* The timer polls as well; it is looked at when the stream has nothing.      *)
Expires(m) ==
    /\ run[m] = "waiting"
    /\ ~cancelled
    /\ Becomes(m, "late")
    /\ UNCHANGED <<turnVars, text, usage, viewVars>>

Polled(m) == run[m] \in {"polled", "late"}

Produces(m) ==
    /\ Polled(m)
    /\ m \notin text
    /\ text' = text \cup {m}
    /\ UNCHANGED run \/ (run[m] = "polled" /\ Becomes(m, "waiting"))
    /\ SendOf(m, "delta", FALSE)
    /\ UNCHANGED <<turnVars, usage>>

\* The end of a stream without a MessageStop is no error and reports nothing.
Finishes(m) ==
    /\ Polled(m)
    /\ Becomes(m, "ok")
    /\ usage' \in {usage, usage \cup {m}}
    /\ SendOf(m, "completed", FALSE)
    /\ UNCHANGED <<turnVars, text>>

Errs(m) ==
    /\ \/ Polled(m) /\ Becomes(m, "error")
       \/ run[m] = "late" /\ Becomes(m, "timeout")
    /\ SendOf(m, "completed", TRUE)
    /\ UNCHANGED <<turnVars, text, usage>>

Stream(m) ==
    \/ m \in Indices /\ Announce(m)
    \/ Cancelled(m) \/ Produces(m) \/ Finishes(m) \/ Errs(m)

-----------------------------------------------------------------------------
(* The turn.                                                                 *)

Goto(p) == phase' = p
Ends    == Goto("idle") /\ cancelled' = FALSE
InGroup  == {i \in Indices : run[i] # "none"}
Gathered == \A i \in InGroup : run[i] \in Ended

(* run_orchestrated_turn: where a mode's turn begins.  The conversation is read *)
(* once, and no model is offered tools.                                      *)
Dispatch(mode) == IF mode = "fan_out" THEN "resolve" ELSE "stage"

(* run_session_turn reaches the orchestration branch.                         *)
Begin ==
    /\ phase = "idle"
    /\ turn < MaxTurns
    /\ turn' = turn + 1
    /\ cfg' \in Config
    /\ Goto(IF cfg' = Invalid \/ (cfg'.mode = "fan_out" /\ N < 2)
              THEN "fail" ELSE Dispatch(cfg'.mode))
    /\ stage' = 0
    /\ run' = Fresh
    /\ text' = {} /\ usage' = {} /\ given' = {}
    /\ lost' = FALSE /\ quiet' = FALSE
    /\ UNCHANGED <<cancelled, answers, errors, attached, wire, panes>>

(* abort_turn.                                                               *)
Abort ==
    /\ phase # "idle"
    /\ ~cancelled
    /\ cancelled' = TRUE
    /\ quiet' = \/ phase \in {"resolve", "stage", "gather"}
                \/ phase = "final" /\ run[Final] = "waiting"
    /\ UNCHANGED <<turn, cfg, phase, stage, given, answers, errors, streamVars, viewVars>>

\* The candidates that no provider is registered for, in order.
Missing ==
    LET none == Indices \ cfg.registered
        n    == Cardinality(none)
    IN  {s \in [1..n -> none] : /\ \A i \in none : \E k \in 1..n : s[k] = i
                                /\ \A j, k \in 1..n : j < k => s[j] < s[k]}

Unregistered(missing) ==
    [k \in 1..(2 * Len(missing)) |->
        IF k % 2 = 1 THEN CandidateEvent("started", missing[(k + 1) \div 2], FALSE)
                     ELSE CandidateEvent("completed", missing[k \div 2], TRUE)]

(* Candidates whose provider is not registered start and fail; the others run. *)
Resolve ==
    /\ phase = "resolve"
    /\ Goto("gather")
    /\ run' = [m \in Models |-> IF m \in cfg.registered THEN "ready" ELSE "none"]
    /\ \E missing \in Missing : Send(Unregistered(missing))
    /\ UNCHANGED <<turnFixed, stage, given, cancelled, text, usage>>

SynthesizerReady ==
    cfg.synthesizer = "registered" \/ (cfg.synthesizer = "unset" /\ 0 \in cfg.registered)

\* The answers are given to the final stream, or there is none to give them to.
Synthesize(ready, from) ==
    \/ ready /\ Goto("final") /\ given' = from /\ Becomes(Final, "waiting")
    \/ ~ready /\ Goto("fail") /\ UNCHANGED <<given, run>>

(* CandidateOutcome: a model whose stream ended without an error.  One that was *)
(* late, failed or cancelled keeps the text it had, which is not used.         *)
Succeeded(m) == run[m] = "ok"

Survivors == {i \in InGroup : Succeeded(i) /\ i \in text}
Stops     == cancelled /\ Ends /\ UNCHANGED <<given, run>>
GoesOn    == ~cancelled /\ UNCHANGED cancelled

(* Collect, if the token were not looked at behind fan_out.                   *)
CollectRegardless ==
    /\ phase = "gather" /\ cfg.mode = "fan_out"
    /\ Gathered
    /\ Synthesize(Survivors # {} /\ SynthesizerReady, Survivors)
    /\ UNCHANGED <<turnFixed, stage, cancelled, text, usage, viewVars>>

(* Collect, if it went on with the first answer.                              *)
CollectFirst ==
    /\ phase = "gather" /\ cfg.mode = "fan_out"
    /\ Gathered \/ Survivors # {}
    /\ Stops \/ (GoesOn /\ Synthesize(Survivors # {} /\ SynthesizerReady, Survivors))
    /\ UNCHANGED <<turnFixed, stage, text, usage, viewVars>>

(* run_fan_out behind fan_out.                                               *)
Collect ==
    /\ phase = "gather" /\ cfg.mode = "fan_out"
    /\ Gathered
    /\ Stops \/ (GoesOn /\ Synthesize(Survivors # {} /\ SynthesizerReady, Survivors))
    /\ UNCHANGED <<turnFixed, stage, text, usage, viewVars>>

(* run_role_pipeline: the last role's stream is the answer where no             *)
(* synthesizer is set.                                                       *)
IsAnswer == stage = N - 1 /\ cfg.synthesizer = "unset"

BeginStage ==
    /\ phase = "stage"
    /\ \/ Stops
       \/ GoesOn /\ (IsAnswer \/ stage \notin cfg.registered)
          /\ Synthesize(stage \in cfg.registered, InGroup)
       \/ GoesOn /\ ~IsAnswer /\ stage \in cfg.registered
          /\ Goto("gather") /\ Becomes(stage, "ready") /\ UNCHANGED given
    /\ UNCHANGED <<turnFixed, stage, text, usage, viewVars>>

\* After the stage: the next one, or the synthesis of all, behind stage number last.
AfterStage(last) ==
    \/ Stops /\ UNCHANGED stage
    \/ /\ GoesOn /\ stage \in Survivors /\ stage < last
       /\ Goto("stage") /\ stage' = stage + 1 /\ UNCHANGED <<given, run>>
    \/ /\ GoesOn /\ (stage \notin Survivors \/ stage = last)
       /\ Synthesize(stage \in Survivors /\ SynthesizerReady, InGroup)
       /\ UNCHANGED stage

(* EndStage, if the last role were taken for one in the middle.               *)
EndStageOffByOne ==
    /\ phase = "gather" /\ cfg.mode = "role_based"
    /\ Gathered
    /\ AfterStage(N)
    /\ UNCHANGED <<turnFixed, text, usage, viewVars>>

EndStage ==
    /\ phase = "gather" /\ cfg.mode = "role_based"
    /\ Gathered
    /\ AfterStage(N - 1)
    /\ UNCHANGED <<turnFixed, text, usage, viewVars>>

(* The final stream's result.                                                *)
EndFinal ==
    /\ phase = "final"
    /\ run[Final] \in Ended
    /\ \/ run[Final] = "cancelled" /\ Ends
       \/ Succeeded(Final) /\ Final \in text /\ Goto("persist") /\ UNCHANGED cancelled
       \/ /\ run[Final] \in {"error", "timeout"} \/ (Succeeded(Final) /\ Final \notin text)
          /\ Goto("fail") /\ UNCHANGED cancelled
    /\ UNCHANGED <<turnFixed, stage, given, streamVars, viewVars>>

(* CandidateUsage, if only the answers that were used were paid for.           *)
UsedUsage == usage \cap given

(* sum_candidate_usage: what the candidates reported, whatever became of them.  *)
CandidateUsage == usage \cap InGroup

(* persist_orchestrated_answer: an error here is only logged.                 *)
Persist ==
    /\ phase = "persist"
    /\ \/ answers' = answers \cup {[turn |-> turn, from |-> given,
                                    usage |-> CandidateUsage \cup (usage \cap {Final})]}
       \/ MayFail /\ UNCHANGED answers
    /\ Ends
    /\ UNCHANGED <<turn, cfg, stage, given, errors, quiet, streamVars, viewVars>>

(* fail_orchestration.                                                       *)
Fail ==
    /\ phase = "fail"
    /\ errors' = errors \cup {turn}
    /\ Ends
    /\ UNCHANGED <<turn, cfg, stage, given, answers, quiet, streamVars, viewVars>>

TurnStep == Resolve \/ Collect \/ BeginStage \/ EndStage \/ EndFinal \/ Persist \/ Fail

Next ==
    \/ Begin \/ Abort
    \/ TurnStep
    \/ \E m \in Models : Stream(m) \/ Poll(m) \/ Expires(m)
    \/ Deliver \/ Leave \/ Return

(* A turn and its streams are polled; a timer fires.                          *)
Spec ==
    /\ Init /\ [][Next]_vars
    /\ WF_vars(TurnStep)
    /\ \A m \in Models : WF_vars(Stream(m)) /\ WF_vars(Expires(m))

-----------------------------------------------------------------------------
(* Properties.                                                               *)

(* Type invariant.                                                           *)
TypeOK ==
    /\ turn \in 0..MaxTurns
    /\ cfg \in Config
    /\ phase \in {"idle", "resolve", "stage", "gather", "final", "persist", "fail"}
    /\ stage \in Indices
    /\ run \in [Models -> States]
    /\ {text, usage} \subseteq SUBSET Models
    /\ given \subseteq Indices
    /\ {cancelled, attached, lost, quiet} \subseteq BOOLEAN
    /\ answers \subseteq Answer
    /\ errors \subseteq 1..MaxTurns
    /\ wire \in Seq(Event) /\ Len(wire) <= RingCap
    /\ panes \subseteq Pane
    /\ \A p, q \in panes : p.index = q.index => p = q

(* The final stream starts when no candidate runs any more, and is given every  *)
(* answer there is and no other: those of failed, late, aborted and silent      *)
(* candidates are left out, and a pipeline has an answer of every stage before. *)
SynthesisOfSurvivors ==
    phase \in {"final", "persist"} =>
        /\ Gathered
        /\ given = {i \in Indices : run[i] = "ok" /\ i \in text}
        /\ cfg.mode = "fan_out" => given # {}
        /\ cfg.mode = "role_based" =>
               given = {i \in Indices : i < N - 1 \/ cfg.synthesizer # "unset"}

(* An abort that comes while candidates run, between stages, or while the       *)
(* answer streams leaves neither an answer nor an error behind, whatever the    *)
(* models that had finished by then returned.                                  *)
AbortIsQuiet ==
    quiet => turn \notin errors /\ \A a \in answers : a.turn # turn

(* An answer is charged with what every model of its turn reported, also those  *)
(* whose answers were not used.                                               *)
BilledForAll ==
    \A a \in answers : a.turn = turn => a.usage = usage

(* When a turn has ended and the client has seen all its events, there is a      *)
(* pane for each model that ran, as it ended, and none of an earlier turn.      *)
ComparisonFaithful ==
    phase = "idle" /\ attached /\ ~lost /\ wire = <<>> /\ InGroup # {} =>
        /\ \A p \in panes : p.turn = turn
        /\ \A i \in InGroup : \E p \in panes :
               /\ p.index = i
               /\ p.text = (i \in text)
               /\ p.status = IF run[i] = "ok" THEN "done" ELSE "error"

(* Every turn ends, although models may hang: "a slow or wedged candidate can't *)
(* stall the whole fan-out".                                                  *)
TurnEnds == phase # "idle" ~> phase = "idle"

(* The bill is that of all the models, whatever the mode.                      *)
Billed == TypeOK /\ BilledForAll
================================================================================
