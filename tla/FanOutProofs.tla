---------------------------- MODULE FanOutProofs ----------------------------
(***************************************************************************)
(* Theorems about FanOut for every number of models and turns and every size   *)
(* of the buffer: an aborted turn is quiet, the final stream is given every     *)
(* answer there is, the bill is complete, and the comparison shows what ran.     *)
(***************************************************************************)
EXTENDS FanOut, FiniteSetTheorems, SequenceTheorems, TLAPS

Outcomeless(t) == t \notin errors /\ \A a \in answers : a.turn # t

(* Outcomes belong to turns that have begun, and a turn that runs has none.   *)
Accounts ==
    /\ turn \in Nat
    /\ errors \subseteq 0..turn
    /\ \A a \in answers : a.turn \in 0..turn
    /\ phase # "idle" => Outcomeless(turn)

(* What a turn aborted in time may still be doing: it runs on in a phase that   *)
(* looks at the token before anything is decided, its final stream has not     *)
(* been polled since, and its token stays cancelled until it ends.             *)
Quiet ==
    quiet =>
        /\ phase \in {"idle", "resolve", "stage", "gather", "final"}
        /\ phase # "idle" => cancelled
        /\ phase = "final" => run[Final] \in {"waiting", "cancelled"}
        /\ Outcomeless(turn)

Streams == run \in [Models -> States]

AbortInv == Streams /\ Accounts /\ Quiet

-----------------------------------------------------------------------------
(* The streams.                                                              *)

(* Streams keep their type.                                                  *)
LEMMA StreamsStep == Streams /\ [Next]_vars => Streams'
  <1> USE DEF Streams, States, Ended
  <1> SUFFICES ASSUME Streams, [Next]_vars PROVE Streams'
    OBVIOUS
  <1>1. ASSUME NEW m, NEW s \in States, Becomes(m, s) PROVE Streams'
    BY <1>1 DEF Becomes
  <1>2. CASE Begin
    BY <1>2 DEF Begin, Fresh
  <1>3. CASE Resolve
    BY <1>3 DEF Resolve
  <1>4. ASSUME NEW ready, NEW from, Synthesize(ready, from) PROVE Streams'
    BY <1>1, <1>4 DEF Synthesize
  <1>5. CASE Collect
    BY <1>4, <1>5 DEF Collect, Stops
  <1>6. CASE BeginStage
    BY <1>1, <1>4, <1>6 DEF BeginStage, Stops
  <1>7. CASE EndStage
    BY <1>4, <1>7 DEF EndStage, AfterStage, Stops
  <1>8. ASSUME NEW m \in Models, Stream(m) \/ Poll(m) \/ Expires(m) PROVE Streams'
    BY <1>1, <1>8 DEF Stream, Announce, Cancelled, Produces, Finishes, Errs, Poll, Expires
  <1>9. CASE Abort \/ EndFinal \/ Persist \/ Fail \/ Deliver \/ Leave \/ Return
    BY <1>9 DEF Abort, EndFinal, Persist, Fail, Deliver, Leave, Return, streamVars
  <1>10. CASE UNCHANGED vars
    BY <1>10 DEF vars, streamVars
  <1>11. QED
    BY <1>2, <1>3, <1>5, <1>6, <1>7, <1>8, <1>9, <1>10 DEF Next, TurnStep

-----------------------------------------------------------------------------
(* The outcomes.                                                             *)

(* Accounts is kept.                                                         *)
LEMMA AccountsStep == Accounts /\ [Next]_vars => Accounts'
  <1> USE DEF Accounts, Outcomeless
  <1> SUFFICES ASSUME Accounts, [Next]_vars PROVE Accounts'
    OBVIOUS
  <1>1. CASE Begin
    BY <1>1 DEF Begin, Goto
  <1>2. CASE Persist
    BY <1>2 DEF Persist, Ends, Goto, turnFixed
  <1>3. CASE Fail
    BY <1>3 DEF Fail, Ends, Goto
  <1>4. ASSUME UNCHANGED <<turn, errors, answers>>, phase # "idle" \/ phase' = phase
        PROVE  Accounts'
    BY <1>4
  <1>5. CASE Abort
    BY <1>4, <1>5 DEF Abort
  <1>6. CASE Resolve \/ Collect \/ BeginStage \/ EndStage \/ EndFinal
    BY <1>4, <1>6 DEF Resolve, Collect, BeginStage, EndStage, EndFinal, turnFixed
  <1>7. CASE \E m \in Models : Stream(m) \/ Poll(m) \/ Expires(m)
    BY <1>4, <1>7 DEF Stream, Announce, Cancelled, Produces, Finishes, Errs, Poll, Expires,
                      turnVars, turnFixed
  <1>8. CASE Deliver \/ Leave \/ Return \/ UNCHANGED vars
    BY <1>4, <1>8 DEF Deliver, Leave, Return, vars, turnVars, turnFixed
  <1>9. QED
    BY <1>1, <1>2, <1>3, <1>5, <1>6, <1>7, <1>8 DEF Next, TurnStep

-----------------------------------------------------------------------------
(* The abort.                                                                *)

(* A phase that looks at the token ends an aborted turn.                      *)
LEMMA StopsQuietly ==
    ASSUME Quiet, quiet, phase # "idle", Stops \/ GoesOn, UNCHANGED turnFixed
    PROVE  Quiet'
  BY DEF Quiet, Outcomeless, Stops, GoesOn, Ends, Goto, turnFixed

(* Quiet is kept.                                                            *)
LEMMA QuietStep == AbortInv /\ [Next]_vars => Quiet'
  <1> USE DEF AbortInv, Quiet, Outcomeless
  <1> SUFFICES ASSUME AbortInv, [Next]_vars, quiet' PROVE Quiet'
    OBVIOUS
  <1>1. CASE Begin
    BY <1>1 DEF Begin
  <1>2. CASE Abort
    BY <1>2 DEF Abort, Accounts, streamVars
  <1>3. CASE Resolve
    BY <1>3 DEF Resolve, Goto, turnFixed
  <1>4. CASE Collect
    BY <1>4, StopsQuietly DEF Collect, turnFixed
  <1>5. CASE BeginStage
    BY <1>5, StopsQuietly DEF BeginStage, turnFixed
  <1>6. CASE EndStage
    BY <1>6, StopsQuietly DEF EndStage, AfterStage, turnFixed
  <1>7. CASE EndFinal
    BY <1>7 DEF EndFinal, Succeeded, Ends, Goto, turnFixed, streamVars, Ended
  <1>8. CASE Persist
    BY <1>8 DEF Persist, turnFixed
  <1>9. CASE Fail
    BY <1>9 DEF Fail, turnFixed
  <1>10. ASSUME NEW m \in Models, Stream(m) \/ Poll(m) \/ Expires(m) PROVE Quiet'
    <2>1. UNCHANGED turnVars
      BY <1>10 DEF Stream, Announce, Cancelled, Produces, Finishes, Errs, Poll, Expires
    <2>2. ASSUME phase = "final" PROVE run'[Final] \in {"waiting", "cancelled"}
      <3>1. run[Final] \in {"waiting", "cancelled"} /\ cancelled
        BY <2>1, <2>2 DEF turnVars, turnFixed
      <3>2. CASE m = Final
        BY <1>10, <3>1, <3>2, ModelsAssumption
           DEF Stream, Announce, Cancelled, Produces, Finishes, Errs, Polled, Poll, Expires,
               Becomes, Streams, Models
      <3>3. CASE m # Final
        BY <1>10, <3>1, <3>3
           DEF Stream, Announce, Cancelled, Produces, Finishes, Errs, Poll, Expires, Becomes,
               Streams, Models
      <3>4. QED
        BY <3>2, <3>3
    <2>3. QED
      BY <2>1, <2>2 DEF turnVars, turnFixed
  <1>11. CASE Deliver \/ Leave \/ Return \/ UNCHANGED vars
    <2>1. UNCHANGED <<phase, cancelled, run, turnFixed>>
      BY <1>11 DEF Deliver, Leave, Return, vars, turnVars, streamVars
    <2>2. QED
      BY <2>1, Zenon DEF turnFixed
  <1>12. QED
    BY <1>1, <1>2, <1>3, <1>4, <1>5, <1>6, <1>7, <1>8, <1>9, <1>10, <1>11 DEF Next, TurnStep

(* An abort that comes before the outcome of a multi-model turn is settled       *)
(* leaves neither an answer nor an error (run_fan_out, run_role_pipeline).      *)
THEOREM QuietAbort == Spec => []AbortIsQuiet
  <1>1. Init => AbortInv
    BY DEF Init, Fresh, AbortInv, Streams, States, Accounts, Quiet, Outcomeless
  <1>2. AbortInv /\ [Next]_vars => AbortInv'
    BY StreamsStep, AccountsStep, QuietStep DEF AbortInv
  <1>3. AbortInv => AbortIsQuiet
    BY DEF AbortInv, Quiet, Outcomeless, AbortIsQuiet
  <1>4. QED
    BY <1>1, <1>2, <1>3, PTL DEF Spec
-----------------------------------------------------------------------------
(* The synthesis.                                                            *)

Moves(m)    == Stream(m) \/ Poll(m) \/ Expires(m)
Answered(i) == run[i] = "ok" /\ i \in text

(* What a pipeline has when it reaches a stage: the answers of all before, and  *)
(* nothing of those after it.                                                *)
Pipeline ==
    /\ stage \in Indices
    /\ phase = "resolve" => cfg.mode = "fan_out"
    /\ phase = "stage" => /\ cfg.mode = "role_based"
                          /\ \A i \in Indices : i < stage => Answered(i)
                          /\ \A i \in Indices : i >= stage => run[i] = "none"
    /\ phase = "gather" /\ cfg.mode = "role_based" =>
           /\ \A i \in Indices : i < stage => Answered(i)
           /\ \A i \in Indices : i > stage => run[i] = "none"
           /\ run[stage] # "none"
           /\ stage = N - 1 => cfg.synthesizer # "unset"

SynthesisInv == Streams /\ Pipeline /\ SynthesisOfSurvivors

(* A stream that moves has begun and not ended, and moves no other.           *)
LEMMA OneStreamMoves ==
    ASSUME NEW m \in Models, Streams, Moves(m)
    PROVE  /\ UNCHANGED turnVars
           /\ run[m] \notin Ended \cup {"none"}
           /\ run'[m] # "none"
           /\ \A i \in Models \ {m} : run'[i] = run[i] /\ (i \in text' <=> i \in text)
  <1> USE DEF Moves, Stream, Announce, Cancelled, Produces, Finishes, Errs, Polled, Poll, Expires
  <1>1. UNCHANGED turnVars
    OBVIOUS
  <1>2. run[m] \notin Ended \cup {"none"}
    BY DEF Ended
  <1>3. run'[m] # "none" /\ \A i \in Models \ {m} : run'[i] = run[i]
    BY <1>2 DEF Becomes, Streams
  <1>4. \A i \in Models \ {m} : i \in text' <=> i \in text
    OBVIOUS
  <1>5. QED
    BY <1>1, <1>2, <1>3, <1>4

(* Steps that leave the turn, its streams and their texts alone. *)
LEMMA SynthesisFrame ==
    ASSUME SynthesisInv, UNCHANGED <<phase, stage, cfg, given, run, text>>
    PROVE  Pipeline' /\ SynthesisOfSurvivors'
  BY DEF SynthesisInv, Pipeline, SynthesisOfSurvivors, Answered, Gathered, InGroup

(* A stream's step: what has ended stays, and only Final still moves when it runs. *)
LEMMA SynthesisStream ==
    ASSUME SynthesisInv, NEW m \in Models, Moves(m)
    PROVE  Pipeline' /\ SynthesisOfSurvivors'
  <1>1. UNCHANGED <<phase, stage, cfg, given>>
    BY OneStreamMoves DEF SynthesisInv, turnVars, turnFixed
  <1>2. ASSUME NEW i \in Indices, run[i] \in Ended \cup {"none"}
        PROVE  run'[i] = run[i] /\ (i \in text' <=> i \in text)
    BY <1>2, OneStreamMoves DEF SynthesisInv, Models
  <1>3. Pipeline'
    <2>1. \A i \in Indices : run[i] # "none" => run'[i] # "none"
      BY OneStreamMoves DEF SynthesisInv, Models
    <2>2. \A i \in Indices : Answered(i) => Answered(i)'
      BY <1>2 DEF Answered, Ended
    <2>3. \A i \in Indices : run[i] = "none" => run'[i] = "none"
      BY <1>2
    <2> HIDE DEF Answered
    <2>4. QED
      BY <1>1, <2>1, <2>2, <2>3 DEF SynthesisInv, Pipeline
  <1>4. SynthesisOfSurvivors'
    <2> SUFFICES ASSUME phase \in {"final", "persist"} PROVE SynthesisOfSurvivors'
      BY <1>1 DEF SynthesisOfSurvivors
    <2>1. \A i \in Indices : run[i] \in Ended \cup {"none"}
      BY DEF SynthesisInv, SynthesisOfSurvivors, Gathered, InGroup
    <2>2. \A i \in Indices : run'[i] = run[i] /\ (i \in text' <=> i \in text)
      BY <1>2, <2>1
    <2>3. {i \in Indices : run'[i] = "ok" /\ i \in text'} = {i \in Indices : run[i] = "ok" /\ i \in text}
      BY <2>2
    <2>4. Gathered'
      BY <2>1, <2>2 DEF Gathered, InGroup
    <2>5. QED
      BY <1>1, <2>3, <2>4 DEF SynthesisInv, SynthesisOfSurvivors
  <1>5. QED
    BY <1>3, <1>4

(* The answers are given to the final stream, and no candidate runs any more.   *)
LEMMA SynthesisBegins ==
    ASSUME Streams, Gathered, NEW ready, NEW from, Synthesize(ready, from),
           UNCHANGED <<cfg, stage, text>>, stage \in Indices,
           ready => from = Survivors,
           ready /\ cfg.mode = "fan_out" => from # {},
           ready /\ cfg.mode = "role_based" =>
               from = {i \in Indices : i < N - 1 \/ cfg.synthesizer # "unset"}
    PROVE  Pipeline' /\ SynthesisOfSurvivors'
  <1>1. CASE ~ready
    BY <1>1 DEF Synthesize, Goto, Pipeline, SynthesisOfSurvivors
  <1>2. CASE ready
    <2>1. phase' = "final" /\ given' = from
      BY <1>2 DEF Synthesize, Goto
    <2>2. \A i \in Indices : run'[i] = run[i]
      BY <1>2, ModelsAssumption DEF Synthesize, Becomes, Streams, Models
    <2>3. Gathered'
      BY <2>2 DEF Gathered, InGroup
    <2>4. Survivors = {i \in Indices : run[i] = "ok" /\ i \in text}
      BY DEF Survivors, Succeeded, InGroup
    <2>5. given' = {i \in Indices : run'[i] = "ok" /\ i \in text'}
      BY <1>2, <2>1, <2>2, <2>4
    <2>6. Pipeline'
      BY <2>1 DEF Pipeline
    <2>7. SynthesisOfSurvivors'
      BY <1>2, <2>1, <2>3, <2>5 DEF SynthesisOfSurvivors
    <2>8. QED
      BY <2>6, <2>7
  <1>3. QED
    BY <1>1, <1>2

(* A turn that stops has nothing to show. *)
LEMMA SynthesisStops ==
    ASSUME SynthesisInv, phase' \in {"idle", "fail"}, stage' = stage
    PROVE  Pipeline' /\ SynthesisOfSurvivors'
  BY DEF SynthesisInv, Pipeline, SynthesisOfSurvivors

(* SynthesisInv is kept.                                                     *)
LEMMA SynthesisStep == SynthesisInv /\ [Next]_vars => SynthesisInv'
  <1> SUFFICES ASSUME SynthesisInv, [Next]_vars PROVE Pipeline' /\ SynthesisOfSurvivors'
    BY StreamsStep DEF SynthesisInv
  <1>1. CASE Begin
    <2>1. stage' = 0 /\ run' = Fresh /\ phase' \in {"resolve", "stage", "fail"}
      BY <1>1 DEF Begin, Goto, Dispatch
    <2>2. /\ phase' = "resolve" => cfg'.mode = "fan_out"
          /\ phase' = "stage" => cfg'.mode = "role_based"
      BY <1>1 DEF Begin, Goto, Dispatch, Config
    <2>3. \A i \in Indices : run'[i] = "none"
      BY <2>1 DEF Fresh, Models
    <2>4. 0 \in Indices /\ \A i \in Indices : ~(i < 0)
      BY ModelsAssumption DEF Indices
    <2>5. QED
      BY <2>1, <2>2, <2>3, <2>4 DEF Pipeline, SynthesisOfSurvivors
  <1>2. CASE Resolve
    BY <1>2 DEF Resolve, Goto, turnFixed, SynthesisInv, Pipeline, SynthesisOfSurvivors
  <1>3. CASE Collect
    <2>1. CASE Stops
      BY <1>3, <2>1, SynthesisStops DEF Collect, Stops, Ends, Goto
    <2>2. CASE Synthesize(Survivors # {} /\ SynthesizerReady, Survivors)
      BY <1>3, <2>2, SynthesisBegins DEF Collect, turnFixed, SynthesisInv, Pipeline
    <2>3. QED
      BY <1>3, <2>1, <2>2 DEF Collect
  <1>4. CASE BeginStage
    <2> USE <1>4 DEF BeginStage
    <2>1. \A i \in Indices : i < stage => Answered(i)
      BY DEF SynthesisInv, Pipeline
    <2>2. \A i \in Indices : i >= stage => run[i] = "none"
      BY DEF SynthesisInv, Pipeline
    <2>3. cfg.mode = "role_based" /\ stage \in Indices
      BY DEF SynthesisInv, Pipeline
    <2>4. CASE Stops
      BY <2>4, SynthesisStops DEF Stops, Ends, Goto
    <2>5. CASE (IsAnswer \/ stage \notin cfg.registered)
               /\ Synthesize(stage \in cfg.registered, InGroup)
      <3>1. InGroup = {i \in Indices : i < stage} /\ InGroup = Survivors
        BY <2>1, <2>2, <2>3 DEF InGroup, Survivors, Succeeded, Answered, Indices
      <3>2. Gathered
        BY <2>1, <3>1 DEF Gathered, Answered, Ended
      <3>3. IsAnswer => InGroup = {i \in Indices : i < N - 1 \/ cfg.synthesizer # "unset"}
        BY <3>1 DEF IsAnswer
      <3>4. UNCHANGED <<cfg, stage, text>> /\ Streams
        BY DEF turnFixed, SynthesisInv
      <3>5. QED
        BY <2>3, <2>5, <3>1, <3>2, <3>3, <3>4, SynthesisBegins
    <2>6. CASE ~IsAnswer /\ Goto("gather") /\ Becomes(stage, "ready")
      <3>1. run'[stage] = "ready" /\ \A i \in Indices : i # stage => run'[i] = run[i]
        BY <2>3, <2>6 DEF Becomes, SynthesisInv, Streams, Models
      <3>2. \A i \in Indices : i < stage => Answered(i)'
        BY <2>1, <2>3, <3>1 DEF Answered, Indices
      <3>3. \A i \in Indices : i > stage => run'[i] = "none"
        BY <2>2, <2>3, <3>1 DEF Indices
      <3>4. stage = N - 1 => cfg.synthesizer # "unset"
        BY <2>6 DEF IsAnswer
      <3>5. stage' = stage /\ cfg' = cfg /\ phase' = "gather"
        BY <2>6 DEF turnFixed, Goto
      <3> HIDE DEF Answered, BeginStage
      <3>6. QED
        BY <2>3, <3>1, <3>2, <3>3, <3>4, <3>5 DEF Pipeline, SynthesisOfSurvivors
    <2>7. QED
      BY <2>4, <2>5, <2>6
  <1>5. CASE EndStage
    <2> USE <1>5 DEF EndStage
    <2>1. /\ cfg.mode = "role_based" /\ stage \in Indices /\ Gathered
          /\ \A i \in Indices : i < stage => Answered(i)
          /\ \A i \in Indices : i > stage => run[i] = "none"
          /\ stage = N - 1 => cfg.synthesizer # "unset"
      BY DEF SynthesisInv, Pipeline
    <2>2. UNCHANGED <<cfg, text>>
      BY DEF turnFixed
    <2>3. CASE Stops /\ UNCHANGED stage
      BY <2>3, SynthesisStops DEF Stops, Ends, Goto
    <2>4. CASE /\ stage \in Survivors /\ stage < N - 1 /\ Goto("stage")
               /\ stage' = stage + 1 /\ run' = run
      <3>1. \A i \in Indices : i < stage' => Answered(i)'
        BY <2>1, <2>2, <2>4 DEF Answered, Survivors, Succeeded, Indices
      <3>2. \A i \in Indices : i >= stage' => run'[i] = "none"
        BY <2>1, <2>4 DEF Indices
      <3>3. stage' \in Indices
        BY <2>1, <2>4, ModelsAssumption DEF Indices
      <3>4. QED
        BY <2>1, <2>2, <2>4, <3>1, <3>2, <3>3 DEF Pipeline, SynthesisOfSurvivors, Goto
    <2>5. CASE /\ stage \notin Survivors \/ stage = N - 1
               /\ Synthesize(stage \in Survivors /\ SynthesizerReady, InGroup)
               /\ UNCHANGED stage
      <3>1. ASSUME stage \in Survivors PROVE InGroup = Indices /\ InGroup = Survivors
        <4>1. \A i \in Indices : i < stage \/ i = stage
          BY <2>1, <2>5, <3>1, ModelsAssumption DEF Indices
        <4>2. QED
          BY <2>1, <3>1, <4>1 DEF InGroup, Survivors, Succeeded, Answered
      <3>2. stage \in Survivors => cfg.synthesizer # "unset"
        BY <2>1, <2>5
      <3>3. Streams
        BY DEF SynthesisInv
      <3>4. QED
        BY <2>1, <2>2, <2>5, <3>1, <3>2, <3>3, SynthesisBegins
    <2>6. QED
      BY <2>3, <2>4, <2>5 DEF AfterStage
  <1>6. CASE EndFinal
    <2>1. phase' \in {"idle", "fail", "persist"} /\ phase = "final"
      BY <1>6 DEF EndFinal, Succeeded, Ends, Goto
    <2>2. UNCHANGED <<stage, cfg, given, run, text>>
      BY <1>6 DEF EndFinal, Succeeded, turnFixed, streamVars
    <2>3. QED
      BY <2>1, <2>2 DEF SynthesisInv, Pipeline, SynthesisOfSurvivors, Gathered, InGroup
  <1>7. CASE Persist \/ Fail
    BY <1>7, SynthesisStops DEF Persist, Fail, Ends, Goto, turnFixed
  <1>8. ASSUME NEW m \in Models, Moves(m) PROVE Pipeline' /\ SynthesisOfSurvivors'
    BY <1>8, SynthesisStream
  <1>9. CASE Abort \/ Deliver \/ Leave \/ Return \/ UNCHANGED vars
    <2>1. UNCHANGED <<phase, stage, cfg, given, run, text>>
      BY <1>9 DEF Abort, Deliver, Leave, Return, vars, turnVars, turnFixed, streamVars
    <2>2. QED
      BY <2>1, SynthesisFrame
  <1>10. QED
    BY <1>1, <1>2, <1>3, <1>4, <1>5, <1>6, <1>7, <1>8, <1>9 DEF Next, TurnStep, Moves

(* What the final stream of a multi-model turn is given is every answer there is, *)
(* and no candidate runs beside it (run_fan_out, run_role_pipeline).             *)
THEOREM SynthesisComplete == Spec => []SynthesisOfSurvivors
  <1>1. Init => SynthesisInv
    BY ModelsAssumption
       DEF Init, Fresh, SynthesisInv, Streams, States, Pipeline, SynthesisOfSurvivors, Indices
  <1>2. SynthesisInv => SynthesisOfSurvivors
    BY DEF SynthesisInv
  <1>3. QED
    BY <1>1, <1>2, SynthesisStep, PTL DEF Spec
-----------------------------------------------------------------------------
(* Types of the view.                                                        *)

ViewTypes ==
    /\ wire \in Seq(Event) /\ Len(wire) <= RingCap
    /\ panes \subseteq Pane
    /\ \A p, q \in panes : p.index = q.index => p = q
    /\ attached \in BOOLEAN /\ lost \in BOOLEAN
    /\ attached \/ wire = <<>>

(* What is sent stands behind what was there, the oldest events pushed out; where  *)
(* nothing is lost, all of it is there.                                       *)
LEMMA Sent ==
  ASSUME ViewTypes, NEW events \in Seq(Event), Send(events)
  PROVE  /\ ViewTypes' /\ panes' = panes /\ attached' = attached
         /\ wire' = <<>> \/ \E over \in Nat :
              /\ over <= Len(wire \o events) /\ Len(wire') = Len(wire \o events) - over
              /\ \A k \in 1..Len(wire') : wire'[k] = (wire \o events)[over + k]
         /\ ~lost' => ~lost /\ wire' = wire \o events
  <1> DEFINE all  == wire \o events
             over == IF Len(all) > RingCap THEN Len(all) - RingCap ELSE 0
  <1>1. all \in Seq(Event) /\ Len(all) \in Nat /\ RingCap \in Nat
    BY BoundsAssumption DEF ViewTypes
  <1>2. over \in Nat /\ over <= Len(all) /\ Len(all) - over <= RingCap
    BY <1>1
  <1>3. /\ wire' = IF attached THEN SubSeq(all, over + 1, Len(all)) ELSE <<>>
        /\ lost' = (lost \/ (events # <<>> /\ ~attached) \/ (attached /\ over > 0))
        /\ attached' = attached /\ panes' = panes
    BY DEF Send
  <1>4. over = 0 => SubSeq(all, over + 1, Len(all)) = all
    <2> SUFFICES ASSUME over = 0 PROVE SubSeq(all, over + 1, Len(all)) = all
      OBVIOUS
    <2>1. over + 1 = 1 /\ SubSeq(all, 1, Len(all)) = all
      BY <1>1, SubSeqFull
    <2> HIDE DEF over
    <2>2. QED
      BY <2>1
  <1>5. events = <<>> /\ wire = <<>> => all = <<>>
    OBVIOUS
  <1> HIDE DEF all, over
  <1>6. CASE attached
    <2>1. \A i \in (over + 1)..Len(all) : all[i] \in Event
      BY <1>1, <1>2, ElementOfSeq
    <2>2. over + 1 \in Int /\ Len(all) \in Int
      BY <1>1, <1>2
    <2>3. /\ wire' \in Seq(Event) /\ Len(wire') = Len(all) - over
          /\ \A i \in 1..(Len(all) - over) : wire'[i] = all[over + i]
      <3> DEFINE s == SubSeq(all, over + 1, Len(all))
      <3>1. /\ s \in Seq(Event)
            /\ Len(s) = IF over + 1 <= Len(all) THEN Len(all) - (over + 1) + 1 ELSE 0
            /\ \A i \in 1..(Len(all) - (over + 1) + 1) : s[i] = all[(over + 1) + i - 1]
        BY <2>1, <2>2, SubSeqProperties
      <3>2. wire' = s
        BY <1>3, <1>6
      <3> HIDE DEF s
      <3>3. QED
        BY <1>1, <1>2, <3>1, <3>2
    <2>4. ViewTypes'
      BY <1>2, <1>3, <1>6, <2>3 DEF ViewTypes
    <2>5. ~lost' => ~lost /\ wire' = all
      <3>1. ~lost' => ~lost /\ over = 0
        <4>1. ~(over > 0) => over = 0
          BY <1>2
        <4>2. QED
          BY <1>3, <1>6, <4>1, Zenon
      <3>2. wire' = SubSeq(all, over + 1, Len(all))
        BY <1>3, <1>6
      <3>3. QED
        BY <1>4, <3>1, <3>2
    <2>6. QED
      BY <1>2, <1>3, <2>3, <2>4, <2>5 DEF all
  <1>7. CASE ~attached
    <2>1. wire' = <<>> /\ wire = <<>>
      BY <1>3, <1>7 DEF ViewTypes
    <2>2. wire' \in Seq(Event) /\ Len(wire') = 0
      BY <2>1
    <2>3. ViewTypes'
      BY <1>1, <1>3, <2>1, <2>2 DEF ViewTypes
    <2>4. ~lost' => ~lost /\ wire' = all
      BY <1>3, <1>5, <1>7, <2>1
    <2>5. QED
      BY <1>3, <2>1, <2>3, <2>4 DEF all
  <1>8. QED
    BY <1>6, <1>7 DEF ViewTypes

(* The panes behind an event, one by one.                                      *)
Opened(e) == [index |-> e.index, turn |-> e.turn, text |-> FALSE, status |-> "streaming"]
Spoken(p) == [p EXCEPT !.text = TRUE]
Closed(p, err) == [p EXCEPT !.status = IF err THEN "error" ELSE "done"]

(* The fields of a pane behind a delta and behind an end.                    *)
LEMMA PaneFields ==
  ASSUME NEW p \in Pane, NEW err \in BOOLEAN
  PROVE  /\ Spoken(p) \in Pane /\ Spoken(p).index = p.index /\ Spoken(p).turn = p.turn
         /\ Spoken(p).text = TRUE /\ Spoken(p).status = p.status
         /\ Closed(p, err) \in Pane /\ Closed(p, err).index = p.index /\ Closed(p, err).turn = p.turn
         /\ Closed(p, err).text = p.text /\ Closed(p, err).status = IF err THEN "error" ELSE "done"
  BY DEF Pane, Spoken, Closed

(* Which panes there are behind an event.                                    *)
LEMMA PanesBehind ==
  ASSUME NEW e \in Event, NEW q
  PROVE  q \in PanesAfter(e) <=>
            \/ q \in panes /\ q.index # e.index /\ ~(e.type = "started" /\ e.index = 0)
            \/ e.type = "started" /\ q = Opened(e)
            \/ e.type = "delta" /\ \E p \in panes : p.index = e.index /\ q = Spoken(p)
            \/ e.type = "completed" /\ \E p \in panes : p.index = e.index /\ q = Closed(p, e.error)
  <1>1. e.type \in {"started", "delta", "completed"}
    BY DEF Event
  <1>2. CASE e.type = "started"
    BY <1>2 DEF PanesAfter, Opened
  <1>3. CASE e.type = "delta"
    BY <1>3 DEF PanesAfter, Spoken
  <1>4. CASE e.type = "completed"
    BY <1>4 DEF PanesAfter, Closed
  <1>5. QED
    BY <1>1, <1>2, <1>3, <1>4

(* They are panes, one for an index.                                         *)
LEMMA PanesTyped ==
  ASSUME ViewTypes, NEW e \in Event
  PROVE  /\ PanesAfter(e) \subseteq Pane
         /\ \A p, q \in PanesAfter(e) : p.index = q.index => p = q
  <1>1. Opened(e) \in Pane /\ Opened(e).index = e.index /\ e.error \in BOOLEAN /\ e.index \in Indices
    BY BoundsAssumption DEF Opened, Pane, Event
  <1>2. ASSUME NEW q \in PanesAfter(e)
        PROVE  q \in Pane /\ (q.index # e.index => q \in panes)
    <2>1. \A p \in panes : /\ p \in Pane /\ Spoken(p) \in Pane /\ Spoken(p).index = p.index
                          /\ Closed(p, e.error) \in Pane /\ Closed(p, e.error).index = p.index
      <3>1. ASSUME NEW p \in panes
            PROVE  /\ p \in Pane /\ Spoken(p) \in Pane /\ Spoken(p).index = p.index
                   /\ Closed(p, e.error) \in Pane /\ Closed(p, e.error).index = p.index
        <4>1. p \in Pane /\ e.error \in BOOLEAN
          BY <1>1 DEF ViewTypes
        <4>2. \A err \in BOOLEAN : /\ Spoken(p) \in Pane /\ Spoken(p).index = p.index
                                   /\ Closed(p, err) \in Pane /\ Closed(p, err).index = p.index
          BY <4>1 DEF Spoken, Closed, Pane
        <4>3. QED
          BY <4>1, <4>2
      <3>2. QED
        BY <3>1
    <2>2. QED
      BY <1>1, <2>1, PanesBehind
  <1>3. ASSUME NEW p \in PanesAfter(e), NEW q \in PanesAfter(e), p.index = q.index PROVE p = q
    <2>2. CASE p.index # e.index
      BY <1>2, <1>3, <2>2 DEF ViewTypes
    <2>3. CASE p.index = e.index
      <3>1. e.type \in {"started", "delta", "completed"}
        BY DEF Event
      <3>2. /\ e.type = "started" => p = Opened(e)
            /\ e.type = "delta" => \E x \in panes : x.index = e.index /\ p = Spoken(x)
            /\ e.type = "completed" => \E x \in panes : x.index = e.index /\ p = Closed(x, e.error)
        BY <2>3, PanesBehind
      <3>3. /\ e.type = "started" => q = Opened(e)
            /\ e.type = "delta" => \E x \in panes : x.index = e.index /\ q = Spoken(x)
            /\ e.type = "completed" => \E x \in panes : x.index = e.index /\ q = Closed(x, e.error)
        <4>1. q.index = e.index /\ q \in PanesAfter(e)
          BY <1>3, <2>3
        <4>2. QED
          BY <4>1, PanesBehind
      <3>4. QED
        BY <3>1, <3>2, <3>3 DEF ViewTypes
    <2>4. QED
      BY <2>2, <2>3
  <1>4. QED
    BY <1>2, <1>3

(* Types of the rest.                                                        *)
TurnTypes ==
    /\ turn \in 0..MaxTurns
    /\ cfg \in Config
    /\ phase \in {"idle", "resolve", "stage", "gather", "final", "persist", "fail"}
    /\ stage \in Indices
    /\ run \in [Models -> States]
    /\ text \subseteq Models /\ usage \subseteq Models
    /\ given \subseteq Indices
    /\ cancelled \in BOOLEAN /\ quiet \in BOOLEAN
    /\ answers \subseteq Answer
    /\ errors \subseteq 1..MaxTurns

(* Before the first turn nothing runs; what reports usage has run; and candidates    *)
(* run only while they are gathered, the final stream only in its phase.         *)
AtRest(m) == run[m] \in Ended \cup {"none"}
Begun ==
    /\ turn = 0 => phase = "idle" /\ \A m \in Models : run[m] = "none"
    /\ \A m \in text \cup usage : run[m] \notin {"none", "ready"}
    /\ phase = "resolve" => \A m \in Models : run[m] = "none"
    /\ phase # "gather" => \A i \in Indices : AtRest(i)
    /\ phase # "final" => AtRest(Final)

Sound == TurnTypes /\ ViewTypes /\ Begun

(* Sound is stronger than the type invariant.                                *)
LEMMA Typed == Sound => TypeOK
  BY DEF Sound, TurnTypes, ViewTypes, TypeOK

(* What the types and the assumptions say of the numbers.                    *)
LEMMA Numbers ==
  ASSUME Sound
  PROVE  /\ N \in Nat /\ N >= 1 /\ MaxTurns \in Nat /\ RingCap \in Nat /\ Final \notin Indices
         /\ Indices \subseteq Models /\ Final \in Models /\ turn \in Nat /\ turn <= MaxTurns
         /\ phase # "idle" => turn \in 1..MaxTurns
         /\ \A m \in Models : ~AtRest(m) => turn \in 1..MaxTurns
         /\ \A m \in Models : run[m] \in States
  <1>1. N \in Nat /\ N >= 1 /\ MaxTurns \in Nat /\ RingCap \in Nat /\ Final \notin Indices
    BY ModelsAssumption, BoundsAssumption
  <1>2. turn \in Nat /\ turn <= MaxTurns /\ (turn # 0 => turn \in 1..MaxTurns)
    BY <1>1 DEF Sound, TurnTypes
  <1>3. (phase # "idle" => turn # 0) /\ \A m \in Models : ~AtRest(m) => turn # 0
    BY DEF Sound, Begun, AtRest
  <1>4. QED
    BY <1>1, <1>2, <1>3 DEF Models, Sound, TurnTypes

(* What a step of a stream does to it and sends.                                 *)
LEMMA StreamMoves ==
  ASSUME Sound, NEW m \in Models, Moves(m)
  PROVE  /\ UNCHANGED turnVars /\ ~AtRest(m) /\ run' \in [Models -> States]
         /\ \A l \in Models \ {m} : run'[l] = run[l]
         /\ run'[m] \notin {"none", "ready"}
         /\ text' \subseteq Models /\ text' \subseteq text \cup {m} /\ usage' \subseteq usage \cup {m}
         /\ \A l \in Models \ {m} : l \in text' <=> l \in text
         /\ \/ UNCHANGED viewVars
            \/ /\ m \in Indices
               /\ \E type \in {"started", "delta", "completed"}, err \in BOOLEAN :
                     Send(<<CandidateEvent(type, m, err)>>)
  <1> USE DEF Moves, Stream, Announce, Cancelled, Produces, Finishes, Errs, Polled, Poll, Expires
  <1>1. /\ UNCHANGED turnVars /\ text' \subseteq Models /\ text' \subseteq text \cup {m}
        /\ usage' \subseteq usage \cup {m}
    BY DEF Sound, TurnTypes
  <1>2. Streams
    BY DEF Sound, TurnTypes, Streams
  <1>3. /\ ~AtRest(m) /\ run'[m] # "none"
        /\ \A l \in Models \ {m} : run'[l] = run[l] /\ (l \in text' <=> l \in text)
    BY <1>2, OneStreamMoves DEF AtRest
  <1>7. run'[m] # "ready"
    BY <1>2 DEF Becomes, Streams
  <1>4. run' \in [Models -> States]
    BY <1>2, StreamsStep DEF Streams, Next
  <1>5. \/ UNCHANGED viewVars
        \/ \E type \in {"started", "delta", "completed"}, err \in BOOLEAN : SendOf(m, type, err)
    OBVIOUS
  <1>6. QED
    BY <1>1, <1>3, <1>4, <1>5, <1>7 DEF SendOf

(* An event has the type and the fields it was given.                        *)
LEMMA EventTyped ==
  ASSUME Sound, turn \in 1..MaxTurns, NEW i \in Indices, NEW type \in {"started", "delta", "completed"},
         NEW err \in BOOLEAN
  PROVE  /\ CandidateEvent(type, i, err) \in Event
         /\ CandidateEvent(type, i, err).type = type /\ CandidateEvent(type, i, err).index = i
         /\ CandidateEvent(type, i, err).turn = turn /\ CandidateEvent(type, i, err).error = err
  BY DEF CandidateEvent, Event

(* The candidates that are missing, in order, and what is sent about them.         *)
LEMMA MissingTyped ==
  ASSUME Sound, turn \in 1..MaxTurns, NEW missing \in Missing
  PROVE  /\ Unregistered(missing) \in Seq(Event)
         /\ \A k \in 1..Len(Unregistered(missing)) :
              /\ Unregistered(missing)[k].turn = turn
              /\ Unregistered(missing)[k].index \in Indices \ cfg.registered
         /\ \A i \in Indices \ cfg.registered : \E k \in 1..Len(Unregistered(missing)) :
              Unregistered(missing)[k].type = "started" /\ Unregistered(missing)[k].index = i
  <1> DEFINE none == Indices \ cfg.registered
             n == Cardinality(none)
             u == Unregistered(missing)
  <1>0. \A i \in Indices : /\ CandidateEvent("started", i, FALSE) \in Event
                           /\ CandidateEvent("started", i, FALSE).type = "started"
                           /\ CandidateEvent("started", i, FALSE).index = i
                           /\ CandidateEvent("started", i, FALSE).turn = turn
                           /\ CandidateEvent("completed", i, TRUE) \in Event
                           /\ CandidateEvent("completed", i, TRUE).index = i
                           /\ CandidateEvent("completed", i, TRUE).turn = turn
    BY EventTyped
  <1>1. IsFiniteSet(Indices)
    BY Numbers, FS_Interval DEF Indices
  <1>2. IsFiniteSet(none) /\ n \in Nat
    <2>1. none \in SUBSET Indices
      OBVIOUS
    <2>2. IsFiniteSet(none)
      BY <1>1, <2>1, FS_Subset
    <2>3. QED
      BY <2>2, FS_CardinalityType
  <1>3. missing \in [1..n -> none] /\ \A i \in none : \E k \in 1..n : missing[k] = i
    BY DEF Missing
  <1> HIDE DEF n, none
  <1>4. missing \in Seq(none) /\ Len(missing) = n
    BY <1>2, <1>3
  <1>5. u = [k \in 1..(2 * n) |->
               IF k % 2 = 1 THEN CandidateEvent("started", missing[(k + 1) \div 2], FALSE)
                            ELSE CandidateEvent("completed", missing[k \div 2], TRUE)]
    BY <1>4 DEF Unregistered
  <1>6. ASSUME NEW k \in 1..(2 * n)
        PROVE  u[k] \in Event /\ u[k].turn = turn /\ u[k].index \in none
    <2>1. CASE k % 2 = 1
      <3>1. (k + 1) \div 2 \in 1..n
        BY <1>2, <2>1
      <3>2. missing[(k + 1) \div 2] \in none /\ none \subseteq Indices
        BY <1>3, <3>1 DEF none
      <3>3. u[k] = CandidateEvent("started", missing[(k + 1) \div 2], FALSE)
        BY <1>5, <2>1
      <3> HIDE DEF u
      <3>4. \A i \in Indices : u[k] = CandidateEvent("started", i, FALSE) /\ i \in none
                => u[k] \in Event /\ u[k].turn = turn /\ u[k].index \in none
        BY <1>0
      <3>5. QED
        BY <3>2, <3>3, <3>4
    <2>2. CASE k % 2 # 1
      <3>1. k \div 2 \in 1..n
        BY <1>2, <2>2
      <3>2. missing[k \div 2] \in none /\ none \subseteq Indices
        BY <1>3, <3>1 DEF none
      <3>3. u[k] = CandidateEvent("completed", missing[k \div 2], TRUE)
        BY <1>5, <2>2
      <3> HIDE DEF u
      <3>4. \A i \in Indices : u[k] = CandidateEvent("completed", i, TRUE) /\ i \in none
                => u[k] \in Event /\ u[k].turn = turn /\ u[k].index \in none
        BY <1>0
      <3>5. QED
        BY <3>2, <3>3, <3>4
    <2>3. QED
      BY <2>1, <2>2
  <1>7. 2 * n \in Nat
    BY <1>2
  <1>8. u \in Seq(Event) /\ Len(u) = 2 * n
    <2>1. DOMAIN u = 1..(2 * n) /\ u = [k \in 1..(2 * n) |-> u[k]]
      BY <1>5
    <2> HIDE DEF u
    <2>2. u \in [1..(2 * n) -> Event]
      BY <1>6, <2>1
    <2>3. QED
      BY <1>7, <2>2
  <1>9. ASSUME NEW i \in none
        PROVE  \E k \in 1..(2 * n) : u[k].type = "started" /\ u[k].index = i
    <2>1. PICK j \in 1..n : missing[j] = i
      BY <1>3
    <2>2. 2 * j - 1 \in 1..(2 * n) /\ (2 * j - 1) % 2 = 1 /\ ((2 * j - 1) + 1) \div 2 = j
      BY <1>2
    <2>3. u[2 * j - 1] = CandidateEvent("started", i, FALSE)
      BY <1>5, <2>1, <2>2
    <2>4. i \in Indices
      BY DEF none
    <2>5. QED
      BY <1>0, <2>2, <2>3, <2>4
  <1> HIDE DEF u
  <1>10. QED
    BY <1>6, <1>8, <1>9 DEF u, none

(* Sound is kept.                                                             *)
LEMMA SoundInit == Init => Sound
  <1> SUFFICES ASSUME Init PROVE Sound
    OBVIOUS
  <1>1. N \in Nat /\ N >= 1 /\ MaxTurns \in Nat /\ RingCap \in Nat /\ 0 \in Indices
    BY ModelsAssumption, BoundsAssumption DEF Indices
  <1>2. run \in [Models -> States] /\ \A m \in Models : run[m] = "none"
    BY DEF Init, Fresh, States
  <1>3. TurnTypes
    <2>1. cfg \in Config /\ answers \subseteq Answer /\ turn \in 0..MaxTurns
      BY <1>1 DEF Init, Config
    <2>2. cancelled \in BOOLEAN /\ quiet \in BOOLEAN
      BY Zenon DEF Init
    <2>3. QED
      BY <1>1, <1>2, <2>1, <2>2 DEF Init, TurnTypes
  <1>4. panes \subseteq Pane /\ \A p, q \in panes : p.index = q.index => p = q
    <2>1. ASSUME NEW p \in panes
          PROVE  p \in Pane /\ p = [index |-> p.index, turn |-> 0, text |-> TRUE, status |-> "done"]
      <3>1. PICK i \in Indices : p = [index |-> i, turn |-> 0, text |-> TRUE, status |-> "done"]
        BY DEF Init
      <3>2. 0 \in 0..MaxTurns
        BY <1>1
      <3>3. QED
        BY <3>1, <3>2 DEF Pane
    <2>2. QED
      BY <2>1
  <1>5. <<>> \in Seq(Event) /\ Len(<<>>) = 0
    OBVIOUS
  <1>6. ViewTypes
    <2>1. attached \in BOOLEAN /\ lost \in BOOLEAN /\ wire = <<>>
      BY Zenon DEF Init
    <2>2. QED
      BY <1>1, <1>4, <1>5, <2>1 DEF ViewTypes
  <1>7. Begun
    BY <1>2 DEF Init, Begun, AtRest, Models
  <1>8. QED
    BY <1>3, <1>6, <1>7 DEF Sound

(* Sound is kept by a step of a stream,                                      *)
LEMMA SoundStream ==
  ASSUME Sound, NEW m \in Models, Moves(m)
  PROVE  Sound'
  <1>0. /\ UNCHANGED turnVars /\ ~AtRest(m) /\ run' \in [Models -> States]
        /\ \A l \in Models \ {m} : run'[l] = run[l]
        /\ run'[m] \notin {"none", "ready"}
        /\ text' \subseteq Models /\ text' \subseteq text \cup {m} /\ usage' \subseteq usage \cup {m}
        /\ \/ UNCHANGED viewVars
           \/ /\ m \in Indices
              /\ \E type \in {"started", "delta", "completed"}, err \in BOOLEAN :
                    Send(<<CandidateEvent(type, m, err)>>)
    BY StreamMoves
  <1>1. TurnTypes'
    BY <1>0 DEF Sound, TurnTypes, turnVars, turnFixed
  <1>2. ViewTypes'
    <2>1. CASE UNCHANGED viewVars
      BY <2>1 DEF viewVars, ViewTypes, Sound
    <2>2. ASSUME m \in Indices, NEW type \in {"started", "delta", "completed"}, NEW err \in BOOLEAN,
                 Send(<<CandidateEvent(type, m, err)>>)
          PROVE  ViewTypes'
      <3>1. turn \in 1..MaxTurns
        BY <1>0, Numbers
      <3>2. CandidateEvent(type, m, err) \in Event
        BY <2>2, <3>1, EventTyped
      <3>3. <<CandidateEvent(type, m, err)>> \in Seq(Event)
        BY <3>2
      <3>4. QED
        BY <2>2, <3>3, Sent DEF Sound
    <2>3. QED
      BY <1>0, <2>1, <2>2
  <1>3. Begun'
    <2>1. turn # 0
      BY <1>0, Numbers
    <2>2. phase' = phase /\ turn' = turn
      BY <1>0 DEF turnVars, turnFixed
    <2>3. \A l \in Models \ {m} : AtRest(l)' <=> AtRest(l)
      BY <1>0 DEF AtRest
    <2>4. \A i \in Indices : i \in Models
      BY Numbers
    <2>5. /\ phase # "gather" => m \notin Indices
          /\ phase # "final" => m # Final
      BY <1>0 DEF Sound, Begun
    <2>6. Final \in Models
      BY Numbers
    <2>7. \A l \in text' \cup usage' : run'[l] \notin {"none", "ready"}
      BY <1>0 DEF Sound, Begun, TurnTypes
    <2>8. /\ phase' # "gather" => \A i \in Indices : AtRest(i)'
          /\ phase' # "final" => AtRest(Final)'
      BY <2>2, <2>3, <2>4, <2>5, <2>6 DEF Sound, Begun
    <2>9. phase' # "resolve"
      BY <1>0, <2>2 DEF Sound, Begun, AtRest
    <2>10. QED
      BY <2>1, <2>2, <2>7, <2>8, <2>9 DEF Begun
  <1>4. QED
    BY <1>1, <1>2, <1>3 DEF Sound

(* A step that leaves the view alone.                                           *)
LEMMA SoundTurn ==
  ASSUME Sound, UNCHANGED <<turn, cfg, usage, text, answers, errors, quiet, wire, panes, attached, lost>>,
         stage' \in Indices, phase # "idle", cancelled' \in BOOLEAN,
         phase' \in {"idle", "stage", "gather", "final", "persist", "fail"},
         given' \subseteq Indices,
         phase # "final" => \A i \in Indices : AtRest(i),
         \/ /\ run' = run /\ phase' # "final"
            /\ phase # "final" \/ AtRest(Final)
         \/ phase' = "final" /\ Becomes(Final, "waiting") /\ phase # "final"
         \/ phase' = "gather" /\ phase # "final" /\ \E i \in Indices : Becomes(i, "ready") /\ run[i] = "none"
  PROVE  Sound'
  <1>0. /\ run \in [Models -> States] /\ Final \in Models /\ Indices \subseteq Models /\ Final \notin Indices
        /\ turn # 0 /\ turn' = turn /\ usage' = usage /\ text' = text
    BY Numbers DEF Sound, TurnTypes
  <1>1. run' \in [Models -> States]
    BY <1>0 DEF Becomes, States
  <1>2. TurnTypes'
    BY <1>1 DEF Sound, TurnTypes
  <1>3. ViewTypes'
    BY DEF Sound, ViewTypes
  <1>4. \A m \in Models : run[m] \notin {"none", "ready"} => run'[m] \notin {"none", "ready"}
    BY <1>0 DEF Becomes
  <1>5. \A i \in Indices : AtRest(i)
    BY DEF Sound, Begun
  <1>6. phase # "final" => AtRest(Final)
    BY DEF Sound, Begun
  <1>7. ASSUME run' = run PROVE Begun'
    <2>1. \A m \in Models : AtRest(m)' <=> AtRest(m)
      BY <1>7 DEF AtRest
    <2>2. \A m \in text' \cup usage' : run'[m] \notin {"none", "ready"}
      BY <1>4 DEF Sound, Begun, TurnTypes
    <2>3. (\A i \in Indices : AtRest(i)') /\ (phase' # "final" => AtRest(Final)')
      BY <1>0, <1>5, <1>6, <1>7, <2>1
    <2>4. QED
      BY <1>0, <2>2, <2>3 DEF Begun
  <1>8. ASSUME phase' = "final", Becomes(Final, "waiting"), phase # "final" PROVE Begun'
    <2>1. \A i \in Indices : run'[i] = run[i]
      BY <1>0, <1>8 DEF Becomes
    <2>2. \A m \in text' \cup usage' : run'[m] \notin {"none", "ready"}
      BY <1>4 DEF Sound, Begun, TurnTypes
    <2>3. QED
      BY <1>0, <1>5, <1>8, <2>1, <2>2 DEF Begun, AtRest
  <1>9. ASSUME phase' = "gather", phase # "final", NEW i \in Indices, Becomes(i, "ready"), run[i] = "none" PROVE Begun'
    <2>1. run'[Final] = run[Final]
      BY <1>0, <1>9 DEF Becomes
    <2>2. \A m \in text' \cup usage' : run'[m] \notin {"none", "ready"}
      BY <1>4 DEF Sound, Begun, TurnTypes
    <2>3. QED
      BY <1>0, <1>6, <1>9, <2>1, <2>2 DEF Begun, AtRest
  <1>10. Begun'
    BY <1>7, <1>8, <1>9
  <1>11. QED
    BY <1>2, <1>3, <1>10 DEF Sound

(* by the beginning of a turn,                                               *)
LEMMA SoundBegin == Sound /\ Begin => Sound'
  <1> SUFFICES ASSUME Sound, Begin PROVE Sound'
    OBVIOUS
  <1>1. /\ turn' = turn + 1 /\ turn < MaxTurns /\ run' = Fresh /\ stage' = 0 /\ text' = {} /\ usage' = {}
        /\ given' = {} /\ lost' = FALSE /\ quiet' = FALSE /\ cfg' \in Config
        /\ phase' \in {"fail", "resolve", "stage"}
        /\ UNCHANGED <<cancelled, answers, errors, attached, wire, panes>>
    BY DEF Begin, Goto, Dispatch
  <1>2. run' \in [Models -> States] /\ \A m \in Models : run'[m] = "none"
    BY <1>1 DEF Fresh, States
  <1>3. 0 \in Indices /\ turn' \in 0..MaxTurns /\ turn' # 0
    BY <1>1, Numbers DEF Indices
  <1>4. TurnTypes'
    <2>1. quiet' \in BOOLEAN
      BY <1>1, Zenon
    <2>2. QED
      BY <1>1, <1>2, <1>3, <2>1 DEF Sound, TurnTypes
  <1>5. ViewTypes'
    <2>1. lost' \in BOOLEAN
      BY <1>1, Zenon
    <2>2. QED
      BY <1>1, <2>1 DEF Sound, ViewTypes
  <1>6. Begun'
    BY <1>1, <1>2, <1>3, Numbers DEF Begun, AtRest
  <1>7. QED
    BY <1>4, <1>5, <1>6 DEF Sound

(* by the events of the candidates that are missing,                         *)
LEMMA SoundResolve == Sound /\ Resolve => Sound'
  <1> SUFFICES ASSUME Sound, Resolve PROVE Sound'
    OBVIOUS
  <1>1. PICK missing \in Missing : Send(Unregistered(missing))
    BY DEF Resolve
  <1>2. /\ phase = "resolve" /\ phase' = "gather" /\ run' = [m \in Models |-> IF m \in cfg.registered THEN "ready" ELSE "none"]
        /\ UNCHANGED <<turn, cfg, answers, errors, quiet, stage, given, cancelled, text, usage>>
    BY DEF Resolve, Goto, turnFixed
  <1>3. ViewTypes'
    BY <1>1, <1>2, Sent, MissingTyped, Numbers DEF Sound
  <1>4. run' \in [Models -> States]
    BY <1>2 DEF States
  <1>5. TurnTypes'
    BY <1>2, <1>4 DEF Sound, TurnTypes
  <1>6. Begun'
    <2>1. \A m \in Models : run[m] = "none"
      BY <1>2 DEF Sound, Begun
    <2>2. usage' = {} /\ text' = {}
      BY <1>2, <2>1 DEF Sound, Begun, TurnTypes
    <2>3. cfg.registered \subseteq Indices
      BY DEF Sound, TurnTypes, Config, Invalid
    <2>4. AtRest(Final)' /\ turn # 0 /\ turn' = turn
      BY <1>2, <2>3, Numbers DEF AtRest
    <2>5. QED
      BY <1>2, <2>2, <2>4 DEF Begun
  <1>7. QED
    BY <1>3, <1>5, <1>6 DEF Sound

(* What Synthesize does to the phase and to the streams.                     *)
LEMMA Synthesis ==
  ASSUME NEW ready \in BOOLEAN, NEW from \in SUBSET Indices, Synthesize(ready, from), Sound
  PROVE  /\ given' \subseteq Indices
         /\ \/ phase' = "final" /\ Becomes(Final, "waiting")
            \/ phase' = "fail" /\ run' = run
  BY DEF Synthesize, Goto, Sound, TurnTypes

(* Sound is kept where the synthesis begins or the turn stops,               *)
LEMMA SoundSynthesis ==
  ASSUME Sound, NEW ready \in BOOLEAN, NEW from \in SUBSET Indices,
         UNCHANGED <<turn, cfg, text, usage, answers, errors, quiet, wire, panes, attached, lost>>,
         stage' \in Indices, phase \notin {"idle", "final"}, \A i \in Indices : AtRest(i),
         Stops \/ (GoesOn /\ Synthesize(ready, from))
  PROVE  Sound'
  <1>1. CASE Stops
    <2>1. cancelled' \in BOOLEAN
      BY <1>1, Zenon DEF Stops, Ends
    <2>2. phase' = "idle" /\ run' = run /\ given' \subseteq Indices
      BY <1>1 DEF Stops, Ends, Goto, Sound, TurnTypes
    <2>3. AtRest(Final)
      BY DEF Sound, Begun
    <2>4. QED
      BY <2>1, <2>2, <2>3, SoundTurn
  <1>2. CASE GoesOn /\ Synthesize(ready, from)
    <2>1. cancelled' \in BOOLEAN
      BY <1>2 DEF GoesOn, Sound, TurnTypes
    <2>2. /\ given' \subseteq Indices
          /\ \/ phase' = "final" /\ Becomes(Final, "waiting")
             \/ phase' = "fail" /\ run' = run
      BY <1>2, Synthesis
    <2>3. AtRest(Final)
      BY DEF Sound, Begun
    <2>4. QED
      BY <2>1, <2>2, <2>3, SoundTurn
  <1>3. QED
    BY <1>1, <1>2

(* Candidates that are gathered are at rest.                                 *)
LEMMA AllAtRest ==
  ASSUME Gathered, Sound
  PROVE  \A i \in Indices : AtRest(i)
  BY DEF Gathered, InGroup, AtRest

(* by the other steps of the turn,                                           *)
LEMMA SoundTurnStep == Sound /\ Pipeline /\ (Collect \/ BeginStage \/ EndStage \/ EndFinal \/ Persist \/ Fail) => Sound'
  <1>1. ASSUME Sound, Collect PROVE Sound'
    <2>1. Gathered /\ phase = "gather" /\ UNCHANGED <<turnFixed, stage, text, usage, viewVars>>
      BY <1>1 DEF Collect
    <2>2. /\ Survivors \in SUBSET Indices /\ (Survivors # {} /\ SynthesizerReady) \in BOOLEAN
          /\ stage' \in Indices
      BY <1>1, <2>1 DEF Survivors, InGroup, SynthesizerReady, Sound, TurnTypes
    <2>3. Stops \/ (GoesOn /\ Synthesize(Survivors # {} /\ SynthesizerReady, Survivors))
      BY <1>1 DEF Collect
    <2> DEFINE ready == Survivors # {} /\ SynthesizerReady
    <2>4. /\ UNCHANGED <<turn, cfg, text, usage, answers, errors, quiet, wire, panes, attached, lost>>
          /\ phase \notin {"idle", "final"} /\ \A i \in Indices : AtRest(i)
      BY <1>1, <2>1, AllAtRest DEF turnFixed, viewVars
    <2>5. ready \in BOOLEAN /\ (Stops \/ (GoesOn /\ Synthesize(ready, Survivors)))
      BY <2>2, <2>3
    <2> HIDE DEF ready
    <2>6. QED
      BY <1>1, <2>2, <2>4, <2>5, SoundSynthesis
  <1>2. ASSUME Sound, Pipeline, BeginStage PROVE Sound'
    <2>1. /\ phase = "stage" /\ UNCHANGED <<turnFixed, stage, text, usage, viewVars>> /\ stage' \in Indices
          /\ \A i \in Indices : AtRest(i)
      BY <1>2 DEF BeginStage, Sound, Begun, TurnTypes
    <2>2. InGroup \in SUBSET Indices /\ (stage \in cfg.registered) \in BOOLEAN
      BY DEF InGroup
    <2>3. CASE Stops \/ (GoesOn /\ Synthesize(stage \in cfg.registered, InGroup))
      BY <1>2, <2>1, <2>2, <2>3, SoundSynthesis DEF turnFixed, viewVars
    <2>4. CASE GoesOn /\ Goto("gather") /\ Becomes(stage, "ready") /\ UNCHANGED given
      <3>1. cancelled' \in BOOLEAN /\ given' \subseteq Indices /\ stage \in Indices /\ stage >= stage
        BY <1>2, <2>4 DEF GoesOn, Sound, TurnTypes, Indices
      <3>3. run[stage] = "none"
        BY <1>2, <2>1, <3>1 DEF Pipeline
      <3>2. QED
        BY <1>2, <2>1, <2>4, <3>1, <3>3, SoundTurn DEF turnFixed, viewVars, Goto
    <2>5. QED
      BY <1>2, <2>3, <2>4 DEF BeginStage
  <1>3. ASSUME Sound, EndStage PROVE Sound'
    <2>1. /\ Gathered /\ phase = "gather" /\ UNCHANGED <<turnFixed, text, usage, viewVars>>
          /\ stage \in Indices /\ N \in Nat
      BY <1>3, Numbers DEF EndStage, Sound, TurnTypes
    <2>2. InGroup \in SUBSET Indices /\ (stage \in Survivors /\ SynthesizerReady) \in BOOLEAN
      BY DEF InGroup, SynthesizerReady
    <2>3. CASE /\ Stops \/ (GoesOn /\ Synthesize(stage \in Survivors /\ SynthesizerReady, InGroup))
               /\ UNCHANGED stage
      BY <1>3, <2>1, <2>2, <2>3, AllAtRest, SoundSynthesis DEF turnFixed, viewVars
    <2>4. CASE GoesOn /\ stage < N - 1 /\ Goto("stage") /\ stage' = stage + 1 /\ UNCHANGED <<given, run>>
      <3>1. cancelled' \in BOOLEAN /\ given' \subseteq Indices /\ stage' \in Indices
        BY <1>3, <2>1, <2>4 DEF GoesOn, Sound, TurnTypes, Indices
      <3>2. \A i \in Indices : AtRest(i)
        BY <1>3, <2>1, AllAtRest
      <3>3. QED
        BY <1>3, <2>1, <2>4, <3>1, <3>2, SoundTurn DEF turnFixed, viewVars, Goto
    <2>5. QED
      BY <1>3, <2>3, <2>4 DEF EndStage, AfterStage
  <1>4. ASSUME Sound, EndFinal PROVE Sound'
    <2>1. /\ phase = "final" /\ phase' \in {"idle", "persist", "fail"} /\ AtRest(Final) /\ run' = run /\ stage' = stage
          /\ UNCHANGED <<turnFixed, stage, given, streamVars, viewVars>>
      BY <1>4 DEF EndFinal, Ends, Goto, AtRest, streamVars
    <2>2. cancelled' = cancelled \/ cancelled' = FALSE
      BY <1>4 DEF EndFinal, Ends
    <2>3. cancelled' \in BOOLEAN
      BY <1>4, <2>2 DEF Sound, TurnTypes
    <2>4. given' \subseteq Indices /\ stage' \in Indices
      BY <1>4, <2>1 DEF Sound, TurnTypes
    <2>5. QED
      BY <1>4, <2>1, <2>3, <2>4, SoundTurn DEF turnFixed, viewVars, streamVars
  <1>5. ASSUME Sound, Persist \/ Fail PROVE Sound'
    <2>1. /\ phase \in {"persist", "fail"} /\ phase' = "idle" /\ cancelled' = FALSE
          /\ UNCHANGED <<turn, cfg, stage, given, quiet, streamVars, viewVars>>
      BY <1>5 DEF Persist, Fail, Ends, Goto
    <2>2. turn \in 1..MaxTurns /\ turn # 0 /\ turn' = turn
      BY <1>5, <2>1, Numbers
    <2>3. answers' \subseteq Answer
      <3>1. [turn |-> turn, from |-> given, usage |-> CandidateUsage \cup (usage \cap {Final})] \in Answer
        BY <1>5, <2>2 DEF Answer, Sound, TurnTypes, CandidateUsage
      <3>2. QED
        BY <1>5, <3>1 DEF Persist, Fail, Sound, TurnTypes
    <2>4. errors' \subseteq 1..MaxTurns
      BY <1>5, <2>2 DEF Persist, Fail, Sound, TurnTypes
    <2>5. cancelled' \in BOOLEAN
      BY <2>1, Zenon
    <2>6. TurnTypes' /\ ViewTypes'
      BY <1>5, <2>1, <2>2, <2>3, <2>4, <2>5 DEF Sound, TurnTypes, ViewTypes, streamVars, viewVars
    <2>7. Begun'
      BY <1>5, <2>1, <2>2 DEF Sound, Begun, AtRest, streamVars
    <2>8. QED
      BY <2>6, <2>7 DEF Sound
  <1>6. QED
    BY <1>1, <1>2, <1>3, <1>4, <1>5

(* by a delivery,                                                            *)
LEMMA SoundDeliver == Sound /\ Deliver => Sound'
  <1> SUFFICES ASSUME Sound, Deliver PROVE Sound'
    OBVIOUS
  <1>1. /\ wire # <<>> /\ wire \in Seq(Event) /\ panes' = PanesAfter(Head(wire)) /\ wire' = Tail(wire)
        /\ UNCHANGED <<turnVars, streamVars, attached, lost>>
    BY DEF Deliver, Sound, ViewTypes
  <1>2. Head(wire) \in Event /\ Tail(wire) \in Seq(Event) /\ Len(Tail(wire)) = Len(wire) - 1
    BY <1>1, HeadTailProperties
  <1>3. panes' \subseteq Pane /\ \A p, q \in panes' : p.index = q.index => p = q
    BY <1>1, <1>2, PanesTyped DEF Sound
  <1>4. ViewTypes'
    BY <1>1, <1>2, <1>3, Numbers DEF Sound, ViewTypes
  <1>5. TurnTypes' /\ Begun'
    BY <1>1 DEF Sound, TurnTypes, Begun, AtRest, turnVars, turnFixed, streamVars
  <1>6. QED
    BY <1>4, <1>5 DEF Sound

(* by what the user does,                                                    *)
LEMMA SoundRest == Sound /\ (Abort \/ Leave \/ Return \/ UNCHANGED vars) => Sound'
  <1>1. ASSUME Sound, Abort PROVE Sound'
    <2>1. cancelled' \in BOOLEAN /\ quiet' \in BOOLEAN
      BY <1>1, Zenon DEF Abort
    <2>2. TurnTypes' /\ ViewTypes' /\ Begun'
      BY <1>1, <2>1 DEF Abort, Sound, TurnTypes, ViewTypes, Begun, AtRest, streamVars, viewVars
    <2>3. QED
      BY <2>2 DEF Sound
  <1>2. ASSUME Sound, Leave \/ Return PROVE Sound'
    <2>1. attached' \in BOOLEAN /\ lost' \in BOOLEAN
      BY <1>2 DEF Leave, Return, Sound, ViewTypes
    <2>2. wire' \in Seq(Event) /\ Len(wire') <= RingCap /\ (attached' \/ wire' = <<>>)
      <3>1. CASE Leave
        <4>1. wire' = <<>> /\ RingCap \in Nat
          BY <1>2, <3>1, Numbers DEF Leave
        <4>2. QED
          BY <4>1
      <3>2. CASE Return
        BY <1>2, <3>2 DEF Return, Sound, ViewTypes
      <3>3. QED
        BY <1>2, <3>1, <3>2
    <2>3. panes' = panes \/ panes' = {}
      BY <1>2 DEF Leave, Return
    <2>4. ViewTypes'
      BY <1>2, <2>1, <2>2, <2>3 DEF Sound, ViewTypes
    <2>5. TurnTypes' /\ Begun'
      BY <1>2 DEF Leave, Return, Sound, TurnTypes, Begun, AtRest, turnVars, turnFixed, streamVars
    <2>6. QED
      BY <2>4, <2>5 DEF Sound
  <1>3. ASSUME Sound, UNCHANGED vars PROVE Sound'
    BY <1>3 DEF Sound, TurnTypes, ViewTypes, Begun, AtRest, vars, turnVars, turnFixed, streamVars, viewVars
  <1>4. QED
    BY <1>1, <1>2, <1>3

(* and so by every step.                                                     *)
LEMMA SoundStep == Sound /\ Pipeline /\ [Next]_vars => Sound'
  <1> SUFFICES ASSUME Sound, Pipeline, [Next]_vars PROVE Sound'
    OBVIOUS
  <1>1. ASSUME NEW m \in Models, Stream(m) \/ Poll(m) \/ Expires(m) PROVE Sound'
    BY <1>1, SoundStream DEF Moves
  <1>2. QED
    BY <1>1, SoundBegin, SoundResolve, SoundTurnStep, SoundDeliver, SoundRest DEF Next, TurnStep

-----------------------------------------------------------------------------
(* The bill.                                                                 *)

(* An answer is there only when nothing reports usage any more.                    *)
LEMMA BillStep == Sound /\ Accounts /\ BilledForAll /\ [Next]_vars => BilledForAll'
  <1> SUFFICES ASSUME Sound, Accounts, BilledForAll, [Next]_vars PROVE BilledForAll'
    OBVIOUS
  <1>1. CASE Begin
    <2>1. \A a \in answers' : a.turn # turn'
      BY <1>1, Numbers DEF Accounts, Begin
    <2>2. QED
      BY <2>1 DEF BilledForAll
  <1>2. CASE Persist
    <2>1. /\ turn' = turn /\ usage' = usage /\ phase = "persist" /\ \A a \in answers : a.turn # turn
          /\ \A a \in answers' : a \in answers \/ a.usage = CandidateUsage \cup (usage \cap {Final})
      BY <1>2 DEF Persist, streamVars, Accounts, Outcomeless
    <2>2. CandidateUsage \cup (usage \cap {Final}) = usage
      BY DEF CandidateUsage, InGroup, Sound, Begun, TurnTypes, Models
    <2>3. QED
      BY <2>1, <2>2 DEF BilledForAll
  <1>3. ASSUME UNCHANGED <<turn, answers, usage>> PROVE BilledForAll'
    BY <1>3 DEF BilledForAll
  <1>4. ASSUME NEW m \in Models, Stream(m) \/ Poll(m) \/ Expires(m) PROVE BilledForAll'
    <2>1. UNCHANGED turnVars /\ ~AtRest(m)
      BY <1>4, StreamMoves DEF Moves
    <2>2. phase # "idle"
      BY <2>1 DEF Sound, Begun, Models
    <2>3. \A a \in answers' : a.turn # turn'
      BY <2>1, <2>2 DEF Accounts, Outcomeless, turnVars, turnFixed
    <2>4. QED
      BY <2>3 DEF BilledForAll
  <1>5. CASE Abort \/ Resolve \/ Collect \/ BeginStage \/ EndStage \/ EndFinal \/ Fail
    BY <1>3, <1>5 DEF Abort, Resolve, Collect, BeginStage, EndStage, EndFinal, Fail, turnFixed, streamVars
  <1>6. CASE Deliver \/ Leave \/ Return \/ UNCHANGED vars
    BY <1>3, <1>6 DEF Deliver, Leave, Return, vars, turnVars, turnFixed, streamVars
  <1>7. QED
    BY <1>1, <1>2, <1>4, <1>5, <1>6 DEF Next, TurnStep

FanOutInv == AbortInv /\ SynthesisInv /\ Sound /\ BilledForAll

(* The answer of a multi-model turn is charged with what every model of the turn   *)
(* reported, those whose answers were not used included (sum_candidate_usage,     *)
(* persist_orchestrated_answer).                                                *)
THEOREM BillComplete == Spec => []Billed
  <1>1. Init => FanOutInv
    <2>1. Init => AbortInv
      BY DEF Init, Fresh, AbortInv, Streams, States, Accounts, Quiet, Outcomeless
    <2>2. Init => SynthesisInv
      BY ModelsAssumption
         DEF Init, Fresh, SynthesisInv, Streams, States, Pipeline, SynthesisOfSurvivors, Indices
    <2>3. Init => BilledForAll
      BY DEF Init, BilledForAll
    <2>4. QED
      BY <2>1, <2>2, <2>3, SoundInit DEF FanOutInv
  <1>2. FanOutInv /\ [Next]_vars => FanOutInv'
    BY StreamsStep, AccountsStep, QuietStep, SynthesisStep, SoundStep, BillStep
       DEF FanOutInv, AbortInv, SynthesisInv
  <1>3. FanOutInv => Billed
    BY Typed DEF FanOutInv, Billed
  <1>4. QED
    BY <1>1, <1>2, <1>3, PTL DEF Spec

-----------------------------------------------------------------------------
(* The comparison.                                                           *)

Now(e, i)     == e.index = i /\ e.turn = turn
Told(type, i) == \E k \in 1..Len(wire) : wire[k].type = type /\ Now(wire[k], i)
Shown(i)      == run[i] \notin {"none", "ready"}
OfNow(i, p)   == p.index = i /\ p.turn = turn

(* Events are of the turns in order, and where this turn has a pane, all the        *)
(* events on their way are of this turn.                                       *)
Queue ==
    /\ \A k \in 1..Len(wire) : wire[k].turn <= turn
    /\ \A j, k \in 1..Len(wire) : j < k => wire[j].turn <= wire[k].turn
    /\ \A p \in panes : p.turn <= turn
    /\ (\E p \in panes : p.turn = turn) => \A k \in 1..Len(wire) : wire[k].turn = turn

(* Candidate i has neither a pane nor an event of this turn.                       *)
Silent(i) ==
    /\ \A k \in 1..Len(wire) : ~Now(wire[k], i)
    /\ \A p \in panes : ~OfNow(i, p)

(* The panes of the turn before are wiped, or will be.                            *)
Wiped ==
    \/ Told("started", 0)
    \/ /\ \A p \in panes : p.turn = turn
       /\ \A k \in 1..Len(wire) : wire[k].turn = turn

(* A candidate that has still to start is silent, and candidate 0 starts first.     *)
StillSilent(i) == run[i] = "ready" \/ (run[i] = "none" /\ (cfg.mode # "fan_out" \/ phase = "resolve"))
Opening ==
    /\ \A i \in Indices : StillSilent(i) => Silent(i)
    /\ \A i \in Indices : run[0] = "ready" => ~Shown(i)
    /\ (run[0] = "none" /\ \E i \in Indices : run[i] # "none") => Wiped
    /\ (\E i \in Indices : Shown(i)) => Wiped

(* Candidate i's first event is its start, which candidate 0's comes not after; once it  *)
(* has been seen, there is a pane.                                              *)
Starts(i) ==
    /\ \A k \in 1..Len(wire) : wire[k].type = "started" /\ Now(wire[k], i) =>
         /\ \A j \in 1..Len(wire) : j < k => ~Now(wire[j], i)
         /\ \A j \in 1..Len(wire) : k < j => ~(wire[j].type = "started" /\ Now(wire[j], 0))
    /\ ~Told("started", i) => (\E p \in panes : OfNow(i, p)) /\ ~Told("started", 0)

(* Its text and its end are in its pane, or will be.                              *)
Texts(i) ==
    IF i \in text
      THEN Told("delta", i) \/ (~Told("started", i) /\ \A p \in panes : OfNow(i, p) => p.text)
      ELSE ~Told("delta", i) /\ \A p \in panes : OfNow(i, p) => ~p.text
EndOf(i) == IF run[i] = "ok" THEN "done" ELSE "error"
Closes(i) ==
    /\ run[i] \in Ended => Told("completed", i) \/ (~Told("started", i) /\ \A p \in panes : OfNow(i, p) => p.status = EndOf(i))
    /\ \A k \in 1..Len(wire) : wire[k].type = "completed" /\ Now(wire[k], i) =>
           run[i] \in Ended /\ (IF wire[k].error THEN "error" ELSE "done") = EndOf(i)

Followed(i) == Starts(i) /\ Texts(i) /\ Closes(i)
Following   == ~lost /\ turn > 0 => Opening /\ \A i \in Indices : Shown(i) => Followed(i)

(* The invariant says what the comparison must show.                         *)
LEMMA Compared == Sound /\ Following => ComparisonFaithful
  <1> SUFFICES ASSUME Sound, Following, phase = "idle", attached, ~lost, wire = <<>>, InGroup # {}
               PROVE  /\ \A p \in panes : p.turn = turn
                      /\ \A i \in InGroup : \E p \in panes :
                           /\ p.index = i
                           /\ p.text = (i \in text)
                           /\ p.status = IF run[i] = "ok" THEN "done" ELSE "error"
    BY DEF ComparisonFaithful
  <1>1. turn > 0 /\ 0 \in Indices
    BY Numbers DEF Indices, InGroup, Sound, Begun
  <1>2. \A k \in 1..Len(wire) : FALSE
    OBVIOUS
  <1>3. \A i \in InGroup : i \in Indices /\ Shown(i) /\ run[i] \in Ended
    BY DEF InGroup, Shown, Sound, Begun, AtRest, Ended
  <1>4. \A type, i : ~Told(type, i)
    BY <1>2 DEF Told
  <1>5. \A p \in panes : p.turn = turn
    BY <1>1, <1>3, <1>4 DEF Following, Opening, Wiped
  <1>6. ASSUME NEW i \in InGroup
        PROVE  \E p \in panes : p.index = i /\ p.text = (i \in text) /\ p.status = EndOf(i)
    <2>1. Starts(i) /\ Texts(i) /\ Closes(i) /\ run[i] \in Ended
      BY <1>1, <1>3 DEF Following, Followed
    <2>2. PICK p \in panes : OfNow(i, p)
      BY <1>4, <2>1 DEF Starts
    <2>3. p.text \in BOOLEAN
      BY DEF Sound, ViewTypes, Pane
    <2>4. (i \in text => p.text) /\ (i \notin text => ~p.text)
      BY <1>4, <2>1, <2>2 DEF Texts
    <2>5. p.status = EndOf(i)
      BY <1>4, <2>1, <2>2 DEF Closes
    <2>6. QED
      <3>1. p.text = (i \in text)
        BY <2>3, <2>4
      <3>2. QED
        BY <2>2, <2>5, <3>1, Zenon DEF OfNow
  <1>7. QED
    BY <1>5, <1>6 DEF EndOf

(* Events that are sent come last.                                              *)
LEMMA Behind ==
  ASSUME Sound, NEW events \in Seq(Event), NEW all, all = wire \o events
  PROVE  /\ all \in Seq(Event) /\ Len(all) = Len(wire) + Len(events) /\ Len(wire) \in Nat /\ Len(events) \in Nat
         /\ \A k \in 1..Len(wire) : k \in 1..Len(all) /\ all[k] = wire[k]
         /\ \A k \in 1..Len(events) : Len(wire) + k \in 1..Len(all) /\ all[Len(wire) + k] = events[k]
         /\ \A k \in 1..Len(all) : k \in 1..Len(wire) \/ (k > Len(wire) /\ k - Len(wire) \in 1..Len(events) /\ all[k] = events[k - Len(wire)])
  <1>1. wire \in Seq(Event)
    BY DEF Sound, ViewTypes
  <1>2. QED
    BY <1>1, ConcatProperties

(* Queue is kept where events of this turn are sent,                         *)
LEMMA QueueSends ==
  ASSUME Sound, Queue, NEW events \in Seq(Event), \A k \in 1..Len(events) : events[k].turn = turn, Send(events),
         turn' = turn
  PROVE  Queue'
  <1> DEFINE all == wire \o events
  <1>1. /\ Len(wire) \in Nat /\ Len(events) \in Nat /\ Len(all) = Len(wire) + Len(events)
        /\ \A k \in 1..Len(wire) : all[k] = wire[k]
        /\ \A k \in 1..Len(all) : k \in 1..Len(wire) \/ (k > Len(wire) /\ k - Len(wire) \in 1..Len(events) /\ all[k] = events[k - Len(wire)])
    BY Behind
  <1>2. /\ panes' = panes
        /\ wire' = <<>> \/ \E over \in Nat :
              /\ over <= Len(all) /\ Len(wire') = Len(all) - over
              /\ \A k \in 1..Len(wire') : wire'[k] = all[over + k]
    BY Sent DEF Sound
  <1> HIDE DEF all
  <1>3. \A k \in 1..Len(wire) : wire[k].turn \in Nat
    <2>1. wire \in Seq(Event) /\ MaxTurns \in Nat
      BY Numbers DEF Sound, ViewTypes
    <2>2. \A k \in 1..Len(wire) : wire[k] \in Event
      BY <2>1
    <2>3. QED
      BY <2>1, <2>2 DEF Event
  <1>4. turn \in Nat
    BY Numbers
  <1>5. \A k \in 1..Len(all) : all[k].turn \in Nat /\ all[k].turn <= turn
    BY <1>1, <1>3, <1>4 DEF Queue
  <1>6. ASSUME NEW j \in 1..Len(all), NEW k \in 1..Len(all), j < k
        PROVE  all[j].turn <= all[k].turn
    <2>1. CASE k \in 1..Len(wire)
      <3>1. j \in 1..Len(wire)
        BY <1>1, <1>6, <2>1
      <3>2. QED
        BY <1>1, <1>6, <2>1, <3>1 DEF Queue
    <2>2. CASE k \notin 1..Len(wire)
      <3>1. all[k].turn = turn
        BY <1>1, <2>2
      <3>2. QED
        BY <1>5, <3>1
    <2>3. QED
      BY <2>1, <2>2
  <1>7. (\E p \in panes : p.turn = turn) => \A k \in 1..Len(all) : all[k].turn = turn
    BY <1>1 DEF Queue
  <1>8. CASE wire' = <<>>
    BY <1>2, <1>8 DEF Queue
  <1>9. ASSUME NEW over \in Nat, over <= Len(all), Len(wire') = Len(all) - over,
               \A k \in 1..Len(wire') : wire'[k] = all[over + k]
        PROVE  Queue'
    <2>1. \A k \in 1..Len(wire') : over + k \in 1..Len(all) /\ wire'[k] = all[over + k]
      BY <1>1, <1>9
    <2>2. \A j, k \in 1..Len(wire') : j < k => over + j < over + k
      BY <1>1, <1>9
    <2>3. \A j, k \in 1..Len(wire') : j < k => wire'[j].turn <= wire'[k].turn
      BY <1>6, <2>1, <2>2
    <2>4. QED
      BY <1>2, <1>5, <1>7, <2>1, <2>3 DEF Queue
  <1>10. QED
    BY <1>2, <1>8, <1>9

(* What a delivery does to the wire.                                         *)
LEMMA Delivers ==
  ASSUME Sound, Deliver
  PROVE  /\ UNCHANGED <<turn, run, text, cfg, phase, lost>>
         /\ Len(wire) \in Nat /\ 1 \in 1..Len(wire) /\ wire[1] \in Event /\ wire[1].turn \in Nat
         /\ wire[1].type \in {"started", "delta", "completed"}
         /\ \A k \in 1..Len(wire') : k + 1 \in 1..Len(wire) /\ wire'[k] = wire[k + 1] /\ k + 1 > 1
         /\ \A k \in 1..Len(wire) : k = 1 \/ (k - 1 \in 1..Len(wire') /\ wire'[k - 1] = wire[k])
         /\ \A j, k \in 1..Len(wire') : j < k => j + 1 < k + 1
         /\ panes' = PanesAfter(wire[1])
  <1>1. /\ wire # <<>> /\ wire \in Seq(Event) /\ panes' = PanesAfter(Head(wire)) /\ wire' = Tail(wire)
        /\ UNCHANGED <<turnVars, streamVars, attached, lost>>
    BY DEF Deliver, Sound, ViewTypes
  <1>2. Head(wire) = wire[1] /\ wire[1] \in Event
    BY <1>1
  <1>3. /\ Len(wire) \in Nat /\ Len(wire) >= 1 /\ Len(wire') \in Nat /\ Len(wire') = Len(wire) - 1
        /\ \A k \in 1..Len(wire') : wire'[k] = wire[k + 1]
    BY <1>1, HeadTailProperties
  <1>4. \A k \in 1..Len(wire') : k + 1 \in 1..Len(wire) /\ k + 1 > 1
    BY <1>3
  <1>5. \A k \in 1..Len(wire) : k = 1 \/ (k - 1 \in 1..Len(wire') /\ (k - 1) + 1 = k)
    BY <1>3
  <1>6. \A k \in 1..Len(wire) : k = 1 \/ (k - 1 \in 1..Len(wire') /\ wire'[k - 1] = wire[k])
    BY <1>3, <1>5
  <1>7. UNCHANGED <<turn, run, text, cfg, phase, lost>>
    BY <1>1 DEF turnVars, turnFixed, streamVars
  <1>8. wire[1].turn \in Nat /\ wire[1].type \in {"started", "delta", "completed"}
    BY <1>2, BoundsAssumption DEF Event
  <1>9. \A j, k \in 1..Len(wire') : j < k => j + 1 < k + 1
    BY <1>3
  <1>10. QED
    BY <1>1, <1>2, <1>3, <1>4, <1>6, <1>7, <1>8, <1>9

(* Where a pane comes from.                                                     *)
LEMMA PaneOrigin ==
  ASSUME Sound, Deliver, NEW q \in panes'
  PROVE  /\ q \in Pane
         /\ \/ q \in panes /\ q.index # wire[1].index /\ ~(wire[1].type = "started" /\ wire[1].index = 0)
            \/ /\ wire[1].type = "started" /\ q.index = wire[1].index /\ q.turn = wire[1].turn /\ ~q.text
            \/ \E p \in panes :
                 /\ p.index = wire[1].index /\ q.index = p.index /\ q.turn = p.turn
                 /\ \/ wire[1].type = "delta" /\ q.text /\ q.status = p.status
                    \/ /\ wire[1].type = "completed" /\ q.text = p.text
                       /\ q.status = IF wire[1].error THEN "error" ELSE "done"
  <1>1. wire[1] \in Event /\ panes' = PanesAfter(wire[1])
    BY Delivers
  <1>2. wire[1].error \in BOOLEAN /\ panes \subseteq Pane
    BY <1>1 DEF Event, Sound, ViewTypes
  <1>3. /\ Opened(wire[1]).index = wire[1].index /\ Opened(wire[1]).turn = wire[1].turn /\ ~Opened(wire[1]).text
    BY DEF Opened
  <1>4. q \in Pane
    BY <1>1, PanesTyped DEF Sound
  <1>5. \A p \in panes, err \in BOOLEAN :
          /\ Spoken(p).index = p.index /\ Spoken(p).turn = p.turn /\ Spoken(p).text /\ Spoken(p).status = p.status
          /\ Closed(p, err).index = p.index /\ Closed(p, err).turn = p.turn /\ Closed(p, err).text = p.text
          /\ Closed(p, err).status = IF err THEN "error" ELSE "done"
    BY <1>2 DEF Pane, Spoken, Closed
  <1>6. \/ q \in panes /\ q.index # wire[1].index /\ ~(wire[1].type = "started" /\ wire[1].index = 0)
        \/ wire[1].type = "started" /\ q = Opened(wire[1])
        \/ wire[1].type = "delta" /\ \E p \in panes : p.index = wire[1].index /\ q = Spoken(p)
        \/ wire[1].type = "completed" /\ \E p \in panes : p.index = wire[1].index /\ q = Closed(p, wire[1].error)
    BY <1>1, PanesBehind
  <1>7. QED
    BY <1>2, <1>3, <1>4, <1>5, <1>6

(* where one is delivered,                                                   *)
LEMMA QueueDelivers == Sound /\ Queue /\ Deliver => Queue'
  <1> SUFFICES ASSUME Sound, Queue, Deliver PROVE Queue'
    OBVIOUS
  <1>1. /\ turn' = turn /\ 1 \in 1..Len(wire) /\ wire[1].turn \in Nat
        /\ \A k \in 1..Len(wire') : k + 1 \in 1..Len(wire) /\ wire'[k] = wire[k + 1] /\ k + 1 > 1
        /\ \A j, k \in 1..Len(wire') : j < k => j + 1 < k + 1
    BY Delivers
  <1>2. wire[1].turn <= turn /\ \A k \in 1..Len(wire') : wire'[k].turn <= turn /\ wire[1].turn <= wire'[k].turn
    BY <1>1 DEF Queue
  <1>3. \A j, k \in 1..Len(wire') : j < k => wire'[j].turn <= wire'[k].turn
    BY <1>1 DEF Queue
  <1>4. \A q \in panes' : (\E p \in panes : p.turn = q.turn) \/ q.turn = wire[1].turn
    BY PaneOrigin
  <1>5. \A q \in panes' : q.turn <= turn
    BY <1>2, <1>4 DEF Queue
  <1>6. ASSUME NEW q \in panes', q.turn = turn, NEW k \in 1..Len(wire') PROVE wire'[k].turn = turn
    <2>1. CASE \E p \in panes : p.turn = turn
      BY <1>1, <2>1 DEF Queue
    <2>2. CASE wire[1].turn = turn
      <3>1. wire'[k].turn <= turn /\ turn <= wire'[k].turn
        BY <1>2, <2>2
      <3>2. wire'[k].turn \in Nat /\ turn \in Nat
        <4>1. wire \in Seq(Event) /\ k + 1 \in 1..Len(wire)
          BY <1>1 DEF Sound, ViewTypes
        <4>2. wire[k + 1] \in Event /\ MaxTurns \in Nat
          BY <4>1, Numbers
        <4>3. QED
          BY <1>1, <4>2, Numbers DEF Event
      <3>3. QED
        BY <3>1, <3>2
    <2>3. QED
      BY <1>4, <1>6, <2>1, <2>2
  <1>7. QED
    BY <1>1, <1>2, <1>3, <1>5, <1>6 DEF Queue

(* A step that starts no turn sends what is of this turn, delivers, or leaves the    *)
(* queue and the panes as they are, or empty.                                   *)
LEMMA StepSends ==
  ASSUME Sound, NEW m \in Models, Moves(m)
  PROVE  \/ UNCHANGED viewVars
         \/ \E e \in Event : e.turn = turn /\ e.index = m /\ m \in Indices /\ Send(<<e>>)
  <1>1. turn \in 1..MaxTurns
    BY StreamMoves, Numbers
  <1>2. ASSUME m \in Indices, NEW type \in {"started", "delta", "completed"}, NEW err \in BOOLEAN,
               Send(<<CandidateEvent(type, m, err)>>)
        PROVE  \E e \in Event : e.turn = turn /\ e.index = m /\ m \in Indices /\ Send(<<e>>)
    <2>1. /\ CandidateEvent(type, m, err) \in Event /\ CandidateEvent(type, m, err).turn = turn
          /\ CandidateEvent(type, m, err).index = m
      BY <1>1, <1>2, EventTyped
    <2>2. QED
      BY <1>2, <2>1
  <1>3. QED
    BY <1>2, StreamMoves

(* and so by every step.                                                     *)
LEMMA QueueStep == Sound /\ Queue /\ [Next]_vars => Queue'
  <1> SUFFICES ASSUME Sound, Queue, [Next]_vars PROVE Queue'
    OBVIOUS
  <1>1. CASE Begin
    <2>1. turn' = turn + 1 /\ wire' = wire /\ panes' = panes /\ turn \in Nat
      BY <1>1, Numbers DEF Begin
    <2>2. \A k \in 1..Len(wire) : wire[k].turn \in Nat
      <3>1. wire \in Seq(Event) /\ MaxTurns \in Nat
        BY Numbers DEF Sound, ViewTypes
      <3>2. \A k \in 1..Len(wire) : wire[k] \in Event
        BY <3>1
      <3>3. QED
        BY <3>1, <3>2 DEF Event
    <2>3. \A p \in panes : p.turn \in Nat
      BY Numbers DEF Sound, ViewTypes, Pane
    <2>4. (\A k \in 1..Len(wire) : wire[k].turn <= turn') /\ \A p \in panes : p.turn < turn'
      BY <2>1, <2>2, <2>3 DEF Queue
    <2>5. \A p \in panes' : p.turn <= turn' /\ p.turn # turn'
      BY <2>1, <2>3, <2>4
    <2>6. QED
      BY <2>1, <2>4, <2>5 DEF Queue
  <1>2. CASE Resolve
    <2>1. PICK missing \in Missing : Send(Unregistered(missing))
      BY <1>2 DEF Resolve
    <2>2. /\ Unregistered(missing) \in Seq(Event)
          /\ \A k \in 1..Len(Unregistered(missing)) : Unregistered(missing)[k].turn = turn
      BY <1>2, MissingTyped, Numbers DEF Resolve
    <2>3. turn' = turn
      BY <1>2 DEF Resolve, turnFixed
    <2>4. QED
      BY <2>1, <2>2, <2>3, QueueSends
  <1>3. CASE Deliver
    BY <1>3, QueueDelivers
  <1>4. CASE UNCHANGED <<turn, wire, panes>>
    BY <1>4 DEF Queue
  <1>5. CASE Leave
    BY <1>5 DEF Leave, Queue, turnVars, turnFixed
  <1>6. ASSUME NEW m \in Models, Stream(m) \/ Poll(m) \/ Expires(m) PROVE Queue'
    <2>1. turn' = turn
      BY <1>6, StreamMoves DEF Moves, turnVars, turnFixed
    <2>2. CASE UNCHANGED viewVars
      BY <1>4, <2>1, <2>2 DEF viewVars
    <2>3. ASSUME NEW e \in Event, e.turn = turn, Send(<<e>>) PROVE Queue'
      <3>1. <<e>> \in Seq(Event) /\ \A k \in 1..Len(<<e>>) : <<e>>[k].turn = turn
        BY <2>3
      <3>2. QED
        BY <2>1, <2>3, <3>1, QueueSends
    <2>4. QED
      BY <1>6, <2>2, <2>3, StepSends DEF Moves
  <1>7. CASE Abort \/ Collect \/ BeginStage \/ EndStage \/ EndFinal \/ Persist \/ Fail \/ Return \/ UNCHANGED vars
    BY <1>4, <1>7 DEF Abort, Collect, BeginStage, EndStage, EndFinal, Persist, Fail, Return, turnFixed, viewVars,
       turnVars, vars
  <1>8. QED
    BY <1>1, <1>2, <1>3, <1>5, <1>6, <1>7 DEF Next, TurnStep

(* A step of the turn that touches no candidate, or makes one ready.                 *)
LEMMA FollowingKept ==
  ASSUME Following, UNCHANGED <<turn, cfg, wire, panes, lost>>, phase' = "resolve" => phase = "resolve", 0 \in Indices,
         \A i \in Indices : run'[i] = run[i] /\ (i \in text' <=> i \in text)
  PROVE  Following'
  <1> SUFFICES ASSUME ~lost, turn > 0
               PROVE  Opening' /\ \A i \in Indices : Shown(i)' => Followed(i)'
    BY DEF Following
  <1>1. Opening /\ \A i \in Indices : Shown(i) => Followed(i)
    BY DEF Following
  <1>2. \A type, i : Told(type, i)' <=> Told(type, i)
    BY DEF Told, Now
  <1>3. \A i \in Indices : Shown(i)' <=> Shown(i)
    BY DEF Shown
  <1>4. \A i \in Indices : Silent(i)' <=> Silent(i)
    BY DEF Silent, Now, OfNow
  <1>5. Wiped' <=> Wiped
    BY <1>2 DEF Wiped
  <1>6. \A i \in Indices : StillSilent(i)' => StillSilent(i)
    BY DEF StillSilent
  <1>7. Opening'
    BY <1>1, <1>3, <1>4, <1>5, <1>6 DEF Opening
  <1>8. ASSUME NEW i \in Indices, Shown(i)' PROVE Followed(i)'
    <2>1. Starts(i) /\ Texts(i) /\ Closes(i)
      BY <1>1, <1>3, <1>8 DEF Followed
    <2>2. Starts(i)'
      BY <1>2, <2>1 DEF Starts, Now, OfNow
    <2>3. Texts(i)'
      BY <1>2, <2>1 DEF Texts, OfNow
    <2>4. Closes(i)'
      BY <1>2, <2>1 DEF Closes, Now, OfNow, EndOf
    <2>5. QED
      BY <2>2, <2>3, <2>4 DEF Followed
  <1>9. QED
    BY <1>7, <1>8

(* In a new turn no candidate has been heard of.                             *)
LEMMA FollowingBegins == Sound /\ Queue /\ Begin => Following'
  <1> SUFFICES ASSUME Sound, Queue, Begin PROVE Following'
    OBVIOUS
  <1>1. turn' = turn + 1 /\ wire' = wire /\ panes' = panes /\ turn \in Nat /\ run' = Fresh
    BY Numbers DEF Begin
  <1>2. \A k \in 1..Len(wire) : wire[k].turn \in Nat
    <2>1. wire \in Seq(Event) /\ MaxTurns \in Nat
      BY Numbers DEF Sound, ViewTypes
    <2>2. \A k \in 1..Len(wire) : wire[k] \in Event
      BY <2>1
    <2>3. QED
      BY <2>1, <2>2 DEF Event
  <1>3. \A p \in panes : p.turn \in Nat
    BY Numbers DEF Sound, ViewTypes, Pane
  <1>4. (\A k \in 1..Len(wire) : wire[k].turn # turn') /\ \A p \in panes : p.turn # turn'
    BY <1>1, <1>2, <1>3 DEF Queue
  <1>5. \A i \in Indices : Silent(i)'
    BY <1>1, <1>4 DEF Silent, Now, OfNow
  <1>6. \A i \in Indices : run'[i] = "none"
    BY <1>1, Numbers DEF Fresh
  <1>7. 0 \in Indices
    BY Numbers DEF Indices
  <1>8. Opening' /\ \A i \in Indices : ~Shown(i)'
    BY <1>5, <1>6, <1>7 DEF Opening, Shown
  <1>9. QED
    BY <1>8 DEF Following

(* Who is ready has not been heard of.                                           *)
LEMMA FollowingReady ==
  ASSUME Sound, Pipeline, Following, BeginStage, UNCHANGED <<turn, cfg, wire, panes, lost, text>>,
         Becomes(stage, "ready"), phase' = "gather"
  PROVE  Following'
  <1> SUFFICES ASSUME ~lost, turn > 0
               PROVE  Opening' /\ \A i \in Indices : Shown(i)' => Followed(i)'
    BY DEF Following
  <1>1. Opening /\ \A i \in Indices : Shown(i) => Followed(i)
    BY DEF Following
  <1>2. \A type, i : Told(type, i)' <=> Told(type, i)
    BY DEF Told, Now
  <1>3. \A i \in Indices : Silent(i)' <=> Silent(i)
    BY DEF Silent, Now, OfNow
  <1>4. Wiped' <=> Wiped
    BY <1>2 DEF Wiped
  <1>5. /\ phase = "stage" /\ cfg.mode = "role_based" /\ stage \in Indices
        /\ \A i \in Indices : i < stage => run[i] = "ok"
        /\ \A i \in Indices : i >= stage => run[i] = "none"
    BY DEF BeginStage, Pipeline, Answered
  <1>6. run'[stage] = "ready" /\ \A i \in Indices : i # stage => run'[i] = run[i]
    BY <1>5, Numbers DEF Becomes, Sound, TurnTypes
  <1>7. \A i \in Indices : i < stage \/ i >= stage
    BY <1>5 DEF Indices
  <1>8. run[stage] = "none" /\ StillSilent(stage)
    <2>1. stage >= stage
      BY <1>5 DEF Indices
    <2>2. QED
      BY <1>5, <2>1 DEF StillSilent
  <1>9. 0 \in Indices /\ (stage = 0 \/ 0 < stage)
    BY <1>5, Numbers DEF Indices
  <1>10. \A i \in Indices : Shown(i)' <=> Shown(i)
    BY <1>6, <1>8 DEF Shown
  <1>11. \A i \in Indices : StillSilent(i)' => StillSilent(i)
    BY <1>5, <1>6, <1>8 DEF StillSilent
  <1>12. stage # 0 => run'[0] = "ok"
    BY <1>5, <1>6, <1>9
  <1>13. stage = 0 => run'[0] = "ready" /\ \A i \in Indices : ~Shown(i)
    <2>1. stage = 0 => \A i \in Indices : i >= stage
      BY <1>5 DEF Indices
    <2>2. QED
      BY <1>5, <1>6, <2>1 DEF Shown
  <1>14. Opening'
    BY <1>1, <1>3, <1>4, <1>10, <1>11, <1>12, <1>13 DEF Opening
  <1>15. ASSUME NEW i \in Indices, Shown(i)' PROVE Followed(i)'
    <2>1. Starts(i) /\ Texts(i) /\ Closes(i) /\ Shown(i)
      BY <1>1, <1>10, <1>15 DEF Followed
    <2>2. run'[i] = run[i]
      BY <1>6, <1>8, <2>1 DEF Shown
    <2>3. Starts(i)'
      BY <1>2, <2>1 DEF Starts, Now, OfNow
    <2>4. Texts(i)'
      BY <1>2, <2>1 DEF Texts, OfNow
    <2>5. Closes(i)'
      BY <1>2, <2>1, <2>2 DEF Closes, Now, OfNow, EndOf
    <2>6. QED
      BY <2>3, <2>4, <2>5 DEF Followed
  <1>16. QED
    BY <1>14, <1>15

(* The missing candidates' events wipe the panes if candidate 0 is among them. *)
LEMMA FollowingResolves == Sound /\ Pipeline /\ Following /\ Resolve => Following'
  <1> SUFFICES ASSUME Sound, Pipeline, Following, Resolve, ~lost', turn > 0
               PROVE  Opening' /\ \A i \in Indices : Shown(i)' => Followed(i)'
    BY DEF Following, Resolve, turnFixed
  <1>1. PICK missing \in Missing : Send(Unregistered(missing))
    BY DEF Resolve
  <1> DEFINE events == Unregistered(missing)
  <1>2. /\ events \in Seq(Event)
        /\ \A k \in 1..Len(events) : events[k].turn = turn /\ events[k].index \in Indices \ cfg.registered
        /\ \A i \in Indices \ cfg.registered : \E k \in 1..Len(events) : events[k].type = "started" /\ events[k].index = i
    BY MissingTyped, Numbers DEF Resolve
  <1> HIDE DEF events
  <1>3. ~lost /\ wire' = wire \o events /\ panes' = panes
    BY <1>1, <1>2, Sent DEF Sound, events
  <1>4. /\ Len(wire) \in Nat
        /\ \A k \in 1..Len(events) : Len(wire) + k \in 1..Len(wire') /\ wire'[Len(wire) + k] = events[k]
        /\ \A k \in 1..Len(wire') : \/ k \in 1..Len(wire) /\ wire'[k] = wire[k]
                                    \/ k - Len(wire) \in 1..Len(events) /\ wire'[k] = events[k - Len(wire)]
    <2> DEFINE all == wire \o events
    <2>1. /\ Len(wire) \in Nat
          /\ \A k \in 1..Len(wire) : k \in 1..Len(all) /\ all[k] = wire[k]
          /\ \A k \in 1..Len(events) : Len(wire) + k \in 1..Len(all) /\ all[Len(wire) + k] = events[k]
          /\ \A k \in 1..Len(all) : k \in 1..Len(wire) \/ (k > Len(wire) /\ k - Len(wire) \in 1..Len(events) /\ all[k] = events[k - Len(wire)])
      BY <1>2, Behind
    <2>2. wire' = all
      BY <1>3
    <2> HIDE DEF all
    <2>3. QED
      BY <2>1, <2>2
  <1>5. /\ phase = "resolve" /\ phase' = "gather" /\ turn' = turn /\ cfg' = cfg /\ cfg.mode = "fan_out"
        /\ run' = [m \in Models |-> IF m \in cfg.registered THEN "ready" ELSE "none"]
    BY DEF Resolve, Goto, turnFixed, Pipeline
  <1>6. \A i \in Indices : run[i] = "none" /\ run'[i] = IF i \in cfg.registered THEN "ready" ELSE "none"
    BY <1>5, Numbers DEF Sound, Begun
  <1>7. \A i \in Indices : Silent(i)
    BY <1>3, <1>5, <1>6 DEF Following, Opening, StillSilent
  <1>8. \A i \in Indices : ~Shown(i)'
    BY <1>6 DEF Shown
  <1>9. ASSUME NEW i \in Indices, StillSilent(i)' PROVE Silent(i)'
    <2>1. i \in cfg.registered
      BY <1>5, <1>6, <1>9 DEF StillSilent
    <2>2. QED
      BY <1>2, <1>3, <1>4, <1>5, <1>7, <2>1 DEF Silent, Now, OfNow
  <1>10. ASSUME run'[0] = "none" PROVE Wiped'
    <2>1. 0 \in Indices \ cfg.registered
      BY <1>6, <1>10, Numbers DEF Indices
    <2>2. PICK k \in 1..Len(events) : events[k].type = "started" /\ events[k].index = 0 /\ events[k].turn = turn
      BY <1>2, <2>1
    <2>3. Told("started", 0)'
      BY <1>4, <1>5, <2>2 DEF Told, Now
    <2>4. QED
      BY <2>3 DEF Wiped
  <1>11. QED
    BY <1>8, <1>9, <1>10 DEF Opening

(* An event of candidate m is sent.                                             *)
Adds(e, m) ==
    /\ e.index = m /\ e.turn = turn /\ turn' = turn /\ panes' = panes
    /\ Len(wire) \in Nat
    /\ Len(wire) + 1 \in 1..Len(wire') /\ wire'[Len(wire) + 1] = e
    /\ \A k \in 1..Len(wire) : k \in 1..Len(wire') /\ wire'[k] = wire[k] /\ k < Len(wire) + 1
    /\ \A k \in 1..Len(wire') : k \in 1..Len(wire) \/ k = Len(wire) + 1

(* What Send adds when nothing is lost.                                      *)
LEMMA SendAdds ==
  ASSUME Sound, NEW e \in Event, NEW m, e.turn = turn, e.index = m, Send(<<e>>), ~lost', turn' = turn
  PROVE  ~lost /\ Adds(e, m)
  <1> DEFINE all == wire \o <<e>>
  <1>1. <<e>> \in Seq(Event) /\ Len(<<e>>) = 1 /\ <<e>>[1] = e
    OBVIOUS
  <1>2. ~lost /\ wire' = all /\ panes' = panes
    BY <1>1, Sent DEF Sound
  <1>3. /\ Len(wire) \in Nat
        /\ \A k \in 1..Len(wire) : k \in 1..Len(all) /\ all[k] = wire[k]
        /\ \A k \in 1..Len(<<e>>) : Len(wire) + k \in 1..Len(all) /\ all[Len(wire) + k] = <<e>>[k]
        /\ \A k \in 1..Len(all) : k \in 1..Len(wire) \/ (k > Len(wire) /\ k - Len(wire) \in 1..Len(<<e>>) /\ all[k] = <<e>>[k - Len(wire)])
    BY <1>1, Behind
  <1> HIDE DEF all
  <1>4. \A k \in 1..Len(wire) : k \in 1..Len(wire') /\ wire'[k] = wire[k] /\ k < Len(wire) + 1
    BY <1>2, <1>3
  <1>5. Len(wire) + 1 \in 1..Len(wire') /\ wire'[Len(wire) + 1] = e
    BY <1>1, <1>2, <1>3
  <1>6. \A k \in 1..Len(wire') : k \in 1..Len(wire) \/ k = Len(wire) + 1
    <2>1. \A k \in 1..Len(wire') : k \in 1..Len(wire) \/ (k > Len(wire) /\ k - Len(wire) \in 1..1)
      BY <1>1, <1>2, <1>3
    <2>2. QED
      BY <1>3, <2>1
  <1>7. QED
    BY <1>2, <1>3, <1>4, <1>5, <1>6 DEF Adds

(* What has been told then.                                                  *)
LEMMA ToldAfter ==
  ASSUME NEW e, NEW m, Adds(e, m)
  PROVE  \A type, i : Told(type, i)' <=> Told(type, i) \/ (e.type = type /\ i = m)
  BY DEF Adds, Told, Now

(* The others follow on.                                                       *)
LEMMA OthersFollow ==
  ASSUME NEW e, NEW m, Adds(e, m), NEW i, Followed(i), i # m, e.type = "started" => m # 0,
         run'[i] = run[i], i \in text' <=> i \in text
  PROVE  Followed(i)'
  <1>1. \A type : Told(type, i)' <=> Told(type, i)
    BY ToldAfter
  <1>2. Told("started", 0)' <=> Told("started", 0)
    BY ToldAfter
  <1>3. Starts(i) /\ Texts(i) /\ Closes(i)
    BY DEF Followed
  <1>4. Starts(i)'
    <2>1. ASSUME NEW k \in 1..Len(wire'), wire'[k].type = "started", wire'[k].index = i, wire'[k].turn = turn
          PROVE  /\ \A j \in 1..Len(wire') : j < k => ~(wire'[j].index = i /\ wire'[j].turn = turn)
                 /\ \A j \in 1..Len(wire') : k < j =>
                      ~(wire'[j].type = "started" /\ wire'[j].index = 0 /\ wire'[j].turn = turn)
      <3>1. k \in 1..Len(wire) /\ wire'[k] = wire[k] /\ k < Len(wire) + 1
        BY <2>1 DEF Adds
      <3>2. /\ \A j \in 1..Len(wire) : j < k => ~(wire[j].index = i /\ wire[j].turn = turn)
            /\ \A j \in 1..Len(wire) : k < j =>
                 ~(wire[j].type = "started" /\ wire[j].index = 0 /\ wire[j].turn = turn)
        BY <1>3, <2>1, <3>1 DEF Starts, Now
      <3>3. QED
        BY <3>1, <3>2 DEF Adds
    <2>2. ~Told("started", i)' => (\E p \in panes' : OfNow(i, p)') /\ ~Told("started", 0)'
      BY <1>1, <1>2, <1>3 DEF Starts, Adds, OfNow
    <2>3. turn' = turn
      BY DEF Adds
    <2>4. QED
      BY <2>1, <2>2, <2>3 DEF Starts, Now
  <1>5. Texts(i)'
    BY <1>1, <1>3 DEF Texts, Adds, OfNow
  <1>6. Closes(i)'
    BY <1>1, <1>3 DEF Closes, Adds, OfNow, EndOf, Now
  <1>7. QED
    BY <1>4, <1>5, <1>6 DEF Followed

(* The panes stay wiped, or to be wiped.                                     *)
LEMMA WipedStays ==
  ASSUME Wiped, NEW e, NEW m, Adds(e, m)
  PROVE  Wiped'
  <1>1. Told("started", 0) => Told("started", 0)'
    BY ToldAfter
  <1>2. QED
    BY <1>1 DEF Wiped, Adds

(* Candidate m goes on: the opening.                                             *)
LEMMA OpeningStays ==
  ASSUME Opening, NEW m \in Indices, 0 \in Indices, turn' = turn, cfg' = cfg, phase' = phase, run[m] # "none",
         run'[m] \notin {"none", "ready"}, \A i \in Indices \ {m} : run'[i] = run[i],
         run[m] = "ready" => run[0] # "ready" \/ m = 0,
         \/ UNCHANGED <<wire, panes>> /\ run[m] # "ready"
         \/ \E e : Adds(e, m) /\ (run[m] = "ready" => e.type = "started")
  PROVE  Opening'
  <1>1. \A i \in Indices : StillSilent(i)' => i # m /\ StillSilent(i)
    BY DEF StillSilent
  <1>2. ASSUME NEW i \in Indices, i # m, Silent(i) PROVE Silent(i)'
    BY <1>2 DEF Silent, Now, OfNow, Adds
  <1>3. run'[0] = "ready" => m # 0 /\ run[0] = "ready" /\ \A i \in Indices : ~Shown(i)'
    BY DEF Opening, Shown
  <1>4. Wiped => Wiped'
    <2>1. CASE UNCHANGED <<wire, panes>>
      BY <2>1 DEF Wiped, Told, Now
    <2>2. CASE \E e : Adds(e, m)
      BY <2>2, WipedStays
    <2>3. QED
      BY <2>1, <2>2
  <1>5. run'[0] = "none" => Wiped
    BY DEF Opening
  <1>6. Wiped'
    <2>1. CASE run[m] # "ready"
      BY <1>4, <2>1 DEF Opening, Shown
    <2>2. CASE run[m] = "ready" /\ m # 0
      BY <1>4, <2>2 DEF Opening, Shown
    <2>3. CASE run[m] = "ready" /\ m = 0
      <3>1. Told("started", 0)'
        BY <2>3, ToldAfter
      <3>2. QED
        BY <3>1 DEF Wiped
    <2>4. QED
      BY <2>1, <2>2, <2>3
  <1>7. QED
    BY <1>1, <1>2, <1>3, <1>6, Zenon DEF Opening

(* A stream's step, as far as the comparison goes.                                *)
LEMMA MoveShapes ==
  ASSUME Sound, NEW m \in Indices, Moves(m)
  PROVE  /\ run'[m] \notin {"none", "ready"} /\ run[m] \notin Ended \cup {"none"}
         /\ \/ /\ run[m] = "ready" /\ run'[m] \notin Ended /\ UNCHANGED text /\ (0 < m => run[0] # "ready")
               /\ Send(<<CandidateEvent("started", m, FALSE)>>)
            \/ run[m] # "ready" /\ run'[m] \notin Ended /\ UNCHANGED <<text, viewVars>>
            \/ /\ run[m] # "ready" /\ run'[m] \notin Ended /\ m \in text'
               /\ Send(<<CandidateEvent("delta", m, FALSE)>>)
            \/ /\ run[m] # "ready" /\ run'[m] \in Ended /\ UNCHANGED text
               /\ \E err \in BOOLEAN :
                     /\ (IF err THEN "error" ELSE "done") = EndOf(m)'
                     /\ Send(<<CandidateEvent("completed", m, err)>>)
  <1> USE DEF Polled, Becomes, Ended, EndOf
  <1>0. run \in [Models -> States] /\ m \in Models /\ 0 \in Indices
    BY Numbers DEF Sound, TurnTypes, Indices
  <1>1. CASE Announce(m)
    BY <1>0, <1>1 DEF Announce, SendOf
  <1>2. CASE Poll(m) \/ Expires(m)
    BY <1>0, <1>2 DEF Poll, Expires
  <1>3. CASE Produces(m)
    BY <1>0, <1>3 DEF Produces, SendOf
  <1>4. CASE Cancelled(m) \/ Errs(m)
    BY <1>0, <1>4 DEF Cancelled, Errs, SendOf
  <1>5. CASE Finishes(m)
    BY <1>0, <1>5 DEF Finishes, SendOf
  <1>6. QED
    BY <1>1, <1>2, <1>3, <1>4, <1>5 DEF Moves, Stream

(* Candidate m goes on: its start,                                              *)
LEMMA StartFollows ==
  ASSUME NEW m, NEW e, Adds(e, m), e.type = "started", Silent(m), m \notin text', run'[m] \notin Ended
  PROVE  Followed(m)'
  <1>1. \A k \in 1..Len(wire) : ~Now(wire[k], m)
    BY DEF Silent
  <1>2. \A k \in 1..Len(wire') : Now(wire[k], m)' => k = Len(wire) + 1
    BY <1>1 DEF Adds, Now
  <1>3. ~Told("delta", m)
    BY <1>1 DEF Told
  <1>4. Told("started", m)' /\ ~Told("delta", m)'
    BY <1>3, ToldAfter
  <1>5. \A p \in panes' : ~OfNow(m, p)'
    BY DEF Silent, OfNow, Adds
  <1>6. ASSUME NEW k \in 1..Len(wire'), Now(wire[k], m)'
        PROVE  /\ wire'[k].type = "started"
               /\ \A j \in 1..Len(wire') : j < k => ~Now(wire[j], m)'
               /\ \A j \in 1..Len(wire') : ~(k < j)
    <2>1. k = Len(wire) + 1 /\ wire'[k] = e
      BY <1>2, <1>6 DEF Adds
    <2>2. \A j \in 1..Len(wire') : j < k => j # Len(wire) + 1
      BY <2>1 DEF Adds
    <2>3. \A j \in 1..Len(wire') : ~(k < j)
      BY <2>1 DEF Adds
    <2>4. QED
      BY <1>2, <2>1, <2>2, <2>3
  <1>7. Starts(m)'
    BY <1>4, <1>6 DEF Starts
  <1>8. Texts(m)' /\ Closes(m)'
    BY <1>4, <1>5, <1>6 DEF Texts, Closes
  <1>9. QED
    BY <1>7, <1>8 DEF Followed

(* a step nobody hears of,                                                   *)
LEMMA SilenceFollows ==
  ASSUME NEW m, Followed(m), UNCHANGED <<turn, wire, panes, text>>, run[m] \notin Ended, run'[m] \notin Ended
  PROVE  Followed(m)'
  BY DEF Followed, Starts, Texts, Closes, Told, Now, OfNow

(* (an event that is no start leaves the starts alone)                       *)
LEMMA LaterStarts ==
  ASSUME NEW m, NEW e, Adds(e, m), e.type # "started", Starts(m)
  PROVE  Starts(m)' /\ (Told("started", m)' <=> Told("started", m))
  <1>1. \A i : Told("started", i)' <=> Told("started", i)
    BY ToldAfter
  <1>2. ASSUME NEW k \in 1..Len(wire'), wire'[k].type = "started", Now(wire[k], m)'
        PROVE  /\ \A j \in 1..Len(wire') : j < k => ~Now(wire[j], m)'
               /\ \A j \in 1..Len(wire') : k < j => ~(wire'[j].type = "started" /\ Now(wire[j], 0)')
    <2>1. k \in 1..Len(wire) /\ wire'[k] = wire[k] /\ k < Len(wire) + 1 /\ Now(wire[k], m)
      BY <1>2 DEF Adds, Now
    <2>2. \A j \in 1..Len(wire) : j < k => ~Now(wire[j], m)
      BY <1>2, <2>1 DEF Starts
    <2>3. \A j \in 1..Len(wire) : k < j => ~(wire[j].type = "started" /\ Now(wire[j], 0))
      BY <1>2, <2>1 DEF Starts
    <2>4. ASSUME NEW j \in 1..Len(wire'), j < k PROVE ~Now(wire[j], m)'
      <3>1. j \in 1..Len(wire)
        BY <2>1, <2>4 DEF Adds
      <3>2. QED
        BY <2>2, <2>4, <3>1 DEF Adds, Now
    <2>5. ASSUME NEW j \in 1..Len(wire'), k < j, wire'[j].type = "started" PROVE ~Now(wire[j], 0)'
      <3>1. j \in 1..Len(wire) /\ wire'[j] = wire[j]
        BY <2>5 DEF Adds
      <3>2. QED
        BY <2>3, <2>5, <3>1 DEF Adds, Now
    <2>6. QED
      BY <2>4, <2>5
  <1>3. ~Told("started", m)' => (\E p \in panes' : OfNow(m, p)') /\ ~Told("started", 0)'
    BY <1>1 DEF Starts, Adds, OfNow
  <1>4. QED
    BY <1>1, <1>2, <1>3 DEF Starts

(* its text,                                                                 *)
LEMMA DeltaFollows ==
  ASSUME NEW m, NEW e, Adds(e, m), e.type = "delta", Followed(m), m \in text', run[m] \notin Ended, run'[m] \notin Ended
  PROVE  Followed(m)'
  <1>1. Starts(m)'
    BY LaterStarts DEF Followed
  <1>2. Texts(m)'
    BY ToldAfter DEF Texts
  <1>3. ~Told("completed", m)
    BY DEF Followed, Closes, Told
  <1>4. ~Told("completed", m)'
    BY <1>3, ToldAfter
  <1>5. Closes(m)'
    BY <1>4 DEF Closes, Told
  <1>6. QED
    BY <1>1, <1>2, <1>5 DEF Followed

(* and its end.                                                              *)
LEMMA EndFollows ==
  ASSUME NEW m, NEW e, Adds(e, m), e.type = "completed", Followed(m), UNCHANGED text, run[m] \notin Ended,
         run'[m] \in Ended, (IF e.error THEN "error" ELSE "done") = EndOf(m)'
  PROVE  Followed(m)'
  <1>1. Starts(m)' /\ (Told("started", m)' <=> Told("started", m))
    BY LaterStarts DEF Followed
  <1>2. Told("completed", m)' /\ (Told("delta", m)' <=> Told("delta", m))
    BY ToldAfter
  <1>3. Texts(m)'
    BY <1>1, <1>2 DEF Followed, Texts, OfNow, Adds
  <1>4. ASSUME NEW k \in 1..Len(wire'), wire'[k].type = "completed", Now(wire[k], m)'
        PROVE  wire'[k] = e
    BY <1>4 DEF Adds, Now, Followed, Closes
  <1>5. Closes(m)'
    BY <1>2, <1>4 DEF Closes
  <1>6. QED
    BY <1>1, <1>3, <1>5 DEF Followed

(* Following is kept by a step of a stream,                                  *)
LEMMA FollowingMoves == Sound /\ Following /\ (\E m \in Models : Moves(m)) => Following'
  <1> SUFFICES ASSUME Sound, Following, NEW m \in Models, Moves(m) PROVE Following'
    OBVIOUS
  <1>0. 0 \in Indices /\ UNCHANGED turnVars /\ Final \notin Indices /\ turn # 0
        /\ \A l \in Models \ {m} : run'[l] = run[l] /\ (l \in text' <=> l \in text)
    BY StreamMoves, Numbers DEF Indices
  <1>1. CASE m \notin Indices
    <2>1. UNCHANGED viewVars
      BY <1>1, StreamMoves
    <2>2. \A i \in Indices : run'[i] = run[i] /\ (i \in text' <=> i \in text)
      BY <1>0, <1>1 DEF Models
    <2>3. QED
      BY <1>0, <2>1, <2>2, FollowingKept DEF turnVars, turnFixed, viewVars
  <1>2. CASE m \in Indices
    <2> SUFFICES ASSUME ~lost', turn > 0 PROVE Opening' /\ \A i \in Indices : Shown(i)' => Followed(i)'
      BY <1>0 DEF Following, turnVars, turnFixed
    <2>1. /\ run'[m] \notin {"none", "ready"} /\ run[m] \notin Ended \cup {"none"}
          /\ \/ /\ run[m] = "ready" /\ run'[m] \notin Ended /\ UNCHANGED text /\ (0 < m => run[0] # "ready")
                /\ Send(<<CandidateEvent("started", m, FALSE)>>)
             \/ run[m] # "ready" /\ run'[m] \notin Ended /\ UNCHANGED <<text, viewVars>>
             \/ /\ run[m] # "ready" /\ run'[m] \notin Ended /\ m \in text'
                /\ Send(<<CandidateEvent("delta", m, FALSE)>>)
             \/ /\ run[m] # "ready" /\ run'[m] \in Ended /\ UNCHANGED text
                /\ \E err \in BOOLEAN :
                      /\ (IF err THEN "error" ELSE "done") = EndOf(m)'
                      /\ Send(<<CandidateEvent("completed", m, err)>>)
      BY <1>2, MoveShapes
    <2>2. \A i \in Indices \ {m} : run'[i] = run[i] /\ (i \in text' <=> i \in text)
      BY <1>0, Numbers
    <2>3. turn' = turn /\ cfg' = cfg /\ phase' = phase
      BY <1>0 DEF turnVars, turnFixed
    <2>4. m = 0 \/ 0 < m
      BY <1>2, Numbers DEF Indices
    <2>5. \A i \in Indices \ {m} : Shown(i)' <=> Shown(i)
      BY <2>2 DEF Shown
    <2>6. run[m] # "ready" => Shown(m)
      BY <2>1 DEF Shown
    <2>7. \A type \in {"started", "delta", "completed"}, err \in BOOLEAN :
             /\ CandidateEvent(type, m, err) \in Event /\ CandidateEvent(type, m, err).type = type
             /\ CandidateEvent(type, m, err).index = m
             /\ CandidateEvent(type, m, err).turn = turn /\ CandidateEvent(type, m, err).error = err
      <3>1. turn \in 1..MaxTurns
        BY <2>1, <1>2, Numbers DEF AtRest
      <3>2. QED
        BY <1>2, <3>1, EventTyped
    <2>8. ASSUME NEW type \in {"started", "delta", "completed"}, NEW err \in BOOLEAN,
                 Send(<<CandidateEvent(type, m, err)>>)
          PROVE  /\ ~lost
                 /\ \E e : Adds(e, m) /\ e.type = type /\ e.error = err
      BY <2>3, <2>7, <2>8, SendAdds
    <2>9. ASSUME ~lost, NEW e, Adds(e, m), run[m] = "ready" => e.type = "started", e.type = "started" => run[m] = "ready",
                 Opening, \A i \in Indices : Shown(i) => Followed(i), run[m] = "ready" => 0 < m \/ m = 0
          PROVE  \A i \in Indices \ {m} : Shown(i)' => Followed(i)'
      <3>1. run[m] = "ready" /\ m = 0 => \A i \in Indices : ~Shown(i)
        BY <2>9 DEF Opening
      <3>2. ASSUME NEW i \in Indices \ {m}, Shown(i) PROVE Followed(i)'
        <4>1. Followed(i) /\ i # m /\ (e.type = "started" => m # 0)
          BY <2>9, <3>1, <3>2
        <4>2. QED
          BY <2>2, <2>9, <4>1, OthersFollow
      <3>3. QED
        BY <2>5, <3>2
    <2>10. ~lost => Opening /\ \A i \in Indices : Shown(i) => Followed(i)
      BY DEF Following
    <2>11. CASE run[m] # "ready" /\ run'[m] \notin Ended /\ UNCHANGED <<text, viewVars>>
      <3>1. ~lost /\ UNCHANGED <<wire, panes>>
        BY <2>11 DEF viewVars
      <3>2. Opening'
        BY <1>0, <1>2, <2>1, <2>2, <2>3, <2>10, <2>11, <3>1, OpeningStays
      <3>3. Followed(m)'
        BY <2>1, <2>3, <2>6, <2>10, <2>11, <1>2, <3>1, SilenceFollows
      <3>4. ASSUME NEW i \in Indices \ {m}, Shown(i)' PROVE Followed(i)'
        <4>1. Followed(i) /\ run'[i] = run[i] /\ UNCHANGED text
          BY <2>2, <2>5, <2>10, <2>11, <3>1, <3>4
        <4>2. QED
          BY <2>3, <3>1, <4>1 DEF Followed, Starts, Texts, Closes, Told, Now, OfNow, EndOf
      <3>5. QED
        BY <3>2, <3>3, <3>4
    <2>12. CASE run[m] = "ready" /\ run'[m] \notin Ended /\ UNCHANGED text /\ (0 < m => run[0] # "ready")
                /\ Send(<<CandidateEvent("started", m, FALSE)>>)
      <3>1. PICK e : ~lost /\ Adds(e, m) /\ e.type = "started"
        BY <2>8, <2>12
      <3>2. Opening' 
        BY <1>0, <1>2, <2>1, <2>2, <2>3, <2>4, <2>10, <2>12, <3>1, OpeningStays
      <3>3. Silent(m) /\ m \notin text'
        BY <1>2, <2>10, <2>12, <3>1 DEF Opening, StillSilent, Sound, Begun
      <3>4. Followed(m)'
        BY <2>12, <3>1, <3>3, StartFollows
      <3>5. QED
        BY <2>4, <2>9, <2>10, <2>12, <3>1, <3>2, <3>4
    <2>13. CASE run[m] # "ready" /\ run'[m] \notin Ended /\ m \in text' /\ Send(<<CandidateEvent("delta", m, FALSE)>>)
      <3>1. PICK e : ~lost /\ Adds(e, m) /\ e.type = "delta"
        BY <2>8, <2>13
      <3>2. Opening' 
        BY <1>0, <1>2, <2>1, <2>2, <2>3, <2>10, <2>13, <3>1, OpeningStays
      <3>3. Followed(m)'
        BY <1>2, <2>1, <2>6, <2>10, <2>13, <3>1, DeltaFollows
      <3>4. QED
        BY <2>9, <2>10, <2>13, <3>1, <3>2, <3>3
    <2>14. ASSUME run[m] # "ready", run'[m] \in Ended, UNCHANGED text, NEW err \in BOOLEAN,
                  (IF err THEN "error" ELSE "done") = EndOf(m)', Send(<<CandidateEvent("completed", m, err)>>)
           PROVE  Opening' /\ \A i \in Indices : Shown(i)' => Followed(i)'
      <3>1. PICK e : ~lost /\ Adds(e, m) /\ e.type = "completed" /\ e.error = err
        BY <2>8, <2>14
      <3>2. Opening' 
        BY <1>0, <1>2, <2>1, <2>2, <2>3, <2>10, <2>14, <3>1, OpeningStays
      <3>3. Followed(m)'
        BY <1>2, <2>1, <2>6, <2>10, <2>14, <3>1, EndFollows
      <3>4. QED
        BY <2>9, <2>10, <2>14, <3>1, <3>2, <3>3
    <2>15. QED
      BY <2>1, <2>11, <2>12, <2>13, <2>14
  <1>3. QED
    BY <1>1, <1>2

(* What becomes of the panes.                                                    *)
LEMMA PaneStays ==
  ASSUME Sound, Deliver
  PROVE  /\ \A p \in panes : p.index # wire[1].index /\ ~(wire[1].type = "started" /\ wire[1].index = 0) => p \in panes'
         /\ \A p \in panes : p.index = wire[1].index /\ wire[1].type # "started" =>
               \E q \in panes' : q.index = p.index /\ q.turn = p.turn
         /\ wire[1].type = "started" => \E q \in panes' : q.index = wire[1].index /\ q.turn = wire[1].turn
  <1>1. /\ wire[1] \in Event /\ panes' = PanesAfter(wire[1]) /\ wire[1].error \in BOOLEAN
        /\ wire[1].type \in {"started", "delta", "completed"} /\ panes \subseteq Pane
    BY Delivers DEF Event, Sound, ViewTypes
  <1>2. Opened(wire[1]).index = wire[1].index /\ Opened(wire[1]).turn = wire[1].turn
    BY DEF Opened
  <1>3. \A p \in panes, err \in BOOLEAN :
          /\ Spoken(p).index = p.index /\ Spoken(p).turn = p.turn
          /\ Closed(p, err).index = p.index /\ Closed(p, err).turn = p.turn
    BY <1>1 DEF Pane, Spoken, Closed
  <1>4. \A q : q \in panes' <=>
            \/ q \in panes /\ q.index # wire[1].index /\ ~(wire[1].type = "started" /\ wire[1].index = 0)
            \/ wire[1].type = "started" /\ q = Opened(wire[1])
            \/ wire[1].type = "delta" /\ \E p \in panes : p.index = wire[1].index /\ q = Spoken(p)
            \/ wire[1].type = "completed" /\ \E p \in panes : p.index = wire[1].index /\ q = Closed(p, wire[1].error)
    BY <1>1, PanesBehind
  <1>5. ASSUME NEW p \in panes, p.index = wire[1].index, wire[1].type # "started"
        PROVE  \E q \in panes' : q.index = p.index /\ q.turn = p.turn
    <2>1. CASE wire[1].type = "delta"
      <3>1. Spoken(p) \in panes'
        BY <1>4, <1>5, <2>1
      <3>2. QED
        BY <1>3, <3>1
    <2>2. CASE wire[1].type = "completed"
      <3>1. Closed(p, wire[1].error) \in panes'
        BY <1>4, <1>5, <2>2
      <3>2. QED
        BY <1>1, <1>3, <3>1
    <2>3. QED
      BY <1>1, <1>5, <2>1, <2>2
  <1>6. wire[1].type = "started" => \E q \in panes' : q.index = wire[1].index /\ q.turn = wire[1].turn
    BY <1>2, <1>4
  <1>7. QED
    BY <1>4, <1>5, <1>6

(* What an event that is delivered leaves on its way.                               *)
LEMMA ToldStill ==
  ASSUME Sound, Deliver
  PROVE  /\ \A type, i : Told(type, i)' => Told(type, i)
         /\ \A type, i : Told(type, i) => Told(type, i)' \/ (wire[1].type = type /\ Now(wire[1], i))
  <1>1. /\ turn' = turn
        /\ \A k \in 1..Len(wire') : k + 1 \in 1..Len(wire) /\ wire'[k] = wire[k + 1]
        /\ \A k \in 1..Len(wire) : k = 1 \/ (k - 1 \in 1..Len(wire') /\ wire'[k - 1] = wire[k])
    BY Delivers
  <1>2. QED
    BY <1>1 DEF Told, Now

(* A start that is on its way still comes first.                                    *)
LEMMA StartsStill ==
  ASSUME Sound, Deliver, NEW i, Starts(i), NEW k \in 1..Len(wire'), wire'[k].type = "started", Now(wire[k], i)'
  PROVE  /\ \A j \in 1..Len(wire') : j < k => ~Now(wire[j], i)'
         /\ \A j \in 1..Len(wire') : k < j => ~(wire'[j].type = "started" /\ Now(wire[j], 0)')
         /\ ~Now(wire[1], i)
  <1>1. /\ turn' = turn /\ 1 \in 1..Len(wire)
        /\ \A h \in 1..Len(wire') : h + 1 \in 1..Len(wire) /\ wire'[h] = wire[h + 1] /\ h + 1 > 1
        /\ \A j, h \in 1..Len(wire') : j < h => j + 1 < h + 1
    BY Delivers
  <1>2. k + 1 \in 1..Len(wire) /\ wire[k + 1].type = "started" /\ Now(wire[k + 1], i)
    BY <1>1 DEF Now
  <1>3. /\ \A j \in 1..Len(wire) : j < k + 1 => ~Now(wire[j], i)
        /\ \A j \in 1..Len(wire) : k + 1 < j => ~(wire[j].type = "started" /\ Now(wire[j], 0))
    BY <1>2 DEF Starts
  <1>4. 1 < k + 1
    BY <1>1
  <1>5. QED
    BY <1>1, <1>3, <1>4 DEF Now

(* An event of a turn before.                                                     *)
LEMMA FollowingDeliversOld ==
  ASSUME Sound, Queue, Following, Deliver, ~lost, turn > 0, wire[1].turn # turn
  PROVE  Opening' /\ \A i \in Indices : Shown(i)' => Followed(i)'
  <1>0. UNCHANGED <<turn, run, text, cfg, phase, lost>> /\ 1 \in 1..Len(wire)
        /\ \A k \in 1..Len(wire') : k + 1 \in 1..Len(wire) /\ wire'[k] = wire[k + 1]
    BY Delivers
  <1>1. Opening /\ \A i \in Indices : Shown(i) => Followed(i)
    BY DEF Following
  <1>2. \A type, i : Told(type, i)' <=> Told(type, i)
    BY ToldStill DEF Now
  <1>3. \A p \in panes : p.turn # turn
    BY <1>0 DEF Queue
  <1>4. \A q \in panes' : q.turn # turn'
    BY <1>0, <1>3, PaneOrigin
  <1>5. \A i : (\A p \in panes : ~OfNow(i, p)) /\ (\A q \in panes' : ~OfNow(i, q)')
    BY <1>3, <1>4 DEF OfNow
  <1>6. \A i \in Indices : (Shown(i)' <=> Shown(i)) /\ (StillSilent(i)' <=> StillSilent(i))
    BY <1>0 DEF Shown, StillSilent
  <1>7. \A i \in Indices : Silent(i) => Silent(i)'
    BY <1>0, <1>5 DEF Silent, Now
  <1>8. Wiped => Wiped'
    BY <1>0, <1>2 DEF Wiped
  <1>9. Opening'
    BY <1>0, <1>1, <1>6, <1>7, <1>8 DEF Opening
  <1>10. ASSUME NEW i \in Indices, Shown(i) PROVE Followed(i)'
    <2>1. Starts(i) /\ Texts(i) /\ Closes(i)
      BY <1>1, <1>10 DEF Followed
    <2>2. Told("started", i)
      BY <1>5, <2>1 DEF Starts
    <2>3. Starts(i)'
      BY <1>2, <2>1, <2>2, StartsStill DEF Starts
    <2>4. Texts(i)'
      BY <1>0, <1>2, <1>5, <2>1, <2>2 DEF Texts
    <2>5. Closes(i)'
      BY <1>0, <1>2, <2>1, <2>2 DEF Closes, EndOf, Now
    <2>6. QED
      BY <2>3, <2>4, <2>5 DEF Followed
  <1>11. QED
    BY <1>6, <1>9, <1>10

(* An event of this turn: of another candidate.                                    *)
LEMMA OtherDelivered ==
  ASSUME Sound, Deliver, NEW i, Followed(i), wire[1].index # i, wire[1].turn = turn
  PROVE  Followed(i)'
  <1>1. /\ UNCHANGED <<turn, run, text>>
        /\ \A k \in 1..Len(wire') : k + 1 \in 1..Len(wire) /\ wire'[k] = wire[k + 1]
    BY Delivers
  <1>2. \A type : Told(type, i)' <=> Told(type, i)
    BY ToldStill DEF Now
  <1>3. Starts(i) /\ Texts(i) /\ Closes(i)
    BY DEF Followed
  <1>4. \A q \in panes' : q.index = i => q \in panes
    BY PaneOrigin
  <1>5. ~Told("started", i)' => (\E p \in panes' : OfNow(i, p)') /\ ~Told("started", 0)'
    <2> SUFFICES ASSUME ~Told("started", i)' PROVE (\E p \in panes' : OfNow(i, p)') /\ ~Told("started", 0)'
      OBVIOUS
    <2>1. PICK p \in panes : OfNow(i, p)
      BY <1>2, <1>3 DEF Starts
    <2>2. ~Told("started", 0)
      BY <1>2, <1>3 DEF Starts
    <2>3. ~(wire[1].type = "started" /\ Now(wire[1], 0))
      BY <2>2, Delivers DEF Told
    <2>4. p \in panes'
      BY <2>1, <2>3, PaneStays DEF OfNow, Now
    <2>5. QED
      BY <1>1, <2>1, <2>2, <2>4, ToldStill DEF OfNow
  <1>6. Starts(i)'
    BY <1>3, <1>5, StartsStill DEF Starts
  <1>7. Texts(i)'
    BY <1>1, <1>2, <1>3, <1>4 DEF Texts, OfNow
  <1>8. Closes(i)'
    BY <1>1, <1>2, <1>3, <1>4 DEF Closes, OfNow, Now, EndOf
  <1>9. QED
    BY <1>6, <1>7, <1>8 DEF Followed

(* The candidate's own: its start,                                                *)
LEMMA StartDelivered ==
  ASSUME Sound, Deliver, NEW i, Followed(i), wire[1].index = i, wire[1].turn = turn, wire[1].type = "started"
  PROVE  Followed(i)'
  <1>1. /\ UNCHANGED <<turn, run, text>> /\ 1 \in 1..Len(wire) /\ Now(wire[1], i)
        /\ \A k \in 1..Len(wire') : k + 1 \in 1..Len(wire) /\ wire'[k] = wire[k + 1] /\ k + 1 > 1
    BY Delivers DEF Now
  <1>2. Starts(i) /\ Texts(i) /\ Closes(i) /\ Told("started", i)
    BY <1>1 DEF Followed, Told
  <1>3. /\ Told("delta", i) <=> Told("delta", i)'
        /\ Told("completed", i) <=> Told("completed", i)'
    BY ToldStill
  <1>4. ~Told("started", i)'
    BY <1>1, <1>2, StartsStill DEF Told
  <1>5. ~Told("started", 0)'
    <2>1. \A j \in 1..Len(wire) : 1 < j => ~(wire[j].type = "started" /\ Now(wire[j], 0))
      BY <1>1, <1>2 DEF Starts
    <2>2. \A k \in 1..Len(wire') : 1 < k + 1
      BY <1>1
    <2>3. QED
      BY <1>1, <2>1, <2>2 DEF Told, Now
  <1>6. \E q \in panes' : OfNow(i, q)'
    BY <1>1, PaneStays DEF OfNow
  <1>7. \A q \in panes' : q.index = i => ~q.text
    BY PaneOrigin
  <1>8. Starts(i)'
    BY <1>2, <1>5, <1>6, StartsStill DEF Starts
  <1>9. Texts(i)'
    BY <1>1, <1>2, <1>3, <1>7 DEF Texts, OfNow
  <1>10. Closes(i)'
    BY <1>1, <1>2, <1>3 DEF Closes, Now, EndOf
  <1>11. QED
    BY <1>8, <1>9, <1>10 DEF Followed

(* its text, and its end.                                                         *)
LEMMA RestDelivered ==
  ASSUME Sound, Deliver, NEW i, Followed(i), wire[1].index = i, wire[1].turn = turn, wire[1].type # "started"
  PROVE  Followed(i)'
  <1>1. /\ UNCHANGED <<turn, run, text>> /\ 1 \in 1..Len(wire) /\ Now(wire[1], i)
        /\ wire[1].type \in {"started", "delta", "completed"}
        /\ \A k \in 1..Len(wire') : k + 1 \in 1..Len(wire) /\ wire'[k] = wire[k + 1] /\ k + 1 > 1
        /\ \A k \in 1..Len(wire) : k = 1 \/ k > 1
    BY Delivers DEF Now
  <1>2. Starts(i) /\ Texts(i) /\ Closes(i)
    BY <1>1 DEF Followed
  <1>3. ~Told("started", i)
    BY <1>1, <1>2 DEF Starts, Told
  <1>4. (\E p \in panes : OfNow(i, p)) /\ ~Told("started", 0)
    BY <1>2, <1>3 DEF Starts
  <1>5. ~Told("started", i)' /\ ~Told("started", 0)'
    BY <1>3, <1>4, ToldStill
  <1>6. \E q \in panes' : OfNow(i, q)'
    BY <1>1, <1>4, PaneStays DEF OfNow
  <1>7. ASSUME NEW q \in panes', OfNow(i, q)'
        PROVE  \E p \in panes :
                 /\ OfNow(i, p)
                 /\ \/ wire[1].type = "delta" /\ q.text /\ q.status = p.status
                    \/ /\ wire[1].type = "completed" /\ q.text = p.text
                       /\ q.status = IF wire[1].error THEN "error" ELSE "done"
    BY <1>1, <1>7, PaneOrigin DEF OfNow
  <1>8. Starts(i)'
    BY <1>5, <1>6, StartsStill, <1>2 DEF Starts
  <1>9. CASE wire[1].type = "delta"
    <2>1. i \in text /\ \A q \in panes' : OfNow(i, q)' => q.text
      BY <1>1, <1>2, <1>7, <1>9 DEF Texts, Told
    <2>2. Texts(i)'
      BY <1>1, <1>5, <2>1 DEF Texts
    <2>3. Told("completed", i) => Told("completed", i)'
      BY <1>9, ToldStill
    <2>4. Closes(i)'
      <3>1. run[i] \in Ended => Told("completed", i)' \/ \A q \in panes' : OfNow(i, q)' => q.status = EndOf(i)
        BY <1>2, <1>7, <1>9, <2>3 DEF Closes
      <3>2. QED
        BY <1>1, <1>2, <1>5, <3>1 DEF Closes, EndOf, Now
    <2>5. QED
      BY <1>8, <2>2, <2>4 DEF Followed
  <1>10. CASE wire[1].type = "completed"
    <2>1. run[i] \in Ended /\ (IF wire[1].error THEN "error" ELSE "done") = EndOf(i)
      BY <1>1, <1>2, <1>10 DEF Closes
    <2>2. Told("delta", i) <=> Told("delta", i)'
      BY <1>10, ToldStill
    <2>3. Texts(i)'
      <3>1. i \in text => Told("delta", i)' \/ \A q \in panes' : OfNow(i, q)' => q.text
        BY <1>2, <1>7, <1>10, <2>2 DEF Texts
      <3>2. i \notin text => ~Told("delta", i)' /\ \A q \in panes' : OfNow(i, q)' => ~q.text
        BY <1>2, <1>7, <1>10, <2>2 DEF Texts
      <3>3. QED
        BY <1>1, <1>5, <3>1, <3>2 DEF Texts
    <2>4. \A q \in panes' : OfNow(i, q)' => q.status = EndOf(i)
      BY <1>7, <1>10, <2>1
    <2>5. Closes(i)'
      BY <1>1, <1>2, <1>5, <2>4 DEF Closes, EndOf, Now
    <2>6. QED
      BY <1>8, <2>3, <2>5 DEF Followed
  <1>11. QED
    BY <1>1, <1>9, <1>10

(* The opening behind a delivery.                                            *)
LEMMA OpeningDelivered ==
  ASSUME Sound, Queue, Opening, Deliver, wire[1].turn = turn
  PROVE  Opening'
  <1>1. /\ UNCHANGED <<turn, run, text, cfg, phase>> /\ 1 \in 1..Len(wire) /\ Len(wire) \in Nat /\ wire[1].turn \in Nat
        /\ \A k \in 1..Len(wire') : k + 1 \in 1..Len(wire) /\ wire'[k] = wire[k + 1] /\ k + 1 > 1
    BY Delivers
  <1>2. \A i \in Indices : (Shown(i)' <=> Shown(i)) /\ (StillSilent(i)' <=> StillSilent(i))
    BY <1>1 DEF Shown, StillSilent
  <1>3. ASSUME NEW i \in Indices, Silent(i) PROVE Silent(i)'
    <2>1. wire[1].index # i
      BY <1>1, <1>3 DEF Silent, Now
    <2>2. \A q \in panes' : q.index = i => q \in panes
      BY <2>1, PaneOrigin
    <2>3. QED
      BY <1>1, <1>3, <2>2 DEF Silent, Now, OfNow
  <1>4. \A k \in 1..Len(wire') : wire'[k].turn = turn
    <2>1. ASSUME NEW k \in 1..Len(wire') PROVE wire'[k].turn = turn
      <3>1. k + 1 \in 1..Len(wire) /\ wire'[k] = wire[k + 1] /\ 1 < k + 1
        BY <1>1
      <3>2. wire[1].turn <= wire[k + 1].turn /\ wire[k + 1].turn <= turn
        BY <1>1, <3>1 DEF Queue
      <3>3. wire[k + 1] \in Event
        BY <3>1 DEF Sound, ViewTypes
      <3>4. wire[k + 1].turn \in Nat /\ turn \in Nat
        BY <3>3, Numbers DEF Event
      <3>5. QED
        BY <3>1, <3>2, <3>4
    <2>2. QED
      BY <2>1
  <1>5. Wiped => Wiped'
    <2>1. ASSUME Told("started", 0), ~(wire[1].type = "started" /\ Now(wire[1], 0)) PROVE Wiped'
      BY <2>1, ToldStill DEF Wiped
    <2>2. ASSUME wire[1].type = "started", Now(wire[1], 0) PROVE Wiped'
      <3>1. \A q \in panes' : q.turn = turn
        BY <2>2, PaneOrigin DEF Now
      <3>2. QED
        BY <1>1, <1>4, <3>1 DEF Wiped
    <2>3. ASSUME \A p \in panes : p.turn = turn PROVE Wiped'
      <3>1. \A q \in panes' : q.turn = turn
        BY <2>3, PaneOrigin
      <3>2. QED
        BY <1>1, <1>4, <3>1 DEF Wiped
    <2>4. QED
      BY <2>1, <2>2, <2>3 DEF Wiped
  <1>6. QED
    BY <1>1, <1>2, <1>3, <1>5 DEF Opening

(* Following is kept by a delivery,                                          *)
LEMMA FollowingDelivers == Sound /\ Queue /\ Following /\ Deliver => Following'
  <1> SUFFICES ASSUME Sound, Queue, Following, Deliver, ~lost, turn > 0
               PROVE  Opening' /\ \A i \in Indices : Shown(i)' => Followed(i)'
    BY Delivers DEF Following
  <1>1. CASE wire[1].turn # turn
    BY <1>1, FollowingDeliversOld
  <1>2. CASE wire[1].turn = turn
    <2>1. Opening /\ \A i \in Indices : Shown(i) => Followed(i)
      BY DEF Following
    <2>2. \A i \in Indices : Shown(i)' <=> Shown(i)
      BY Delivers DEF Shown
    <2>3. QED
      BY <1>2, <2>1, <2>2, OpeningDelivered, OtherDelivered, StartDelivered, RestDelivered
  <1>3. QED
    BY <1>1, <1>2

(* and so by every step.                                                     *)
LEMMA FollowingStep == Sound /\ Pipeline /\ Queue /\ Following /\ [Next]_vars => Following'
  <1> SUFFICES ASSUME Sound, Pipeline, Queue, Following, [Next]_vars PROVE Following'
    OBVIOUS
  <1>0. 0 \in Indices /\ Final \notin Indices /\ Indices \subseteq Models /\ run \in [Models -> States]
    BY Numbers DEF Indices, Sound, TurnTypes
  <1>1. ASSUME UNCHANGED <<turnFixed, viewVars, text>>, phase' # "resolve", UNCHANGED run \/ Becomes(Final, "waiting")
        PROVE  Following'
    <2>1. \A i \in Indices : run'[i] = run[i] /\ (i \in text' <=> i \in text)
      BY <1>0, <1>1 DEF Becomes
    <2>2. QED
      BY <1>0, <1>1, <2>1, FollowingKept DEF turnFixed, viewVars
  <1>2. ASSUME NEW ready, NEW from, Synthesize(ready, from)
        PROVE  phase' # "resolve" /\ (UNCHANGED run \/ Becomes(Final, "waiting"))
    BY <1>2 DEF Synthesize, Goto
  <1>3. Stops => phase' # "resolve" /\ UNCHANGED run
    BY DEF Stops, Ends, Goto
  <1>4. CASE Collect
    BY <1>1, <1>2, <1>3, <1>4 DEF Collect
  <1>5. CASE BeginStage
    <2>1. CASE GoesOn /\ Goto("gather") /\ Becomes(stage, "ready")
      BY <1>5, <2>1, FollowingReady DEF BeginStage, Goto, turnFixed, viewVars
    <2>2. CASE Stops \/ \E ready, from : Synthesize(ready, from)
      BY <1>1, <1>2, <1>3, <1>5, <2>2 DEF BeginStage
    <2>3. QED
      BY <1>5, <2>1, <2>2 DEF BeginStage
  <1>6. CASE EndStage
    <2>1. CASE Goto("stage") /\ UNCHANGED run
      BY <1>1, <1>6, <2>1 DEF EndStage, Goto
    <2>2. CASE Stops \/ \E ready, from : Synthesize(ready, from)
      BY <1>1, <1>2, <1>3, <1>6, <2>2 DEF EndStage
    <2>3. QED
      BY <1>6, <2>1, <2>2 DEF EndStage, AfterStage
  <1>7. CASE EndFinal
    BY <1>1, <1>7 DEF EndFinal, Ends, Goto, streamVars
  <1>8. CASE Persist \/ Fail
    <2>1. UNCHANGED <<turn, cfg, run, text, wire, panes, lost>> /\ phase' = "idle"
      BY <1>8 DEF Persist, Fail, Ends, Goto, streamVars, viewVars
    <2>2. QED
      BY <1>0, <2>1, FollowingKept
  <1>9. CASE Abort \/ Return \/ UNCHANGED vars
    <2>1. UNCHANGED <<turn, cfg, phase, run, text, wire, panes, lost>>
      BY <1>9 DEF Abort, Return, streamVars, viewVars, turnVars, turnFixed, vars
    <2>2. QED
      BY <1>0, <2>1, FollowingKept
  <1>10. CASE Leave
    BY <1>10 DEF Leave, Following
  <1>11. ASSUME NEW m \in Models, Stream(m) \/ Poll(m) \/ Expires(m) PROVE Following'
    BY <1>11, FollowingMoves DEF Moves
  <1>12. QED
    BY <1>4, <1>5, <1>6, <1>7, <1>8, <1>9, <1>10, <1>11, FollowingBegins, FollowingResolves, FollowingDelivers
       DEF Next, TurnStep

(* When a multi-model turn is over and its events were not lost, the desktop shows   *)
(* a pane for each model that ran, with its text and its end, and none of a turn     *)
(* before (CandidateSink, handleCandidateEvent).                                  *)
THEOREM PanesFaithful == Spec => []ComparisonFaithful
  <1> DEFINE Inv == Streams /\ Pipeline /\ SynthesisOfSurvivors /\ Sound /\ Queue /\ Following
  <1>1. Init => Inv
    <2>1. Init => SynthesisInv
      BY ModelsAssumption
         DEF Init, Fresh, SynthesisInv, Streams, States, Pipeline, SynthesisOfSurvivors, Indices
    <2>2. Init => Queue
      <3> SUFFICES ASSUME Init PROVE Queue
        OBVIOUS
      <3>1. turn = 0 /\ Len(wire) = 0 /\ \A p \in panes : p.turn = 0
        BY DEF Init
      <3>2. QED
        BY <3>1 DEF Queue
    <2>3. Init => Following
      BY DEF Init, Following
    <2>4. QED
      BY <2>1, <2>2, <2>3, SoundInit DEF SynthesisInv
  <1>2. Inv /\ [Next]_vars => Inv'
    BY SynthesisStep, SoundStep, QueueStep, FollowingStep DEF SynthesisInv
  <1>3. Inv => ComparisonFaithful
    BY Compared
  <1>4. QED
    BY <1>1, <1>2, <1>3, PTL DEF Spec
================================================================================
