---------------------------- MODULE ProviderStream ----------------------------
(***************************************************************************)
(* One provider turn, from the bytes of the model's answer to the row that is   *)
(* stored and the tool calls that run: the three wire decoders (Anthropic,     *)
(* OpenAI-compatible, Gemini) with the pumps that drive them, and the loop of   *)
(* run_session_turn that gathers their events.  The answer may break off, fail, *)
(* arrive garbled or be aborted at any point.                                  *)
(*                                                                         *)
(* Text, reasoning and arguments are amounts: how much of them has arrived.     *)
(* Whole arguments are valid JSON, a part of them is not, and none at all mean   *)
(* the call with {}.                                                           *)
(***************************************************************************)
EXTENDS Integers, Sequences, FiniteSets, SequencesExt

CONSTANTS
    Dialects,   \* the wire protocols that are spoken
    MaxItems    \* bound: items of an answer

ASSUME DialectsAssumption == Dialects \subseteq {"anthropic", "openai", "gemini"}
ASSUME ItemsAssumption    == MaxItems \in Nat

VARIABLES
    dialect,    \* the provider of this turn
    message,    \* the answer that the model gives
    sv,         \* how much of it the provider has sent
    dec,        \* the decoder's state
    pending,    \* events decoded and not yet taken by the turn
    finished,   \* the byte stream is over
    blocks,     \* the turn's partial blocks
    usage,      \* final_usage
    cancelled,  \* the turn's token
    outcome,    \* of the provider turn
    row,        \* the blocks of the assistant row that is stored
    runs,       \* the calls that the tool loop executes
    billed,     \* the usage charged to the session
    compacted,  \* compacted_this_turn: the conversation has been folded once

    lost        \* history only: a chunk did not arrive, or arrived garbled

wireVars   == <<dialect, message, sv>>
decodeVars == <<dec, pending, finished>>
turnVars   == <<blocks, usage, outcome, row, runs, billed, compacted>>
streamVars == <<wireVars, decodeVars, turnVars, cancelled, lost>>

None     == 0
Whole    == 2
Null     == 3       \* the JSON value null, which is not what any call was given
Ids      == 0..MaxItems
Parts    == {"in", "out"}
BlockKinds == {"text", "think", "tool"}
Item     == [kind : BlockKinds, size : None..Whole]
Block    == [kind : BlockKinds, size : None..(Null + Whole * MaxItems), id : Ids, signed : BOOLEAN]
Slot     == [id : BOOLEAN, name : BOOLEAN, acc : None..Whole, started : BOOLEAN]
Event    == [type : {"text", "think", "sign", "start", "delta", "complete", "stop", "error"},
             id : Ids, n : None..Null, usage : SUBSET Parts]

-----------------------------------------------------------------------------
(* The model's answer, and the chunks in which a provider sends it.           *)

(* The limit of tokens may cut the arguments of the last call; Gemini sends     *)
(* whole calls and no reasoning.  Two texts do not follow each other.           *)
Answers(d) ==
    {m \in UNION {[1..n -> Item] : n \in 0..MaxItems} :
        \A k \in DOMAIN m :
            /\ m[k].kind # "tool" => m[k].size # None
            /\ m[k].kind = "tool" /\ m[k].size \notin {None, Whole} => k = Len(m) /\ d # "gemini"
            /\ m[k].kind = "think" => d # "gemini"
            /\ k > 1 /\ m[k].kind = m[k - 1].kind =>
                   \/ m[k].kind = "tool"
                   \/ m[k].kind = "think" /\ d = "anthropic"}

Number(k) == Cardinality({j \in 1..(k - 1) : message[j].kind = "tool"})
Sending   == sv.item \in DOMAIN message
Current   == message[sv.item]
Left      == 1..(Current.size - sv.part)

Chunk(t, k, n)   == [type |-> t, index |-> k, n |-> n, has |-> {}]
Carries(t, f)    == [Chunk(t, 0, 0) EXCEPT !.has = f]
Flagged(f)       == [sv EXCEPT !.flags = @ \cup f]
NextItem         == [item |-> sv.item + 1, part |-> 0, flags |-> {}]
Sent(n, f)       == [sv EXCEPT !.part = @ + n, !.flags = @ \cup f]
Step(c, to)      == [chunk |-> c, sv |-> to]

(* message_start, every block from its start to its stop, message_delta with    *)
(* the reason and the usage, message_stop.                                     *)
AnthropicSends ==
    CASE sv.item = 0 -> {Step(Chunk("message_start", 0, 0), NextItem)}
      [] Sending /\ "open" \notin sv.flags ->
             {Step([Chunk("block_start", sv.item, 0) EXCEPT !.has = {Current.kind}], Flagged({"open"}))}
      [] Sending /\ "open" \in sv.flags /\ Left # {} ->
             {Step([Chunk("block_delta", sv.item, n) EXCEPT !.has = {Current.kind}], Sent(n, {})) : n \in Left}
      [] Sending /\ "open" \in sv.flags /\ Left = {} ->
             {IF Current.kind = "think" /\ "signed" \notin sv.flags
                THEN Step(Chunk("signature", sv.item, 0), Flagged({"signed"}))
                ELSE Step(Chunk("block_stop", sv.item, 0), NextItem)}
      [] sv.item > Len(message) ->
             IF sv.flags = {} THEN {Step(Chunk("message_delta", 0, 0), Flagged({"reason"}))}
             ELSE IF sv.flags = {"reason"} THEN {Step(Chunk("message_stop", 0, 0), Flagged({"end"}))}
             ELSE {}

(* Texts in fragments; the id, the name and the arguments of a call together or *)
(* one after the other; the reason, the usage, [DONE].                          *)
OpenAiSends ==
    CASE Sending /\ Current.kind # "tool" ->
             {Step(Chunk(Current.kind, 0, n),
                   IF n = Current.size - sv.part THEN NextItem ELSE Sent(n, {})) : n \in Left}
      [] Sending /\ Current.kind = "tool" ->
             {Step([Chunk("tool", Number(sv.item), p[2]) EXCEPT !.has = p[1]],
                   IF p[1] \cup sv.flags = {"id", "name"} /\ p[2] = Current.size - sv.part
                     THEN NextItem ELSE Sent(p[2], p[1])) :
                p \in ((SUBSET ({"id", "name"} \ sv.flags)) \X ({0} \cup Left)) \ {<<{}, 0>>}}
      [] ~Sending ->
             IF sv.flags = {} THEN {Step(Chunk("reason", 0, 0), Flagged({"reason"}))}
             ELSE IF sv.flags = {"reason"} THEN {Step(Carries("usage", Parts), Flagged(Parts))}
             ELSE IF "end" \notin sv.flags THEN {Step(Chunk("[DONE]", 0, 0), Flagged({"end"}))}
             ELSE {}

(* Part by part; the reason and the usage at the end, in one chunk or several.  *)
GeminiSends ==
    IF Sending
      THEN {Step(Chunk(Current.kind, 0, n),
                 IF n = Current.size - sv.part THEN NextItem ELSE Sent(n, {})) :
              n \in IF Current.kind = "tool" THEN {Current.size} ELSE Left}
      ELSE {Step(Carries("meta", f), Flagged(f)) :
              f \in (SUBSET (({"reason"} \cup Parts) \ sv.flags)) \ {{}}}

Sends == CASE dialect = "anthropic" -> AnthropicSends
           [] dialect = "openai"    -> OpenAiSends
           [] dialect = "gemini"    -> GeminiSends

SentAll == ~Sending /\ sv.item > 0 /\
    CASE dialect = "anthropic" -> "end" \in sv.flags
      [] dialect = "openai"    -> Parts \subseteq sv.flags
      [] dialect = "gemini"    -> Parts \subseteq sv.flags

-----------------------------------------------------------------------------
(* The decoders: what a chunk does to their state, and the events it yields.    *)

Ev(t, id, n)   == [type |-> t, id |-> id, n |-> n, usage |-> {}]
StopWith(u)    == [type |-> "stop", id |-> 0, n |-> 0, usage |-> u]
Error          == Ev("error", 0, 0)
Yields(d, evs) == [dec |-> d, events |-> evs]
NoSlot         == [id |-> FALSE, name |-> FALSE, acc |-> None, started |-> FALSE]
Fresh          == [slots |-> [i \in Ids |-> NoSlot], usage |-> {}, minted |-> 0, final |-> FALSE]

(* parse_anthropic_event: one accumulator per open tool_use block.             *)
ParseAnthropic(c, d) ==
    LET slot == d.slots[c.index]
        tool == "tool" \in c.has
    IN
    CASE c.type = "message_start" -> Yields([d EXCEPT !.usage = @ \cup {"in"}], <<>>)
      [] c.type = "message_delta" -> Yields([d EXCEPT !.usage = @ \cup {"out"}], <<>>)
      [] c.type = "message_stop"  -> Yields(d, <<StopWith(d.usage)>>)
      [] c.type = "signature"     -> Yields(d, <<Ev("sign", 0, 0)>>)
      [] c.type = "block_start" ->
             IF tool THEN Yields([d EXCEPT !.slots[c.index] = [NoSlot EXCEPT !.started = TRUE]],
                                 <<Ev("start", c.index, 0)>>)
                     ELSE Yields(d, <<>>)
      [] c.type = "block_delta" ->
             IF ~tool THEN Yields(d, <<Ev(CHOOSE k \in c.has : TRUE, 0, c.n)>>)
             ELSE IF slot.started
               THEN Yields([d EXCEPT !.slots[c.index].acc = @ + c.n], <<Ev("delta", c.index, c.n)>>)
             ELSE Yields(d, <<>>)
      [] c.type = "block_stop" ->
             IF slot.started
               THEN Yields([d EXCEPT !.slots[c.index] = NoSlot],
                           <<Ev("complete", c.index, IF slot.acc = Whole THEN Whole ELSE None)>>)
               ELSE Yields(d, <<>>)

(* parse_openai_chunk: fragments of calls by their index; a call starts when    *)
(* its id and its name are known.                                             *)
ParseOpenAi(c, d) ==
    LET old     == d.slots[c.index]
        known   == [old EXCEPT !.id = @ \/ "id" \in c.has, !.name = @ \/ "name" \in c.has]
        started == known.id /\ known.name
        new     == [known EXCEPT !.started = started, !.acc = @ + c.n]
    IN
    CASE c.type \in {"text", "think"} -> Yields(d, <<Ev(c.type, 0, c.n)>>)
      [] c.type = "usage"  -> Yields([d EXCEPT !.usage = c.has], <<>>)
      [] c.type = "reason" -> Yields(d, <<>>)
      [] c.type = "tool"   ->
             Yields([d EXCEPT !.slots[c.index] = new],
                    (IF started /\ ~old.started THEN <<Ev("start", c.index, 0)>> ELSE <<>>) \o
                    (IF started /\ c.n > 0 THEN <<Ev("delta", c.index, c.n)>> ELSE <<>>))

(* The calls with an id, in the order of their indices; arguments that do not    *)
(* parse become null.                                                        *)
Named(d)     == {i \in Ids : d.slots[i].id}
Ranked(d, k) == CHOOSE i \in Named(d) : Cardinality({j \in Named(d) : j < i}) = k - 1
Input(acc)   == IF acc \in {None, Whole} THEN acc ELSE Null

(* finalize: those calls, then the one MessageStop.                            *)
FinalizeOpenAi(d) ==
    IF d.final THEN Yields(d, <<>>)
    ELSE Yields([d EXCEPT !.final = TRUE],
                [k \in 1..Cardinality(Named(d)) |->
                    Ev("complete", Ranked(d, k), Input(d.slots[Ranked(d, k)].acc))]
                    \o <<StopWith(d.usage)>>)

(* parse_gemini_chunk: calls come whole, and get an id of the decoder's making. *)
ParseGemini(c, d) ==
    CASE c.type = "text" -> Yields(d, <<Ev("text", 0, c.n)>>)
      [] c.type = "tool" -> Yields([d EXCEPT !.minted = @ + 1], <<Ev("complete", d.minted, c.n)>>)
      [] c.type = "meta" -> Yields([d EXCEPT !.usage = @ \cup (c.has \cap Parts)], <<>>)

(* finalize_gemini.                                                          *)
FinalizeGemini(d) ==
    IF d.final THEN Yields(d, <<>>)
    ELSE Yields([d EXCEPT !.final = TRUE], <<StopWith(d.usage)>>)

-----------------------------------------------------------------------------
(* stream_chat up to the stream: what may come of a request.  A provider may    *)
(* find it too long, or refuse it for any other reason.                       *)

Refusals == {"transport", "refused", "overflow"}

AnthropicOpens == {"no key", "invalid key", "open"} \cup Refusals

OpenAiOpens == {"no key", "open"} \cup Refusals

GeminiOpens == {"no key", "open"} \cup Refusals

Opens == CASE dialect = "anthropic" -> AnthropicOpens
           [] dialect = "openai"    -> OpenAiOpens
           [] dialect = "gemini"    -> GeminiOpens

(* is_context_overflow, unless the conversation was folded for this request.  *)
Folds(answer) == answer = "overflow" /\ ~compacted

(* The request that is too long is made again after one compaction, if there is *)
(* a place to cut; any other error ends the turn.  An abort does not interrupt   *)
(* the wait.                                                                  *)
Request ==
    /\ outcome = "opening"
    /\ \E answer \in Opens :
         \/ answer = "open" /\ outcome' = "running" /\ UNCHANGED compacted
         \/ Folds(answer) /\ compacted' = TRUE /\ UNCHANGED outcome
         \/ answer # "open" /\ outcome' = "error" /\ UNCHANGED compacted
    /\ UNCHANGED <<wireVars, decodeVars, blocks, usage, row, runs, billed, cancelled, lost>>

-----------------------------------------------------------------------------
(* The pumps: the stream is read when the turn has taken every event.          *)

Reading == outcome = "running" /\ pending = <<>> /\ ~finished
Decoded(r) == dec' = r.dec /\ pending' = r.events

ReceiveAnthropic(c) ==
    /\ Decoded(ParseAnthropic(c, dec))
    /\ UNCHANGED finished

(* ReceiveOpenAi, if [DONE] only ended the stream.                            *)
ReceiveOpenAiBare(c) ==
    \/ /\ c.type = "[DONE]"
       /\ finished' = TRUE
       /\ UNCHANGED <<dec, pending>>
    \/ /\ c.type # "[DONE]"
       /\ Decoded(ParseOpenAi(c, dec))
       /\ UNCHANGED finished

(* [DONE] finalizes and ends the stream, whatever else would come.            *)
ReceiveOpenAi(c) ==
    \/ /\ c.type = "[DONE]"
       /\ Decoded(FinalizeOpenAi(dec))
       /\ finished' = TRUE
    \/ /\ c.type # "[DONE]"
       /\ Decoded(ParseOpenAi(c, dec))
       /\ UNCHANGED finished

ReceiveGemini(c) ==
    /\ Decoded(ParseGemini(c, dec))
    /\ UNCHANGED finished

Receive ==
    /\ Reading
    /\ \E s \in Sends :
         /\ sv' = s.sv
         /\ CASE dialect = "anthropic" -> ReceiveAnthropic(s.chunk)
              [] dialect = "openai"    -> ReceiveOpenAi(s.chunk)
              [] dialect = "gemini"    -> ReceiveGemini(s.chunk)
    /\ UNCHANGED <<dialect, message, turnVars, cancelled, lost>>

(* Garbled, if what does not parse were skipped by every decoder.              *)
GarbledIgnored ==
    /\ Reading
    /\ \E s \in Sends : sv' = s.sv
    /\ lost' = TRUE
    /\ UNCHANGED <<dialect, message, decodeVars, turnVars, cancelled>>

(* A chunk that is not JSON: an error, and to Gemini's parser nothing.         *)
Garbled ==
    /\ Reading
    /\ \E s \in Sends : sv' = s.sv
    /\ pending' = IF dialect = "gemini" THEN <<>> ELSE <<Error>>
    /\ lost' = TRUE
    /\ UNCHANGED <<dialect, message, dec, finished, turnVars, cancelled>>

(* The transport fails.                                                      *)
TransportFails ==
    /\ Reading
    /\ pending' = <<Error>>
    /\ lost' = TRUE
    /\ UNCHANGED <<wireVars, dec, finished, turnVars, cancelled>>

(* The stream ends: the provider has sent everything, or an error of its own    *)
(* (which no decoder knows), or a proxy has closed it.                          *)
StreamEnds ==
    /\ Reading
    /\ finished' = TRUE
    /\ CASE dialect = "anthropic" -> UNCHANGED <<dec, pending>>
         [] dialect = "openai"    -> Decoded(FinalizeOpenAi(dec))
         [] dialect = "gemini"    -> Decoded(FinalizeGemini(dec))
    /\ lost' = (lost \/ ~SentAll)
    /\ UNCHANGED <<wireVars, turnVars, cancelled>>

-----------------------------------------------------------------------------
(* The turn: run_session_turn from the first poll of the stream to the row.     *)

NewBlock(kind, id, n) == [kind |-> kind, size |-> n, id |-> id, signed |-> FALSE]

(* Extends, if a signature did not seal a block of reasoning.                 *)
ExtendsSealed(bs, kind) == bs # <<>> /\ Last(bs).kind = kind

(* A delta extends the last block if that is of its kind, and for reasoning not *)
(* yet sealed by a signature.                                                 *)
Extends(bs, kind) ==
    /\ bs # <<>>
    /\ Last(bs).kind = kind
    /\ ~Last(bs).signed
AfterDelta(bs, kind, n) ==
    IF Extends(bs, kind) THEN [bs EXCEPT ![Len(bs)].size = @ + n]
                         ELSE Append(bs, NewBlock(kind, 0, n))

LastThought(bs) == {k \in DOMAIN bs : bs[k].kind = "think" /\ \A j \in (k + 1)..Len(bs) : bs[j].kind # "think"}
AfterSignature(bs) ==
    [k \in DOMAIN bs |-> IF k \in LastThought(bs) THEN [bs[k] EXCEPT !.signed = TRUE] ELSE bs[k]]

IsTool(b)    == b.kind = "tool"
Tool(bs, id) == {k \in DOMAIN bs : IsTool(bs[k]) /\ bs[k].id = id
                                     /\ \A j \in (k + 1)..Len(bs) : ~(IsTool(bs[j]) /\ bs[j].id = id)}
AfterToolDelta(bs, id, n) ==
    [k \in DOMAIN bs |-> IF k \in Tool(bs, id) THEN [bs[k] EXCEPT !.size = @ + n] ELSE bs[k]]
AfterComplete(bs, id, n) ==
    IF Tool(bs, id) = {} THEN Append(bs, NewBlock("tool", id, n))
    ELSE [k \in DOMAIN bs |-> IF k \in Tool(bs, id) THEN [bs[k] EXCEPT !.size = n] ELSE bs[k]]

(* The blocks bs with an event.                                               *)
Gathered(bs, e) ==
    CASE e.type \in {"text", "think"} -> AfterDelta(bs, e.type, e.n)
      [] e.type = "sign"     -> AfterSignature(bs)
      [] e.type = "start"    -> Append(bs, NewBlock("tool", e.id, None))
      [] e.type = "delta"    -> AfterToolDelta(bs, e.id, e.n)
      [] e.type = "complete" -> AfterComplete(bs, e.id, e.n)
      [] e.type = "stop"     -> bs

(* Arguments that do not parse are stored as {} and their call does not run.    *)
Malformed(b) == b.kind = "tool" /\ b.size \notin {None, Whole, Null}
Stored       == [k \in DOMAIN blocks |->
                    IF Malformed(blocks[k]) THEN [blocks[k] EXCEPT !.size = None] ELSE blocks[k]]
Callable     == {b \in ToSet(blocks) : b.kind = "tool" /\ ~Malformed(b)}

(* The turn is over: the row is stored and the usage charged, if there is any    *)
(* content; the calls run unless the stream failed or was aborted.              *)
Settle(how) ==
    /\ outcome' = how
    /\ row' = Stored
    /\ billed' = IF blocks # <<>> THEN usage ELSE {}
    /\ runs' = IF how = "done" THEN Callable ELSE {}
    /\ UNCHANGED <<wireVars, dec, pending, finished, blocks, usage, compacted, cancelled, lost>>

(* The next event of the stream, unless the token is cancelled.               *)
Take ==
    /\ outcome = "running"
    /\ ~cancelled
    /\ pending # <<>>
    /\ Head(pending).type # "error"
    /\ pending' = Tail(pending)
    /\ blocks' = Gathered(blocks, Head(pending))
    /\ usage' = IF Head(pending).type = "stop" THEN Head(pending).usage ELSE usage
    /\ UNCHANGED <<wireVars, dec, finished, outcome, row, runs, billed, compacted, cancelled, lost>>

TakeError ==
    /\ outcome = "running"
    /\ ~cancelled
    /\ pending # <<>>
    /\ Head(pending).type = "error"
    /\ Settle("error")

TakeEnd ==
    /\ outcome = "running"
    /\ ~cancelled
    /\ pending = <<>>
    /\ finished
    /\ Settle("done")

SeeAbort ==
    /\ outcome = "running"
    /\ cancelled
    /\ Settle("cancelled")

Abort ==
    /\ outcome \in {"opening", "running"}
    /\ ~cancelled
    /\ cancelled' = TRUE
    /\ UNCHANGED <<wireVars, decodeVars, turnVars, lost>>

-----------------------------------------------------------------------------
StreamInit ==
    /\ dialect \in Dialects
    /\ message \in Answers(dialect)
    /\ sv = [item |-> IF dialect = "anthropic" THEN 0 ELSE 1, part |-> 0, flags |-> {}]
    /\ dec = Fresh
    /\ pending = <<>>
    /\ finished = FALSE
    /\ blocks = <<>>
    /\ usage = {}
    /\ cancelled = FALSE
    /\ outcome = "opening"
    /\ compacted \in BOOLEAN
    /\ row = <<>>
    /\ runs = {}
    /\ billed = {}
    /\ lost = FALSE

StreamNext ==
    \/ Request
    \/ Receive \/ Garbled \/ TransportFails \/ StreamEnds
    \/ Take \/ TakeError \/ TakeEnd \/ SeeAbort \/ Abort

StreamSpec == StreamInit /\ [][StreamNext]_streamVars

-----------------------------------------------------------------------------
(* Type invariant.                                                           *)
StreamTypeOK ==
    /\ dialect \in Dialects
    /\ message \in Answers(dialect)
    /\ sv.item \in 0..(MaxItems + 1) /\ sv.part \in None..Whole
    /\ dec.slots \in [Ids -> Slot] /\ dec.usage \subseteq Parts
    /\ dec.minted \in Ids /\ dec.final \in BOOLEAN
    /\ pending \in Seq(Event)
    /\ finished \in BOOLEAN /\ cancelled \in BOOLEAN /\ lost \in BOOLEAN
    /\ blocks \in Seq(Block) /\ row \in Seq(Block) /\ runs \subseteq Block
    /\ usage \subseteq Parts /\ billed \subseteq Parts
    /\ compacted \in BOOLEAN
    /\ outcome \in {"opening", "running", "done", "error", "cancelled"}

Truncated == \E k \in DOMAIN message : message[k].kind = "tool" /\ message[k].size \notin {None, Whole}

(* What the model said is what is stored, in its order, and what it called is    *)
(* what runs, with the arguments it gave and an id of its own for each call,     *)
(* whatever the fragments in which the answer came; the answer came whole and    *)
(* was not cut by the limit of tokens (parse_anthropic_event, parse_openai_chunk,*)
(* parse_gemini_chunk and the loop of run_session_turn).                        *)
RowFaithful ==
    outcome = "done" /\ ~lost /\ ~Truncated =>
        /\ [k \in DOMAIN row |-> [kind |-> row[k].kind, size |-> row[k].size]] = message
        /\ \A k \in DOMAIN row : row[k].signed <=> row[k].kind = "think" /\ dialect = "anthropic"
        /\ \A j, k \in DOMAIN row : IsTool(row[j]) /\ IsTool(row[k]) /\ row[j].id = row[k].id => j = k
        /\ runs = {b \in ToSet(row) : IsTool(b)}

(* However an answer is cut off, failed or aborted, the row holds a beginning of *)
(* it: no block out of place, none left out before another, and a call has all    *)
(* of its arguments or none of them.  Gemini's decoder passes over a garbled      *)
(* chunk.                                                                      *)
RowIsBeginning ==
    dialect # "gemini" \/ ~lost =>
        /\ Len(row) <= Len(message)
        /\ \A k \in DOMAIN row :
             /\ row[k].kind = message[k].kind
             /\ IsTool(row[k]) => row[k].size \in {None, Null} \/ row[k].size = message[k].size
             /\ ~IsTool(row[k]) => row[k].size <= message[k].size
             /\ ~IsTool(row[k]) /\ k < Len(row) => row[k].size = message[k].size

(* The tokens of a turn that came to its end are charged, once the provider has   *)
(* told them: input and output, from one chunk or two, with a sentinel or not      *)
(* (finalize, finalize_gemini, update_usage).                                   *)
ChargedInFull ==
    outcome = "done" /\ ~lost /\ row # <<>> => billed = Parts

(* The row is the answer, or as much of its beginning as came through.          *)
Kept == StreamTypeOK /\ RowFaithful /\ RowIsBeginning
===============================================================================
