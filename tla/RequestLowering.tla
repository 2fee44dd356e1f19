--------------------------- MODULE RequestLowering ---------------------------
(***************************************************************************)
(* How the three providers put a request on the wire: lower_messages           *)
(* (Anthropic), lower_openai_messages and lower_gemini_messages, as functions  *)
(* of the session's messages.  A message is a row of TurnLoop; of its content   *)
(* only the blocks count, which are a text, an unsigned thought, a context      *)
(* update, a call or the result of a call.                                     *)
(***************************************************************************)
EXTENDS Integers, Sequences, FiniteSets, SequencesExt

NoCall      == <<0, 0>>
Block(t, c) == [type |-> t, call |-> c]

(* The elements of s at the places S, in order.                               *)
Nth(S, j)     == CHOOSE k \in S : Cardinality({m \in S : m <= k}) = j
Keeping(s, S) == [j \in 1..Cardinality(S) |-> s[Nth(S, j)]]

(* A block for each of a message's calls, in the order the model made them.     *)
CallAt(cs, j) == CHOOSE c \in cs : c[2] = Nth({d[2] : d \in cs}, j)
Each(t, cs)   == [j \in 1..Cardinality(cs) |-> Block(t, CallAt(cs, j))]

Role(m) == CASE m.kind \in {"prompt", "results"}     -> "user"
             [] m.kind \in {"assistant", "thoughts"} -> "assistant"
             [] OTHER                                -> "system"

(* The blocks of a message of the user or the assistant.                       *)
Content(m) ==
    CASE m.kind = "results"  -> Each("result", m.calls)
      [] m.kind = "thoughts" -> <<Block("think", NoCall)>>
      [] m.kind = "assistant" /\ m.calls # {} -> Each("call", m.calls)
      [] OTHER -> <<Block("text", NoCall)>>

Message(role, content) == [role |-> role, content |-> content]

-----------------------------------------------------------------------------
(* Anthropic.                                                                *)

(* push_or_merge, if it never merged.                                         *)
PushOnly(out, role, content) == Append(out, Message(role, content))

(* push_or_merge: a message of the last one's role is merged into it.          *)
PushOrMerge(out, role, content) ==
    IF out # <<>> /\ Last(out).role = role
      THEN [out EXCEPT ![Len(out)].content = @ \o content]
      ELSE Append(out, Message(role, content))

(* CanUseNative, if the message before did not count.                          *)
CanUseNativeAnywhere(s, k) == k = Len(s) \/ Role(s[k + 1]) = "assistant"

(* can_use_native_system_update.                                             *)
CanUseNative(s, k) ==
    /\ k > 1
    /\ Role(s[k - 1]) = "user"
    /\ k = Len(s) \/ Role(s[k + 1]) = "assistant"

(* A system message is inline where the model takes it, else a marked text of    *)
(* the user; thoughts without a signature are left out, and so are messages      *)
(* without content.                                                          *)
PutAnthropic(s, native, out, k) ==
    LET sent == IF s[k].kind = "thoughts" THEN <<>> ELSE Content(s[k])
    IN  IF Role(s[k]) = "system"
          THEN IF native /\ CanUseNative(s, k)
                 THEN Append(out, Message("system", <<Block("update", NoCall)>>))
                 ELSE PushOrMerge(out, "user", <<Block("update", NoCall)>>)
          ELSE IF sent = <<>> THEN out ELSE PushOrMerge(out, Role(s[k]), sent)

(* lower_messages.                                                           *)
LowerAnthropic(s, native) ==
    LET out[k \in 0..Len(s)] == IF k = 0 THEN <<>> ELSE PutAnthropic(s, native, out[k - 1], k)
    IN  out[Len(s)]

-----------------------------------------------------------------------------
(* OpenAI-compatible.                                                        *)

(* A message of its own for every result.                                     *)
PutOpenAi(m) ==
    CASE Role(m) = "system"  -> <<Message("system", <<Block("update", NoCall)>>)>>
      [] m.kind = "results"  -> [k \in DOMAIN Content(m) |-> Message("tool", <<Content(m)[k]>>)]
      [] m.kind = "thoughts" -> <<>>
      [] OTHER               -> <<Message(Role(m), Content(m))>>

(* lower_openai_messages.                                                     *)
LowerOpenAi(s) ==
    LET out[k \in 0..Len(s)] == IF k = 0 THEN <<>> ELSE out[k - 1] \o PutOpenAi(s[k])
    IN  out[Len(s)]

-----------------------------------------------------------------------------
(* Gemini.                                                                   *)

(* lower_gemini_messages: system messages are passed over, and a thought is a    *)
(* text of the model.                                                        *)
LowerGemini(s) ==
    LET sent == Keeping(s, {k \in DOMAIN s : Role(s[k]) # "system"})
    IN  [k \in DOMAIN sent |->
           Message(IF Role(sent[k]) = "user" THEN "user" ELSE "model", Content(sent[k]))]

-----------------------------------------------------------------------------
(* What a provider asks of the messages it is sent.                           *)

Of(type, message) == {message.content[j].call : j \in
                        {i \in DOMAIN message.content : message.content[i].type = type}}

(* Two messages in a row are never of one role, the first is the user's, and the *)
(* message after one with calls is the user's with all of their results, ahead   *)
(* of everything else in it.                                                  *)
AnthropicAccepts(out) ==
    /\ out # <<>> => out[1].role = "user"
    /\ \A k \in 1..(Len(out) - 1) : out[k].role # out[k + 1].role
    /\ \A k \in DOMAIN out : Of("call", out[k]) # {} =>
         /\ k < Len(out)
         /\ out[k + 1].role = "user"
         /\ Of("call", out[k]) = Of("result", out[k + 1])
         /\ \A j \in 1..Cardinality(Of("call", out[k])) : out[k + 1].content[j].type = "result"

(* An inline system message stands between a message of the user and one of the  *)
(* assistant, or at the end.                                                  *)
InlineInPlace(out) ==
    \A k \in DOMAIN out : out[k].role = "system" =>
        /\ k > 1
        /\ out[k - 1].role = "user"
        /\ k < Len(out) => out[k + 1].role = "assistant"

(* A message with calls is followed by one tool message for each of them, and    *)
(* there are no others.                                                       *)
OpenAiAccepts(out) ==
    /\ \A k \in DOMAIN out : LET n == Cardinality(Of("call", out[k])) IN
         n > 0 =>
         /\ k + n <= Len(out)
         /\ Of("call", out[k]) = UNION {Of("result", out[j]) : j \in (k + 1)..(k + n)}
         /\ \A j \in (k + 1)..(k + n) : out[j].role = "tool" /\ Len(out[j].content) = 1
    /\ Cardinality({k \in DOMAIN out : out[k].role = "tool"})
         = Cardinality(UNION {Of("call", out[k]) : k \in DOMAIN out})

(* The user's parts between two of the model's answer its calls, each once.      *)
GeminiAccepts(out) ==
    \A k \in DOMAIN out : Of("call", out[k]) # {} =>
        LET next == {j \in (k + 1)..Len(out) : out[j].role = "model"}
            end  == IF next = {} THEN Len(out) ELSE Min(next) - 1
        IN  /\ Of("call", out[k]) = UNION {Of("result", out[j]) : j \in (k + 1)..end}
            /\ \A i, j \in (k + 1)..end :
                 i # j => Of("result", out[i]) \cap Of("result", out[j]) = {}
===============================================================================
