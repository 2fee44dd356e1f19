------------------------------- MODULE TurnLoop -------------------------------
(***************************************************************************)
(* One session's transcript (the session_message rows) and the turn that      *)
(* reads and extends it: Orchestrator::run_session_turn with interrupt         *)
(* recovery, promotion, context reconciliation, steers, compaction, streaming  *)
(* and the tool loop, interrupted by aborts, errors and crashes.  At most one  *)
(* turn of a session runs (SessionCoordinator, OneDrain), while revert and     *)
(* manual compaction write the same rows at any time.                          *)
(*                                                                         *)
(* A row says what kind of message it is, which tool calls it makes or         *)
(* answers, and for a compaction marker through which sequence it folds.       *)
(* Tokens are abstracted: whether a request is too long, and which clean cuts   *)
(* fit keep_tokens, is left open.                                              *)
(***************************************************************************)
EXTENDS RequestLowering

CONSTANTS
    MaxTurns,   \* app_config.max_turns: provider turns of an activity
    MaxCalls,   \* bound: tool calls in one assistant message
    KeepSeqs,   \* the 10 of compact_session
    Minted,     \* the sequences whose message, if a model makes it, is a Gemini
                \* stream's: any provider may answer any turn
    MaxRows,    \* bound: rows written
    MaxSeq      \* bound: sequences taken

ASSUME BoundsAssumption ==
    {MaxTurns, MaxCalls, KeepSeqs, MaxRows, MaxSeq} \subseteq Nat \ {0}
ASSUME MintedAssumption == Minted \subseteq Nat

VARIABLES
    rows,       \* the session's messages in the order of their sequences
    seq,        \* session.seq_counter
    pc,         \* where the running turn stands
    rounds,     \* turn_count
    cancelled,  \* the turn's CancellationToken
    compacted,  \* compacted_this_turn
    todo,       \* tool calls not yet dealt with
    results,    \* tool calls with a result that is not stored yet
    request,    \* the messages of the provider turn that streams

    \* History, read by properties only.
    pruned,     \* the largest sequence compact_session deleted
    missed      \* open calls whose id recovery found among the answered ones

turnVars == <<pc, rounds, cancelled, compacted, todo, results, request>>
histVars == <<pruned, missed>>
vars     == <<rows, seq, turnVars, histVars>>

Steps == {"idle", "recover", "promote", "reconcile", "boundary", "fold", "assemble",
          "stream", "tools", "store"}
CallIds == (0..MaxSeq) \X (1..MaxCalls)
Row == [kind : {"prompt", "assistant", "thoughts", "results", "system", "note", "marker"},
        seq : 0..MaxSeq, calls : SUBSET CallIds, through : 0..MaxSeq]

Room == Len(rows) < MaxRows /\ seq < MaxSeq
Write(kind, calls, through) ==
    /\ Room
    /\ seq' = seq + 1
    /\ rows' = Append(rows, [kind |-> kind, seq |-> seq + 1, calls |-> calls,
                             through |-> through])

Init ==
    /\ rows = <<>>
    /\ seq = 0
    /\ pc = "idle"
    /\ rounds = 0
    /\ cancelled = FALSE
    /\ compacted = FALSE
    /\ todo = {}
    /\ results = {}
    /\ request = <<>>
    /\ pruned = 0
    /\ missed = {}

Goto(p) == pc' = p
Ends == /\ Goto("idle")
        /\ rounds' = 0
        /\ cancelled' = FALSE
        /\ compacted' = FALSE
        /\ todo' = {}
        /\ results' = {}
        /\ request' = <<>>

-----------------------------------------------------------------------------
(* Before the loop.                                                          *)

Start ==
    /\ pc = "idle"
    /\ Room
    /\ Goto("recover")
    /\ UNCHANGED <<rows, seq, rounds, cancelled, compacted, todo, results, request, histVars>>

\* The last of the places S, if there are any.
Newest(S) == {k \in S : \A j \in S : j <= k}

(* A call's id.  The Gemini decoder makes up call_0, call_1, ... anew for every *)
(* stream (parse_gemini_chunk); the others are the provider's own.            *)
Id(c) == IF c[1] \in Minted THEN <<0, c[2]>> ELSE c

Assistants    == {k \in DOMAIN rows : rows[k].kind \in {"assistant", "thoughts"}}
LastCalls     == UNION {rows[k].calls : k \in Newest(Assistants)}
AnsweredCalls == UNION {rows[k].calls : k \in {j \in DOMAIN rows : rows[j].kind = "results"}}
Fulfilled     == {Id(c) : c \in AnsweredCalls}
Unfulfilled   == {c \in LastCalls : Id(c) \notin Fulfilled}
Overlooked    == {c \in LastCalls : Id(c) \in Fulfilled} \ AnsweredCalls

(* Recover, if it took the presence of any result row for an answer to all.   *)
RecoverIfNoResults ==
    /\ pc = "recover"
    /\ Goto("promote")
    /\ IF Unfulfilled # {} /\ Last(rows).kind # "results"
         THEN Write("results", Unfulfilled, 0)
         ELSE UNCHANGED <<rows, seq>>
    /\ missed' = missed \cup Overlooked
    /\ UNCHANGED <<rounds, cancelled, compacted, todo, results, request, pruned>>

(* Recover, if the interrupted calls were repaired behind the new prompt.     *)
RecoverBehindPrompt ==
    /\ pc = "recover"
    /\ Room
    /\ Goto("reconcile")
    /\ rows' = rows \o
         <<[kind |-> "prompt", seq |-> seq + 1, calls |-> {}, through |-> 0],
           [kind |-> "results", seq |-> seq + 2, calls |-> Unfulfilled, through |-> 0]>>
    /\ seq' = seq + 2
    /\ missed' = missed \cup Overlooked
    /\ UNCHANGED <<rounds, cancelled, compacted, todo, results, request, pruned>>

(* recover_interrupted_tools: error results for the calls of the last         *)
(* assistant message whose ids no result in the session has.  An open call    *)
(* whose id an earlier stream has made up, too, passes for answered.          *)
Recover ==
    /\ pc = "recover"
    /\ Goto("promote")
    /\ IF Unfulfilled # {}
         THEN Write("results", Unfulfilled, 0)
         ELSE UNCHANGED <<rows, seq>>
    /\ missed' = missed \cup Overlooked
    /\ UNCHANGED <<rounds, cancelled, compacted, todo, results, request, pruned>>

(* The input becomes a visible user message.                                  *)
Promote ==
    /\ pc = "promote"
    /\ Goto("reconcile")
    /\ Write("prompt", {}, 0)
    /\ UNCHANGED <<rounds, cancelled, compacted, todo, results, request, histVars>>

(* Context reconciliation may append an update message.                       *)
Reconcile ==
    /\ pc = "reconcile"
    /\ Goto("boundary")
    /\ \/ Write("system", {}, 0)
       \/ UNCHANGED <<rows, seq>>
    /\ UNCHANGED <<rounds, cancelled, compacted, todo, results, request, histVars>>

-----------------------------------------------------------------------------
(* The provider-turn loop.                                                   *)

(* Boundary, if one turn more than max_turns were run.                        *)
BoundaryOffByOne ==
    /\ pc = "boundary"
    /\ IF rounds <= MaxTurns /\ ~cancelled
         THEN /\ Goto("fold")
              /\ rounds' = rounds + 1
              /\ compacted' = FALSE
              /\ UNCHANGED <<cancelled, todo, results, request>>
         ELSE Ends
    /\ UNCHANGED <<rows, seq, histVars>>

(* The head of the loop: max_turns, then the abort check.                     *)
Boundary ==
    /\ pc = "boundary"
    /\ IF rounds < MaxTurns /\ ~cancelled
         THEN /\ Goto("fold")
              /\ rounds' = rounds + 1
              /\ compacted' = FALSE
              /\ UNCHANGED <<cancelled, todo, results, request>>
         ELSE Ends
    /\ UNCHANGED <<rows, seq, histVars>>

(* promote_pending_steers: none or some steers become user messages.          *)
FoldSteers ==
    /\ pc = "fold"
    /\ \/ Goto("assemble") /\ UNCHANGED <<rows, seq>>
       \/ UNCHANGED pc /\ Write("prompt", {}, 0)
    /\ UNCHANGED <<rounds, cancelled, compacted, todo, results, request, histVars>>

(* assemble_chat_messages: the rows after the newest marker's boundary, with   *)
(* the summary as a system message in front.                                   *)
Markers(s)   == {k \in DOMAIN s : s[k].kind = "marker"}
Folded(s, k) == \E j \in Newest(Markers(s)) : s[k].seq <= s[j].through
Live(s)      == Keeping(s, {k \in DOMAIN s : s[k].kind # "marker" /\ ~Folded(s, k)})
Summary      == [kind |-> "system", seq |-> 0, calls |-> {}, through |-> 0]
Assembled(s) == IF Markers(s) = {} THEN Live(s) ELSE <<Summary>> \o Live(s)

Assemble ==
    /\ pc = "assemble"
    /\ Goto("stream")
    /\ request' = Assembled(rows)
    /\ UNCHANGED <<rows, seq, rounds, cancelled, compacted, todo, results, histVars>>

(* CleanCuts, if a tool_result carrier passed for a user prompt.              *)
CutsAtAnyUserMessage ==
    {k \in 2..Len(Live(rows)) : Live(rows)[k].kind \in {"prompt", "results"}}

(* is_clean_turn_start, past the first live message.                          *)
CleanCuts == {k \in 2..Len(Live(rows)) : Live(rows)[k].kind = "prompt"}

(* perform_compaction, before the request or after an overflow error: a new    *)
(* marker folds what lies before a clean turn start.                           *)
Compact ==
    /\ pc \in {"assemble", "stream"}
    /\ ~compacted
    /\ \E k \in CleanCuts : Write("marker", {}, Live(rows)[k - 1].seq)
    /\ compacted' = TRUE
    /\ Goto("stream")
    /\ request' = Assembled(rows')
    /\ UNCHANGED <<rounds, cancelled, todo, results, histVars>>

(* The calls of a stream, told apart by its message and their places in it.    *)
NewCalls(n) == {<<seq + 1, k>> : k \in 1..n}

(* The stream ends, is cut off by an abort or breaks.  What arrived becomes an *)
(* assistant message unless it is empty; its calls run unless the stream was   *)
(* aborted.                                                                    *)
StreamEnds ==
    /\ pc = "stream"
    /\ \E n \in 0..MaxCalls, said \in {"nothing", "thoughts", "text"} :
         /\ \/ (n > 0 \/ said = "text") /\ Write("assistant", NewCalls(n), 0)
            \/ n = 0 /\ said = "thoughts" /\ Write("thoughts", {}, 0)
            \/ n = 0 /\ said = "nothing" /\ UNCHANGED <<rows, seq>>
         /\ IF cancelled \/ n = 0
              THEN Ends
              ELSE /\ Goto("tools")
                   /\ todo' = NewCalls(n)
                   /\ results' = {}
                   /\ request' = <<>>
                   /\ UNCHANGED <<rounds, cancelled, compacted>>
    /\ UNCHANGED histVars

NextCall == {c \in todo : \A d \in todo : c[2] <= d[2]}

Answer ==
    /\ \E c \in NextCall : results' = results \cup {c} /\ todo' = todo \ {c}
    /\ UNCHANGED pc

(* The next call gets its result without running: its arguments are malformed,  *)
(* its tool is unknown, or a rule or the user denies it.  All but the first     *)
(* have taken a sequence for tool.requested.                                   *)
Refuse ==
    /\ pc = "tools"
    /\ todo # {}
    /\ \/ UNCHANGED seq
       \/ seq < MaxSeq /\ seq' = seq + 1
    /\ Answer
    /\ UNCHANGED <<rows, rounds, cancelled, compacted, request, histVars>>

(* An abort while the permission is awaited leaves the call without a result.   *)
StopWaiting ==
    /\ pc = "tools"
    /\ todo # {}
    /\ cancelled
    /\ seq < MaxSeq
    /\ seq' = seq + 1
    /\ todo' = {}
    /\ Goto("store")
    /\ UNCHANGED <<rows, rounds, cancelled, compacted, results, request, histVars>>

(* The next call is run between its checkpoints, which take their sequences with *)
(* tool.requested; a token that is cancelled ends the run with an error result,  *)
(* and the loop.                                                               *)
ToolCall ==
    /\ pc = "tools"
    /\ todo # {}
    /\ seq < MaxSeq
    /\ seq' = seq + 1
    /\ \/ ~cancelled /\ Answer
       \/ /\ cancelled
          /\ results' = results \cup NextCall
          /\ todo' = {}
          /\ Goto("store")
    /\ UNCHANGED <<rows, rounds, cancelled, compacted, request, histVars>>

ToolsDone ==
    /\ pc = "tools"
    /\ todo = {}
    /\ Goto("store")
    /\ UNCHANGED <<rows, seq, rounds, cancelled, compacted, todo, results, request, histVars>>

(* The results are stored as one user message, if there are any.              *)
StoreResults ==
    /\ pc = "store"
    /\ Goto("boundary")
    /\ IF results # {} THEN Write("results", results, 0) ELSE UNCHANGED <<rows, seq>>
    /\ results' = {}
    /\ UNCHANGED <<rounds, cancelled, compacted, todo, request, histVars>>

-----------------------------------------------------------------------------
(* What may come in between.                                                 *)

Abort ==
    /\ pc # "idle"
    /\ cancelled' = TRUE
    /\ UNCHANGED <<rows, seq, pc, rounds, compacted, todo, results, request, histVars>>

(* An error returned from anywhere in the turn, or the end of the process:     *)
(* what is not in a row is gone.                                               *)
Fails ==
    /\ pc # "idle"
    /\ Ends
    /\ UNCHANGED <<rows, seq, histVars>>

(* revert_session and unrevert_session append a system message.               *)
RevertNote ==
    /\ Write("note", {}, 0)
    /\ UNCHANGED <<turnVars, histVars>>

(* compact_session deletes the rows far enough below the newest.              *)
Prune ==
    /\ rows # <<>>
    /\ LET cutoff == Last(rows).seq - KeepSeqs IN
         /\ rows' = Keeping(rows, {k \in DOMAIN rows : rows[k].seq >= cutoff})
         /\ pruned' = Max({pruned} \cup {m.seq : m \in {n \in ToSet(rows) : n.seq < cutoff}})
    /\ UNCHANGED <<seq, turnVars, missed>>

Next ==
    \/ Start \/ Recover \/ Promote \/ Reconcile
    \/ Boundary \/ FoldSteers \/ Assemble \/ Compact
    \/ StreamEnds \/ Refuse \/ StopWaiting \/ ToolCall \/ ToolsDone \/ StoreResults
    \/ Abort \/ Fails \/ RevertNote \/ Prune

Spec == Init /\ [][Next]_vars

-----------------------------------------------------------------------------
(* Properties of the request of every provider turn.                         *)

(* Type invariant.                                                           *)
TypeOK ==
    /\ rows \in Seq(Row) /\ Len(rows) <= MaxRows
    /\ seq \in 0..MaxSeq
    /\ pc \in Steps
    /\ rounds \in 0..MaxTurns
    /\ cancelled \in BOOLEAN
    /\ compacted \in BOOLEAN
    /\ todo \subseteq CallIds
    /\ results \subseteq CallIds
    /\ request \in Seq(Row)
    /\ pruned \in 0..MaxSeq
    /\ missed \subseteq CallIds

Makes(k, c)   == request[k].kind = "assistant" /\ c \in request[k].calls
Answers(k, c) == request[k].kind = "results" /\ c \in request[k].calls
Requested     == UNION {request[k].calls : k \in DOMAIN request}

(* Every call the model sees in its request has exactly one result, and that   *)
(* comes later: no abort, error, crash, compaction or recovery leaves a call    *)
(* unanswered or answers it again.  Excepted are calls that were interrupted    *)
(* while their id stood in earlier results.                                    *)
AnsweredOnce ==
    \A k \in DOMAIN request : \A c \in request[k].calls \ missed : Makes(k, c)
        => Cardinality({j \in DOMAIN request : j > k /\ Answers(j, c)}) = 1

(* No result without the call it answers, manual compaction aside: no          *)
(* automatic compaction and no lost row cuts between a call and its result.     *)
ResultsHaveCalls ==
    \A k \in DOMAIN request : \A c \in request[k].calls \ missed : Answers(k, c)
        => c[1] <= pruned \/ \E j \in 1..(k - 1) : Makes(j, c)

(* Nothing of the turn's own making stands between a call and its result, which *)
(* is where every provider wants them: steers, context updates and repairs      *)
(* never come in between ("recover_interrupted_tools repairs the unfulfilled    *)
(* tool_use on the next turn").  A revert's note may.                           *)
ResultsFollow ==
    \A j, k \in DOMAIN request : \A c \in Requested \ missed : Makes(j, c) /\ Answers(k, c)
        => \A i \in (j + 1)..k : request[i].kind \in {"results", "note"}

(* Recovery overlooks a call only if its id was made up, and an earlier message   *)
(* made up the same: with the providers' own ids, none.                        *)
OverlooksRepeated ==
    \A c \in missed : c[1] \in Minted /\ \E b \in 1..(c[1] - 1) : b \in Minted

(* The request holds the prompt promoted last, and, manual compaction aside, it *)
(* opens with a prompt after system messages: folding never hides what the turn  *)
(* is about.                                                                   *)
Prompts(s) == {k \in DOMAIN s : s[k].kind = "prompt"}
HoldsPrompt ==
    pc = "stream" =>
        /\ \A k \in Newest(Prompts(rows)) : rows[k] \in ToSet(request)
        /\ pruned = 0 =>
             /\ Prompts(request) # {}
             /\ \A k \in DOMAIN request : (\A j \in Prompts(request) : k < j)
                    => request[k].kind \in {"system", "note"}

(* Every provider accepts the request as it is lowered, whatever rows and roles    *)
(* meet in it, for as long as no manual compaction, no revert's note and no call   *)
(* that recovery overlooked stands in it (lower_messages, lower_openai_messages,   *)
(* lower_gemini_messages).                                                     *)
Noted == \E k \in DOMAIN request : request[k].kind = "note"
Accepted ==
    pruned = 0 /\ ~Noted /\ Requested \cap missed = {} =>
        /\ \A native \in BOOLEAN : AnthropicAccepts(LowerAnthropic(request, native))
        /\ OpenAiAccepts(LowerOpenAi(request))
        /\ GeminiAccepts(LowerGemini(request))

(* What is inline stands where the provider takes it, whatever notes there are,    *)
(* unless an assistant message that holds nothing but unsigned thoughts is left    *)
(* out (can_use_native_system_update, lower_messages).                          *)
InlineAccepted ==
    (\A k \in DOMAIN request : request[k].kind # "thoughts")
        => InlineInPlace(LowerAnthropic(request, TRUE))

(* The transcript is one a provider can be sent: calls and results pair up and   *)
(* stand together.                                                             *)
Paired == TypeOK /\ AnsweredOnce /\ ResultsHaveCalls /\ ResultsFollow /\ OverlooksRepeated

(* The request as lowered, with what stands inline.                            *)
Lowerable == Accepted /\ InlineAccepted
===============================================================================
