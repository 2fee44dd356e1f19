------------------------------- MODULE FileTools -------------------------------
(***************************************************************************)
(* The tool calls of a session, one after the other: the permission each needs  *)
(* (orchestrator.rs), and what read_file, write_file, edit, patch and bash do to *)
(* the files (file_tools.rs, system_tools.rs), while others change them too:     *)
(* the user, another session, or a command that outlived its call.             *)
(*                                                                         *)
(* The file tools have no await, but the threads of other tasks and other        *)
(* processes run between their reads and writes.  A file has several spellings:   *)
(* rules go by the spelling, the read cache by the file.                        *)
(***************************************************************************)
EXTENDS TextEdits, Permissions

CONSTANTS
    Files,
    FileOf,     \* the file each spelling means, or Outside
    Spelled,    \* its tokens
    Calls,      \* the calls the model may make
    Texts,      \* what others may leave in a file
    Agents,
    MaxCalls,   \* bound: calls
    MaxEdits    \* bound: changes by others

Outside == "outside"
Unread  == [bom |-> FALSE, body |-> <<"unread">>]

ASSUME NamesAssumption ==
    /\ FileOf \in [DOMAIN FileOf -> Files \cup {Outside}]
    /\ Spelled \in [DOMAIN FileOf -> Seq(STRING) \ {<<>>}]
ASSUME CallsAssumption ==
    \A c \in Calls :
        /\ c.tool \in {"read", "write", "edit", "patch", "bash"}
        /\ c.name \in DOMAIN FileOf
        /\ c.said \in Seq(STRING) \ {<<>>}   \* the tokens of a command, or of a patch
ASSUME BoundsAssumption == MaxCalls \in Nat /\ MaxEdits \in Nat

VARIABLES
    disk,       \* the files of the workspace
    cache,      \* file_read_cache: the texts the activity read or wrote
    agent,      \* session.agent_id
    saved,      \* the permission_saved rows of the project
    unsaved,    \* rules reply_permission has still to save
    call,       \* the tool call being dealt with
    step,       \* where it stands
    hunks,      \* what is left of it to do
    look,       \* the text its first hunk found and the text it will put
    reply,      \* the tool result
    cancelled,  \* the turn's CancellationToken

    calls, edits,   \* bounds: calls and changes so far

    \* History, read by properties only.
    answer,     \* what the user said to this call
    granted,    \* rules the user asked to be saved
    touched,    \* files others changed, or a failed call left, since they were read or written
    raced       \* has the file of the first hunk changed since it was looked at?

toolVars == <<call, step, hunks, look, reply>>
vars     == <<disk, cache, agent, saved, unsaved, toolVars, cancelled, calls, edits,
              answer, granted, touched, raced>>

Steps   == {"idle", "ask", "run", "look", "put", "remove", "command", "over", "dead"}
Reasons == {"none", "done", "denied", "aborted", "outside", "invalid", "stale", "failed", "io", "panic"}
NoLook  == [was |-> Absent, will |-> Absent]

Init ==
    /\ disk \in [Files -> Texts]
    /\ cache = [f \in Files |-> Unread]
    /\ agent \in Agents
    /\ saved = {}
    /\ unsaved = {}
    /\ call \in {c \in Calls : c.tool = "bash"}
    /\ step = "idle"
    /\ hunks = <<>>
    /\ look = NoLook
    /\ reply = "none"
    /\ cancelled = FALSE
    /\ calls = 0
    /\ edits = 0
    /\ answer = "none"
    /\ granted = {}
    /\ touched = {}
    /\ raced = FALSE

(* The call has its result; an aborted one ends the activity.                   *)
Result(why) ==
    /\ reply' = why
    /\ step' = CASE why = "aborted" -> "over" [] why = "panic" -> "dead" [] OTHER -> "idle"
    /\ hunks' = <<>>
    /\ look' = NoLook
    /\ raced' = FALSE
    /\ UNCHANGED call

-----------------------------------------------------------------------------
(* run_session_turn: the permission of a call.                                *)

Class(c)    == CASE c.tool = "read" -> "read_file" [] c.tool = "bash" -> "bash" [] OTHER -> "write_file"
Resource(c) == IF c.tool \in {"bash", "patch"} THEN c.said ELSE Spelled[c.name]
Beyond(c)   == c.tool \notin {"bash", "patch"} /\ FileOf[c.name] = Outside
RuleOf(c)   == Rule(Class(c), Resource(c), "allow")

Request(c) ==
    LET decision == evaluate(Class(c), Resource(c), agent, saved, Beyond(c)) IN
    /\ step = "idle" /\ calls < MaxCalls
    /\ calls' = calls + 1
    /\ call' = c
    /\ answer' = "none"
    /\ step' = CASE decision = "allow" -> "run" [] decision = "ask" -> "ask" [] OTHER -> "idle"
    /\ reply' = IF decision = "deny" THEN "denied" ELSE "none"
    /\ UNCHANGED <<disk, cache, agent, saved, unsaved, hunks, look, cancelled, edits,
                   granted, touched, raced>>

(* Answer, if every permission were saved.                                      *)
AnswerForGood(a) ==
    /\ step = "ask" /\ answer = "none"
    /\ answer' = a
    /\ unsaved' = IF a # "deny" THEN unsaved \cup {RuleOf(call)} ELSE unsaved
    /\ granted' = IF a = "always" THEN granted \cup {RuleOf(call)} ELSE granted
    /\ UNCHANGED <<disk, cache, agent, saved, toolVars, cancelled, calls, edits, touched, raced>>

(* reply_permission: the answer first, the rule later.                         *)
Answer(a) ==
    /\ step = "ask" /\ answer = "none"
    /\ answer' = a
    /\ unsaved' = IF a = "always" THEN unsaved \cup {RuleOf(call)} ELSE unsaved
    /\ granted' = IF a = "always" THEN granted \cup {RuleOf(call)} ELSE granted
    /\ UNCHANGED <<disk, cache, agent, saved, toolVars, cancelled, calls, edits, touched, raced>>

SaveRule(r) ==
    /\ r \in unsaved
    /\ unsaved' = unsaved \ {r}
    /\ \/ saved' = saved \cup {r}
       \/ UNCHANGED saved   \* the write failed
    /\ UNCHANGED <<disk, cache, agent, toolVars, cancelled, calls, edits,
                   answer, granted, touched, raced>>

Resume ==
    /\ step = "ask" /\ answer # "none" /\ ~cancelled
    /\ \/ answer # "deny" /\ step' = "run" /\ UNCHANGED <<call, hunks, look, reply, raced>>
       \/ answer = "deny" /\ Result("denied")
    /\ UNCHANGED <<disk, cache, agent, saved, unsaved, cancelled, calls, edits,
                   answer, granted, touched>>

AskCancelled ==
    /\ step = "ask" /\ cancelled
    /\ step' = "over"
    /\ UNCHANGED <<disk, cache, agent, saved, unsaved, call, hunks, look, reply, cancelled,
                   calls, edits, answer, granted, touched, raced>>

Abort ==
    /\ step \notin {"over", "dead"} /\ ~cancelled
    /\ cancelled' = TRUE
    /\ UNCHANGED <<disk, cache, agent, saved, unsaved, toolVars, calls, edits,
                   answer, granted, touched, raced>>

(* The next activity starts with nothing read.                                *)
NewActivity ==
    /\ step \in {"idle", "over"}
    /\ step' = "idle"
    /\ reply' = "none"
    /\ cancelled' = FALSE
    /\ cache' = [f \in Files |-> Unread]
    /\ touched' = {}
    /\ UNCHANGED <<disk, agent, saved, unsaved, call, hunks, look, calls, edits,
                   answer, granted, raced>>

-----------------------------------------------------------------------------
(* The run of a call.                                                        *)

Work(c) ==
    CASE c.tool = "patch" -> Parsed(c.patch)
      [] c.tool = "edit"  -> <<[Hunk("edit", c.name) EXCEPT
                                  !.chunks = <<[ctx |-> NoLine, old |-> c.old, new |-> c.new]>>]>>
      [] OTHER            -> <<[Hunk(c.tool, c.name) EXCEPT !.text = c.new]>>

Places(h) == {FileOf[n] : n \in {h.path, h.to} \cap DOMAIN FileOf}

(* Why a call fails before it touches a file; a patch is refused as a whole if    *)
(* any of its paths is outside.                                               *)
Refusal(c) ==
    IF c.tool = "patch" /\ ~WellFormed(c.patch) THEN "invalid"
    ELSE IF c.tool = "edit" /\ (c.old = <<>> \/ c.old = c.new) THEN "failed"
    ELSE IF Work(c) = <<>> THEN "failed"
    ELSE IF Outside \in UNION {Places(h) : h \in ToSet(Work(c))} THEN "outside"
    ELSE "none"

Start ==
    /\ step = "run"
    /\ IF cancelled THEN Result("aborted")
       ELSE IF call.tool = "bash"
         THEN step' = "command" /\ UNCHANGED <<call, hunks, look, reply, raced>>
       ELSE \E why \in {Refusal(call)} :
              IF why # "none" THEN Result(why)
              ELSE /\ hunks' = Work(call)
                   /\ step' = "look"
                   /\ UNCHANGED <<call, look, reply, raced>>
    /\ UNCHANGED <<disk, cache, agent, saved, unsaved, cancelled, calls, edits,
                   answer, granted, touched>>

Now    == Head(hunks)
Source == FileOf[Now.path]
Moves  == Now.op = "update" /\ Now.to # NoPath
Target == IF Moves THEN FileOf[Now.to] ELSE Source

(* The next hunk, or the end of the call.                                     *)
Proceed ==
    IF Len(hunks) = 1 THEN Result("done")
    ELSE /\ hunks' = Tail(hunks)
         /\ step' = "look"
         /\ look' = NoLook
         /\ raced' = FALSE
         /\ UNCHANGED <<call, reply>>

(* The staleness guard.                                                      *)
Changed(f) == cache[f] # Unread /\ disk[f] # cache[f]

Read ==
    /\ step = "look" /\ Now.op = "read"
    /\ IF disk[Source] = Absent
         THEN Result("io") /\ UNCHANGED <<cache, touched>>
         ELSE /\ Result("done")
              /\ cache' = [cache EXCEPT ![Source] = disk[Source]]
              /\ touched' = touched \ {Source}
    /\ UNCHANGED <<disk, agent, saved, unsaved, cancelled, calls, edits, answer, granted>>

(* Trouble, without the guard of the patch tool.                                *)
TroubleUnguarded(h, was) ==
    IF h.op = "add" THEN ""
    ELSE IF was = Absent THEN IF h.op = "write" THEN "" ELSE "io"
    ELSE CASE h.op = "edit"   -> IF Changed(Source) THEN "stale"
                                 ELSE IF Once(Unix(was.body), Unix(h.chunks[1].old)) THEN "" ELSE "failed"
           [] h.op = "update" -> Failure(Replacements(Lines(was.body), h.chunks))
           [] OTHER           -> IF Changed(Source) THEN "stale" ELSE ""

(* Why a hunk cannot be done.  An added file is not looked at, and only a write     *)
(* may find nothing.                                                         *)
Trouble(h, was) ==
    IF h.op = "add" THEN ""
    ELSE IF was = Absent THEN IF h.op = "write" THEN "" ELSE "io"
    ELSE IF Changed(Source) THEN "stale"
    ELSE CASE h.op = "edit"   -> IF Once(Unix(was.body), Unix(h.chunks[1].old)) THEN "" ELSE "failed"
           [] h.op = "update" -> Failure(Replacements(Lines(was.body), h.chunks))
           [] OTHER           -> ""

Made(h, was) ==
    CASE h.op = "edit"   -> Edited(was, h.chunks[1].old, h.chunks[1].new)
      [] h.op = "update" -> Patched(was, h.chunks)
      [] OTHER           -> Text(h.text)

Look ==
    /\ step = "look" /\ Now.op \notin {"read", "delete"}
    /\ \E why \in {Trouble(Now, disk[Source])} :
           IF why # "" THEN Result(why)
           ELSE /\ look' = [was |-> disk[Source], will |-> Made(Now, disk[Source])]
                /\ step' = "put"
                /\ UNCHANGED <<call, hunks, reply, raced>>
    /\ UNCHANGED <<disk, cache, agent, saved, unsaved, cancelled, calls, edits,
                   answer, granted, touched>>

(* Put, if only moves were remembered.                                        *)
PutForgotten ==
    /\ step = "put"
    /\ disk' = [disk EXCEPT ![Target] = look.will]
    /\ touched' = IF Moves THEN touched \cup {Target} ELSE touched \ {Target}
    /\ IF Moves THEN step' = "remove" /\ UNCHANGED <<call, hunks, look, reply, raced>> ELSE Proceed
    /\ UNCHANGED <<cache, agent, saved, unsaved, cancelled, calls, edits, answer, granted>>

Put ==
    /\ step = "put"
    /\ disk' = [disk EXCEPT ![Target] = look.will]
    /\ IF Moves
         THEN /\ step' = "remove"
              /\ touched' = touched \cup {Target}
              /\ UNCHANGED <<cache, call, hunks, look, reply, raced>>
         ELSE /\ cache' = [cache EXCEPT ![Target] = look.will]
              /\ touched' = touched \ {Target}
              /\ Proceed
    /\ UNCHANGED <<agent, saved, unsaved, cancelled, calls, edits, answer, granted>>

(* A file deleted, or moved away.  The cache forgets it and knows the new one;    *)
(* a text moved onto itself is gone, and the cache has it.                      *)
RemoveFile ==
    /\ \/ step = "look" /\ Now.op = "delete"
       \/ step = "remove"
    /\ IF disk[Source] = Absent
         THEN /\ IF Moves THEN Result("io") ELSE Proceed
              /\ UNCHANGED <<disk, cache, touched>>
         ELSE /\ disk' = [disk EXCEPT ![Source] = Absent]
              /\ cache' = IF Moves
                            THEN [cache EXCEPT ![Source] = Unread, ![Target] = look.will]
                            ELSE [cache EXCEPT ![Source] = Unread]
              /\ touched' = IF Moves /\ Source = Target THEN touched
                            ELSE IF disk[Target] = look.will THEN touched \ {Source, Target}
                            ELSE touched \ {Source}
              /\ Proceed
    /\ UNCHANGED <<agent, saved, unsaved, cancelled, calls, edits, answer, granted>>

(* An operation on the file system fails; a write may leave an empty file.        *)
Fails ==
    /\ step \in {"look", "put", "remove"}
    /\ Result("io")
    /\ \/ UNCHANGED <<disk, touched>>
       \/ /\ step = "put"
          /\ disk' = [disk EXCEPT ![Target] = Text(<<>>)]
          /\ touched' = touched \cup {Target}
    /\ UNCHANGED <<cache, agent, saved, unsaved, cancelled, calls, edits, answer, granted>>

(* BashTool::run.  A command that is aborted, or times out, keeps running: what    *)
(* it does then is among the changes by others, as is what it does before.       *)
CommandEnds ==
    /\ step = "command"
    /\ IF cancelled THEN Result("aborted") ELSE \E why \in {"done", "failed"} : Result(why)
    /\ UNCHANGED <<disk, cache, agent, saved, unsaved, cancelled, calls, edits,
                   answer, granted, touched>>

OthersEdit(f, t) ==
    /\ edits < MaxEdits
    /\ disk[f] # t
    /\ edits' = edits + 1
    /\ disk' = [disk EXCEPT ![f] = t]
    /\ touched' = touched \cup {f}
    /\ raced' = (raced \/ (step = "put" /\ f = Source))
    /\ UNCHANGED <<cache, agent, saved, unsaved, toolVars, cancelled, calls, answer, granted>>

Next ==
    \/ \E c \in Calls : Request(c)
    \/ \E a \in {"once", "always", "deny"} : Answer(a)
    \/ \E r \in unsaved : SaveRule(r)
    \/ Resume \/ AskCancelled \/ Abort \/ NewActivity
    \/ Start \/ Read \/ Look \/ Put \/ RemoveFile \/ Fails \/ CommandEnds
    \/ \E f \in Files, t \in Texts : OthersEdit(f, t)

Spec == Init /\ [][Next]_vars

-----------------------------------------------------------------------------
(* Properties.                                                               *)

TypeOK ==
    /\ DOMAIN disk = Files /\ DOMAIN cache = Files
    /\ \A f \in Files : Unread # disk[f] /\ cache[f] # Absent
    /\ step \in Steps /\ reply \in Reasons
    /\ call \in Calls
    /\ saved \cup unsaved \subseteq granted
    /\ (step \in {"look", "put", "remove"}) <=> (hunks # <<>>)
    /\ touched \subseteq Files
    /\ raced => step \in {"put", "remove"}

(* What the user, and not a rule, has to allow: writing for any agent that may      *)
(* write, commands but for explore, secrets and what lies outside.               *)
Reserved(c) ==
    \/ Class(c) = "write_file"
    \/ Class(c) = "bash" /\ agent # "explore"
    \/ Class(c) = "read_file" /\ (Beyond(c) \/ Last(Resource(c)) = ".env")

(* A call runs only if nobody has to allow it, the user said yes to it, or the      *)
(* user asked for such calls to be allowed, whatever rules were saved, by            *)
(* whichever activity, in the meantime; and an agent that must not write never        *)
(* does (evaluate, last_match, the permission prompt).                          *)
Consented ==
    step \in {"look", "put", "remove", "command"} =>
        /\ Class(call) = "write_file" => agent \notin {"plan", "explore"}
        /\ Reserved(call) => answer \in {"once", "always"} \/ RuleOf(call) \in granted

(* The read cache of the activity is the text of the file, unless someone else       *)
(* changed it: no call of its own, nor a file's other spelling, makes it stale,       *)
(* so that no later edit is refused for nothing (file_read_cache).               *)
CacheTruthful ==
    \A f \in Files \ touched :
        cache[f] # Unread /\ step \in {"idle", "ask", "run", "look"} => cache[f] = disk[f]

Overwrites(f) == step = "put" /\ step' # "put" /\ Target = f /\ disk' # disk
Unseen(f)     == cache[f] \notin {Unread, disk[f]} /\ disk[f] # Absent /\ ~raced

(* write_file, edit and the update of a patch never replace a text that others left   *)
(* in a file the activity had read, but for a change after the guard looked.       *)
OthersKept ==
    [][\A f \in Files : Overwrites(f) /\ Now.op # "add" /\ ~Moves => ~Unseen(f)]_vars

(* u with its line ends as plain line feeds is w with one occurrence of old replaced,   *)
(* and there was no second one.                                               *)
ReplacedOnce(w, u, old, new) ==
    \E i \in Finds(w, old) :
        /\ u = SubSeq(w, 1, i) \o new \o SubSeq(w, i + Len(old) + 1, Len(w))
        /\ \A j \in Finds(w, old) : j < i + Len(old) /\ i < j + Len(old)

SameKind(was, will) ==
    /\ was.bom = will.bom
    /\ IF Crlf(was.body) THEN "lf" \notin ToSet(will.body) ELSE "crlf" \notin ToSet(will.body)

(* What the edit tool writes is the file with the one occurrence of the old text       *)
(* replaced and nothing else changed: byte order mark and line ends stay            *)
(* (EditTool::run).                                                          *)
EditExact ==
    step = "put" /\ Now.op = "edit" =>
        LET c == Now.chunks[1] IN
        /\ ReplacedOnce(Unix(look.was.body), Unix(look.will.body), Unix(c.old), Unix(c.new))
        /\ SameKind(look.was, look.will)

(* The lines with, at the place of each chunk, its new lines for its old ones.         *)
Rebuilt(lines, chunks, at) ==
    LET Covered(k)  == \E j \in DOMAIN chunks : k \in (at[j] + 1)..(at[j] + Len(chunks[j].old))
        Inserted(i) == FlattenSeq([j \in DOMAIN chunks |-> IF at[j] = i THEN chunks[j].new ELSE <<>>])
    IN  FlattenSeq([k \in 1..(Len(lines) + 1) |->
            Inserted(k - 1) \o (IF k > Len(lines) \/ Covered(k) THEN <<>> ELSE <<lines[k]>>)])

(* What a patch writes is the file with each chunk's lines replaced where they stand,    *)
(* in the order of the chunks, no line for two of them (an empty last line of a chunk     *)
(* may find none), and with every other line, the byte order mark and the kind of         *)
(* line end kept (compute_replacements, apply_replacements).                     *)
PatchExact ==
    step = "put" /\ Now.op = "update" =>
        LET lines == Lines(look.was.body)
            Loose(c) == IF Trailing(c.old) THEN [c EXCEPT !.old = Shorter(@), !.new = Shorter(@)] ELSE c
        IN  /\ SameKind(look.was, look.will)
            /\ \E loose \in SUBSET DOMAIN Now.chunks :
                LET cs == [j \in DOMAIN Now.chunks |->
                              IF j \in loose THEN Loose(Now.chunks[j]) ELSE Now.chunks[j]]
                IN \E at \in [DOMAIN cs -> 0..Len(lines)] :
                  /\ \A j \in DOMAIN cs :
                        /\ at[j] + Len(cs[j].old) <= Len(lines)
                        /\ \A k \in DOMAIN cs[j].old : Alike(4, lines[at[j] + k], cs[j].old[k])
                  /\ \A i, j \in DOMAIN cs :
                        i < j /\ cs[i].old # <<>> /\ cs[j].old # <<>> => at[i] + Len(cs[i].old) <= at[j]
                  /\ Lines(look.will.body) = Rebuilt(lines, cs, at)

(* The text a tool writes is the one its call describes, edit or patch.         *)
Exact == TypeOK /\ EditExact /\ PatchExact
===============================================================================
