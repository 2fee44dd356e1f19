------------------------------ MODULE TextEdits ------------------------------
(***************************************************************************)
(* What the file tools do to a text: the exact replacement of the edit tool,    *)
(* the envelope of the patch tool, the search for a chunk's lines and the       *)
(* replacements it leads to.                                                  *)
(*                                                                         *)
(* A text is a byte order mark or none and a body, a sequence of characters in   *)
(* which a line end is one character, "lf" or "crlf", and "_" is white space.    *)
(* "'" stands for a character that has a typographic twin, "quote".             *)
(***************************************************************************)
EXTENDS Integers, Sequences, FiniteSets, SequencesExt

Text(body) == [bom |-> FALSE, body |-> body]
Absent     == [bom |-> FALSE, body |-> <<"absent">>]

LineEnds == {"lf", "crlf"}
Crlf(s)  == "crlf" \in ToSet(s)
Mixed(s) == LineEnds \subseteq ToSet(s)
Unix(s)  == [k \in DOMAIN s |-> IF s[k] = "crlf" THEN "lf" ELSE s[k]]
Dos(s)   == [k \in DOMAIN s |-> IF s[k] = "lf" THEN "crlf" ELSE s[k]]

(* Part(s, i, n): the n elements of s after the first i.                       *)
Part(s, i, n) == SubSeq(s, i + 1, i + n)

-----------------------------------------------------------------------------
(* EditTool::run.                                                            *)

Finds(s, t) == {i \in 0..(Len(s) - Len(t)) : Part(s, i, Len(t)) = t}

(* One occurrence, as match_indices counts: from left to right, not overlapping. *)
Once(s, t) ==
    /\ Finds(s, t) # {}
    /\ \A i \in Finds(s, t) : i < Min(Finds(s, t)) + Len(t)

(* Edited, if the line ends stayed as the search left them.                    *)
EditedUnix(text, old, new) ==
    LET body == Unix(text.body)
        at   == Min(Finds(body, Unix(old)))
    IN  [text EXCEPT !.body = Part(body, 0, at) \o Unix(new)
                                \o SubSeq(body, at + Len(old) + 1, Len(body))]

(* The replacement is made with line feeds; a text with a CRLF in it gets them   *)
(* everywhere.                                                                *)
Edited(text, old, new) ==
    LET body   == Unix(text.body)
        at     == Min(Finds(body, Unix(old)))
        edited == Part(body, 0, at) \o Unix(new) \o SubSeq(body, at + Len(old) + 1, Len(body))
    IN  [text EXCEPT !.body = IF Crlf(text.body) THEN Dos(edited) ELSE edited]

-----------------------------------------------------------------------------
(* parse_patch: the lines of an envelope, by the mark they begin with.          *)

PatchLine(mark, path, text) == [mark |-> mark, path |-> path, text |-> text]
Stars   == {"add", "delete", "update", "move", "eof"}
NoLine  == <<"none">>
NoPath  == "none"
Chunk(ctx)     == [ctx |-> ctx, old |-> <<>>, new |-> <<>>]
Hunk(op, path) == [op |-> op, path |-> path, to |-> NoPath, text |-> <<>>, chunks |-> <<>>]

Marked(s, m) == {k \in DOMAIN s : s[k].mark = m}
WellFormed(s) ==
    /\ Marked(s, "begin") # {} /\ Marked(s, "end") # {}
    /\ Min(Marked(s, "begin")) < Min(Marked(s, "end"))
Enveloped(s) == SubSeq(s, Min(Marked(s, "begin")) + 1, Min(Marked(s, "end")) - 1)

InLast(hs, f(_)) == [hs EXCEPT ![Len(hs)] = f(@)]

(* A line of stars ends whatever was being read; "*** Move to:" counts right     *)
(* after an update, and "*** End of File" nowhere, for it begins with stars.     *)
Parsed(s) ==
    LET Extend(h, l) ==
            [h EXCEPT !.chunks[Len(h.chunks)] =
                [@ EXCEPT !.old = IF l.mark \in {" ", "-"} THEN Append(@, l.text) ELSE @,
                          !.new = IF l.mark \in {" ", "+"} THEN Append(@, l.text) ELSE @]]
        AddLine(h, l) == [h EXCEPT !.text = (IF @ = <<>> THEN @ ELSE Append(@, "lf")) \o l.text]
        Read(p, l) ==
            CASE l.mark \in {"add", "update"} ->
                     [mode |-> l.mark, hunks |-> Append(p.hunks, Hunk(l.mark, l.path))]
              [] l.mark = "delete" -> [mode |-> "top", hunks |-> Append(p.hunks, Hunk("delete", l.path))]
              [] l.mark = "move" /\ p.mode = "update" ->
                     [mode |-> "chunks", hunks |-> InLast(p.hunks, LAMBDA h : [h EXCEPT !.to = l.path])]
              [] l.mark \in Stars \ {"add", "update", "delete"} /\ ~(l.mark = "move" /\ p.mode = "update") ->
                     [p EXCEPT !.mode = "top"]
              [] l.mark = "+" /\ p.mode = "add" ->
                     [p EXCEPT !.hunks = InLast(@, LAMBDA h : AddLine(h, l))]
              [] l.mark = "@@" /\ p.mode \in {"update", "chunks", "chunk"} ->
                     [mode |-> "chunk", hunks |-> InLast(p.hunks,
                          LAMBDA h : [h EXCEPT !.chunks = Append(@, Chunk(l.text))])]
              [] l.mark \in {" ", "-", "+"} /\ p.mode = "chunk" ->
                     [p EXCEPT !.hunks = InLast(@, LAMBDA h : Extend(h, l))]
              [] OTHER -> IF p.mode = "update" THEN [p EXCEPT !.mode = "chunks"] ELSE p
    IN  FoldLeft(Read, [mode |-> "top", hunks |-> <<>>], Enveloped(s)).hunks

-----------------------------------------------------------------------------
(* compute_replacements and apply_replacements.                               *)

(* str::lines.                                                               *)
Lines(body) ==
    LET Read(r, c) == IF c \in LineEnds
                        THEN [done |-> Append(r.done, r.line), line |-> <<>>]
                        ELSE [r EXCEPT !.line = Append(@, c)]
        all == FoldLeft(Read, [done |-> <<>>, line |-> <<>>], body)
    IN  IF all.line = <<>> THEN all.done ELSE Append(all.done, all.line)

Inked(l)       == {k \in DOMAIN l : l[k] # "_"}
TrimEnd(l)     == IF Inked(l) = {} THEN <<>> ELSE SubSeq(l, 1, Max(Inked(l)))
Trim(l)        == IF Inked(l) = {} THEN <<>> ELSE SubSeq(l, Min(Inked(l)), Max(Inked(l)))
Straight(l)    == [k \in DOMAIN l |-> IF l[k] = "quote" THEN "'" ELSE l[k]]
Alike(pass, l, m) ==
    CASE pass = 1 -> l = m
      [] pass = 2 -> TrimEnd(l) = TrimEnd(m)
      [] pass = 3 -> Trim(l) = Trim(m)
      [] pass = 4 -> Straight(Trim(l)) = Straight(Trim(m))

(* The lines of a pattern are compared one by one until two differ.  At the      *)
(* start of a text with fewer lines than the pattern the comparison runs past    *)
(* the last line: the task panics.                                            *)
Found(lines, pattern, from, pass) ==
    {i \in from..(Len(lines) - Len(pattern)) :
        \A j \in DOMAIN pattern : Alike(pass, lines[i + j], pattern[j])}
Overruns(lines, pattern, from, pass) ==
    /\ from = 0
    /\ Len(lines) < Len(pattern)
    /\ \A j \in DOMAIN lines : Alike(pass, lines[j], pattern[j])

NotFound == -1
Panic    == -2

(* seek_sequence: each pass is looser than the one before.                     *)
Seek(lines, pattern, from) ==
    LET Hits(p)    == Found(lines, pattern, from, p)
                        \cup (IF Overruns(lines, pattern, from, p) THEN {Panic} ELSE {})
        Best(ends) == IF ends = {} THEN NotFound ELSE Min(Hits(Min(ends)))
    IN  IF pattern = <<>> THEN NotFound ELSE Best({p \in 1..4 : Hits(p) # {}})

Trailing(s) == s # <<>> /\ Last(s) = <<>>
Shorter(s)  == IF Trailing(s) THEN Front(s) ELSE s

(* Placed, if every chunk were searched from the top.                          *)
PlacedFromTop(lines, c, at) ==
    LET i == Seek(lines, c.old, 0)
    IN  IF c.old = <<>> THEN [at |-> at, from |-> Len(lines), n |-> 0, new |-> c.new]
        ELSE [at |-> i + Len(c.old), from |-> i, n |-> Len(c.old), new |-> c.new]

(* Where a chunk goes, with the search starting after at: past its context line,  *)
(* and at the end of the text if it takes nothing away.  What is not found has a   *)
(* negative place.                                                            *)
Placed(lines, c, at) ==
    LET Instead(old, new, i) == [at |-> i + Len(old), from |-> i, n |-> Len(old), new |-> new]
        Exactly(start, i) ==
            IF i = NotFound /\ Trailing(c.old)
              THEN Instead(Shorter(c.old), Shorter(c.new), Seek(lines, Shorter(c.old), start))
              ELSE Instead(c.old, c.new, i)
        After(start) ==
            IF c.old = <<>> THEN [at |-> start, from |-> Len(lines), n |-> 0, new |-> c.new]
            ELSE Exactly(start, Seek(lines, c.old, start))
        Past(ctx) == IF ctx < 0 THEN [at |-> at, from |-> ctx, n |-> 0, new |-> <<>>] ELSE After(ctx + 1)
    IN  IF c.ctx = NoLine THEN After(at) ELSE Past(Seek(lines, <<c.ctx>>, at))

(* The replacements of a list of chunks, up to the first that has no place.       *)
Replacements(lines, chunks) ==
    LET From(reps)    == IF reps = <<>> THEN 0 ELSE Last(reps).at
        Take(reps, c) == IF reps # <<>> /\ Last(reps).from < 0 THEN reps
                         ELSE Append(reps, Placed(lines, c, From(reps)))
    IN  FoldLeft(Take, <<>>, chunks)

Failure(reps) == CASE reps # <<>> /\ Last(reps).from = Panic    -> "panic"
                   [] reps # <<>> /\ Last(reps).from = NotFound -> "failed"
                   [] OTHER -> ""

(* The replacements are sorted by their places and made from the last to the     *)
(* first.                                                                     *)
Replaced(lines, reps) ==
    LET order == SetToSortSeq(DOMAIN reps, LAMBDA i, j :
                     reps[i].from < reps[j].from \/ (reps[i].from = reps[j].from /\ i < j))
        Replace(ls, k) == SubSeq(ls, 1, reps[k].from) \o reps[k].new
                            \o SubSeq(ls, reps[k].from + reps[k].n + 1, Len(ls))
    IN  FoldLeft(Replace, lines, Reverse(order))

Joined(lines, end) ==
    FlattenSeq([k \in DOMAIN lines |-> IF k = 1 THEN lines[k] ELSE <<end>> \o lines[k]])

(* PatchTool::run, a hunk that updates: the text keeps its byte order mark, its    *)
(* kind of line end and its last line's end.                                   *)
Patched(text, chunks) ==
    LET end  == IF Crlf(text.body) THEN "crlf" ELSE "lf"
        body == Joined(Replaced(Lines(text.body), Replacements(Lines(text.body), chunks)), end)
    IN  [text EXCEPT !.body =
            IF body # <<>> /\ text.body # <<>> /\ Last(text.body) \in LineEnds THEN Append(body, end) ELSE body]
===============================================================================
