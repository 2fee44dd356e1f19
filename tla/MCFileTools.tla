----------------------------- MODULE MCFileTools -----------------------------
EXTENDS FileTools

MCFiles   == {"a", "b"}
MCFileOf  == [n \in {"a", "./a", "b", "k.env", "/etc"} |->
                 CASE n = "./a" -> "a" [] n = "k.env" -> "b" [] n = "/etc" -> Outside [] OTHER -> n]
MCSpelled == [n \in DOMAIN MCFileOf |->
                 CASE n = "./a" -> <<".", "a">> [] n = "k.env" -> <<"k", ".env">> [] OTHER -> <<n>>]

L(c) == <<c>>
NoCall == [tool |-> "bash", name |-> "a", said |-> L("ls"), old |-> <<>>, new |-> <<>>, patch |-> <<>>]
Of(tool, name) == [NoCall EXCEPT !.tool = tool, !.name = name]
Patch(said, lines) == [NoCall EXCEPT !.tool = "patch", !.said = L(said), !.patch =
                    <<PatchLine("begin", NoPath, <<>>)>> \o lines \o <<PatchLine("end", NoPath, <<>>)>>]
Op(mark, path)   == PatchLine(mark, path, NoLine)
Line(mark, text) == PatchLine(mark, NoPath, text)
At               == Line("@@", NoLine)

MCCalls ==
    { NoCall, Of("read", "a"), Of("read", "k.env"), Of("read", "/etc"),
      [Of("write", "a") EXCEPT !.new = <<"z">>],
      [Of("edit", "./a") EXCEPT !.old = <<"y">>, !.new = <<"z", "lf", "z">>],
      Patch("nothing", <<>>),
      Patch("twice", <<Op("update", "a"), At, Line("-", L("y")), Line("+", L("z")),
              At, Line("-", L("y")), Line("+", <<>>)>>),
      Patch("move", <<Op("update", "a"), Op("move", "b"), At, Line(" ", L("x")), Line("-", L("y")), Line(" ", <<>>)>>),
      Patch("eof", <<Op("update", "b"), Line("@@", L("'")), Line("+", L("z")),
              At, Line("-", L("y")), Line("+", L("x")), Line("eof", <<>>)>>),
      Patch("delete", <<Op("delete", "a"), Op("add", "b"), Line("+", L("x")), Line("+", L("y"))>>) }

MCTexts == { Absent, Text(<<"x", "lf", "_", "y", "lf", "y">>), Text(<<"y">>),
             [bom |-> TRUE, body |-> <<"quote", "crlf", "y", "crlf">>] }
==============================================================================
