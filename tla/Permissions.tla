------------------------------ MODULE Permissions ------------------------------
(***************************************************************************)
(* permissions.rs: the rules of an agent, the rules the user saved, and how a   *)
(* tool call is judged by them.  A resource is a sequence of tokens; "*" and     *)
(* "?" in a pattern stand for any tokens and for one.                          *)
(***************************************************************************)
EXTENDS Integers, Sequences, FiniteSets, FiniteSetsExt

(* match_resource: at[i] tokens of the resource are taken by the first i of the   *)
(* pattern.                                                                  *)
Matches(pattern, resource) ==
    \E at \in [0..Len(pattern) -> 0..Len(resource)] :
        /\ at[0] = 0 /\ at[Len(pattern)] = Len(resource)
        /\ \A i \in DOMAIN pattern :
              IF pattern[i] = "*" THEN at[i - 1] <= at[i]
              ELSE at[i] = at[i - 1] + 1 /\ pattern[i] \in {"?", resource[at[i]]}

Anything == <<"*">>
Rule(action, resource, decision) ==
    [action |-> action, resource |-> resource, decision |-> decision]

(* Secrets are asked for even where reading is free.                           *)
EnvRules == << Rule("read_file", <<"*", ".env">>, "ask"),
               Rule("read_file", <<"*", ".env", ".", "*">>, "ask"),
               Rule("read_file", <<"*", ".env", ".", "example">>, "allow") >>
Reads == << Rule("read_file", Anything, "allow"), Rule("glob", Anything, "allow"), Rule("grep", Anything, "allow") >>
Asks(actions) == [k \in DOMAIN actions |-> Rule(actions[k], Anything, "ask")]

agent_default_rules(agent) ==
    CASE agent = "plan" ->
             <<Rule("*", Anything, "ask")>> \o Reads
               \o << Rule("write_file", Anything, "deny"), Rule("edit", Anything, "deny"),
                     Rule("patch", Anything, "deny"), Rule("bash", Anything, "ask") >> \o EnvRules
      [] agent = "explore" ->
             <<Rule("*", Anything, "deny")>> \o Reads
               \o << Rule("web_fetch", Anything, "allow"), Rule("bash", Anything, "allow") >> \o EnvRules
      [] agent = "general" ->
             <<Rule("*", Anything, "allow")>>
               \o Asks(<<"write_file", "edit", "patch", "bash", "web_fetch", "mcp">>) \o EnvRules
      [] OTHER ->
             Reads \o Asks(<<"write_file", "edit", "patch", "bash", "web_fetch", "mcp">>) \o EnvRules

Speaks(r, action, resource) == r.action \in {"*", action} /\ Matches(r.resource, resource)
Speaking(rules, action, resource) == {k \in DOMAIN rules : Speaks(rules[k], action, resource)}

(* last_match, if the first rule that speaks won.                              *)
first_match(rules, action, resource) ==
    LET ks == Speaking(rules, action, resource)
    IN  IF ks = {} THEN "none" ELSE rules[Min(ks)].decision

last_match(rules, action, resource) ==
    LET ks == Speaking(rules, action, resource)
    IN  IF ks = {} THEN "none" ELSE rules[Max(ks)].decision

(* An agent's refusal stands; a saved rule allows; what no rule speaks of is       *)
(* asked; and so is a path outside the workspace that would be allowed.         *)
evaluate(action, resource, agent, saved, outside) ==
    LET own      == last_match(agent_default_rules(agent), action, resource)
        spoken   == IF \E s \in saved : Speaks(s, action, resource) THEN "allow" ELSE own
        decision == IF spoken = "none" THEN "ask" ELSE spoken
    IN  IF own = "deny" THEN "deny"
        ELSE IF decision = "allow" /\ outside /\ action \in {"read_file", "write_file"} THEN "ask"
        ELSE decision
===============================================================================
