---------------------------- MODULE FileToolsProofs ----------------------------
(***************************************************************************)
(* Proofs about FileTools, for every set of files, spellings and calls and any    *)
(* bounds: what runs was consented to, the read cache tells the truth, the        *)
(* guards keep what others wrote, and an edit changes one occurrence.            *)
(*                                                                         *)
(* First which resources a pattern matches and which rule of a list decides,      *)
(* then what the lists of the agents say of what is reserved; from these the      *)
(* decision on a call, and the invariant that carries it to the end of the call.  *)
(***************************************************************************)
EXTENDS FileTools, SequenceTheorems, WellFoundedInduction, TLAPS

(* A set of numbers has a least one.                                          *)
LEMMA Least ==
  ASSUME NEW T, T \subseteq Nat, T # {}
  PROVE  \E x \in T : \A y \in T : x <= y
  <1>1. PICK x \in T : \A y \in T : ~ (<<y, x>> \in OpToRel(<,Nat))
    BY WFMin, NatLessThanWellFounded, Zenon
  <1>2. \A y \in T : ~ (y < x)
    BY <1>1 DEF OpToRel
  <1>3. QED
    BY <1>2

(* A set with a bound has a greatest one.                                      *)
LEMMA Maximum ==
  ASSUME NEW T, T # {}, NEW b \in Nat, T \subseteq 0..b
  PROVE  Max(T) \in T /\ \A y \in T : y <= Max(T)
  <1> DEFINE U == {b - y : y \in T}
  <1>1. U \subseteq Nat /\ U # {}
    <2>1. \A y \in T : b - y \in Nat
      OBVIOUS
    <2>2. QED
      BY <2>1
  <1>2. PICK u \in U : \A y \in U : u <= y
    BY <1>1, Least
  <1>3. PICK x \in T : u = b - x
    OBVIOUS
  <1>4. \A y \in T : x >= y
    <2> TAKE y \in T
    <2>1. u <= b - y
      BY <1>2
    <2>2. QED
      BY <1>3, <2>1
  <1>5. QED
    BY <1>4 DEF Max

-----------------------------------------------------------------------------
(* Which resources a pattern matches.                                         *)

(* "*" alone matches everything.                                              *)
LEMMA AnythingMatches ==
  ASSUME NEW S, NEW r \in Seq(S)
  PROVE  Matches(Anything, r)
  <1> DEFINE at == [i \in 0..1 |-> IF i = 0 THEN 0 ELSE Len(r)]
  <1>1. Len(Anything) = 1 /\ Anything[1] = "*" /\ DOMAIN Anything = 1..1
    BY DEF Anything
  <1>2. at \in [0..1 -> 0..Len(r)] /\ at[0] = 0 /\ at[1] = Len(r)
    OBVIOUS
  <1>3. \A i \in 1..1 : at[i - 1] <= at[i]
    BY <1>2
  <1> HIDE DEF at
  <1>4. \A i \in DOMAIN Anything : Anything[i] = "*" /\ at[i - 1] <= at[i]
    BY <1>1, <1>3
  <1>5. QED
    BY <1>1, <1>2, <1>4 DEF Matches

(* "*.env" matches what ends in ".env"...                                      *)
LEMMA EnvMatches ==
  ASSUME NEW S, NEW r \in Seq(S), r # <<>>, Last(r) = ".env"
  PROVE  Matches(<<"*", ".env">>, r)
  <1> DEFINE p == <<"*", ".env">>
             at == [i \in 0..2 |-> IF i = 0 THEN 0 ELSE IF i = 1 THEN Len(r) - 1 ELSE Len(r)]
  <1>1. Len(p) = 2 /\ p[1] = "*" /\ p[2] = ".env" /\ DOMAIN p = 1..2
    OBVIOUS
  <1>2. Len(r) \in Nat \ {0}
    BY EmptySeq, LenProperties
  <1>3. at \in [0..2 -> 0..Len(r)] /\ at[0] = 0 /\ at[1] = Len(r) - 1 /\ at[2] = Len(r)
    BY <1>2
  <1>4. \A i \in 1..2 :
          IF p[i] = "*" THEN at[i - 1] <= at[i]
          ELSE at[i] = at[i - 1] + 1 /\ p[i] \in {"?", r[at[i]]}
    <2> HIDE DEF at, p
    <2>1. at[1 - 1] <= at[1]
      BY <1>2, <1>3
    <2>2. at[2] = at[2 - 1] + 1 /\ p[2] \in {"?", r[at[2]]}
      BY <1>1, <1>2, <1>3 DEF Last
    <2>3. QED
      BY <1>1, <2>1, <2>2
  <1> HIDE DEF at
  <1>5. QED
    BY <1>1, <1>3, <1>4 DEF Matches

(* ... and "*.env.example" does not.                                           *)
LEMMA ExampleDoesNot ==
  ASSUME NEW S, NEW r \in Seq(S), r # <<>>, Last(r) = ".env"
  PROVE  ~ Matches(<<"*", ".env", ".", "example">>, r)
  <1> DEFINE p == <<"*", ".env", ".", "example">>
  <1>1. Len(p) = 4 /\ p[4] = "example" /\ DOMAIN p = 1..4
    OBVIOUS
  <1> HIDE DEF p
  <1>2. SUFFICES ASSUME NEW at, at[Len(p)] = Len(r),
                        \A i \in DOMAIN p :
                            IF p[i] = "*" THEN at[i - 1] <= at[i]
                            ELSE at[i] = at[i - 1] + 1 /\ p[i] \in {"?", r[at[i]]}
                 PROVE  FALSE
    BY DEF Matches, p
  <1>3. p[4] \in {"?", r[at[4]]}
    BY <1>1, <1>2
  <1>4. QED
    BY <1>1, <1>2, <1>3 DEF Last

(* A pattern with no wildcard in it matches itself only.                        *)
Literal(s) == \A k \in DOMAIN s : s[k] \notin {"*", "?"}

(* ... since its tokens are taken one by one.                               *)
LEMMA LiteralMatches ==
  ASSUME NEW S, NEW p \in Seq(S), NEW T, NEW r \in Seq(T), Literal(p), Matches(p, r)
  PROVE  p = r
  <1>1. PICK at \in [0..Len(p) -> 0..Len(r)] :
           /\ at[0] = 0 /\ at[Len(p)] = Len(r)
           /\ \A i \in DOMAIN p :
                 IF p[i] = "*" THEN at[i - 1] <= at[i]
                 ELSE at[i] = at[i - 1] + 1 /\ p[i] \in {"?", r[at[i]]}
    BY DEF Matches
  <1>2. DOMAIN p = 1..Len(p) /\ Len(p) \in Nat /\ Len(r) \in Nat /\ DOMAIN r = 1..Len(r)
    BY LenProperties
  <1>3. \A i \in 1..Len(p) : at[i] = at[i - 1] + 1 /\ p[i] = r[at[i]]
    BY <1>1, <1>2 DEF Literal
  <1>4. \A i \in 0..Len(p) : at[i] = i
    <2> DEFINE W == {i \in 0..Len(p) : at[i] # i}
    <2>1. SUFFICES W = {}
      OBVIOUS
    <2>2. SUFFICES ASSUME W # {} PROVE FALSE
      OBVIOUS
    <2>3. W \subseteq Nat
      BY <1>2
    <2>4. PICK x \in W : \A y \in W : x <= y
      BY <2>2, <2>3, Least
    <2>5. x \in 1..Len(p) /\ x - 1 \in 0..Len(p)
      BY <1>1, <1>2, <2>4
    <2>6. x - 1 \notin W
      BY <2>4, <2>5
    <2>7. at[x - 1] = x - 1
      BY <2>5, <2>6
    <2>8. QED
      BY <1>3, <2>4, <2>5, <2>7
  <1>5. Len(p) = Len(r)
    <2>1. Len(p) \in 0..Len(p)
      BY <1>2
    <2>2. QED
      BY <1>1, <1>4, <2>1
  <1>6. \A i \in 1..Len(p) : p[i] = r[i]
    BY <1>3, <1>4
  <1>7. QED
    BY <1>2, <1>5, <1>6, SeqEqual

-----------------------------------------------------------------------------
(* The rules of the agents.                                                  *)

Actions   == {"*", "read_file", "glob", "grep", "write_file", "edit", "patch", "bash", "web_fetch", "mcp"}
Patterns  == {Anything, <<"*", ".env">>, <<"*", ".env", ".", "*">>, <<"*", ".env", ".", "example">>}
Decisions == {"allow", "ask", "deny"}
Rules     == [action : Actions, resource : Patterns, decision : Decisions]

(* From the n-th rule on, which speaks, whatever speaks decides d.               *)
DecidedFrom(rules, action, resource, n, d) ==
    /\ n \in DOMAIN rules /\ Speaks(rules[n], action, resource)
    /\ \A k \in DOMAIN rules : k >= n /\ Speaks(rules[k], action, resource) => rules[k].decision = d

(* The last rule that speaks decides.                                        *)
LEMMA LastSpeaker ==
  ASSUME NEW rules \in Seq(Rules), NEW action, NEW resource, NEW d, NEW n,
         DecidedFrom(rules, action, resource, n, d)
  PROVE  last_match(rules, action, resource) = d
  <1> DEFINE ks == Speaking(rules, action, resource)
  <1>1. n \in ks /\ ks \subseteq DOMAIN rules
    BY DEF Speaking, DecidedFrom
  <1>2. DOMAIN rules = 1..Len(rules) /\ Len(rules) \in Nat
    BY LenProperties
  <1>3. ks \subseteq 0..Len(rules) /\ ks # {}
    BY <1>1, <1>2
  <1>4. Max(ks) \in ks /\ \A k \in ks : k <= Max(ks)
    <2> HIDE DEF ks
    <2>1. QED
      BY <1>2, <1>3, Maximum
  <1>5. Max(ks) \in DOMAIN rules /\ Max(ks) >= n /\ Speaks(rules[Max(ks)], action, resource)
    BY <1>1, <1>2, <1>4 DEF Speaking, DecidedFrom
  <1>6. last_match(rules, action, resource) = rules[Max(ks)].decision
    BY <1>3 DEF last_match
  <1>7. QED
    BY <1>5, <1>6 DEF DecidedFrom

(* What comes later goes first...                                             *)
LEMMA LaterDecides ==
  ASSUME NEW s \in Seq(Rules), NEW t \in Seq(Rules), NEW action, NEW resource,
         Speaking(t, action, resource) # {}
  PROVE  last_match(s \o t, action, resource) = last_match(t, action, resource)
  <1> DEFINE ks == Speaking(t, action, resource)
  <1>1. /\ DOMAIN t = 1..Len(t) /\ Len(t) \in Nat
        /\ DOMAIN s = 1..Len(s) /\ Len(s) \in Nat
    BY LenProperties
  <1>2. ks \subseteq 1..Len(t) /\ ks # {}
    BY <1>1 DEF Speaking
  <1>3. Max(ks) \in ks /\ \A k \in ks : k <= Max(ks)
    <2>1. ks \subseteq 0..Len(t)
      BY <1>1, <1>2
    <2> HIDE DEF ks
    <2>2. QED
      BY <1>1, <1>2, <2>1, Maximum
  <1> DEFINE st == s \o t
             n  == Len(s) + Max(ks)
  <1>4. /\ st \in Seq(Rules)
        /\ DOMAIN st = 1..(Len(s) + Len(t))
        /\ \A k \in 1..Len(t) : st[Len(s) + k] = t[k]
    BY <1>1
  <1> HIDE DEF st
  <1>5. n \in DOMAIN st /\ st[n] = t[Max(ks)] /\ Speaks(st[n], action, resource)
    BY <1>1, <1>2, <1>3, <1>4 DEF Speaking
  <1>6. \A k \in DOMAIN st :
           k >= n /\ Speaks(st[k], action, resource) => st[k].decision = t[Max(ks)].decision
    <2> SUFFICES ASSUME NEW k \in DOMAIN st, k >= n, Speaks(st[k], action, resource)
                 PROVE  st[k].decision = t[Max(ks)].decision
      OBVIOUS
    <2>0. Max(ks) \in 1..Len(t)
      BY <1>2, <1>3
    <2>1. k - Len(s) \in 1..Len(t) /\ k = Len(s) + (k - Len(s))
      <3> HIDE DEF ks
      <3>1. QED
        BY <1>1, <1>4, <2>0
    <2>2. st[k] = t[k - Len(s)]
      BY <1>4, <2>1
    <2>3. k - Len(s) \in ks
      BY <1>1, <2>1, <2>2 DEF Speaking
    <2>4. k - Len(s) <= Max(ks) /\ Max(ks) \in Nat
      BY <1>2, <1>3, <2>3
    <2>5. k = n
      BY <1>1, <2>1, <2>4
    <2>6. QED
      BY <1>5, <2>5
  <1>7. last_match(st, action, resource) = t[Max(ks)].decision
    <2> HIDE DEF n, ks
    <2>1. PICK d : d = t[Max(ks)].decision
      OBVIOUS
    <2>2. DecidedFrom(st, action, resource, n, d)
      BY <1>5, <1>6, <2>1 DEF DecidedFrom
    <2>3. last_match(st, action, resource) = d
      BY <1>4, <2>2, LastSpeaker
    <2>4. QED
      BY <2>1, <2>3
  <1>8. QED
    BY <1>2, <1>7 DEF last_match, st

(* ... and what does not speak does not count.                                *)
LEMMA SilentLater ==
  ASSUME NEW s \in Seq(Rules), NEW t \in Seq(Rules), NEW action, NEW resource,
         Speaking(t, action, resource) = {}
  PROVE  last_match(s \o t, action, resource) = last_match(s, action, resource)
  <1> DEFINE st == s \o t
  <1>1. /\ DOMAIN t = 1..Len(t) /\ Len(t) \in Nat
        /\ DOMAIN s = 1..Len(s) /\ Len(s) \in Nat
    BY LenProperties
  <1>2. /\ DOMAIN st = 1..(Len(s) + Len(t))
        /\ \A k \in 1..Len(s) : st[k] = s[k]
        /\ \A k \in 1..Len(t) : st[Len(s) + k] = t[k]
    BY <1>1
  <1> HIDE DEF st
  <1>3. ASSUME NEW k \in Speaking(st, action, resource)
        PROVE  k \in Speaking(s, action, resource)
    <2>1. k \in DOMAIN st /\ Speaks(st[k], action, resource)
      BY DEF Speaking
    <2>2. CASE k \in 1..Len(s)
      BY <1>1, <1>2, <2>1, <2>2 DEF Speaking
    <2>3. CASE k \notin 1..Len(s)
      <3>1. k - Len(s) \in 1..Len(t) /\ k = Len(s) + (k - Len(s))
        BY <1>1, <1>2, <2>1, <2>3
      <3>2. st[k] = t[k - Len(s)]
        BY <1>2, <3>1
      <3>3. k - Len(s) \in Speaking(t, action, resource)
        BY <1>1, <2>1, <3>1, <3>2 DEF Speaking
      <3>4. QED
        BY <3>3
    <2>4. QED
      BY <2>2, <2>3
  <1>4. ASSUME NEW k \in Speaking(s, action, resource)
        PROVE  k \in Speaking(st, action, resource) /\ st[k] = s[k]
    BY <1>1, <1>2 DEF Speaking
  <1>5. Speaking(st, action, resource) = Speaking(s, action, resource)
    BY <1>3, <1>4
  <1>6. CASE Speaking(s, action, resource) = {}
    BY <1>5, <1>6 DEF last_match, st
  <1>7. CASE Speaking(s, action, resource) # {}
    <2>1. Max(Speaking(s, action, resource)) \in Speaking(s, action, resource)
      <3>1. Speaking(s, action, resource) \subseteq 0..Len(s)
        BY <1>1 DEF Speaking
      <3>2. QED
        BY <1>1, <1>7, <3>1, Maximum
    <2>2. QED
      BY <1>4, <1>5, <2>1 DEF last_match, st
  <1>8. QED
    BY <1>6, <1>7

-----------------------------------------------------------------------------
(* The rules of the agents.                                                  *)

Writing == <<"write_file", "edit", "patch", "bash", "web_fetch", "mcp">>

(* The lists that the agents share.                                         *)
LEMMA RulesAreRules ==
  /\ EnvRules \in Seq(Rules) /\ Len(EnvRules) = 3 /\ DOMAIN EnvRules = 1..3
  /\ Reads \in Seq(Rules) /\ Len(Reads) = 3 /\ DOMAIN Reads = 1..3
  /\ Asks(Writing) \in Seq(Rules) /\ Len(Asks(Writing)) = 6 /\ DOMAIN Asks(Writing) = 1..6
  <1>1. \A a \in Actions, p \in Patterns, d \in Decisions : Rule(a, p, d) \in Rules
    BY DEF Rule, Rules
  <1>2. \A x, y, z \in Rules :
          <<x, y, z>> \in Seq(Rules) /\ Len(<<x, y, z>>) = 3 /\ DOMAIN <<x, y, z>> = 1..3
    OBVIOUS
  <1>3. EnvRules \in Seq(Rules) /\ Len(EnvRules) = 3 /\ DOMAIN EnvRules = 1..3
    <2>1. /\ Rule("read_file", <<"*", ".env">>, "ask") \in Rules
          /\ Rule("read_file", <<"*", ".env", ".", "*">>, "ask") \in Rules
          /\ Rule("read_file", <<"*", ".env", ".", "example">>, "allow") \in Rules
      BY <1>1 DEF Actions, Patterns, Decisions
    <2>2. QED
      BY <1>2, <2>1, Zenon DEF EnvRules
  <1>4. Reads \in Seq(Rules) /\ Len(Reads) = 3 /\ DOMAIN Reads = 1..3
    <2>1. /\ Rule("read_file", Anything, "allow") \in Rules
          /\ Rule("glob", Anything, "allow") \in Rules
          /\ Rule("grep", Anything, "allow") \in Rules
      BY <1>1 DEF Actions, Patterns, Decisions
    <2>2. QED
      BY <1>2, <2>1, Zenon DEF Reads
  <1>5. Asks(Writing) \in Seq(Rules) /\ Len(Asks(Writing)) = 6 /\ DOMAIN Asks(Writing) = 1..6
    <2>1. Len(Writing) = 6 /\ DOMAIN Writing = 1..6 /\ \A k \in 1..6 : Writing[k] \in Actions
      <3>1. /\ Len(Writing) = 6 /\ DOMAIN Writing = 1..6
            /\ Writing[1] = "write_file" /\ Writing[2] = "edit" /\ Writing[3] = "patch"
            /\ Writing[4] = "bash" /\ Writing[5] = "web_fetch" /\ Writing[6] = "mcp"
        BY DEF Writing
      <3>2. \A k \in 1..6 : k = 1 \/ k = 2 \/ k = 3 \/ k = 4 \/ k = 5 \/ k = 6
        OBVIOUS
      <3>3. QED
        BY <3>1, <3>2 DEF Actions
    <2>2. \A k \in 1..6 : Rule(Writing[k], Anything, "ask") \in Rules
      BY <1>1, <2>1 DEF Patterns, Decisions
    <2>3. Asks(Writing) = [k \in 1..6 |-> Rule(Writing[k], Anything, "ask")]
      BY <2>1 DEF Asks
    <2> HIDE DEF Rules
    <2>4. Asks(Writing) \in [1..6 -> Rules]
      BY <2>2, <2>3
    <2>5. Asks(Writing) \in Seq(Rules)
      BY <2>4, SeqDef
    <2>6. Len(Asks(Writing)) = 6 /\ DOMAIN Asks(Writing) = 1..6
      BY <2>3
    <2>7. QED
      BY <2>5, <2>6
  <1>6. QED
    BY <1>3, <1>4, <1>5

(* The rules of the lists, one by one.                                        *)
LEMMA EnvElements ==
  /\ EnvRules[1] = Rule("read_file", <<"*", ".env">>, "ask")
  /\ EnvRules[2] = Rule("read_file", <<"*", ".env", ".", "*">>, "ask")
  /\ EnvRules[3] = Rule("read_file", <<"*", ".env", ".", "example">>, "allow")
  BY DEF EnvRules

(* ... those for reading,                                                   *)
LEMMA ReadsElements ==
  /\ Reads[1] = Rule("read_file", Anything, "allow")
  /\ Reads[2] = Rule("glob", Anything, "allow")
  /\ Reads[3] = Rule("grep", Anything, "allow")
  BY DEF Reads

(* ... and those for writing.                                               *)
LEMMA AsksElements ==
  /\ Asks(Writing)[1] = Rule("write_file", Anything, "ask")
  /\ Asks(Writing)[2] = Rule("edit", Anything, "ask")
  /\ Asks(Writing)[3] = Rule("patch", Anything, "ask")
  /\ Asks(Writing)[4] = Rule("bash", Anything, "ask")
  /\ Asks(Writing)[5] = Rule("web_fetch", Anything, "ask")
  /\ Asks(Writing)[6] = Rule("mcp", Anything, "ask")
  <1>1. DOMAIN Writing = 1..6
    BY DEF Writing
  <1>2. /\ Writing[1] = "write_file" /\ Writing[2] = "edit" /\ Writing[3] = "patch"
        /\ Writing[4] = "bash" /\ Writing[5] = "web_fetch" /\ Writing[6] = "mcp"
    BY DEF Writing
  <1>3. \A k \in 1..6 : Asks(Writing)[k] = Rule(Writing[k], Anything, "ask")
    BY <1>1 DEF Asks
  <1>4. QED
    BY <1>2, <1>3

(* A rule for one action says nothing of another, a rule for anything speaks.     *)
LEMMA OtherAction ==
  ASSUME NEW a, NEW p, NEW d, NEW action, NEW resource, a # "*", a # action
  PROVE  ~ Speaks(Rule(a, p, d), action, resource)
  BY DEF Speaks, Rule

(* ... and a rule for everything speaks of its action.                      *)
LEMMA SameAction ==
  ASSUME NEW a, NEW d, NEW S, NEW resource \in Seq(S)
  PROVE  /\ Speaks(Rule(a, Anything, d), a, resource)
         /\ Speaks(Rule("*", Anything, d), a, resource)
  BY AnythingMatches DEF Speaks, Rule

(* The rules for reading and for secrets say nothing of writing and commands. *)
LEMMA ReadersSilent ==
  ASSUME NEW action \in {"write_file", "bash"}, NEW resource
  PROVE  Speaking(EnvRules, action, resource) = {} /\ Speaking(Reads, action, resource) = {}
  <1>1. \A k \in 1..3 : ~ Speaks(EnvRules[k], action, resource)
    <2>1. /\ ~ Speaks(EnvRules[1], action, resource)
          /\ ~ Speaks(EnvRules[2], action, resource)
          /\ ~ Speaks(EnvRules[3], action, resource)
      BY EnvElements, OtherAction
    <2>2. \A k \in 1..3 : k = 1 \/ k = 2 \/ k = 3
      OBVIOUS
    <2>3. QED
      BY <2>1, <2>2
  <1>2. \A k \in 1..3 : ~ Speaks(Reads[k], action, resource)
    <2>1. /\ ~ Speaks(Reads[1], action, resource)
          /\ ~ Speaks(Reads[2], action, resource)
          /\ ~ Speaks(Reads[3], action, resource)
      BY ReadsElements, OtherAction
    <2>2. \A k \in 1..3 : k = 1 \/ k = 2 \/ k = 3
      OBVIOUS
    <2>3. QED
      BY <2>1, <2>2
  <1>3. QED
    BY <1>1, <1>2, RulesAreRules DEF Speaking

(* Writing and commands are among what is asked for.                        *)
LEMMA AsksAsk ==
  ASSUME NEW action \in {"write_file", "bash"}, NEW S, NEW resource \in Seq(S)
  PROVE  /\ Speaking(Asks(Writing), action, resource) # {}
         /\ last_match(Asks(Writing), action, resource) = "ask"
  <1>1. PICK n \in 1..6 : Asks(Writing)[n] = Rule(action, Anything, "ask")
    BY AsksElements
  <1>2. Speaks(Asks(Writing)[n], action, resource)
    BY <1>1, SameAction
  <1>3. \A k \in 1..6 : Asks(Writing)[k].decision = "ask"
    <2>1. \A k \in 1..6 : k = 1 \/ k = 2 \/ k = 3 \/ k = 4 \/ k = 5 \/ k = 6
      OBVIOUS
    <2>2. \A a : Rule(a, Anything, "ask").decision = "ask"
      BY DEF Rule
    <2>3. QED
      BY <2>1, <2>2, AsksElements
  <1>4. DecidedFrom(Asks(Writing), action, resource, n, "ask")
    BY <1>2, <1>3, RulesAreRules DEF DecidedFrom
  <1>5. n \in Speaking(Asks(Writing), action, resource)
    BY <1>2, RulesAreRules DEF Speaking
  <1>6. QED
    BY <1>4, <1>5, RulesAreRules, LastSpeaker

(* What ends in ".env" is asked for: the exception speaks of examples only. *)
LEMMA SecretsAsk ==
  ASSUME NEW S, NEW r \in Seq(S), r # <<>>, Last(r) = ".env"
  PROVE  /\ Speaking(EnvRules, "read_file", r) # {}
         /\ last_match(EnvRules, "read_file", r) = "ask"
  <1>1. Speaks(EnvRules[1], "read_file", r)
    BY EnvMatches, EnvElements DEF Speaks, Rule
  <1>2. ~ Speaks(EnvRules[3], "read_file", r)
    BY ExampleDoesNot, EnvElements DEF Speaks, Rule
  <1>3. EnvRules[1].decision = "ask" /\ EnvRules[2].decision = "ask"
    BY EnvElements DEF Rule
  <1>4. \A k \in 1..3 : k = 1 \/ k = 2 \/ k = 3
    OBVIOUS
  <1>5. DecidedFrom(EnvRules, "read_file", r, 1, "ask")
    BY <1>1, <1>2, <1>3, <1>4, RulesAreRules DEF DecidedFrom
  <1>6. 1 \in Speaking(EnvRules, "read_file", r)
    BY <1>1, RulesAreRules DEF Speaking
  <1>7. QED
    BY <1>5, <1>6, RulesAreRules, LastSpeaker

(* A rule for every action, standing first.                                    *)
LEMMA FirstRule ==
  ASSUME NEW d \in Decisions, NEW action, NEW S, NEW resource \in Seq(S)
  PROVE  LET s == <<Rule("*", Anything, d)>>
         IN  s \in Seq(Rules) /\ last_match(s, action, resource) = d
  <1> DEFINE r == Rule("*", Anything, d)
             s == <<r>>
  <1>1. r \in Rules
    BY DEF Rule, Rules, Actions, Patterns
  <1>2. r.decision = d /\ Speaks(r, action, resource)
    BY AnythingMatches DEF Rule, Speaks
  <1> HIDE DEF r, Rules
  <1>3. s \in Seq(Rules) /\ DOMAIN s = 1..1 /\ s[1] = r
    BY <1>1
  <1> HIDE DEF s
  <1>4. \A k \in 1..1 : k = 1
    OBVIOUS
  <1>5. DecidedFrom(s, action, resource, 1, d)
    BY <1>2, <1>3, <1>4 DEF DecidedFrom
  <1>6. QED
    BY <1>3, <1>5, LastSpeaker DEF s, r

-----------------------------------------------------------------------------
(* What the agents' own rules say of what is reserved.                          *)

(* The part of the plan agent's list, and of the explore agent's, after the reads. *)
PlanTail    == << Rule("write_file", Anything, "deny"), Rule("edit", Anything, "deny"),
                  Rule("patch", Anything, "deny"), Rule("bash", Anything, "ask") >>
ExploreTail == << Rule("web_fetch", Anything, "allow"), Rule("bash", Anything, "allow") >>

(* Both are lists of rules.                                                 *)
LEMMA Tails ==
  /\ PlanTail \in Seq(Rules) /\ DOMAIN PlanTail = 1..4
  /\ ExploreTail \in Seq(Rules) /\ DOMAIN ExploreTail = 1..2
  <1>1. \A a \in Actions, d \in Decisions : Rule(a, Anything, d) \in Rules
    BY DEF Rule, Rules, Patterns
  <1>2. /\ Rule("write_file", Anything, "deny") \in Rules
        /\ Rule("edit", Anything, "deny") \in Rules
        /\ Rule("patch", Anything, "deny") \in Rules
        /\ Rule("bash", Anything, "ask") \in Rules
        /\ Rule("web_fetch", Anything, "allow") \in Rules
        /\ Rule("bash", Anything, "allow") \in Rules
    BY <1>1 DEF Actions, Decisions
  <1>3. \A x, y, z, w \in Rules : <<x, y, z, w>> \in Seq(Rules) /\ DOMAIN <<x, y, z, w>> = 1..4
    OBVIOUS
  <1>4. \A x, y \in Rules : <<x, y>> \in Seq(Rules) /\ DOMAIN <<x, y>> = 1..2
    OBVIOUS
  <1>5. PlanTail \in Seq(Rules) /\ DOMAIN PlanTail = 1..4
    BY <1>2, <1>3, Zenon DEF PlanTail
  <1>6. ExploreTail \in Seq(Rules) /\ DOMAIN ExploreTail = 1..2
    BY <1>2, <1>4, Zenon DEF ExploreTail
  <1>7. QED
    BY <1>5, <1>6

(* The plan agent may not write, and asks for commands.                     *)
LEMMA PlanTailSays ==
  ASSUME NEW S, NEW r \in Seq(S)
  PROVE  /\ Speaking(PlanTail, "write_file", r) # {} /\ last_match(PlanTail, "write_file", r) = "deny"
         /\ Speaking(PlanTail, "bash", r) # {} /\ last_match(PlanTail, "bash", r) = "ask"
  <1>1. /\ PlanTail[1] = Rule("write_file", Anything, "deny")
        /\ PlanTail[2] = Rule("edit", Anything, "deny")
        /\ PlanTail[3] = Rule("patch", Anything, "deny")
        /\ PlanTail[4] = Rule("bash", Anything, "ask")
    BY DEF PlanTail
  <1>2. /\ Speaks(PlanTail[1], "write_file", r) /\ Speaks(PlanTail[4], "bash", r)
        /\ ~ Speaks(PlanTail[2], "write_file", r)
        /\ ~ Speaks(PlanTail[3], "write_file", r)
        /\ ~ Speaks(PlanTail[4], "write_file", r)
    BY <1>1, SameAction, OtherAction
  <1>3. PlanTail[1].decision = "deny" /\ PlanTail[4].decision = "ask"
    BY <1>1 DEF Rule
  <1>4. \A k \in 1..4 : k = 1 \/ k = 2 \/ k = 3 \/ k = 4
    OBVIOUS
  <1>5. DecidedFrom(PlanTail, "write_file", r, 1, "deny")
    BY <1>2, <1>3, <1>4, Tails DEF DecidedFrom
  <1>6. DecidedFrom(PlanTail, "bash", r, 4, "ask")
    BY <1>2, <1>3, <1>4, Tails DEF DecidedFrom
  <1>7. 1 \in Speaking(PlanTail, "write_file", r) /\ 4 \in Speaking(PlanTail, "bash", r)
    BY <1>2, Tails DEF Speaking
  <1>8. QED
    BY <1>5, <1>6, <1>7, Tails, LastSpeaker

(* The explore agent has no rule for writing but the one for everything.    *)
LEMMA ExploreTailSilent ==
  ASSUME NEW r
  PROVE  Speaking(ExploreTail, "write_file", r) = {}
  <1>1. /\ ExploreTail[1] = Rule("web_fetch", Anything, "allow")
        /\ ExploreTail[2] = Rule("bash", Anything, "allow")
    BY DEF ExploreTail
  <1>2. ~ Speaks(ExploreTail[1], "write_file", r) /\ ~ Speaks(ExploreTail[2], "write_file", r)
    BY <1>1, OtherAction
  <1>3. \A k \in 1..2 : k = 1 \/ k = 2
    OBVIOUS
  <1>4. QED
    BY <1>2, <1>3, Tails DEF Speaking

(* Every list ends in the rules for secrets.                                   *)
Before(a) ==
    CASE a = "plan"    -> <<Rule("*", Anything, "ask")>> \o Reads \o PlanTail
      [] a = "explore" -> <<Rule("*", Anything, "deny")>> \o Reads \o ExploreTail
      [] a = "general" -> <<Rule("*", Anything, "allow")>> \o Asks(Writing)
      [] OTHER         -> Reads \o Asks(Writing)

(* What comes before them is a list of rules.                               *)
LEMMA SecretsLast ==
  ASSUME NEW a
  PROVE  agent_default_rules(a) = Before(a) \o EnvRules /\ Before(a) \in Seq(Rules)
  <1>1. /\ <<Rule("*", Anything, "ask")>> \in Seq(Rules)
        /\ <<Rule("*", Anything, "deny")>> \in Seq(Rules)
        /\ <<Rule("*", Anything, "allow")>> \in Seq(Rules)
    <2>1. <<>> \in Seq(Rules)
      OBVIOUS
    <2>2. QED
      BY <2>1, FirstRule DEF Decisions
  <1>2. \A s, t \in Seq(Rules) : s \o t \in Seq(Rules)
    OBVIOUS
  <1>3. Before(a) \in Seq(Rules)
    BY <1>1, <1>2, Tails, RulesAreRules, Zenon DEF Before
  <1>4. agent_default_rules(a) = Before(a) \o EnvRules
    BY Zenon DEF agent_default_rules, Before, PlanTail, ExploreTail, Writing
  <1>5. QED
    BY <1>3, <1>4

(* Nobody reads a secret for nothing.                                         *)
LEMMA OwnSecrets ==
  ASSUME NEW a, NEW S, NEW r \in Seq(S), r # <<>>, Last(r) = ".env"
  PROVE  last_match(agent_default_rules(a), "read_file", r) = "ask"
  <1>1. Before(a) \in Seq(Rules) /\ EnvRules \in Seq(Rules)
    BY SecretsLast, RulesAreRules
  <1>2. /\ Speaking(EnvRules, "read_file", r) # {}
        /\ last_match(EnvRules, "read_file", r) = "ask"
    BY SecretsAsk
  <1>3. last_match(Before(a) \o EnvRules, "read_file", r) = "ask"
    BY <1>1, <1>2, LaterDecides
  <1>4. QED
    BY <1>3, SecretsLast

(* Writing is refused to plan and explore and asked for with all others; commands   *)
(* are asked for but with explore.                                             *)
LEMMA OwnWrites ==
  ASSUME NEW a, NEW S, NEW r \in Seq(S)
  PROVE  /\ a \in {"plan", "explore"} => last_match(agent_default_rules(a), "write_file", r) = "deny"
         /\ a \notin {"plan", "explore"} => last_match(agent_default_rules(a), "write_file", r) = "ask"
         /\ a # "explore" => last_match(agent_default_rules(a), "bash", r) = "ask"
  <1>1. \A x \in {"write_file", "bash"} :
          last_match(agent_default_rules(a), x, r) = last_match(Before(a), x, r)
    <2> TAKE x \in {"write_file", "bash"}
    <2>1. Speaking(EnvRules, x, r) = {}
      BY ReadersSilent
    <2>2. Before(a) \in Seq(Rules) /\ EnvRules \in Seq(Rules)
      BY SecretsLast, RulesAreRules
    <2>3. last_match(Before(a) \o EnvRules, x, r) = last_match(Before(a), x, r)
      BY <2>1, <2>2, SilentLater
    <2>4. QED
      BY <2>3, SecretsLast
  <1>2. \A s, t \in Seq(Rules) : s \o t \in Seq(Rules)
    OBVIOUS
  <1> DEFINE One(d) == <<Rule("*", Anything, d)>>
  <1>3. \A d \in Decisions, x \in {"write_file", "bash"} :
          One(d) \in Seq(Rules) /\ last_match(One(d), x, r) = d
    BY FirstRule
  <1>4. "ask" \in Decisions /\ "deny" \in Decisions /\ "allow" \in Decisions
    BY DEF Decisions
  <1> HIDE DEF One
  <1>5. CASE a = "plan"
    <2>1. Before(a) = One("ask") \o Reads \o PlanTail
      BY <1>5, Zenon DEF Before, One
    <2>2. PICK s \in Seq(Rules) : Before(a) = s \o PlanTail
      <3>1. One("ask") \o Reads \in Seq(Rules)
        BY <1>2, <1>3, <1>4, RulesAreRules
      <3>2. QED
        BY <2>1, <3>1
    <2>3. \A x \in {"write_file", "bash"} : last_match(Before(a), x, r) = last_match(PlanTail, x, r)
      <3> TAKE x \in {"write_file", "bash"}
      <3>1. Speaking(PlanTail, x, r) # {}
        BY PlanTailSays
      <3>2. last_match(s \o PlanTail, x, r) = last_match(PlanTail, x, r)
        BY <3>1, LaterDecides, Tails
      <3>3. QED
        BY <2>2, <3>2
    <2>4. QED
      BY <1>1, <1>5, <2>3, PlanTailSays
  <1>6. CASE a = "explore"
    <2>1. Before(a) = One("deny") \o Reads \o ExploreTail
      BY <1>6, Zenon DEF Before, One
    <2>2. One("deny") \o Reads \in Seq(Rules)
      BY <1>2, <1>3, <1>4, RulesAreRules
    <2>3. last_match(Before(a), "write_file", r) = last_match(One("deny") \o Reads, "write_file", r)
      <3>1. Speaking(ExploreTail, "write_file", r) = {}
        BY ExploreTailSilent
      <3>2. PICK s : s = One("deny") \o Reads
        OBVIOUS
      <3>3. s \in Seq(Rules) /\ Before(a) = s \o ExploreTail
        BY <2>1, <2>2, <3>2
      <3>4. last_match(s \o ExploreTail, "write_file", r) = last_match(s, "write_file", r)
        BY <3>1, <3>3, SilentLater, Tails
      <3>5. QED
        BY <3>2, <3>3, <3>4
    <2>4. last_match(One("deny") \o Reads, "write_file", r) = "deny"
      BY <1>3, <1>4, SilentLater, ReadersSilent, RulesAreRules
    <2>5. QED
      BY <1>1, <1>6, <2>3, <2>4
  <1>7. CASE a \notin {"plan", "explore"}
    <2>1. PICK s \in Seq(Rules) : Before(a) = s \o Asks(Writing)
      <3>1. CASE a = "general"
        BY <1>3, <1>4, <3>1, Zenon DEF Before, One
      <3>2. CASE a # "general"
        BY <1>7, <3>2, RulesAreRules, Zenon DEF Before
      <3>3. QED
        BY <3>1, <3>2
    <2>2. \A x \in {"write_file", "bash"} : last_match(Before(a), x, r) = "ask"
      BY <2>1, LaterDecides, AsksAsk, RulesAreRules
    <2>3. QED
      BY <1>1, <1>7, <2>2
  <1>8. QED
    BY <1>5, <1>6, <1>7

-----------------------------------------------------------------------------
(* The inductive invariants.                                                 *)

(* What a call needs before it may run, and what the user has done for it.        *)
MayWrite(c)  == Class(c) = "write_file" => agent \notin {"plan", "explore"}
Spoken(c)    == \E s \in granted : Speaks(s, Class(c), Resource(c))
Permitted(c) == Reserved(c) => answer \in {"once", "always"} \/ Spoken(c)

Working == {"run", "look", "put", "remove", "command"}

(* A call that is asked for is one the agent may make, and one that runs was        *)
(* permitted; every rule was asked for, by an answer to a call.                   *)
ConsentInv ==
    /\ call \in Calls
    /\ answer \in {"none", "once", "always", "deny"}
    /\ saved \subseteq granted /\ unsaved \subseteq granted
    /\ \A s \in granted : \E c \in Calls : s = RuleOf(c)
    /\ step \in Working \cup {"ask"} => MayWrite(call)
    /\ step \in Working => Permitted(call)

(* The text that a move wrote counts as touched until the old file is gone.        *)
CacheInv ==
    /\ DOMAIN disk = Files /\ DOMAIN cache = Files
    /\ \A f \in Files \ touched : cache[f] # Unread => cache[f] = disk[f]
    /\ step = "remove" => Moves /\ Target \in touched

(* What the guard saw still holds of the file to be overwritten.                  *)
GuardInv ==
    /\ DOMAIN disk = Files
    /\ \A f \in Files :
          step = "put" /\ ~ raced /\ Now.op # "add" /\ Source = f /\ disk[f] # Absent =>
              cache[f] \in {Unread, disk[f]}

-----------------------------------------------------------------------------
(* The decision on a call.                                                   *)

(* A call always names something.                                           *)
LEMMA ResourceTokens ==
  ASSUME NEW c \in Calls
  PROVE  Resource(c) \in Seq(STRING) /\ Resource(c) # <<>>
  <1>1. CASE c.tool \in {"bash", "patch"}
    BY <1>1, CallsAssumption DEF Resource
  <1>2. CASE c.tool \notin {"bash", "patch"}
    BY <1>2, NamesAssumption, CallsAssumption DEF Resource
  <1>3. QED
    BY <1>1, <1>2

(* A call is judged as reading, writing or a command.                       *)
LEMMA Classes ==
  ASSUME NEW c \in Calls
  PROVE  Class(c) \in {"read_file", "write_file", "bash"}
  BY CallsAssumption, Zenon DEF Class

(* What is not refused the agent may do, and what is reserved is allowed by a        *)
(* saved rule or not at all.                                                  *)
LEMMA Evaluated ==
  ASSUME NEW c \in Calls, NEW d,
         d = evaluate(Class(c), Resource(c), agent, saved, Beyond(c))
  PROVE  /\ d \in {"allow", "ask"} => MayWrite(c)
         /\ d = "allow" /\ Reserved(c) => \E s \in saved : Speaks(s, Class(c), Resource(c))
  <1> DEFINE own == last_match(agent_default_rules(agent), Class(c), Resource(c))
             by  == \E s \in saved : Speaks(s, Class(c), Resource(c))
  <1>1. /\ own = "deny" => d = "deny"
        /\ d = "allow" => by \/ own = "allow"
        /\ d = "allow" => ~ (Beyond(c) /\ Class(c) = "read_file")
    BY Zenon DEF evaluate
  <1>2. PICK r \in Seq(STRING) : r = Resource(c) /\ r # <<>>
    BY ResourceTokens
  <1>3. ASSUME d \in {"allow", "ask"}, Class(c) = "write_file"
        PROVE  agent \notin {"plan", "explore"}
    <2>1. own # "deny"
      BY <1>1, <1>3
    <2>2. QED
      BY <1>2, <1>3, <2>1, OwnWrites
  <1>4. ASSUME d = "allow", Reserved(c)
        PROVE  by
    <2>1. SUFFICES own # "allow"
      BY <1>1, <1>4
    <2>2. CASE Class(c) = "write_file"
      BY <1>2, <2>2, OwnWrites
    <2>3. CASE Class(c) = "bash" /\ agent # "explore"
      BY <1>2, <2>3, OwnWrites
    <2>4. CASE Class(c) = "read_file" /\ Last(Resource(c)) = ".env"
      BY <1>2, <2>4, OwnSecrets
    <2>5. QED
      BY <1>1, <1>4, <2>2, <2>3, <2>4 DEF Reserved
  <1>5. QED
    BY <1>3, <1>4 DEF MayWrite

-----------------------------------------------------------------------------
(* Consent.                                                                  *)

(* Nothing is granted and nothing runs at first.                            *)
LEMMA ConsentInit ==
  Init => ConsentInv
  BY DEF Init, ConsentInv, Working

(* A step that leaves the call, the agent, the answer and the rules alone and sets    *)
(* nothing to work.                                                          *)
LEMMA ConsentKept ==
  ASSUME ConsentInv, step' \in Working => step \in Working,
         step' = "ask" => step = "ask",
         UNCHANGED <<call, agent, answer, granted, saved, unsaved>>
  PROVE  ConsentInv'
  <1>1. /\ Spoken(call)' <=> Spoken(call)
        /\ Reserved(call)' <=> Reserved(call)
        /\ MayWrite(call)' <=> MayWrite(call)
    BY DEF Spoken, Reserved, MayWrite, Class, Resource, Beyond
  <1>2. Permitted(call)' <=> Permitted(call)
    BY <1>1 DEF Permitted
  <1> HIDE DEF Working
  <1>3. QED
    BY <1>1, <1>2 DEF ConsentInv

(* A call that has its result works no more.                                *)
LEMMA ResultIdles ==
  ASSUME NEW why, Result(why)
  PROVE  step' \in {"over", "dead", "idle"} /\ call' = call
  BY Zenon DEF Result

(* A call whose hunk is done looks at the next one, or works no more.       *)
LEMMA ProceedLooks ==
  ASSUME Proceed
  PROVE  step' \in {"over", "dead", "idle", "look"} /\ call' = call
  BY ResultIdles DEF Proceed

(* Every step preserves it.                                                 *)
LEMMA ConsentStep ==
  ConsentInv /\ [Next]_vars => ConsentInv'
  <1> SUFFICES ASSUME ConsentInv, [Next]_vars PROVE ConsentInv'
    OBVIOUS
  <1>1. ASSUME NEW c \in Calls, Request(c) PROVE ConsentInv'
    <2>1. PICK d : d = evaluate(Class(c), Resource(c), agent, saved, Beyond(c))
      OBVIOUS
    <2>2. /\ call' = c /\ answer' = "none"
          /\ UNCHANGED <<agent, granted, saved, unsaved>>
          /\ step' = CASE d = "allow" -> "run" [] d = "ask" -> "ask" [] OTHER -> "idle"
      BY <1>1, <2>1 DEF Request
    <2>3. step' \in Working \cup {"ask"} => d \in {"allow", "ask"}
      BY <2>2, Zenon DEF Working
    <2>4. step' \in Working => d = "allow"
      BY <2>2, Zenon DEF Working
    <2>5. /\ Reserved(c)' <=> Reserved(c)
          /\ Spoken(c)' <=> Spoken(c)
          /\ MayWrite(c)' <=> MayWrite(c)
      BY <2>2 DEF Spoken, Reserved, MayWrite, Class, Resource, Beyond
    <2>6. step' \in Working \cup {"ask"} => MayWrite(c)
      BY <2>1, <2>3, Evaluated
    <2>7. step' \in Working /\ Reserved(c) => Spoken(c)
      <3>1. saved \subseteq granted
        BY DEF ConsentInv
      <3>2. step' \in Working /\ Reserved(c) => \E s \in saved : Speaks(s, Class(c), Resource(c))
        BY <2>1, <2>4, Evaluated
      <3>3. QED
        BY <3>1, <3>2 DEF Spoken
    <2>8. (step \in Working \cup {"ask"} => MayWrite(call))'
      BY <2>2, <2>5, <2>6
    <2>9. (step \in Working => Permitted(call))'
      BY <2>2, <2>5, <2>7 DEF Permitted
    <2>10. QED
      BY <2>2, <2>8, <2>9 DEF ConsentInv
  <1>2. ASSUME NEW a \in {"once", "always", "deny"}, Answer(a) PROVE ConsentInv'
    <2>1. /\ step = "ask" /\ step' = step /\ call' = call /\ answer' = a
          /\ UNCHANGED <<agent, saved>>
          /\ unsaved' = (IF a = "always" THEN unsaved \cup {RuleOf(call)} ELSE unsaved)
          /\ granted' = (IF a = "always" THEN granted \cup {RuleOf(call)} ELSE granted)
      BY <1>2 DEF Answer, toolVars
    <2>2. saved' \subseteq granted' /\ unsaved' \subseteq granted'
      BY <2>1 DEF ConsentInv
    <2>3. \A s \in granted' : \E c \in Calls : s = RuleOf(c)
      BY <2>1 DEF ConsentInv
    <2>4. MayWrite(call)'
      <3>1. MayWrite(call)
        BY <2>1 DEF ConsentInv
      <3>2. QED
        BY <2>1, <3>1 DEF MayWrite
    <2>5. step' \notin Working
      BY <2>1 DEF Working
    <2>6. \A c : RuleOf(c)' = RuleOf(c)
      BY DEF RuleOf, Class, Resource
    <2>7. QED
      BY <2>1, <2>2, <2>3, <2>4, <2>5, <2>6 DEF ConsentInv
  <1>3. ASSUME NEW r \in unsaved, SaveRule(r) PROVE ConsentInv'
    <2>1. /\ UNCHANGED <<call, step, agent, answer, granted>>
          /\ unsaved' = unsaved \ {r}
          /\ saved' = saved \cup {r} \/ saved' = saved
      BY <1>3 DEF SaveRule, toolVars
    <2>2. saved' \subseteq granted' /\ unsaved' \subseteq granted'
      BY <2>1 DEF ConsentInv
    <2>3. /\ Spoken(call)' <=> Spoken(call)
          /\ Reserved(call)' <=> Reserved(call)
          /\ MayWrite(call)' <=> MayWrite(call)
      BY <2>1 DEF Spoken, Reserved, MayWrite, Class, Resource, Beyond
    <2>4. Permitted(call)' <=> Permitted(call)
      BY <2>1, <2>3 DEF Permitted
    <2>5. QED
      BY <2>1, <2>2, <2>3, <2>4 DEF ConsentInv
  <1>4. ASSUME Resume PROVE ConsentInv'
    <2>1. UNCHANGED <<call, agent, answer, granted, saved, unsaved>> /\ step = "ask" /\ answer # "none"
      BY <1>4, ResultIdles DEF Resume
    <2>2. CASE answer # "deny" /\ step' = "run"
      <3>1. answer \in {"once", "always"}
        BY <2>1, <2>2 DEF ConsentInv
      <3>2. Permitted(call)'
        BY <2>1, <3>1 DEF Permitted
      <3>3. MayWrite(call)'
        <4>1. MayWrite(call)
          BY <2>1 DEF ConsentInv
        <4>2. QED
          BY <2>1, <4>1 DEF MayWrite
      <3>4. QED
        BY <2>1, <3>2, <3>3 DEF ConsentInv
    <2>3. CASE Result("denied")
      BY <2>1, <2>3, ResultIdles, ConsentKept DEF Working
    <2>4. QED
      BY <1>4, <2>2, <2>3 DEF Resume
  <1>5. ASSUME AskCancelled PROVE ConsentInv'
    BY <1>5, ConsentKept DEF AskCancelled, Working
  <1>6. ASSUME Abort PROVE ConsentInv'
    BY <1>6, ConsentKept DEF Abort, toolVars, Working
  <1>7. ASSUME NewActivity PROVE ConsentInv'
    BY <1>7, ConsentKept DEF NewActivity, Working
  <1>8. ASSUME Start PROVE ConsentInv'
    <2>1. UNCHANGED <<agent, answer, granted, saved, unsaved>> /\ step = "run"
      BY <1>8 DEF Start
    <2>2. call' = call /\ step' # "ask"
      BY <1>8, ResultIdles, Zenon DEF Start
    <2>3. QED
      BY <2>1, <2>2, ConsentKept DEF Working
  <1>9. ASSUME Read \/ Look \/ Put \/ RemoveFile \/ Fails \/ CommandEnds PROVE ConsentInv'
    <2>1. UNCHANGED <<agent, answer, granted, saved, unsaved>>
      BY <1>9 DEF Read, Look, Put, RemoveFile, Fails, CommandEnds
    <2>2. step \in Working
      BY <1>9 DEF Read, Look, Put, RemoveFile, Fails, CommandEnds, Working
    <2>3. call' = call /\ step' # "ask"
      <3>1. CASE Read
        BY <3>1, ResultIdles DEF Read
      <3>2. CASE Look
        BY <3>2, ResultIdles DEF Look
      <3>3. CASE Put
        BY <3>3, ProceedLooks DEF Put
      <3>4. CASE RemoveFile
        BY <3>4, ResultIdles, ProceedLooks DEF RemoveFile
      <3>5. CASE Fails
        BY <3>5, ResultIdles DEF Fails
      <3>6. CASE CommandEnds
        BY <3>6, ResultIdles DEF CommandEnds
      <3>7. QED
        BY <1>9, <3>1, <3>2, <3>3, <3>4, <3>5, <3>6
    <2>4. QED
      BY <2>1, <2>2, <2>3, ConsentKept
  <1>10. ASSUME NEW f \in Files, NEW t \in Texts, OthersEdit(f, t) PROVE ConsentInv'
    BY <1>10, ConsentKept DEF OthersEdit, toolVars, Working
  <1>11. ASSUME UNCHANGED vars PROVE ConsentInv'
    BY <1>11, ConsentKept DEF vars, toolVars, Working
  <1>12. QED
    BY <1>1, <1>2, <1>3, <1>4, <1>5, <1>6, <1>7, <1>8, <1>9, <1>10, <1>11 DEF Next

(* The inductive invariant of consent holds throughout.                         *)
THEOREM ConsentInvariant == Spec => []ConsentInv
  BY ConsentInit, ConsentStep, PTL DEF Spec

(* Whatever runs was allowed to: an agent that must not write does not, and what is   *)
(* reserved runs on the user's yes or by a rule the user asked for that speaks of      *)
(* this action and resource.  It makes no assumption on paths and commands        *)
(* (evaluate, last_match, match_resource and the permission prompt).              *)
RunsByConsent ==
    step \in {"look", "put", "remove", "command"} =>
        /\ Class(call) = "write_file" => agent \notin {"plan", "explore"}
        /\ Reserved(call) =>
              answer \in {"once", "always"} \/ \E s \in granted : Speaks(s, Class(call), Resource(call))

(* RunsByConsent holds, for every set of calls, names and agents: the permission of a   *)
(* call is judged once, and nothing that happens until it has run takes it back.       *)
THEOREM ConsentGiven == Spec => []RunsByConsent
  <1>1. ConsentInv => RunsByConsent
    BY DEF ConsentInv, RunsByConsent, Working, MayWrite, Permitted, Spoken
  <1>2. QED
    BY <1>1, ConsentInvariant, PTL

(* No path, command or patch has a "*" or a "?" in it: the rule saved for one that has   *)
(* is a pattern, and speaks of others too.                                      *)
PlainCalls == \A c \in Calls : Literal(Resource(c))

(* With plain calls the rule saved for a call speaks of the very same thing only. *)
LEMMA RulesSpeakForThemselves ==
  ASSUME PlainCalls, NEW b \in Calls, NEW c \in Calls,
         Speaks(RuleOf(b), Class(c), Resource(c))
  PROVE  RuleOf(b) = RuleOf(c)
  <1>1. /\ RuleOf(b).action = Class(b) /\ RuleOf(b).resource = Resource(b)
    BY DEF RuleOf, Rule
  <1>2. Class(b) = Class(c)
    BY <1>1, Classes DEF Speaks
  <1>3. Literal(Resource(b))
    BY DEF PlainCalls
  <1>4. Matches(Resource(b), Resource(c))
    BY <1>1 DEF Speaks
  <1>5. Resource(b) = Resource(c)
    BY <1>3, <1>4, ResourceTokens, LiteralMatches
  <1>6. QED
    BY <1>2, <1>5 DEF RuleOf

(* With plain calls: what is reserved runs on the user's yes to it, or on the rule    *)
(* the user asked for with another call for the very same thing.                  *)
THEOREM CallsConsented ==
  ASSUME PlainCalls
  PROVE  Spec => []Consented
  <1>1. ConsentInv => Consented
    <2> SUFFICES ASSUME ConsentInv, step \in {"look", "put", "remove", "command"}
                 PROVE  /\ Class(call) = "write_file" => agent \notin {"plan", "explore"}
                        /\ Reserved(call) => answer \in {"once", "always"} \/ RuleOf(call) \in granted
      BY DEF Consented
    <2>1. MayWrite(call) /\ Permitted(call) /\ call \in Calls
      BY DEF ConsentInv, Working
    <2>2. ASSUME Spoken(call) PROVE RuleOf(call) \in granted
      <3>1. PICK s \in granted : Speaks(s, Class(call), Resource(call))
        BY <2>2 DEF Spoken
      <3>2. PICK c \in Calls : s = RuleOf(c)
        BY DEF ConsentInv
      <3>3. RuleOf(c) = RuleOf(call)
        BY <2>1, <3>1, <3>2, RulesSpeakForThemselves
      <3>4. QED
        BY <3>2, <3>3
    <2>3. QED
      BY <2>1, <2>2 DEF MayWrite, Permitted
  <1>2. QED
    BY <1>1, ConsentInvariant, PTL

-----------------------------------------------------------------------------
(* The read cache.                                                           *)

(* Nothing is cached at first.                                              *)
LEMMA CacheInit ==
  Init => CacheInv
  BY DEF Init, CacheInv

(* A step that touches neither files, cache nor touched, and starts no removal.      *)
LEMMA CacheKept ==
  ASSUME CacheInv, step' = "remove" => step = "remove" /\ hunks' = hunks,
         UNCHANGED <<disk, cache, touched>>
  PROVE  CacheInv'
  <1>1. step' = "remove" => (Moves' <=> Moves) /\ Target' = Target
    BY DEF Moves, Target, Source, Now
  <1>2. QED
    BY <1>1 DEF CacheInv

(* Every step preserves the invariant of the cache.                         *)
LEMMA CacheStep ==
  CacheInv /\ [Next]_vars => CacheInv'
  <1> SUFFICES ASSUME CacheInv, [Next]_vars PROVE CacheInv'
    OBVIOUS
  <1>0. /\ DOMAIN disk = Files /\ DOMAIN cache = Files
        /\ \A f \in Files \ touched : cache[f] # Unread => cache[f] = disk[f]
        /\ step = "remove" => Moves /\ Target \in touched
    BY DEF CacheInv
  <1>1. ASSUME NEW c \in Calls, Request(c) PROVE CacheInv'
    <2>1. step' # "remove"
      <3>1. PICK d : step' = CASE d = "allow" -> "run" [] d = "ask" -> "ask" [] OTHER -> "idle"
        BY <1>1 DEF Request
      <3>2. QED
        BY <3>1, Zenon
    <2>2. QED
      BY <1>1, <2>1, CacheKept DEF Request
  <1>2. ASSUME NEW a \in {"once", "always", "deny"}, Answer(a) PROVE CacheInv'
    BY <1>2, CacheKept DEF Answer, toolVars
  <1>3. ASSUME NEW r \in unsaved, SaveRule(r) PROVE CacheInv'
    BY <1>3, CacheKept DEF SaveRule, toolVars
  <1>4. ASSUME Resume \/ AskCancelled \/ Abort \/ Start \/ CommandEnds \/ Look PROVE CacheInv'
    <2>1. UNCHANGED <<disk, cache, touched>>
      BY <1>4 DEF Resume, AskCancelled, Abort, Start, CommandEnds, Look
    <2>2. step' = "remove" => step = "remove" /\ hunks' = hunks
      <3>1. CASE Resume
        BY <3>1, ResultIdles DEF Resume
      <3>2. CASE AskCancelled
        BY <3>2 DEF AskCancelled
      <3>3. CASE Abort
        BY <3>3 DEF Abort, toolVars
      <3>4. CASE Start
        BY <3>4, ResultIdles, Zenon DEF Start
      <3>5. CASE CommandEnds
        BY <3>5, ResultIdles DEF CommandEnds
      <3>6. CASE Look
        BY <3>6, ResultIdles DEF Look
      <3>7. QED
        BY <1>4, <3>1, <3>2, <3>3, <3>4, <3>5, <3>6
    <2>3. QED
      BY <2>1, <2>2, CacheKept
  <1>5. ASSUME NewActivity PROVE CacheInv'
    BY <1>0, <1>5 DEF NewActivity, CacheInv
  <1>6. ASSUME Read PROVE CacheInv'
    <2>1. step' # "remove"
      BY <1>6, ResultIdles DEF Read
    <2>2. CASE disk[Source] = Absent
      BY <1>6, <2>1, <2>2, CacheKept DEF Read
    <2>3. CASE disk[Source] # Absent
      <3>1. /\ cache' = [cache EXCEPT ![Source] = disk[Source]]
            /\ touched' = touched \ {Source}
            /\ disk' = disk
        BY <1>6, <2>3 DEF Read
      <3>2. QED
        BY <1>0, <2>1, <3>1 DEF CacheInv
    <2>4. QED
      BY <2>2, <2>3
  <1>7. ASSUME Put PROVE CacheInv'
    <2>1. CASE Moves
      <3>1. /\ disk' = [disk EXCEPT ![Target] = look.will]
            /\ touched' = touched \cup {Target}
            /\ UNCHANGED <<cache, hunks>>
        BY <1>7, <2>1 DEF Put
      <3>2. Moves' /\ Target' = Target
        BY <2>1, <3>1 DEF Moves, Target, Source, Now
      <3>3. QED
        BY <1>0, <3>1, <3>2 DEF CacheInv
    <2>2. CASE ~ Moves
      <3>1. /\ disk' = [disk EXCEPT ![Target] = look.will]
            /\ cache' = [cache EXCEPT ![Target] = look.will]
            /\ touched' = touched \ {Target}
        BY <1>7, <2>2 DEF Put
      <3>2. step' # "remove"
        BY <1>7, <2>2, ProceedLooks DEF Put
      <3>3. QED
        BY <1>0, <3>1, <3>2 DEF CacheInv
    <2>3. QED
      BY <2>1, <2>2
  <1>8. ASSUME RemoveFile PROVE CacheInv'
    <2>1. step' # "remove"
      BY <1>8, ResultIdles, ProceedLooks DEF RemoveFile
    <2>2. CASE disk[Source] = Absent
      BY <1>8, <2>1, <2>2, CacheKept DEF RemoveFile
    <2>3. CASE disk[Source] # Absent
      <3>1. /\ disk' = [disk EXCEPT ![Source] = Absent]
            /\ cache' = IF Moves
                          THEN [cache EXCEPT ![Source] = Unread, ![Target] = look.will]
                          ELSE [cache EXCEPT ![Source] = Unread]
            /\ touched' = IF Moves /\ Source = Target THEN touched
                          ELSE IF disk[Target] = look.will THEN touched \ {Source, Target}
                          ELSE touched \ {Source}
        BY <1>8, <2>3 DEF RemoveFile
      <3>2. Moves => Target \in touched
        BY <1>0, <1>8 DEF RemoveFile, Moves
      <3>3. ~ Moves => Target = Source
        BY DEF Target
      <3>4. ASSUME NEW f \in Files \ touched', cache'[f] # Unread
            PROVE  cache'[f] = disk'[f]
        <4>1. CASE ~ Moves
          BY <1>0, <3>1, <3>3, <3>4, <4>1
        <4>2. CASE Moves /\ f = Target
          BY <1>0, <3>1, <3>2, <3>4, <4>2
        <4>3. CASE Moves /\ f # Target
          BY <1>0, <3>1, <3>4, <4>3
        <4>4. QED
          BY <4>1, <4>2, <4>3
      <3>5. DOMAIN disk' = Files /\ DOMAIN cache' = Files
        BY <1>0, <3>1
      <3>6. QED
        BY <2>1, <3>4, <3>5 DEF CacheInv
    <2>4. QED
      BY <2>2, <2>3
  <1>9. ASSUME Fails PROVE CacheInv'
    <2>1. step' # "remove" /\ cache' = cache
      BY <1>9, ResultIdles DEF Fails
    <2>2. CASE UNCHANGED <<disk, touched>>
      BY <2>1, <2>2, CacheKept
    <2>3. CASE ~ UNCHANGED <<disk, touched>>
      <3>1. /\ disk' = [disk EXCEPT ![Target] = Text(<<>>)]
            /\ touched' = touched \cup {Target}
        BY <1>9, <2>3 DEF Fails
      <3>2. QED
        BY <1>0, <2>1, <3>1 DEF CacheInv
    <2>4. QED
      BY <2>2, <2>3
  <1>10. ASSUME NEW f \in Files, NEW t \in Texts, OthersEdit(f, t) PROVE CacheInv'
    <2>1. /\ disk' = [disk EXCEPT ![f] = t]
          /\ touched' = touched \cup {f}
          /\ UNCHANGED <<cache, step, hunks>>
      BY <1>10 DEF OthersEdit, toolVars
    <2>2. (Moves' <=> Moves) /\ Target' = Target
      BY <2>1 DEF Moves, Target, Source, Now
    <2>3. QED
      BY <1>0, <2>1, <2>2 DEF CacheInv
  <1>11. ASSUME UNCHANGED vars PROVE CacheInv'
    BY <1>11, CacheKept DEF vars, toolVars
  <1>12. QED
    BY <1>1, <1>2, <1>3, <1>4, <1>5, <1>6, <1>7, <1>8, <1>9, <1>10, <1>11 DEF Next

(* The read cache is the text of the file, unless someone else changed it: no call    *)
(* makes it stale, by whichever spelling of the file, patches that move a file onto     *)
(* another or onto itself included (file_read_cache).                            *)
THEOREM CacheFaithful == Spec => []CacheTruthful
  <1>1. CacheInv => CacheTruthful
    BY DEF CacheInv, CacheTruthful
  <1>2. QED
    BY <1>1, CacheInit, CacheStep, PTL DEF Spec

-----------------------------------------------------------------------------
(* What others wrote.                                                        *)

(* Nothing is to be put at first.                                           *)
LEMMA GuardInit ==
  Init => GuardInv
  BY DEF Init, GuardInv

(* A step that writes nothing while a hunk is to be put.                         *)
LEMMA GuardKept ==
  ASSUME GuardInv, DOMAIN disk' = Files,
         step' = "put" => step = "put" /\ UNCHANGED <<hunks, disk, cache, raced>>
  PROVE  GuardInv'
  <1>1. step' = "put" => Now' = Now /\ Source' = Source
    BY DEF Now, Source
  <1>2. QED
    BY <1>1 DEF GuardInv

(* Every step preserves what the guard saw.                                 *)
LEMMA GuardStep ==
  GuardInv /\ [Next]_vars => GuardInv'
  <1> SUFFICES ASSUME GuardInv, [Next]_vars PROVE GuardInv'
    OBVIOUS
  <1>0. DOMAIN disk = Files
    BY DEF GuardInv
  <1>1. ASSUME NEW c \in Calls, Request(c) PROVE GuardInv'
    <2>1. PICK d : step' = CASE d = "allow" -> "run" [] d = "ask" -> "ask" [] OTHER -> "idle"
      BY <1>1 DEF Request
    <2>2. step' # "put"
      BY <2>1, Zenon
    <2>3. QED
      BY <1>0, <1>1, <2>2, GuardKept DEF Request
  <1>2. ASSUME NEW a \in {"once", "always", "deny"}, Answer(a) PROVE GuardInv'
    BY <1>0, <1>2, GuardKept DEF Answer, toolVars
  <1>3. ASSUME NEW r \in unsaved, SaveRule(r) PROVE GuardInv'
    BY <1>0, <1>3, GuardKept DEF SaveRule, toolVars
  <1>4. ASSUME Resume \/ AskCancelled \/ NewActivity \/ Start \/ CommandEnds \/ Read PROVE GuardInv'
    <2>1. disk' = disk
      BY <1>4 DEF Resume, AskCancelled, NewActivity, Start, CommandEnds, Read
    <2>2. step' # "put"
      <3>1. CASE Resume
        BY <3>1, ResultIdles DEF Resume
      <3>2. CASE AskCancelled \/ NewActivity
        BY <3>2 DEF AskCancelled, NewActivity
      <3>3. CASE Start
        BY <3>3, ResultIdles, Zenon DEF Start
      <3>4. CASE CommandEnds
        BY <3>4, ResultIdles DEF CommandEnds
      <3>5. CASE Read
        BY <3>5, ResultIdles DEF Read
      <3>6. QED
        BY <1>4, <3>1, <3>2, <3>3, <3>4, <3>5
    <2>3. QED
      BY <1>0, <2>1, <2>2, GuardKept
  <1>5. ASSUME Abort PROVE GuardInv'
    BY <1>0, <1>5, GuardKept DEF Abort, toolVars
  <1>6. ASSUME Look PROVE GuardInv'
    <2>1. disk' = disk /\ cache' = cache
      BY <1>6 DEF Look
    <2>2. CASE Trouble(Now, disk[Source]) # ""
      BY <1>0, <1>6, <2>1, <2>2, ResultIdles, GuardKept DEF Look
    <2>3. CASE Trouble(Now, disk[Source]) = ""
      <3>1. hunks' = hunks
        BY <1>6, <2>3 DEF Look
      <3>2. Now' = Now /\ Source' = Source
        BY <3>1 DEF Now, Source
      <3>3. Now.op # "add" /\ disk[Source] # Absent => cache[Source] \in {Unread, disk[Source]}
        BY <2>3, Zenon DEF Trouble, Changed
      <3>4. QED
        BY <1>0, <2>1, <3>2, <3>3 DEF GuardInv
    <2>4. QED
      BY <2>2, <2>3
  <1>7. ASSUME Put \/ RemoveFile \/ Fails PROVE GuardInv'
    <2>1. DOMAIN disk' = Files
      <3>1. CASE Put
        BY <1>0, <3>1 DEF Put
      <3>2. CASE RemoveFile
        BY <1>0, <3>2 DEF RemoveFile
      <3>3. CASE Fails
        BY <1>0, <3>3 DEF Fails
      <3>4. QED
        BY <1>7, <3>1, <3>2, <3>3
    <2>2. step' # "put"
      <3>1. CASE Put
        BY <3>1, ProceedLooks DEF Put
      <3>2. CASE RemoveFile
        BY <3>2, ResultIdles, ProceedLooks DEF RemoveFile
      <3>3. CASE Fails
        BY <3>3, ResultIdles DEF Fails
      <3>4. QED
        BY <1>7, <3>1, <3>2, <3>3
    <2>3. QED
      BY <2>1, <2>2, GuardKept
  <1>8. ASSUME NEW f \in Files, NEW t \in Texts, OthersEdit(f, t) PROVE GuardInv'
    <2>1. /\ disk' = [disk EXCEPT ![f] = t]
          /\ raced' = (raced \/ (step = "put" /\ f = Source))
          /\ UNCHANGED <<cache, step, hunks>>
      BY <1>8 DEF OthersEdit, toolVars
    <2>2. Now' = Now /\ Source' = Source
      BY <2>1 DEF Now, Source
    <2>3. DOMAIN disk' = Files
      BY <1>0, <2>1
    <2>4. ASSUME NEW g \in Files, step = "put", ~ raced', Now.op # "add", Source = g, disk'[g] # Absent
          PROVE  cache[g] \in {Unread, disk'[g]}
      <3>1. ~ raced /\ f # g
        BY <2>1, <2>4
      <3>2. disk'[g] = disk[g]
        BY <1>0, <2>1, <3>1
      <3>3. QED
        BY <2>4, <3>1, <3>2 DEF GuardInv
    <2>5. QED
      BY <2>1, <2>2, <2>3, <2>4 DEF GuardInv
  <1>9. ASSUME UNCHANGED vars PROVE GuardInv'
    BY <1>0, <1>9, GuardKept DEF vars, toolVars
  <1>10. QED
    BY <1>1, <1>2, <1>3, <1>4, <1>5, <1>6, <1>7, <1>8, <1>9 DEF Next

(* write_file, edit and the update of a patch never replace a text that others left   *)
(* in a file the activity had read, but for a change after the guard looked: the        *)
(* guard's answer holds until the write unless the file itself is changed            *)
(* (the staleness guards of WriteFileTool, EditTool and PatchTool).               *)
THEOREM OthersNotLost == Spec => OthersKept
  <1>1. GuardInv /\ [Next]_vars
          => [\A f \in Files : Overwrites(f) /\ Now.op # "add" /\ ~ Moves => ~ Unseen(f)]_vars
    <2> SUFFICES ASSUME GuardInv, NEW f \in Files, Overwrites(f), Now.op # "add", ~ Moves
                 PROVE  ~ Unseen(f)
      OBVIOUS
    <2>1. step = "put" /\ Source = f
      BY DEF Overwrites, Target
    <2>2. ~ raced /\ disk[f] # Absent => cache[f] \in {Unread, disk[f]}
      BY <2>1 DEF GuardInv
    <2>3. QED
      BY <2>2 DEF Unseen
  <1>2. QED
    BY <1>1, GuardInit, GuardStep, PTL DEF Spec, OthersKept

-----------------------------------------------------------------------------
(* What the edit tool writes.                                                 *)

(* A text with its line ends as line feeds, and as CRLFs.                        *)
LEMMA Ends ==
  ASSUME NEW C, LineEnds \subseteq C, NEW s \in Seq(C)
  PROVE  /\ Unix(s) \in Seq(C) /\ Len(Unix(s)) = Len(s)
         /\ \A k \in 1..Len(s) : Unix(s)[k] = (IF s[k] = "crlf" THEN "lf" ELSE s[k])
         /\ Dos(s) \in Seq(C) /\ Len(Dos(s)) = Len(s)
         /\ \A k \in 1..Len(s) : Dos(s)[k] = (IF s[k] = "lf" THEN "crlf" ELSE s[k])
  <1>1. DOMAIN s = 1..Len(s) /\ Len(s) \in Nat /\ \A k \in 1..Len(s) : s[k] \in C
    BY LenProperties, ElementOfSeq
  <1>2. "lf" \in C /\ "crlf" \in C
    BY DEF LineEnds
  <1>3. Unix(s) = [k \in 1..Len(s) |-> IF s[k] = "crlf" THEN "lf" ELSE s[k]]
    BY <1>1 DEF Unix
  <1>4. Dos(s) = [k \in 1..Len(s) |-> IF s[k] = "lf" THEN "crlf" ELSE s[k]]
    BY <1>1 DEF Dos
  <1>5. Unix(s) \in [1..Len(s) -> C] /\ Dos(s) \in [1..Len(s) -> C]
    BY <1>1, <1>2, <1>3, <1>4
  <1>6. Unix(s) \in Seq(C) /\ Dos(s) \in Seq(C)
    BY <1>1, <1>5, SeqDef
  <1>7. Len(Unix(s)) = Len(s) /\ Len(Dos(s)) = Len(s)
    BY <1>1, <1>5, <1>6, LenProperties
  <1>8. QED
    BY <1>3, <1>4, <1>6, <1>7

Has(s, c) == \E k \in 1..Len(s) : s[k] = c

(* The elements of a sequence are those it has.                             *)
LEMMA HasElements ==
  ASSUME NEW C, NEW s \in Seq(C), NEW c
  PROVE  c \in ToSet(s) <=> Has(s, c)
  BY LenProperties DEF ToSet, Has

(* Neither has what it replaces.                                            *)
LEMMA NoneLeft ==
  ASSUME NEW C, LineEnds \subseteq C, NEW s \in Seq(C)
  PROVE  ~ Has(Unix(s), "crlf") /\ ~ Has(Dos(s), "lf")
  <1>1. ASSUME NEW k \in 1..Len(Unix(s)) PROVE Unix(s)[k] # "crlf"
    <2>1. k \in 1..Len(s) /\ Unix(s)[k] = (IF s[k] = "crlf" THEN "lf" ELSE s[k])
      BY Ends
    <2>2. QED
      BY <2>1
  <1>2. ASSUME NEW k \in 1..Len(Dos(s)) PROVE Dos(s)[k] # "lf"
    <2>1. k \in 1..Len(s) /\ Dos(s)[k] = (IF s[k] = "lf" THEN "crlf" ELSE s[k])
      BY Ends
    <2>2. QED
      BY <2>1
  <1>3. QED
    BY <1>1, <1>2 DEF Has

(* A text with line feeds only is what the round through CRLFs gives.              *)
LEMMA ThereAndBack ==
  ASSUME NEW C, LineEnds \subseteq C, NEW s \in Seq(C), ~ Has(s, "crlf")
  PROVE  Unix(s) = s /\ Unix(Dos(s)) = s
  <1>1. \A k \in 1..Len(s) : s[k] # "crlf"
    BY DEF Has
  <1>2. Unix(s) \in Seq(C) /\ Len(Unix(s)) = Len(s) /\ Dos(s) \in Seq(C) /\ Len(Dos(s)) = Len(s)
    BY Ends
  <1>3. Unix(s) = s
    <2>1. \A k \in 1..Len(s) : Unix(s)[k] = s[k]
      <3> TAKE k \in 1..Len(s)
      <3>1. Unix(s)[k] = (IF s[k] = "crlf" THEN "lf" ELSE s[k])
        BY Ends
      <3>2. QED
        BY <1>1, <3>1
    <2>2. QED
      BY <1>2, <2>1, SeqEqual
  <1>4. Unix(Dos(s)) = s
    <2>1. Unix(Dos(s)) \in Seq(C) /\ Len(Unix(Dos(s))) = Len(s)
      BY <1>2, Ends
    <2>2. \A k \in 1..Len(s) : Unix(Dos(s))[k] = s[k]
      <3> TAKE k \in 1..Len(s)
      <3>1. Dos(s)[k] = (IF s[k] = "lf" THEN "crlf" ELSE s[k])
        BY Ends
      <3>2. k \in 1..Len(Dos(s))
        BY <1>2
      <3>3. Unix(Dos(s))[k] = (IF Dos(s)[k] = "crlf" THEN "lf" ELSE Dos(s)[k])
        BY <1>2, <3>2, Ends
      <3>4. QED
        BY <1>1, <3>1, <3>3
    <2>3. QED
      BY <2>1, <2>2, SeqEqual
  <1>5. QED
    BY <1>3, <1>4

(* Nothing that is put together of parts of texts without a CRLF has one.          *)
LEMMA HasConcat ==
  ASSUME NEW C, NEW s \in Seq(C), NEW t \in Seq(C), NEW c, ~ Has(s, c), ~ Has(t, c)
  PROVE  s \o t \in Seq(C) /\ ~ Has(s \o t, c)
  <1>1. Len(s) \in Nat /\ Len(t) \in Nat
    BY LenProperties
  <1>2. /\ s \o t \in Seq(C) /\ Len(s \o t) = Len(s) + Len(t)
        /\ \A k \in 1..(Len(s) + Len(t)) :
              (s \o t)[k] = IF k <= Len(s) THEN s[k] ELSE t[k - Len(s)]
    BY ConcatProperties
  <1>3. ASSUME NEW k \in 1..(Len(s) + Len(t)) PROVE (s \o t)[k] # c
    <2>1. CASE k <= Len(s)
      <3>1. k \in 1..Len(s) /\ (s \o t)[k] = s[k]
        BY <1>1, <1>2, <2>1
      <3>2. QED
        BY <3>1 DEF Has
    <2>2. CASE ~ (k <= Len(s))
      <3>1. k - Len(s) \in 1..Len(t) /\ (s \o t)[k] = t[k - Len(s)]
        BY <1>1, <1>2, <2>2
      <3>2. QED
        BY <3>1 DEF Has
    <2>3. QED
      BY <2>1, <2>2
  <1>4. QED
    BY <1>2, <1>3 DEF Has

(* A part of it has none either.                                            *)
LEMMA HasPart ==
  ASSUME NEW C, NEW s \in Seq(C), NEW c, ~ Has(s, c), NEW i \in 1..(Len(s) + 1), NEW j \in 0..Len(s)
  PROVE  SubSeq(s, i, j) \in Seq(C) /\ ~ Has(SubSeq(s, i, j), c)
  <1>1. Len(s) \in Nat
    BY LenProperties
  <1> DEFINE u == SubSeq(s, i, j)
  <1>2. /\ u \in Seq(C) /\ Len(u) = (IF i <= j THEN j - i + 1 ELSE 0)
        /\ \A k \in 1..(j - i + 1) : u[k] = s[i + k - 1]
    BY <1>1
  <1> HIDE DEF u
  <1>3. ASSUME NEW k \in 1..Len(u) PROVE u[k] # c
    <2>1. k \in 1..(j - i + 1) /\ i + k - 1 \in 1..Len(s)
      BY <1>1, <1>2
    <2>2. u[k] = s[i + k - 1]
      BY <1>2, <2>1
    <2>3. QED
      BY <2>1, <2>2 DEF Has
  <1>4. QED
    BY <1>2, <1>3 DEF Has, u

(* The edit tool replaces the one occurrence of the old text and nothing else, keeps  *)
(* the byte order mark, and leaves no line feed in a text that had a CRLF and no CRLF   *)
(* in one that had none (EditTool::run).                                        *)
THEOREM EditReplacesOnce ==
  ASSUME NEW C, LineEnds \subseteq C, NEW text \in [bom : BOOLEAN, body : Seq(C)],
         NEW old \in Seq(C), old # <<>>, NEW new \in Seq(C),
         Once(Unix(text.body), Unix(old))
  PROVE  LET will == Edited(text, old, new)
         IN  /\ ReplacedOnce(Unix(text.body), Unix(will.body), Unix(old), Unix(new))
             /\ SameKind(text, will)
  <1> DEFINE w    == Unix(text.body)
             o    == Unix(old)
             n    == Unix(new)
             at   == Min(Finds(w, o))
             u    == SubSeq(w, 1, at) \o n \o SubSeq(w, at + Len(o) + 1, Len(w))
             will == Edited(text, old, new)
  <1>1. /\ w \in Seq(C) /\ ~ Has(w, "crlf") /\ Len(w) \in Nat
        /\ o \in Seq(C) /\ Len(o) = Len(old) /\ Len(o) \in Nat \ {0}
        /\ n \in Seq(C) /\ ~ Has(n, "crlf")
    <2>1. text.body \in Seq(C)
      OBVIOUS
    <2>2. Len(old) \in Nat \ {0}
      BY LenProperties, EmptySeq
    <2>3. w \in Seq(C) /\ o \in Seq(C) /\ n \in Seq(C) /\ Len(o) = Len(old)
      BY <2>1, Ends
    <2>4. ~ Has(w, "crlf")
      BY <2>1, NoneLeft
    <2>5. ~ Has(n, "crlf")
      BY NoneLeft
    <2>6. QED
      BY <2>2, <2>3, <2>4, <2>5, LenProperties
  <1>2. at \in Finds(w, o) /\ \A i \in Finds(w, o) : at <= i
    <2> DEFINE F == Finds(w, o)
    <2>1. F # {}
      BY DEF Once
    <2>2. F \subseteq Nat
      BY <1>1 DEF Finds
    <2> HIDE DEF F, w, o
    <2>3. PICK x \in F : \A y \in F : x <= y
      BY <2>1, <2>2, Least
    <2>4. Min(F) \in F /\ \A y \in F : Min(F) <= y
      BY <2>3 DEF Min
    <2>5. QED
      BY <2>4 DEF F
  <1>3. \A i \in Finds(w, o) : i < at + Len(o)
    BY DEF Once
  <1>4. at \in 0..Len(w) /\ at + Len(o) \in at..Len(w)
    <2> HIDE DEF w, o
    <2>1. QED
      BY <1>1, <1>2 DEF Finds
  <1>5. will.bom = text.bom /\ will.body = (IF Crlf(text.body) THEN Dos(u) ELSE u)
    <2>1. Part(w, 0, at) = SubSeq(w, 1, at)
      <3>1. at \in Nat
        BY <1>4
      <3> HIDE DEF at, w
      <3>2. QED
        BY <3>1 DEF Part
    <2>2. u = Part(w, 0, at) \o n \o SubSeq(w, at + Len(old) + 1, Len(w))
      BY <1>1, <2>1
    <2>3. will = [text EXCEPT !.body = IF Crlf(text.body) THEN Dos(u) ELSE u]
      BY <2>2, Zenon DEF Edited
    <2> HIDE DEF u
    <2>4. QED
      BY <2>3
  <1> HIDE DEF w, o, n, at, will
  <1>6. u \in Seq(C) /\ ~ Has(u, "crlf")
    <2> DEFINE before == SubSeq(w, 1, at)
               after  == SubSeq(w, at + Len(o) + 1, Len(w))
    <2>1. before \in Seq(C) /\ ~ Has(before, "crlf")
      <3>1. 1 \in 1..(Len(w) + 1) /\ at \in 0..Len(w)
        BY <1>1, <1>4
      <3>2. QED
        BY <1>1, <3>1, HasPart
    <2>2. after \in Seq(C) /\ ~ Has(after, "crlf")
      <3>1. at + Len(o) + 1 \in 1..(Len(w) + 1) /\ Len(w) \in 0..Len(w)
        BY <1>1, <1>4
      <3>2. QED
        BY <1>1, <3>1, HasPart
    <2>3. u = before \o n \o after
      OBVIOUS
    <2> HIDE DEF before, after, u
    <2>4. before \o n \in Seq(C) /\ ~ Has(before \o n, "crlf")
      BY <1>1, <2>1, HasConcat
    <2>5. PICK v \in Seq(C) : v = before \o n /\ ~ Has(v, "crlf")
      BY <2>4
    <2>6. v \o after \in Seq(C) /\ ~ Has(v \o after, "crlf")
      BY <2>2, <2>5, HasConcat
    <2>7. QED
      BY <2>3, <2>5, <2>6
  <1>8. Unix(will.body) = u
    <2> HIDE DEF u
    <2>1. QED
      BY <1>5, <1>6, ThereAndBack
  <1>9. ReplacedOnce(w, u, o, n)
    <2>1. \A j \in Finds(w, o) : j < at + Len(o) /\ at < j + Len(o)
      <3> TAKE j \in Finds(w, o)
      <3>1. at <= j /\ j < at + Len(o) /\ j \in Nat /\ at \in Nat
        BY <1>1, <1>2, <1>3, <1>4 DEF Finds
      <3>2. QED
        BY <1>1, <3>1
    <2>2. QED
      BY <1>2, <2>1 DEF ReplacedOnce
  <1>10. SameKind(text, will)
    <2> HIDE DEF u
    <2>1. CASE Crlf(text.body)
      <3>1. will.body = Dos(u) /\ Dos(u) \in Seq(C) /\ Len(Dos(u)) = Len(u)
        BY <1>5, <1>6, <2>1, Ends
      <3>2. ~ Has(Dos(u), "lf")
        BY <1>6, NoneLeft
      <3>3. QED
        BY <1>5, <2>1, <3>1, <3>2, HasElements DEF SameKind
    <2>2. CASE ~ Crlf(text.body)
      BY <1>5, <1>6, <2>2, HasElements DEF SameKind
    <2>3. QED
      BY <2>1, <2>2
  <1>11. QED
    BY <1>8, <1>9, <1>10 DEF w, o, n, will
================================================================================
