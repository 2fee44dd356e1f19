------------------------------ MODULE ClientProofs ------------------------------
(***************************************************************************)
(* The clients.  Of the terminal interface, for any number of prompts,         *)
(* messages, lost connections and commands: an interface that has caught up      *)
(* shows what the database holds and the request a turn waits for, and a tool     *)
(* runs only by an answer to its own request.  Of the desktop's session store,    *)
(* for any sessions, providers, overlapping set_model calls and attempts to       *)
(* attach: a switch of model is never written to another session's row, and      *)
(* the window shows the session the user selected last.                        *)
(***************************************************************************)
EXTENDS TerminalClient, DesktopSession, SequenceTheorems, WellFoundedInduction, TLAPS

-----------------------------------------------------------------------------
(* Numbers.                                                                   *)

(* A set of numbers has a least one.                                          *)
LEMMA Least ==
  ASSUME NEW T, T \subseteq Nat, T # {}
  PROVE  \E x \in T : \A y \in T : x <= y
  <1>1. PICK x \in T : \A y \in T : ~ (<<y, x>> \in OpToRel(<,Nat))
    BY WFMin, NatLessThanWellFounded, Zenon
  <1>2. \A y \in T : ~ (y < x)
    BY <1>1 DEF OpToRel
  <1>3. QED
    BY <1>2

(* A set with a bound has a greatest one.                                      *)
LEMMA Maximum ==
  ASSUME NEW T, T # {}, NEW b \in Nat, T \subseteq 0..b
  PROVE  Max(T) \in T /\ \A y \in T : y <= Max(T)
  <1> DEFINE U == {b - y : y \in T}
  <1>1. U \subseteq Nat /\ U # {}
    <2>1. \A y \in T : b - y \in Nat
      OBVIOUS
    <2>2. QED
      BY <2>1
  <1>2. PICK u \in U : \A y \in U : u <= y
    BY <1>1, Least
  <1>3. PICK x \in T : u = b - x
    OBVIOUS
  <1>4. \A y \in T : x >= y
    <2> TAKE y \in T
    <2>1. u <= b - y
      BY <1>2
    <2>2. QED
      BY <1>3, <2>1
  <1>5. QED
    BY <1>4 DEF Max

-----------------------------------------------------------------------------
(* What is wanted of a sequence.                                               *)

(* f is what of the first n elements is wanted, for each n up to k.               *)
Keeping(f, k, s, w) ==
    f = [n \in 0..k |-> IF n = 0 THEN <<>>
                        ELSE IF s[n] \in w THEN Append(f[n - 1], s[n]) ELSE f[n - 1]]

(* What is wanted of one element more.                                           *)
LEMMA KeepingFurther ==
  ASSUME NEW s, NEW w, NEW k \in Nat, NEW f, Keeping(f, k, s, w)
  PROVE  \E g : Keeping(g, k + 1, s, w)
  <1> DEFINE next == IF s[k + 1] \in w THEN Append(f[k], s[k + 1]) ELSE f[k]
  <1> DEFINE g == [n \in 0..(k + 1) |-> IF n = k + 1 THEN next ELSE f[n]]
  <1>1. \A n \in 0..(k + 1) : g[n] = IF n = 0 THEN <<>>
                                     ELSE IF s[n] \in w THEN Append(g[n - 1], s[n]) ELSE g[n - 1]
    <2> TAKE n \in 0..(k + 1)
    <2>1. CASE n = k + 1
      <3>1. g[n] = next /\ g[n - 1] = f[k] /\ n # 0
        BY <2>1
      <3>2. QED
        BY <2>1, <3>1
    <2>2. CASE n = 0
      <3>1. f[0] = <<>>
        BY DEF Keeping
      <3>2. QED
        BY <2>2, <3>1
    <2>3. CASE n # 0 /\ n # k + 1
      <3>1. n \in 0..k /\ n - 1 \in 0..(k + 1) /\ n - 1 # k + 1
        BY <2>3
      <3>2. g[n] = f[n] /\ g[n - 1] = f[n - 1]
        BY <2>3, <3>1
      <3>3. f[n] = IF s[n] \in w THEN Append(f[n - 1], s[n]) ELSE f[n - 1]
        BY <2>3, <3>1 DEF Keeping
      <3>4. QED
        BY <2>3, <3>2, <3>3
    <2>4. QED
      BY <2>1, <2>2, <2>3
  <1>2. g = [n \in 0..(k + 1) |-> IF n = 0 THEN <<>>
                                  ELSE IF s[n] \in w THEN Append(g[n - 1], s[n]) ELSE g[n - 1]]
    <2>1. DOMAIN g = 0..(k + 1) /\ g = [n \in 0..(k + 1) |-> g[n]]
      OBVIOUS
    <2> HIDE DEF g
    <2>2. QED
      BY <1>1, <2>1
  <1>3. QED
    BY <1>2 DEF Keeping

(* It is defined for every number of elements.                                   *)
LEMMA KeepingExists ==
  ASSUME NEW s, NEW w, NEW k \in Nat
  PROVE  \E f : Keeping(f, k, s, w)
  <1> DEFINE bad == {n \in Nat : ~ \E f : Keeping(f, n, s, w)}
  <1>1. 0 \notin bad
    <2> DEFINE f == [n \in 0..0 |-> <<>>]
    <2>1. \A n \in 0..0 : n = 0
      OBVIOUS
    <2>2. Keeping(f, 0, s, w)
      BY <2>1 DEF Keeping
    <2>3. QED
      BY <2>2
  <1>2. bad = {}
    <2> SUFFICES ASSUME bad # {} PROVE FALSE
      OBVIOUS
    <2>1. PICK n \in bad : \A m \in bad : n <= m
      <3>1. bad \subseteq Nat
        OBVIOUS
      <3>2. QED
        BY <3>1, Least
    <2>2. n \in Nat /\ n - 1 \in Nat /\ (n - 1) + 1 = n
      BY <1>1, <2>1
    <2>3. n - 1 \notin bad
      BY <2>1, <2>2
    <2>4. PICK f : Keeping(f, n - 1, s, w)
      BY <2>2, <2>3
    <2>5. \E g : Keeping(g, (n - 1) + 1, s, w)
      BY <2>2, <2>4, KeepingFurther
    <2>6. QED
      BY <2>1, <2>2, <2>5
  <1>3. QED
    BY <1>2

(* Only computes it.                                                          *)
LEMMA OnlyKeeps ==
  ASSUME NEW S, NEW s \in Seq(S), NEW w
  PROVE  \E f : /\ Only(s, w) = f[Len(s)] /\ f[0] = <<>>
                /\ \A n \in 1..Len(s) : f[n] = IF s[n] \in w THEN Append(f[n - 1], s[n]) ELSE f[n - 1]
  <1> DEFINE f == CHOOSE g : g = [n \in 0..Len(s) |-> IF n = 0 THEN <<>>
                                  ELSE IF s[n] \in w THEN Append(g[n - 1], s[n]) ELSE g[n - 1]]
  <1>1. Only(s, w) = f[Len(s)]
    BY DEF Only
  <1>2. Len(s) \in Nat
    OBVIOUS
  <1>3. f = [n \in 0..Len(s) |-> IF n = 0 THEN <<>>
                 ELSE IF s[n] \in w THEN Append(f[n - 1], s[n]) ELSE f[n - 1]]
    <2>1. \E g : Keeping(g, Len(s), s, w)
      BY <1>2, KeepingExists
    <2>2. \E g : g = [n \in 0..Len(s) |-> IF n = 0 THEN <<>>
                          ELSE IF s[n] \in w THEN Append(g[n - 1], s[n]) ELSE g[n - 1]]
      BY <2>1 DEF Keeping
    <2>3. QED
      BY <2>2
  <1> HIDE DEF f
  <1>4. f[0] = <<>>
    <2>1. 0 \in 0..Len(s)
      BY <1>2
    <2>2. QED
      BY <1>3, <2>1
  <1>5. \A n \in 1..Len(s) : f[n] = IF s[n] \in w THEN Append(f[n - 1], s[n]) ELSE f[n - 1]
    <2> TAKE n \in 1..Len(s)
    <2>1. n \in 0..Len(s) /\ n # 0
      BY <1>2
    <2>2. QED
      BY <1>3, <2>1
  <1>6. QED
    BY <1>1, <1>4, <1>5

(* Numbered elements come in the order of their numbers.                         *)
Sorted(s) ==
    \A i, j \in DOMAIN s : i < j /\ s[i].seq > 0 /\ s[j].seq > 0 => s[i].seq < s[j].seq

(* t is what is wanted of the first n elements of s.                              *)
PartOf(t, n, s, S, w) ==
    /\ t \in Seq(S)
    /\ \A j \in DOMAIN t : \E i \in 1..n : t[j] = s[i] /\ s[i] \in w
    /\ \A i \in 1..n : s[i] \in w => \E j \in DOMAIN t : t[j] = s[i]
    /\ Sorted(s) => Sorted(t)

(* An element more is taken when it is wanted.                                   *)
LEMMA PartGrows ==
  ASSUME NEW S, NEW s \in Seq(S), NEW w, NEW n \in 1..Len(s), NEW t, PartOf(t, n - 1, s, S, w)
  PROVE  PartOf(IF s[n] \in w THEN Append(t, s[n]) ELSE t, n, s, S, w)
  <1>1. s[n] \in S /\ t \in Seq(S) /\ n \in DOMAIN s
    BY DEF PartOf
  <1>2. CASE s[n] \notin w
    BY <1>2 DEF PartOf
  <1>3. CASE s[n] \in w
    <2> DEFINE u == Append(t, s[n])
    <2>1. u \in Seq(S) /\ DOMAIN u = 1..(Len(t) + 1) /\ u[Len(t) + 1] = s[n]
          /\ \A j \in 1..Len(t) : u[j] = t[j]
      BY <1>1
    <2>2. DOMAIN t = 1..Len(t) /\ Len(t) \in Nat
      BY <1>1
    <2> HIDE DEF u
    <2>3. \A j \in DOMAIN u : \E i \in 1..n : u[j] = s[i] /\ s[i] \in w
      <3> TAKE j \in DOMAIN u
      <3>1. CASE j = Len(t) + 1
        BY <1>3, <2>1, <3>1
      <3>2. CASE j \in 1..Len(t)
        BY <2>1, <2>2, <3>2 DEF PartOf
      <3>3. QED
        BY <2>1, <2>2, <3>1, <3>2
    <2>4. \A i \in 1..n : s[i] \in w => \E j \in DOMAIN u : u[j] = s[i]
      <3> TAKE i \in 1..n
      <3>1. CASE i = n
        BY <2>1, <2>2, <3>1
      <3>2. CASE i \in 1..(n - 1)
        BY <2>1, <2>2, <3>2 DEF PartOf
      <3>3. QED
        BY <3>1, <3>2
    <2>5. Sorted(s) => Sorted(u)
      <3> SUFFICES ASSUME Sorted(s), NEW i \in DOMAIN u, NEW j \in DOMAIN u,
                          i < j, u[i].seq > 0, u[j].seq > 0
                   PROVE  u[i].seq < u[j].seq
        BY DEF Sorted
      <3>1. CASE j \in 1..Len(t)
        BY <2>1, <2>2, <3>1 DEF PartOf, Sorted
      <3>2. CASE j = Len(t) + 1
        <4>1. i \in DOMAIN t /\ u[i] = t[i]
          BY <2>1, <2>2, <3>2
        <4>2. PICK k \in 1..(n - 1) : t[i] = s[k]
          BY <4>1 DEF PartOf
        <4>3. k \in DOMAIN s /\ k < n
          BY <1>1
        <4>4. s[k].seq > 0 /\ s[n].seq > 0
          BY <2>1, <3>2, <4>1, <4>2
        <4>5. s[k].seq < s[n].seq
          BY <1>1, <4>3, <4>4 DEF Sorted
        <4>6. QED
          BY <2>1, <3>2, <4>1, <4>2, <4>5
      <3>3. QED
        BY <2>1, <2>2, <3>1, <3>2
    <2>6. PartOf(u, n, s, S, w)
      BY <2>1, <2>3, <2>4, <2>5 DEF PartOf
    <2>7. QED
      BY <1>3, <2>6 DEF u
  <1>4. QED
    BY <1>2, <1>3

(* Only takes all that is wanted, nothing else, and keeps the order.               *)
LEMMA OnlyPart ==
  ASSUME NEW S, NEW s \in Seq(S), NEW w
  PROVE  PartOf(Only(s, w), Len(s), s, S, w)
  <1>1. PICK f : /\ Only(s, w) = f[Len(s)] /\ f[0] = <<>>
                 /\ \A n \in 1..Len(s) : f[n] = IF s[n] \in w THEN Append(f[n - 1], s[n]) ELSE f[n - 1]
    BY OnlyKeeps
  <1> DEFINE bad == {n \in 0..Len(s) : ~ PartOf(f[n], n, s, S, w)}
  <1>2. 0 \notin bad
    <2>1. PartOf(<<>>, 0, s, S, w)
      BY DEF PartOf, Sorted
    <2>2. QED
      BY <1>1, <2>1
  <1>3. bad = {}
    <2> SUFFICES ASSUME bad # {} PROVE FALSE
      OBVIOUS
    <2>1. PICK n \in bad : \A m \in bad : n <= m
      <3>1. bad \subseteq Nat
        OBVIOUS
      <3>2. QED
        BY <3>1, Least
    <2>2. n \in 1..Len(s) /\ n - 1 \in 0..Len(s) /\ ~ (n <= n - 1)
      BY <1>2, <2>1
    <2>3. PartOf(f[n - 1], n - 1, s, S, w)
      BY <2>1, <2>2
    <2>4. PartOf(IF s[n] \in w THEN Append(f[n - 1], s[n]) ELSE f[n - 1], n, s, S, w)
      BY <2>2, <2>3, PartGrows
    <2>5. PartOf(f[n], n, s, S, w)
      BY <1>1, <2>2, <2>4
    <2>6. QED
      BY <2>1, <2>5
  <1>4. Len(s) \in 0..Len(s)
    OBVIOUS
  <1>5. PartOf(f[Len(s)], Len(s), s, S, w)
    BY <1>3, <1>4
  <1>6. QED
    BY <1>1, <1>5

(* What is not wanted at the end of a sequence makes no difference.                *)
LEMMA OnlyPrefix ==
  ASSUME NEW S, NEW s \in Seq(S), NEW t \in Seq(S), NEW w, Len(t) <= Len(s),
         \A n \in 1..Len(t) : s[n] = t[n],
         \A n \in (Len(t) + 1)..Len(s) : s[n] \notin w
  PROVE  Only(s, w) = Only(t, w)
  <1>1. PICK f : /\ Only(s, w) = f[Len(s)] /\ f[0] = <<>>
                 /\ \A n \in 1..Len(s) : f[n] = IF s[n] \in w THEN Append(f[n - 1], s[n]) ELSE f[n - 1]
    BY OnlyKeeps
  <1>2. PICK g : /\ Only(t, w) = g[Len(t)] /\ g[0] = <<>>
                 /\ \A n \in 1..Len(t) : g[n] = IF t[n] \in w THEN Append(g[n - 1], t[n]) ELSE g[n - 1]
    BY OnlyKeeps
  <1>3. Len(s) \in Nat /\ Len(t) \in Nat
    OBVIOUS
  <1> DEFINE at(n) == IF n <= Len(t) THEN n ELSE Len(t)
  <1> DEFINE bad == {n \in 0..Len(s) : f[n] # g[at(n)]}
  <1>4. 0 \notin bad
    BY <1>1, <1>2, <1>3
  <1>5. bad = {}
    <2> SUFFICES ASSUME bad # {} PROVE FALSE
      OBVIOUS
    <2>1. PICK n \in bad : \A m \in bad : n <= m
      <3>1. bad \subseteq Nat
        OBVIOUS
      <3>2. QED
        BY <3>1, Least
    <2>2. n \in 1..Len(s) /\ n - 1 \in 0..Len(s) /\ ~ (n <= n - 1)
      BY <1>4, <2>1
    <2>3. f[n - 1] = g[at(n - 1)]
      BY <2>1, <2>2
    <2>4. CASE n <= Len(t)
      <3>1. n \in 1..Len(t) /\ at(n) = n /\ at(n - 1) = n - 1
        BY <1>3, <2>2, <2>4
      <3>2. f[n - 1] = g[n - 1]
        BY <2>3, <3>1
      <3>3. f[n] = g[n]
        BY <1>1, <1>2, <2>2, <3>1, <3>2
      <3>4. QED
        BY <2>1, <3>1, <3>3
    <2>5. CASE n > Len(t)
      <3>1. n \in (Len(t) + 1)..Len(s) /\ at(n) = Len(t) /\ at(n - 1) = Len(t)
        BY <1>3, <2>2, <2>5
      <3>2. f[n] = f[n - 1]
        BY <1>1, <2>2, <3>1
      <3>3. QED
        BY <2>1, <2>3, <3>1, <3>2
    <2>6. QED
      BY <1>3, <2>2, <2>4, <2>5
  <1>6. Len(s) \in 0..Len(s) /\ at(Len(s)) = Len(t)
    BY <1>3
  <1>7. f[Len(s)] = g[Len(t)]
    BY <1>5, <1>6
  <1>8. QED
    BY <1>1, <1>2, <1>7

(* mark is a number of its own and no less than what it is the greatest of.         *)
LEMMA MaxSeqIs ==
  ASSUME NEW S, NEW s \in Seq(S), \A x \in S : x.seq \in Nat, NEW least \in Nat, NEW b \in Nat,
         least <= b, \A i \in DOMAIN s : s[i].seq <= b
  PROVE  MaxSeq(s, least) \in Nat /\ least <= MaxSeq(s, least) /\ \A i \in DOMAIN s : s[i].seq <= MaxSeq(s, least)
  <1> DEFINE T == {least} \cup {e.seq : e \in Range(s)}
  <1>1. \A i \in DOMAIN s : s[i] \in S
    OBVIOUS
  <1>2. \A i \in DOMAIN s : s[i].seq \in T
    BY DEF Range
  <1>3. \A y \in T : y \in 0..b
    <2> TAKE y \in T
    <2>1. CASE y = least
      BY <2>1
    <2>2. ASSUME NEW i \in DOMAIN s, y = s[i].seq PROVE y \in 0..b
      BY <1>1, <2>2
    <2>3. QED
      BY <2>1, <2>2 DEF Range
  <1>4. least \in T /\ T # {} /\ T \subseteq 0..b
    BY <1>3
  <1> HIDE DEF T
  <1>5. Max(T) \in T /\ \A y \in T : y <= Max(T)
    BY <1>4, Maximum
  <1>6. MaxSeq(s, least) = Max(T)
    BY DEF MaxSeq, T
  <1>7. Max(T) \in Nat
    BY <1>3, <1>5
  <1>8. QED
    BY <1>2, <1>4, <1>5, <1>6, <1>7

-----------------------------------------------------------------------------
(* Types.                                                                     *)

Counters == {"prompts", "messages", "breaks", "acts"}
Methods  == {"session.prompt", "session.abort", "permission.reply"}
Requests == [method : Methods, of : Nat, reply : Replies \cup {""}]

RowsOk   == rows \in Seq(RowSet) /\ shown \in Seq(RowSet)
EventsOk == hist \in Seq(EventSet) /\ wire \in Seq(EventSet) /\ ctl \in Seq(EventSet)
NumbersOk ==
    /\ seq \in Nat /\ pending \in Nat /\ routing \in Nat /\ perms \in Nat
    /\ after \in Nat /\ latest \in Nat /\ dialog \in Nat
Turns  == [step : Steps, msg : Nat, seq : Nat, delta : BOOLEAN, cancelled : BOOLEAN]
TurnOk == turn \in Turns
InboxOk == inbox \in Seq(Nat)
BufferOk == buffer \in Seq(Nat)
RequestsOk == out \in Seq(Requests) /\ rpcs \subseteq Requests
LinkOk == link \in {"down", "joining", "up", "broken"}
FlagsOk == rule \in BOOLEAN /\ connected \in BOOLEAN /\ behind \in BOOLEAN
UsedOk == used \in [Counters -> Nat]

TypeInv ==
    /\ RowsOk /\ EventsOk /\ NumbersOk /\ TurnOk /\ InboxOk /\ BufferOk /\ RequestsOk /\ LinkOk /\ FlagsOk
    /\ UsedOk

(* The parts amount to the type invariant.                                       *)
LEMMA TypeInvOK ==
  ASSUME TypeInv PROVE TypeOK
  <1>1. {seq, pending, routing, perms, after, latest, dialog} \subseteq Nat
    BY DEF TypeInv, NumbersOk
  <1>2. {rule, connected, behind} \subseteq BOOLEAN
    BY Zenon DEF TypeInv, FlagsOk
  <1>3. QED
    BY <1>1, <1>2, Zenon DEF TypeInv, TypeOK, RowsOk, EventsOk, TurnOk, Turns, InboxOk, BufferOk, RequestsOk, LinkOk,
       Requests, Methods

(* A turn that does not run.                                                     *)
LEMMA IdleTyped == Idle \in Turns /\ Idle.step = "idle"
  BY DEF Idle, Turns, Steps

(* The types in the beginning.                                                   *)
LEMMA InitTyped ==
  ASSUME Init PROVE TypeInv
  <1>1. RowsOk /\ EventsOk /\ InboxOk /\ BufferOk /\ RequestsOk /\ LinkOk /\ NumbersOk
    BY DEF Init, RowsOk, EventsOk, InboxOk, BufferOk, RequestsOk, LinkOk, NumbersOk
  <1>2. TurnOk
    BY IdleTyped DEF Init, TurnOk
  <1>3. FlagsOk
    BY Zenon DEF Init, FlagsOk
  <1>4. UsedOk
    BY DEF Init, UsedOk, Counters
  <1>5. QED
    BY <1>1, <1>2, <1>3, <1>4 DEF TypeInv

(* A row, an event, a request and a use of a bound are what they should be.           *)
LEMMA RowTyped ==
  ASSUME NEW k \in {"user", "assistant", "result", "note"}, NEW n \in Nat
  PROVE  Row(k, n) \in RowSet /\ Row(k, n).kind = k /\ Row(k, n).of = n
  BY DEF Row, RowSet

Kinds == {"delta", "error", "completed", "ask", "output", "connected", "disconnected"}

(* An event is what it should be.                                                *)
LEMMA EventTyped ==
  ASSUME NEW k \in Kinds, NEW n \in Nat, NEW m \in Nat
  PROVE  Event(k, n, m) \in EventSet /\ Event(k, n, m).kind = k /\ Event(k, n, m).of = n /\ Event(k, n, m).seq = m
  BY DEF Event, EventSet, Kinds

(* A use of a bound.                                                             *)
LEMMA UseTyped ==
  ASSUME UsedOk, NEW b \in Counters, NEW limit, Uses(b, limit)
  PROVE  UsedOk' /\ used[b] \in Nat /\ used'[b] \in Nat /\ used'[b] = used[b] + 1
         /\ \A c \in Counters : c # b => used'[c] = used[c]
  BY DEF UsedOk, Uses

(* An event that is emitted.                                                     *)
LEMMA EmitTyped ==
  ASSUME EventsOk, NEW e \in EventSet, Emit(e), ctl' = ctl
  PROVE  EventsOk'
  BY DEF EventsOk, Emit

(* The parts that a step leaves alone.                                             *)
LEMMA Untouched ==
  ASSUME TypeInv
  PROVE  /\ UNCHANGED <<rows, shown>> => RowsOk'
         /\ UNCHANGED <<hist, wire, ctl>> => EventsOk'
         /\ UNCHANGED <<seq, pending, routing, perms, after, latest, dialog>> => NumbersOk'
         /\ UNCHANGED turn => TurnOk'
         /\ UNCHANGED inbox => InboxOk'
         /\ UNCHANGED buffer => BufferOk'
         /\ UNCHANGED <<out, rpcs>> => RequestsOk'
         /\ UNCHANGED link => LinkOk'
         /\ UNCHANGED <<rule, connected, behind>> => FlagsOk'
         /\ UNCHANGED used => UsedOk'
  BY DEF TypeInv, RowsOk, EventsOk, NumbersOk, TurnOk, InboxOk, BufferOk, RequestsOk, LinkOk, FlagsOk, UsedOk

(* A turn that has stored a row and knows its number.                               *)
LEMMA Numbered ==
  ASSUME TurnOk, NumbersOk, NEW step \in Steps
  PROVE  [turn EXCEPT !.step = step, !.seq = seq + 1] \in Turns
  <1>1. PICK n \in Nat : n = seq + 1
    BY DEF NumbersOk
  <1>2. [turn EXCEPT !.step = step, !.seq = n] \in Turns
    BY DEF TurnOk, Turns
  <1>3. QED
    BY <1>1, <1>2

(* A turn keeps the types.                                                       *)
LEMMA TurnTyped ==
  ASSUME TypeInv, Turn PROVE TypeInv'
  <1> USE DEF socketVars, stateVars
  <1>0. /\ RowsOk /\ EventsOk /\ NumbersOk /\ TurnOk /\ InboxOk /\ UsedOk
        /\ {"messages", "prompts", "breaks", "acts"} \subseteq Counters
    BY DEF TypeInv, Counters
  <1>1. CASE Promote
    <2>1. UsedOk' /\ used["messages"] + 1 \in Nat
      BY <1>0, <1>1, UseTyped DEF Promote, NextMessage
    <2>2. TurnOk'
      BY <1>1, <2>1 DEF Promote, NextMessage, Idle, TurnOk, Turns, Steps
    <2>3. Head(inbox) \in Nat /\ InboxOk'
      BY <1>0, <1>1 DEF Promote, InboxOk
    <2>4. RowsOk'
      BY <1>0, <1>1, <2>3, RowTyped DEF Promote, RowsOk
    <2>5. NumbersOk'
      BY <1>0, <1>1 DEF Promote, NumbersOk
    <2>6. QED
      BY <1>1, <2>1, <2>2, <2>3, <2>4, <2>5, Untouched DEF TypeInv, Promote
  <1>2. CASE Delta
    <2>1. Event("delta", turn.msg, 0) \in EventSet
      BY <1>0, EventTyped DEF TurnOk, Turns, Kinds
    <2>2. EventsOk'
      BY <1>0, <1>2, <2>1 DEF Delta, EmitDelta, EventsOk
    <2>3. TurnOk'
      BY <1>0, <1>2 DEF Delta, TurnOk, Turns
    <2>4. QED
      BY <1>2, <2>2, <2>3, Untouched DEF TypeInv, Delta
  <1>3. CASE Store
    <2>1. Row("assistant", turn.msg) \in RowSet
      BY <1>0, RowTyped DEF TurnOk, Turns
    <2>2. RowsOk'
      BY <1>0, <1>3, <2>1 DEF Store, RowsOk
    <2>3. TurnOk'
      <3>1. [turn EXCEPT !.step = "announce", !.seq = seq + 1] \in Turns
        BY <1>0, Numbered DEF Steps
      <3>2. QED
        BY <1>3, <3>1, IdleTyped DEF Store, TurnOk
    <2>4. NumbersOk'
      BY <1>0, <1>3 DEF Store, NumbersOk
    <2>5. QED
      BY <1>3, <2>2, <2>3, <2>4, Untouched DEF TypeInv, Store
  <1>4. CASE Fail
    <2>1. Row("assistant", turn.msg) \in RowSet
      BY <1>0, RowTyped DEF TurnOk, Turns
    <2>2. RowsOk'
      BY <1>0, <1>4, <2>1 DEF Fail, RowsOk
    <2>3. NumbersOk'
      BY <1>0, <1>4 DEF Fail, NumbersOk
    <2>4. Event("error", turn.msg, seq') \in EventSet
      BY <1>0, <2>3, EventTyped DEF TurnOk, Turns, NumbersOk, Kinds
    <2>5. EventsOk'
      BY <1>0, <1>4, <2>4, EmitTyped DEF Fail
    <2>6. TurnOk'
      BY <1>4, IdleTyped DEF Fail, TurnOk
    <2>7. QED
      BY <1>4, <2>2, <2>3, <2>5, <2>6, Untouched DEF TypeInv, Fail
  <1>5. CASE Announce
    <2>1. Event("completed", turn.msg, turn.seq) \in EventSet
      BY <1>0, EventTyped DEF TurnOk, Turns, Kinds
    <2>2. EventsOk'
      BY <1>0, <1>5, <2>1, EmitTyped DEF Announce
    <2>3. TurnOk'
      BY <1>0, <1>5, IdleTyped DEF Announce, TurnOk, Turns, Steps
    <2>4. QED
      BY <1>5, <2>2, <2>3, Untouched DEF TypeInv, Announce
  <1>6. CASE Call
    <2>1. Event("ask", perms + 1, seq + 1) \in EventSet
      BY <1>0, EventTyped DEF NumbersOk, Kinds
    <2>2. EventsOk'
      BY <1>0, <1>6, <2>1, EmitTyped DEF Call, EventsOk
    <2>3. TurnOk'
      BY <1>0, <1>6 DEF Call, TurnOk, Turns, Steps
    <2>4. NumbersOk'
      BY <1>0, <1>6 DEF Call, NumbersOk
    <2>5. QED
      BY <1>6, <2>2, <2>3, <2>4, Untouched DEF TypeInv, Call
  <1>7. CASE Route
    <2>1. NumbersOk'
      BY <1>0, <1>7 DEF Route, NumbersOk
    <2>2. QED
      BY <1>7, <2>1, Untouched DEF TypeInv, Route
  <1>8. CASE AskAborted
    <2>1. TurnOk'
      BY <1>8, IdleTyped DEF AskAborted, TurnOk
    <2>2. QED
      BY <1>8, <2>1, Untouched DEF TypeInv, AskAborted
  <1>9. CASE StoreResult
    <2>1. Row("result", turn.msg) \in RowSet
      BY <1>0, RowTyped DEF TurnOk, Turns
    <2>2. RowsOk'
      BY <1>0, <1>9, <2>1 DEF StoreResult, RowsOk
    <2>3. TurnOk'
      <3>1. [turn EXCEPT !.step = "output", !.seq = seq + 1] \in Turns
        BY <1>0, Numbered DEF Steps
      <3>2. QED
        BY <1>9, <3>1, IdleTyped DEF StoreResult, TurnOk
    <2>4. NumbersOk'
      BY <1>0, <1>9 DEF StoreResult, NumbersOk
    <2>5. QED
      BY <1>9, <2>2, <2>3, <2>4, Untouched DEF TypeInv, StoreResult
  <1>10. CASE Output
    <2>1. Event("output", turn.msg, turn.seq) \in EventSet
      BY <1>0, EventTyped DEF TurnOk, Turns, Kinds
    <2>2. EventsOk'
      BY <1>0, <1>10, <2>1, EmitTyped DEF Output
    <2>3. TurnOk' /\ UsedOk'
      <3>1. CASE NextMessage
        <4>1. UsedOk' /\ used["messages"] + 1 \in Nat
          BY <1>0, <3>1, UseTyped DEF NextMessage
        <4>2. TurnOk'
          BY <3>1, <4>1 DEF NextMessage, Idle, TurnOk, Turns, Steps
        <4>3. QED
          BY <4>1, <4>2
      <3>2. CASE turn' = Idle /\ UNCHANGED used
        BY <1>0, <3>2, IdleTyped DEF TurnOk, UsedOk
      <3>3. QED
        BY <1>10, <3>1, <3>2 DEF Output
    <2>4. QED
      BY <1>10, <2>2, <2>3, Untouched DEF TypeInv, Output
  <1>11. QED
    BY <1>1, <1>2, <1>3, <1>4, <1>5, <1>6, <1>7, <1>8, <1>9, <1>10 DEF Turn

(* ReplyTo leaves numbers, a turn and a rule.                                       *)
LEMMA ReplyTyped ==
  ASSUME TypeInv, NEW p, NEW reply, ReplyTo(p, reply), UNCHANGED <<seq, routing, perms, after, latest, dialog>>,
         UNCHANGED <<connected, behind>>
  PROVE  NumbersOk' /\ TurnOk' /\ FlagsOk'
  <1>1. NumbersOk /\ TurnOk /\ FlagsOk
    BY DEF TypeInv
  <1>2. NumbersOk'
    BY <1>1 DEF NumbersOk, ReplyTo
  <1>3. TurnOk'
    BY <1>1 DEF TurnOk, Turns, Steps, ReplyTo
  <1>4. rule' \in BOOLEAN
    BY <1>1, Zenon DEF FlagsOk, ReplyTo
  <1>5. FlagsOk'
    BY <1>1, <1>4 DEF FlagsOk
  <1>6. QED
    BY <1>2, <1>3, <1>5

(* The tasks of requests keep the types.                                         *)
LEMMA RpcTyped ==
  ASSUME TypeInv, NEW r \in rpcs, ProcessRpc(r) PROVE TypeInv'
  <1> USE DEF socketVars, stateVars
  <1>0. /\ NumbersOk /\ TurnOk /\ InboxOk /\ RequestsOk /\ FlagsOk
        /\ r.of \in Nat
    BY DEF TypeInv, RequestsOk, Requests
  <1>1. RequestsOk'
    BY <1>0 DEF ProcessRpc, RequestsOk
  <1>2. CASE Reply(r)
    <2>1. NumbersOk' /\ TurnOk' /\ FlagsOk'
      <3>1. CASE ReplyTo(r.of, r.reply)
        BY <1>0, <3>1, ReplyTyped DEF ProcessRpc
      <3>2. CASE UNCHANGED <<pending, rule, turn, granted>>
        BY <3>2, Untouched DEF ProcessRpc
      <3>3. QED
        BY <1>2, <3>1, <3>2 DEF Reply
    <2>2. QED
      BY <1>1, <1>2, <2>1, Untouched DEF TypeInv, ProcessRpc, Reply
  <1>3. CASE Prompt(r)
    <2>1. InboxOk'
      BY <1>0, <1>3 DEF Prompt, InboxOk
    <2>2. QED
      BY <1>1, <1>3, <2>1, Untouched DEF TypeInv, ProcessRpc, Prompt
  <1>4. CASE Abort(r)
    <2>1. InboxOk'
      BY <1>4 DEF Abort, InboxOk
    <2>2. TurnOk'
      <3>1. PICK b \in BOOLEAN : b = (turn.step # "idle")
        BY Zenon
      <3>2. [turn EXCEPT !.cancelled = b] \in Turns
        BY <1>0 DEF TurnOk, Turns
      <3>3. turn' = [turn EXCEPT !.cancelled = b]
        BY <1>4, <3>1, Zenon DEF Abort
      <3>4. QED
        BY <3>2, <3>3 DEF TurnOk
    <2>3. QED
      BY <1>1, <1>4, <2>1, <2>2, Untouched DEF TypeInv, ProcessRpc, Abort
  <1>5. QED
    BY <1>2, <1>3, <1>4 DEF ProcessRpc

(* Another client keeps the types.                                               *)
LEMMA OtherTyped ==
  ASSUME TypeInv, OtherReplies PROVE TypeInv'
  <1> USE DEF socketVars, stateVars
  <1>1. PICK reply \in Replies : ReplyTo(pending, reply)
    BY DEF OtherReplies
  <1>2. NumbersOk' /\ TurnOk' /\ FlagsOk'
    BY <1>1, ReplyTyped DEF OtherReplies
  <1>3. UsedOk'
    BY UseTyped DEF OtherReplies, TypeInv, Counters
  <1>4. QED
    BY <1>2, <1>3, Untouched DEF TypeInv, OtherReplies

(* So do the rows that a compaction leaves.                                      *)
LEMMA DroppedTyped ==
  ASSUME TypeInv, RowsDropped, shown' = shown \/ shown' = <<>> PROVE RowsOk'
  <1>1. Keep \in Nat /\ rows \in Seq(RowSet) /\ shown \in Seq(RowSet)
    BY BoundsAssumption DEF TypeInv, RowsOk
  <1>2. Len(rows) > Keep /\ rows' = SubSeq(rows, Len(rows) - Keep + 1, Len(rows))
    BY DEF RowsDropped, LastN
  <1>3. rows' \in Seq(RowSet)
    <2>1. SubSeq(rows, Len(rows) - Keep + 1, Len(rows)) \in Seq(RowSet)
      BY <1>1, <1>2
    <2>2. QED
      BY <1>2, <2>1
  <1>4. shown' \in Seq(RowSet)
    <2>1. <<>> \in Seq(RowSet)
      OBVIOUS
    <2>2. QED
      BY <1>1, <2>1, Zenon
  <1>5. QED
    BY <1>3, <1>4 DEF RowsOk

LEMMA CompactTyped ==
  ASSUME TypeInv, OtherCompacts PROVE TypeInv'
  <1> USE DEF socketVars
  <1>1. RowsOk'
    BY DroppedTyped DEF OtherCompacts
  <1>2. UsedOk'
    BY UseTyped DEF OtherCompacts, TypeInv, Counters
  <1>3. NumbersOk' /\ FlagsOk'
    BY DEF OtherCompacts, TypeInv, NumbersOk, FlagsOk
  <1>4. QED
    BY <1>1, <1>2, <1>3, Untouched DEF TypeInv, OtherCompacts

(* The socket keeps the types.                                                   *)
LEMMA SocketTyped ==
  ASSUME TypeInv, Socket PROVE TypeInv'
  <1> USE DEF daemonVars, stateVars
  <1>0. /\ EventsOk /\ NumbersOk /\ RequestsOk /\ UsedOk /\ {"messages", "prompts", "breaks", "acts"} \subseteq Counters
        /\ Event("connected", 0, 0) \in EventSet /\ Event("disconnected", 0, 0) \in EventSet
    BY EventTyped DEF TypeInv, Counters, Kinds
  <1>1. CASE Connect
    <2>1. EventsOk' /\ NumbersOk' /\ LinkOk'
      BY <1>0, <1>1 DEF Connect, EventsOk, NumbersOk, LinkOk
    <2>2. QED
      BY <1>1, <2>1, Untouched DEF TypeInv, Connect
  <1>2. CASE Replay
    <2>1. LinkOk'
      BY <1>2 DEF Replay, LinkOk
    <2>2. EventsOk'
      <3>1. PICK h : h = Only(hist, {e \in Range(hist) : e.seq > after})
        OBVIOUS
      <3>2. PICK m : m = MaxSeq(h, after)
        OBVIOUS
      <3>3. PICK w : w = Only(wire, {e \in Range(wire) : e.seq = 0 \/ e.seq > m})
        OBVIOUS
      <3>4. hist \in Seq(EventSet) /\ wire \in Seq(EventSet)
        BY <1>0 DEF EventsOk
      <3>5. h \in Seq(EventSet) /\ w \in Seq(EventSet)
        BY <3>1, <3>3, <3>4, OnlyPart DEF PartOf
      <3>6. wire' = h \o w /\ hist' = hist /\ ctl' = ctl
        BY <1>2, <3>1, <3>2, <3>3 DEF Replay
      <3>7. QED
        BY <1>0, <3>5, <3>6 DEF EventsOk
    <2>3. QED
      BY <1>2, <2>1, <2>2, Untouched DEF TypeInv, Replay
  <1>3. CASE Break
    <2>1. LinkOk' /\ UsedOk'
      BY <1>0, <1>3, UseTyped DEF Break, LinkOk
    <2>2. EventsOk'
      <3>1. wire \in Seq(EventSet) /\ hist' = hist /\ ctl' = ctl
        BY <1>0, <1>3 DEF Break, EventsOk
      <3>2. \A n \in 0..Len(wire) : SubSeq(wire, 1, n) \in Seq(EventSet)
        BY <3>1
      <3>3. CASE link = "joining"
        <4>1. wire' = <<>>
          BY <1>3, <3>3 DEF Break
        <4>2. QED
          BY <1>0, <3>1, <4>1 DEF EventsOk
      <3>4. CASE link # "joining"
        <4>1. PICK n \in 0..Len(wire) : wire' = SubSeq(wire, 1, n)
          BY <1>3, <3>4 DEF Break
        <4>2. QED
          BY <1>0, <3>1, <3>2, <4>1 DEF EventsOk
      <3>5. QED
        BY <3>3, <3>4
    <2>3. QED
      BY <1>3, <2>1, <2>2, Untouched DEF TypeInv, Break
  <1>4. CASE Read
    <2>1. Head(wire) \in EventSet /\ Head(wire).seq \in Nat
      <3>1. Head(wire) \in EventSet
        BY <1>0, <1>4 DEF Read, EventsOk
      <3>2. QED
        BY <3>1 DEF EventSet
    <2>2. EventsOk' /\ NumbersOk'
      BY <1>0, <1>4, <2>1 DEF Read, EventsOk, NumbersOk
    <2>3. QED
      BY <1>4, <2>2, Untouched DEF TypeInv, Read
  <1>5. ASSUME LoseLink, hist' = hist PROVE EventsOk' /\ LinkOk'
    BY <1>0, <1>5 DEF LoseLink, EventsOk, LinkOk
  <1>6. CASE Notice
    BY <1>5, <1>6, Untouched DEF TypeInv, Notice
  <1>7. CASE Write
    <2>1. Head(out) \in Requests
      BY <1>0, <1>7 DEF Write, RequestsOk
    <2>2. RequestsOk'
      BY <1>0, <1>7, <2>1 DEF Write, RequestsOk
    <2>3. EventsOk' /\ LinkOk'
      BY <1>5, <1>7, Untouched DEF Write
    <2>4. QED
      BY <1>7, <2>2, <2>3, Untouched DEF TypeInv, Write
  <1>8. QED
    BY <1>1, <1>2, <1>3, <1>4, <1>6, <1>7 DEF Socket

(* A request that is sent.                                                       *)
LEMMA SendTyped ==
  ASSUME RequestsOk, NEW m \in Methods, NEW n \in Nat, NEW reply \in Replies \cup {""},
         Sends(Request(m, n, reply)), rpcs' = rpcs
  PROVE  RequestsOk'
  <1>1. Request(m, n, reply) \in Requests
    BY DEF Request, Requests
  <1>2. PICK r \in Requests : r = Request(m, n, reply)
    BY <1>1
  <1>3. out' = Append(out, r)
    BY <1>2 DEF Sends
  <1>4. out \in Seq(Requests)
    BY DEF RequestsOk
  <1>5. out' \in Seq(Requests)
    BY <1>2, <1>3, <1>4, AppendProperties
  <1>6. QED
    BY <1>5 DEF RequestsOk

(* The interface keeps the types.                                                *)
LEMMA InterfaceTyped ==
  ASSUME TypeInv, Interface PROVE TypeInv'
  <1> USE DEF daemonVars, socketVars
  <1>0. /\ RowsOk /\ EventsOk /\ NumbersOk /\ BufferOk /\ RequestsOk /\ FlagsOk /\ UsedOk
        /\ {"messages", "prompts", "breaks", "acts"} \subseteq Counters
        /\ {"session.prompt", "session.abort", "permission.reply"} \subseteq Methods
    BY DEF TypeInv, Counters, Methods
  <1>1. CASE TypePrompt
    <2>1. UsedOk' /\ used'["prompts"] \in Nat
      BY <1>0, <1>1, UseTyped DEF TypePrompt
    <2>2. RowsOk'
      <3>1. PICK r \in RowSet : r = Row("user", used'["prompts"])
        BY <2>1, RowTyped
      <3>2. shown' = Append(shown, r) /\ rows' = rows
        BY <1>1, <3>1 DEF TypePrompt
      <3>3. QED
        BY <1>0, <3>2 DEF RowsOk
    <2>3. RequestsOk'
      BY <1>0, <1>1, <2>1, SendTyped DEF TypePrompt
    <2>4. QED
      BY <1>1, <2>1, <2>2, <2>3, Untouched DEF TypeInv, TypePrompt
  <1>2. CASE PressEsc
    <2>1. UsedOk' /\ used'["acts"] \in Nat
      BY <1>0, <1>2, UseTyped DEF PressEsc
    <2>2. BufferOk'
      <3>1. buffer' = <<>>
        BY <1>2 DEF PressEsc
      <3>2. QED
        BY <3>1 DEF BufferOk
    <2>3. RequestsOk'
      BY <1>0, <1>2, <2>1, SendTyped DEF PressEsc
    <2>4. QED
      BY <1>2, <2>1, <2>2, <2>3, Untouched DEF TypeInv, PressEsc
  <1>3. CASE Command
    <2>1. UsedOk' /\ used'["acts"] \in Nat
      BY <1>0, <1>3, UseTyped DEF Command
    <2>2. Row("note", used'["acts"]) \in RowSet
      BY <2>1, RowTyped
    <2>3. RowsOk'
      <3>1. CASE rows' = Append(rows, Row("note", used'["acts"]))
        BY <1>0, <1>3, <2>2, <3>1 DEF Command, RowsOk
      <3>2. CASE RowsDropped
        BY <1>3, <3>2, DroppedTyped DEF Command
      <3>3. QED
        BY <1>3, <3>1, <3>2 DEF Command
    <2>4. NumbersOk'
      BY <1>0, <1>3 DEF Command, NumbersOk
    <2>5. FlagsOk'
      BY <1>0, <1>3 DEF Command, FlagsOk
    <2>6. QED
      BY <1>3, <2>1, <2>3, <2>4, <2>5, Untouched DEF TypeInv, Command
  <1>4. CASE Handle
    <2>1. Head(ctl) \in EventSet /\ ctl' = Tail(ctl) /\ ctl # <<>>
      BY <1>0, <1>4 DEF Handle, Takes, EventsOk
    <2>2. EventsOk'
      BY <1>0, <1>4, <2>1 DEF Handle, Takes, EventsOk
    <2>3. RowsOk'
      BY <1>0, <1>4 DEF Handle, Takes, Reload, RowsOk
    <2>4. BufferOk'
      BY <1>0, <1>4, <2>1 DEF Handle, Takes, BufferOk, EventSet
    <2>5. NumbersOk'
      BY <1>0, <1>4, <2>1 DEF Handle, Takes, NumbersOk, EventSet
    <2>6. FlagsOk'
      <3>1. connected' \in BOOLEAN
        BY <1>0, <1>4, Zenon DEF Handle, Takes, FlagsOk
      <3>2. behind' \in BOOLEAN
        BY <1>0, <1>4 DEF Handle, Takes, Reload, FlagsOk
      <3>3. rule' = rule
        BY <1>4 DEF Handle, Takes
      <3>4. QED
        BY <1>0, <3>1, <3>2, <3>3 DEF FlagsOk
    <2>7. UsedOk'
      <3>1. used' = used \/ Uses("acts", MaxActs)
        BY <1>4 DEF Handle, Takes, Reload
      <3>2. QED
        BY <1>0, <3>1, UseTyped DEF UsedOk, Counters
    <2>8. QED
      BY <1>4, <2>2, <2>3, <2>4, <2>5, <2>6, <2>7, Untouched DEF TypeInv, Handle, Takes
  <1>5. ASSUME NEW reply \in Replies, Answer(reply) PROVE TypeInv'
    <2>1. dialog \in Nat
      BY <1>0 DEF NumbersOk
    <2>2. RequestsOk'
      BY <1>0, <1>5, <2>1, SendTyped DEF Answer
    <2>3. NumbersOk'
      BY <1>0, <1>5 DEF Answer, NumbersOk
    <2>4. QED
      BY <1>5, <2>2, <2>3, Untouched DEF TypeInv, Answer
  <1>6. QED
    BY <1>1, <1>2, <1>3, <1>4, <1>5 DEF Interface

(* Every step keeps the types.                                                   *)
LEMMA StepTyped ==
  ASSUME TypeInv, [Next]_vars PROVE TypeInv'
  <1>1. CASE UNCHANGED vars
    BY <1>1, Untouched DEF TypeInv, vars, daemonVars, socketVars, stateVars
  <1>2. CASE Next
    BY <1>2, TurnTyped, SocketTyped, InterfaceTyped, OtherTyped, CompactTyped, RpcTyped DEF Next
  <1>3. QED
    BY <1>1, <1>2

-----------------------------------------------------------------------------
(* Consent.                                                                   *)

(* A reply on its way carries an answer that a user gave to that very request.       *)
Given(r) == r.method = "permission.reply" => [of |-> r.of, reply |-> r.reply] \in answers

AllGiven == (\A r \in rpcs : Given(r)) /\ \A k \in DOMAIN out : Given(out[k])

ConsentInv == AllGiven /\ ConsentIsOwn

(* An answer that was given grants what it was given for.                           *)
LEMMA ReplyConsented ==
  ASSUME ConsentInv, NEW p, NEW reply, ReplyTo(p, reply), answers \subseteq answers',
         [of |-> p, reply |-> reply] \in answers'
  PROVE  ConsentIsOwn'
  BY DEF ConsentInv, ConsentIsOwn, ReplyTo

(* A reply is sent with what the user answered.                                  *)
LEMMA SendGiven ==
  ASSUME TypeInv, ConsentInv, NEW m, NEW n, NEW reply, Sends(Request(m, n, reply)), rpcs' = rpcs,
         answers \subseteq answers', m = "permission.reply" => [of |-> n, reply |-> reply] \in answers'
  PROVE  AllGiven'
  <1>1. PICK q : q = Request(m, n, reply)
    OBVIOUS
  <1>2. out \in Seq(Requests) /\ out' = Append(out, q)
    BY <1>1 DEF TypeInv, RequestsOk, Sends
  <1>3. Given(q)'
    BY <1>1 DEF Given, Request
  <1>4. \A r : Given(r) => Given(r)'
    BY DEF Given
  <1>5. \A k \in DOMAIN out' : out'[k] = q \/ (k \in DOMAIN out /\ out'[k] = out[k])
    BY <1>2
  <1>6. \A r \in rpcs : Given(r)'
    BY <1>4 DEF ConsentInv, AllGiven
  <1>7. \A k \in DOMAIN out' : Given(out[k])'
    BY <1>3, <1>4, <1>5 DEF ConsentInv, AllGiven
  <1>8. QED
    BY <1>6, <1>7 DEF AllGiven

(* Every step lets only those tools run that a user has granted.                 *)
LEMMA StepConsented ==
  ASSUME TypeInv, ConsentInv, [Next]_vars
  PROVE  ConsentInv'
  <1> USE DEF daemonVars, socketVars, stateVars
  <1>1. ASSUME UNCHANGED <<rpcs, out, answers, granted, rule>> PROVE ConsentInv'
    BY <1>1 DEF ConsentInv, AllGiven, ConsentIsOwn, Given
  <1>2. ASSUME UNCHANGED <<answers, granted, rule>>, \A r \in rpcs' : Given(r), \A k \in DOMAIN out' : Given(out'[k])
        PROVE  ConsentInv'
    BY <1>2 DEF ConsentInv, AllGiven, ConsentIsOwn, Given
  <1>3. CASE Turn
    BY <1>1, <1>3 DEF Turn, Promote, Delta, Store, Fail, Announce, Call, Route, AskAborted, StoreResult, Output
  <1>4. CASE Socket
    <2>1. CASE Write
      <3>1. out \in Seq(Requests) /\ out # <<>>
        BY <2>1 DEF Write, TypeInv, RequestsOk
      <3>2. 1 \in DOMAIN out /\ Head(out) = out[1]
        BY <3>1
      <3>3. \A k \in DOMAIN Tail(out) : k + 1 \in DOMAIN out /\ Tail(out)[k] = out[k + 1]
        BY <3>1
      <3>4. \A r \in rpcs' : Given(r)
        BY <2>1, <3>2 DEF Write, ConsentInv, AllGiven
      <3>5. \A k \in DOMAIN out' : Given(out'[k])
        BY <2>1, <3>3 DEF Write, ConsentInv, AllGiven
      <3>6. QED
        BY <1>2, <2>1, <3>4, <3>5 DEF Write
    <2>2. QED
      BY <1>1, <1>4, <2>1 DEF Socket, Connect, Replay, Break, Read, Notice
  <1>5. CASE Interface
    <2>1. ASSUME NEW reply \in Replies, Answer(reply) PROVE ConsentInv'
      <3>1. answers \subseteq answers' /\ [of |-> dialog, reply |-> reply] \in answers'
        BY <2>1 DEF Answer
      <3>2. AllGiven'
        BY <2>1, <3>1, SendGiven DEF Answer
      <3>3. ConsentIsOwn'
        BY <2>1, <3>1 DEF Answer, ConsentInv, AllGiven, ConsentIsOwn
      <3>4. QED
        BY <3>2, <3>3 DEF ConsentInv, AllGiven
    <2>2. ASSUME TypePrompt \/ PressEsc PROVE ConsentInv'
      <3>1. AllGiven'
        BY <2>2, SendGiven DEF TypePrompt, PressEsc
      <3>2. UNCHANGED <<answers, granted, rule>>
        BY <2>2 DEF TypePrompt, PressEsc
      <3>3. ConsentIsOwn'
        BY <3>2 DEF ConsentInv, ConsentIsOwn
      <3>4. QED
        BY <3>1, <3>3 DEF ConsentInv
    <2>3. QED
      BY <1>1, <1>5, <2>1, <2>2 DEF Interface, Command, Handle, Takes
  <1>6. CASE OtherReplies
    <2>1. PICK reply \in Replies : /\ ReplyTo(pending, reply)
                                   /\ answers' = answers \cup {[of |-> pending, reply |-> reply]}
      BY <1>6 DEF OtherReplies
    <2>2. ConsentIsOwn'
      BY <2>1, ReplyConsented
    <2>3. QED
      BY <1>6, <2>1, <2>2 DEF OtherReplies, ConsentInv, AllGiven, Given
  <1>7. ASSUME NEW r \in rpcs, ProcessRpc(r) PROVE ConsentInv'
    <2>1. rpcs' \subseteq rpcs /\ out' = out /\ answers' = answers
      BY <1>7 DEF ProcessRpc
    <2>2. ConsentIsOwn'
      <3>1. CASE Reply(r) /\ ReplyTo(r.of, r.reply)
        <4>1. [of |-> r.of, reply |-> r.reply] \in answers
          BY <3>1 DEF Reply, ConsentInv, AllGiven, Given
        <4>2. QED
          BY <2>1, <3>1, <4>1, ReplyConsented
      <3>2. CASE UNCHANGED <<granted, rule>>
        BY <2>1, <3>2 DEF ConsentInv, AllGiven, ConsentIsOwn
      <3>3. QED
        BY <1>7, <3>1, <3>2 DEF ProcessRpc, Reply, Prompt, Abort
    <2>3. QED
      BY <2>1, <2>2 DEF ConsentInv, AllGiven, Given
  <1>8. CASE UNCHANGED vars
    BY <1>1, <1>8 DEF vars
  <1>9. CASE OtherCompacts
    BY <1>1, <1>9 DEF OtherCompacts
  <1>10. QED
    BY <1>3, <1>4, <1>5, <1>6, <1>7, <1>8, <1>9 DEF Next

(* A tool runs by permission only if the user granted that request, seeing it, and a    *)
(* rule is saved only after somebody answered "always" (reply_permission).               *)
THEOREM ConsentOwn == Spec => []ConsentIsOwn
  <1>1. Init => TypeInv /\ ConsentInv
    <2> SUFFICES ASSUME Init PROVE TypeInv /\ ConsentInv
      OBVIOUS
    <2>1. ConsentInv
      BY DEF Init, ConsentInv, AllGiven, ConsentIsOwn
    <2>2. QED
      BY <2>1, InitTyped
  <1>2. TypeInv /\ ConsentInv /\ [Next]_vars => (TypeInv /\ ConsentInv)'
    BY StepTyped, StepConsented
  <1>3. ConsentInv => ConsentIsOwn
    BY DEF ConsentInv, AllGiven
  <1>4. QED
    BY <1>1, <1>2, <1>3, PTL DEF Spec

-----------------------------------------------------------------------------
(* What is on its way to the interface.                                          *)

DurableKinds == {"error", "completed", "ask", "output"}

(* The history is numbered upwards, within the numbers the session has used.          *)
HistNumbers ==
    /\ \A i \in DOMAIN hist : hist[i].seq \in 1..seq /\ hist[i].kind \in DurableKinds
    /\ Sorted(hist)
    /\ turn.step \in {"announce", "output"} =>
         turn.seq \in 1..seq /\ \A i \in DOMAIN hist : hist[i].seq < turn.seq

IsAsk(e) == e.kind = "ask" /\ e.of = perms

(* The last request for permission is the one that was issued last.                    *)
LastAsk ==
    (\E i \in DOMAIN hist : hist[i].kind = "ask") \/ turn.step = "ask" =>
       \E i \in DOMAIN hist : IsAsk(hist[i]) /\ \A j \in DOMAIN hist : hist[j].kind = "ask" => j <= i

(* A message that is still streamed has not been completed, and one whose tool call is   *)
(* still to come has no output.                                                     *)
Messages ==
    /\ turn.msg <= used["messages"]
    /\ \A i \in DOMAIN hist : hist[i].kind \in {"completed", "output"} => hist[i].of <= used["messages"]
    /\ turn.step \in {"stream", "announce"} =>
         \A i \in DOMAIN hist : hist[i].kind = "completed" => hist[i].of # turn.msg
    /\ turn.step # "idle" => \A i \in DOMAIN hist : hist[i].kind = "output" => hist[i].of # turn.msg

InHist(n) == n = 0 \/ \E i \in DOMAIN hist : hist[i].seq = n

(* What is in the socket is later than what was read from it.                         *)
WireInv ==
    /\ InHist(latest) /\ InHist(after)
    /\ link = "joining" => latest <= after
    /\ link = "down" => wire = <<>>
    /\ Sorted(wire)
    /\ \A k \in DOMAIN wire : wire[k].seq = 0 => wire[k].kind = "delta"
    /\ \A k \in DOMAIN wire : wire[k].seq > 0 =>
         wire[k] \in Range(hist) /\ wire[k].seq > latest /\ (link = "joining" => wire[k].seq > after)

CtlInv ==
    /\ \A k \in DOMAIN ctl : ctl[k].seq = 0 => ctl[k].kind \in {"delta", "connected", "disconnected"}
    /\ \A k \in DOMAIN ctl : ctl[k].seq > 0 => ctl[k] \in Range(hist)

(* An event of the history that is still going to be read: it is in the socket, or is   *)
(* among those that the daemon sends again.                                          *)
Ahead(e) ==
    \/ link \in {"up", "broken"} /\ e \in Range(wire)
    \/ link = "joining" /\ e.seq > after
    \/ link = "down" /\ e.seq > latest
    \/ link = "broken" /\ e.seq > latest /\ \A k \in DOMAIN wire : wire[k].seq < e.seq

AskAhead == \E e \in Range(hist) : IsAsk(e) /\ Ahead(e)

Answered ==
    \/ perms \in gone
    \/ \E r \in rpcs \cup Range(out) : r.method = "permission.reply" /\ r.of = perms

(* The request that a turn waits for comes last, and comes until it is answered.         *)
AskWire ==
    \A k \in DOMAIN wire : wire[k].kind = "ask" =>
       \E e \in Range(hist) : IsAsk(e) /\ Ahead(e) /\ wire[k].seq <= e.seq
AskCtl ==
    \A k \in DOMAIN ctl : ctl[k].kind = "ask" => AskAhead \/ \E l \in DOMAIN ctl : k <= l /\ IsAsk(ctl[l])
AskTurn ==
    turn.step = "ask" /\ ~turn.cancelled =>
       AskAhead \/ dialog = perms \/ Answered \/ \E l \in DOMAIN ctl : IsAsk(ctl[l])
AskInv == AskWire /\ AskCtl /\ AskTurn

Tells(e, r) ==
    \/ e.kind = "completed" /\ r = Row("assistant", e.of)
    \/ e.kind = "output" /\ r = Row("result", e.of)

AnswerRows == {r \in RowSet : r.kind \in {"assistant", "result"}}

(* The first n rows are what the list shows, and of every later row that was announced    *)
(* the announcement is still to come.                                                *)
ShownUpTo(n) ==
    /\ \A w \in SUBSET AnswerRows : Only(shown, w) = Only(SubSeq(rows, 1, n), w)
    /\ \A k \in (n + 1)..Len(rows) : \A e \in Range(hist) :
         Tells(e, rows[k]) => Ahead(e) \/ e \in Range(ctl)

ShownInv == ~behind => \E n \in 0..Len(rows) : ShownUpTo(n)

Completes(e, m) == e.kind = "completed" /\ e.of = m

(* A delta that comes after the completion of its message was caught in the ring: in the   *)
(* channel to the interface, in the socket, and before the replay.                       *)
FinishedKnown == \A m \in finished : \E e \in Range(hist) : Completes(e, m)
CtlFresh ==
    \A k \in DOMAIN ctl :
      /\ ctl[k].kind = "delta"
      /\ ctl[k].of \in finished \/ \E l \in DOMAIN ctl : l < k /\ Completes(ctl[l], ctl[k].of)
      => ctl[k].of \in caught
WireFresh ==
    link \in {"up", "broken"} =>
      \A k \in DOMAIN wire :
        /\ wire[k].kind = "delta"
        /\ \/ wire[k].of \in finished
           \/ \E l \in DOMAIN ctl : Completes(ctl[l], wire[k].of)
           \/ \E l \in DOMAIN wire : l < k /\ Completes(wire[l], wire[k].of)
        => wire[k].of \in caught
RingFresh ==
    link = "joining" =>
      \A k \in DOMAIN wire : wire[k].kind = "delta" =>
        \A e \in Range(hist) : Completes(e, wire[k].of) => e \in Range(wire)
BufferInv == FinishedKnown /\ BufferFresh /\ CtlFresh /\ WireFresh /\ RingFresh

-----------------------------------------------------------------------------
(* The history.                                                               *)

(* A durable event that is later than all before it is appended and broadcast.           *)
Emission(e) ==
    /\ e \in EventSet /\ e.kind \in DurableKinds
    /\ e.seq \in 1..seq' /\ seq <= seq'
    /\ \A i \in DOMAIN hist : hist[i].seq < e.seq
    /\ Emit(e)

(* A completion is a durable event with the number of its row.                   *)
LEMMA AnnounceEmits ==
  ASSUME TypeInv, HistNumbers, Announce
  PROVE  LET e == Event("completed", turn.msg, turn.seq)
         IN  Emission(e) /\ e.kind = "completed" /\ e.of = turn.msg
  <1>1. TurnOk /\ NumbersOk
    BY DEF TypeInv
  <1>2. turn.msg \in Nat /\ turn.seq \in Nat /\ seq \in Nat
    BY <1>1 DEF TurnOk, Turns, NumbersOk
  <1>3. PICK e : e = Event("completed", turn.msg, turn.seq)
    OBVIOUS
  <1>4. e \in EventSet /\ e.kind = "completed" /\ e.of = turn.msg /\ e.seq = turn.seq
    BY <1>2, <1>3, EventTyped DEF Kinds
  <1>5. seq' = seq /\ Emit(e)
    BY <1>3 DEF Announce
  <1>6. turn.seq \in 1..seq /\ \A i \in DOMAIN hist : hist[i].seq < turn.seq
    BY DEF Announce, HistNumbers
  <1>7. QED
    BY <1>2, <1>3, <1>4, <1>5, <1>6 DEF Emission, DurableKinds

(* So is the output of a tool.                                                   *)
LEMMA OutputEmits ==
  ASSUME TypeInv, HistNumbers, Output
  PROVE  LET e == Event("output", turn.msg, turn.seq)
         IN  Emission(e) /\ e.kind = "output" /\ e.of = turn.msg
  <1>1. TurnOk /\ NumbersOk
    BY DEF TypeInv
  <1>2. turn.msg \in Nat /\ turn.seq \in Nat /\ seq \in Nat
    BY <1>1 DEF TurnOk, Turns, NumbersOk
  <1>3. PICK e : e = Event("output", turn.msg, turn.seq)
    OBVIOUS
  <1>4. e \in EventSet /\ e.kind = "output" /\ e.of = turn.msg /\ e.seq = turn.seq
    BY <1>2, <1>3, EventTyped DEF Kinds
  <1>5. seq' = seq /\ Emit(e)
    BY <1>3 DEF Output
  <1>6. turn.seq \in 1..seq /\ \A i \in DOMAIN hist : hist[i].seq < turn.seq
    BY DEF Output, HistNumbers
  <1>7. QED
    BY <1>2, <1>3, <1>4, <1>5, <1>6 DEF Emission, DurableKinds

(* A number that was not used yet is later than the history.                     *)
LEMMA HistBelow ==
  ASSUME TypeInv, HistNumbers
  PROVE  \A i \in DOMAIN hist : hist[i].seq < seq + 1 /\ hist[i].seq < seq + 2
  BY DEF TypeInv, NumbersOk, HistNumbers

(* An Error is a durable event with a number of its own.                         *)
LEMMA FailEmits ==
  ASSUME TypeInv, HistNumbers, Fail
  PROVE  LET e == Event("error", turn.msg, seq') IN Emission(e) /\ e.kind = "error"
  <1>1. TurnOk /\ NumbersOk
    BY DEF TypeInv
  <1>2. turn.msg \in Nat /\ seq \in Nat /\ seq' \in {seq + 1, seq + 2}
    BY <1>1 DEF TurnOk, Turns, NumbersOk, Fail
  <1>3. PICK e : e = Event("error", turn.msg, seq')
    OBVIOUS
  <1>4. e \in EventSet /\ e.kind = "error" /\ e.seq = seq'
    BY <1>2, <1>3, EventTyped DEF Kinds
  <1>5. Emit(e)
    BY <1>3 DEF Fail
  <1>6. \A i \in DOMAIN hist : hist[i].seq < seq'
    BY <1>2, HistBelow
  <1>7. e.seq \in 1..seq' /\ seq <= seq'
    BY <1>2, <1>4
  <1>8. QED
    BY <1>3, <1>4, <1>5, <1>6, <1>7 DEF Emission, DurableKinds

(* A call is allowed by a rule, or asked for.                                       *)
LEMMA CallEmits ==
  ASSUME TypeInv, HistNumbers, Call
  PROVE  \/ UNCHANGED <<hist, wire, seq, perms, routing>> /\ turn' = [turn EXCEPT !.step = "tool"]
         \/ /\ turn' = [turn EXCEPT !.step = "ask"]
            /\ perms' = perms + 1
            /\ LET e == Event("ask", perms + 1, seq + 1)
               IN  Emission(e) /\ e.kind = "ask" /\ e.of = perms + 1
  <1>1. seq \in Nat /\ perms \in Nat
    BY DEF TypeInv, NumbersOk
  <1>2. PICK e : e = Event("ask", perms + 1, seq + 1)
    OBVIOUS
  <1>3. e \in EventSet /\ e.kind = "ask" /\ e.seq = seq + 1 /\ e.of = perms + 1
    BY <1>1, <1>2, EventTyped DEF Kinds
  <1>4. CASE Emit(e) /\ seq' = seq + 1
    BY <1>1, <1>2, <1>3, <1>4, HistBelow DEF Emission, DurableKinds, Call
  <1>5. QED
    BY <1>2, <1>4 DEF Call

(* What an event appended to the history changes.                                     *)
LEMMA Appended ==
  ASSUME TypeInv, NEW e, Emission(e)
  PROVE  /\ hist \in Seq(EventSet) /\ hist' = Append(hist, e)
         /\ Len(hist) \in Nat /\ DOMAIN hist = 1..Len(hist) /\ DOMAIN hist' = 1..(Len(hist) + 1)
         /\ hist'[Len(hist) + 1] = e /\ \A i \in 1..Len(hist) : hist'[i] = hist[i]
         /\ Range(hist') = Range(hist) \cup {e}
  <1>1. hist \in Seq(EventSet) /\ hist' = Append(hist, e)
    BY DEF TypeInv, EventsOk, Emission, Emit
  <1>2. Len(hist) \in Nat /\ DOMAIN hist = 1..Len(hist) /\ DOMAIN hist' = 1..(Len(hist) + 1)
        /\ hist'[Len(hist) + 1] = e /\ \A i \in 1..Len(hist) : hist'[i] = hist[i]
    BY <1>1
  <1>3. Range(hist') = Range(hist) \cup {e}
    BY <1>2 DEF Range
  <1>4. QED
    BY <1>1, <1>2, <1>3

(* The history with a later event is numbered upwards.                           *)
LEMMA HistSorted ==
  ASSUME TypeInv, HistNumbers, NEW e, Emission(e), seq' \in Nat
  PROVE  (\A i \in DOMAIN hist' : hist'[i].seq \in 1..seq' /\ hist'[i].kind \in DurableKinds) /\ Sorted(hist')
  <1>1. seq \in Nat
    BY DEF TypeInv, NumbersOk
  <1>2. /\ Len(hist) \in Nat /\ DOMAIN hist = 1..Len(hist) /\ DOMAIN hist' = 1..(Len(hist) + 1)
        /\ hist'[Len(hist) + 1] = e /\ \A i \in 1..Len(hist) : hist'[i] = hist[i]
    BY Appended
  <1>3. \A i \in DOMAIN hist' : hist'[i].seq \in 1..seq' /\ hist'[i].kind \in DurableKinds
    <2> TAKE i \in DOMAIN hist'
    <2>1. CASE i = Len(hist) + 1
      BY <1>2, <2>1 DEF Emission
    <2>2. CASE i \in 1..Len(hist)
      BY <1>1, <1>2, <2>2 DEF Emission, HistNumbers
    <2>3. QED
      BY <1>2, <2>1, <2>2
  <1>4. Sorted(hist')
    BY <1>2 DEF Sorted, Emission, HistNumbers
  <1>5. QED
    BY <1>3, <1>4

(* Steps that neither the history nor the socket notices.                                *)
Still == UNCHANGED <<link, after, latest, ctl>>
Quiet == UNCHANGED <<hist, wire>> /\ Still

(* The steps of a turn by what they send.                                        *)
LEMMA TurnSteps ==
  ASSUME TypeInv, HistNumbers, Turn
  PROVE  (\E e : Emission(e) /\ Still) \/ Delta \/ Quiet
  <1> USE DEF socketVars, stateVars, Still, Quiet
  <1>1. CASE Fail
    BY <1>1, FailEmits DEF Fail
  <1>2. CASE Announce
    BY <1>2, AnnounceEmits DEF Announce
  <1>3. CASE Output
    BY <1>3, OutputEmits DEF Output
  <1>4. CASE Call
    BY <1>4, CallEmits DEF Call
  <1>5. CASE Promote \/ Store \/ Route \/ AskAborted \/ StoreResult
    BY <1>5 DEF Promote, Store, Route, AskAborted, StoreResult
  <1>6. QED
    BY <1>1, <1>2, <1>3, <1>4, <1>5 DEF Turn

(* All steps by what they send, read or forget.                                  *)
LEMMA StepKinds ==
  ASSUME TypeInv, HistNumbers, [Next]_vars
  PROVE  (\E e : Emission(e) /\ Still) \/ Delta \/ Quiet \/ Socket \/ Command \/ Handle
  <1> USE DEF daemonVars, socketVars, stateVars, Still, Quiet
  <1>1. CASE OtherReplies \/ OtherCompacts \/ \E r \in rpcs : ProcessRpc(r)
    BY <1>1 DEF OtherReplies, OtherCompacts, ProcessRpc
  <1>2. CASE Interface
    BY <1>2 DEF Interface, TypePrompt, PressEsc, Answer
  <1>3. CASE UNCHANGED vars
    BY <1>3 DEF vars
  <1>4. QED
    BY <1>1, <1>2, <1>3, TurnSteps DEF Next

(* What a step makes of the history's and the turn's numbers.                           *)
LEMMA HistNumbersStep ==
  ASSUME TypeInv, HistNumbers, [Next]_vars
  PROVE  HistNumbers'
  <1> USE DEF daemonVars, socketVars, stateVars
  <1>0. TypeInv' /\ seq \in Nat /\ seq' \in Nat
    BY StepTyped DEF TypeInv, NumbersOk
  <1>1. ASSUME NEW e, Emission(e), turn'.step \notin {"announce", "output"} PROVE HistNumbers'
    BY <1>0, <1>1, HistSorted DEF HistNumbers
  <1>2. ASSUME hist' = hist, seq <= seq', turn'.step \notin {"announce", "output"} PROVE HistNumbers'
    BY <1>0, <1>2 DEF HistNumbers, Sorted
  <1>3. ASSUME hist' = hist, seq' = seq + 1, turn'.seq = seq + 1 PROVE HistNumbers'
    <2>1. \A i \in DOMAIN hist : hist[i].seq < seq + 1 /\ hist[i].seq \in 1..(seq + 1)
      BY <1>0, HistBelow DEF HistNumbers
    <2>2. seq + 1 \in 1..(seq + 1)
      BY <1>0
    <2>3. QED
      BY <1>3, <2>1, <2>2 DEF HistNumbers, Sorted
  <1>4. ASSUME hist' = hist, seq <= seq', turn'.step = turn.step, turn'.seq = turn.seq PROVE HistNumbers'
    BY <1>0, <1>4 DEF HistNumbers, Sorted
  <1>5. turn \in Turns
    BY DEF TypeInv, TurnOk
  <1>6. CASE Turn
    <2>1. CASE Promote
      BY <1>0, <1>2, <2>1 DEF Promote, NextMessage, Idle
    <2>2. CASE Delta
      BY <1>0, <1>4, <1>5, <2>2 DEF Delta, Turns
    <2>3. CASE Store
      <3>1. CASE turn' = Idle /\ seq' = seq
        BY <1>0, <1>2, <2>3, <3>1, IdleTyped DEF Store
      <3>2. CASE seq' = seq + 1 /\ turn' = [turn EXCEPT !.step = "announce", !.seq = seq + 1]
        BY <1>3, <1>5, <2>3, <3>2 DEF Store, Turns
      <3>3. QED
        BY <2>3, <3>1, <3>2 DEF Store
    <2>4. CASE Fail
      BY <1>1, <2>4, FailEmits, IdleTyped DEF Fail
    <2>5. CASE Announce
      <3>1. turn'.step \notin {"announce", "output"}
        BY <1>5, <2>5, IdleTyped DEF Announce, Turns
      <3>2. QED
        BY <1>1, <2>5, <3>1, AnnounceEmits
    <2>6. CASE Call
      <3>1. turn'.step \notin {"announce", "output"}
        BY <1>5, <2>6 DEF Call, Turns
      <3>2. QED
        BY <1>0, <1>1, <1>2, <2>6, <3>1, CallEmits
    <2>7. CASE Route
      BY <1>0, <1>4, <2>7 DEF Route
    <2>8. CASE AskAborted
      BY <1>0, <1>2, <2>8, IdleTyped DEF AskAborted
    <2>9. CASE StoreResult
      <3>1. CASE turn' = Idle /\ seq' = seq
        BY <1>0, <1>2, <2>9, <3>1, IdleTyped DEF StoreResult
      <3>2. CASE seq' = seq + 1 /\ turn' = [turn EXCEPT !.step = "output", !.seq = seq + 1]
        BY <1>3, <1>5, <2>9, <3>2 DEF StoreResult, Turns
      <3>3. QED
        BY <2>9, <3>1, <3>2 DEF StoreResult
    <2>10. CASE Output
      <3>1. turn'.step \notin {"announce", "output"}
        BY <2>10, IdleTyped DEF Output, NextMessage, Idle
      <3>2. QED
        BY <1>1, <2>10, <3>1, OutputEmits
    <2>11. QED
      BY <1>6, <2>1, <2>2, <2>3, <2>4, <2>5, <2>6, <2>7, <2>8, <2>9, <2>10 DEF Turn
  <1>7. ASSUME NEW p, NEW reply, ReplyTo(p, reply), hist' = hist, seq' = seq PROVE HistNumbers'
    <2>1. CASE turn' = turn
      BY <1>0, <1>4, <1>7, <2>1
    <2>2. CASE turn' = [turn EXCEPT !.step = "tool"]
      BY <1>0, <1>2, <1>5, <1>7, <2>2 DEF Turns
    <2>3. QED
      BY <1>7, <2>1, <2>2 DEF ReplyTo
  <1>8. CASE OtherReplies
    BY <1>7, <1>8 DEF OtherReplies
  <1>9. ASSUME NEW r \in rpcs, ProcessRpc(r) PROVE HistNumbers'
    <2>1. hist' = hist /\ seq' = seq
      BY <1>9 DEF ProcessRpc
    <2>2. CASE Abort(r)
      BY <1>0, <1>4, <1>5, <2>1, <2>2 DEF Abort, Turns
    <2>3. CASE turn' = turn
      BY <1>0, <1>4, <2>1, <2>3
    <2>4. QED
      BY <1>7, <1>9, <2>1, <2>2, <2>3 DEF ProcessRpc, Reply, Prompt
  <1>10. CASE Socket
    BY <1>0, <1>4, <1>10 DEF Socket, Connect, Replay, Break, Read, Notice, Write
  <1>11. CASE Interface
    <2>1. hist' = hist /\ turn' = turn
      BY <1>11 DEF Interface, TypePrompt, PressEsc, Command, Handle, Takes, Answer
    <2>2. seq' \in {seq, seq + 1}
      BY <1>11 DEF Interface, TypePrompt, PressEsc, Command, Handle, Takes, Answer
    <2>3. QED
      BY <1>0, <1>4, <2>1, <2>2
  <1>12. CASE UNCHANGED vars
    BY <1>0, <1>4, <1>12 DEF vars
  <1>13. CASE OtherCompacts
    BY <1>0, <1>4, <1>13 DEF OtherCompacts
  <1>14. QED
    BY <1>6, <1>8, <1>9, <1>10, <1>11, <1>12, <1>13 DEF Next

(* The members of an event of the history.                                            *)
LEMMA HistEvent ==
  ASSUME TypeInv, NEW i \in DOMAIN hist
  PROVE  hist[i] \in EventSet /\ hist[i].of \in Nat /\ hist[i].seq \in Nat /\ hist[i] \in Range(hist)
  <1>1. hist[i] \in EventSet
    BY DEF TypeInv, EventsOk
  <1>2. hist[i].of \in Nat /\ hist[i].seq \in Nat
    BY <1>1 DEF EventSet
  <1>3. QED
    BY <1>1, <1>2 DEF Range

(* A step that appends nothing to the history.                                          *)
LEMMA NothingCompleted ==
  ASSUME TypeInv, Messages, hist' = hist, turn'.msg <= used'["messages"], used["messages"] <= used'["messages"],
         used'["messages"] \in Nat,
         turn'.step \in {"stream", "announce"} =>
            \A i \in DOMAIN hist : hist[i].kind = "completed" => hist[i].of # turn'.msg,
         turn'.step # "idle" => \A i \in DOMAIN hist : hist[i].kind = "output" => hist[i].of # turn'.msg
  PROVE  Messages'
  <1>1. \A i \in DOMAIN hist : hist[i].of \in Nat
    BY HistEvent
  <1>2. used["messages"] \in Nat
    BY DEF TypeInv, UsedOk, Counters
  <1>3. QED
    BY <1>1, <1>2 DEF Messages

(* A turn that begins a message takes a number of its own.                                *)
LEMMA MessageFresh ==
  ASSUME TypeInv, Messages, NextMessage
  PROVE  /\ used'["messages"] \in Nat /\ used["messages"] <= used'["messages"] /\ turn'.msg = used'["messages"]
         /\ turn'.step = "stream"
         /\ \A i \in DOMAIN hist : hist[i].kind \in {"completed", "output"} => hist[i].of # turn'.msg
  <1>1. used'["messages"] = used["messages"] + 1 /\ used["messages"] \in Nat
    BY UseTyped DEF NextMessage, TypeInv, Counters
  <1>2. turn'.msg = used["messages"] + 1 /\ turn'.step = "stream"
    BY DEF NextMessage, Idle
  <1>3. \A i \in DOMAIN hist : hist[i].of \in Nat
    BY HistEvent
  <1>4. QED
    BY <1>1, <1>2, <1>3 DEF Messages

(* A message is completed once, and only after it was streamed.                  *)
LEMMA MessagesStep ==
  ASSUME TypeInv, HistNumbers, Messages, [Next]_vars
  PROVE  Messages'
  <1> USE DEF daemonVars, socketVars, stateVars
  <1>0. /\ turn \in Turns /\ turn.msg \in Nat /\ used["messages"] \in Nat /\ used'["messages"] \in Nat
        /\ \A i \in DOMAIN hist : hist[i].of \in Nat
    <2>1. TypeInv'
      BY StepTyped
    <2>2. QED
      BY <2>1, HistEvent DEF TypeInv, TurnOk, Turns, UsedOk, Counters
  <1>1. ASSUME hist' = hist, turn'.msg = turn.msg, used'["messages"] = used["messages"],
               turn'.step \in {"stream", "announce"} => turn.step \in {"stream", "announce"},
               turn.step = "idle" => turn'.step = "idle"
        PROVE  Messages'
    BY <1>0, <1>1, NothingCompleted DEF Messages
  <1>2. ASSUME hist' = hist, turn' = Idle, used'["messages"] = used["messages"] PROVE Messages'
    BY <1>0, <1>2, NothingCompleted, IdleTyped DEF Idle
  <1>3. ASSUME NEW e, Emission(e), e.kind \in {"completed", "output"} => e.of = turn.msg,
               turn' = Idle \/ (turn'.msg = turn.msg /\ e.kind # "output" /\ turn'.step \notin {"stream", "announce"}
                                /\ turn.step # "idle"),
               used'["messages"] = used["messages"]
        PROVE  Messages'
    <2>1. /\ DOMAIN hist = 1..Len(hist) /\ DOMAIN hist' = 1..(Len(hist) + 1)
          /\ hist'[Len(hist) + 1] = e /\ \A i \in 1..Len(hist) : hist'[i] = hist[i]
      BY <1>3, Appended
    <2>2. Len(hist) \in Nat
      BY <1>3, Appended
    <2>3. \A i \in DOMAIN hist' : hist'[i] = e \/ (i \in DOMAIN hist /\ hist'[i] = hist[i])
      BY <2>1, <2>2
    <2>4. turn'.msg <= used'["messages"]
      BY <1>0, <1>3 DEF Messages, Idle
    <2>5. \A i \in DOMAIN hist' : hist'[i].kind \in {"completed", "output"} => hist'[i].of <= used'["messages"]
      BY <1>0, <1>3, <2>3 DEF Messages
    <2>6. turn'.step \notin {"stream", "announce"}
      BY <1>3, IdleTyped
    <2>7. turn'.step # "idle" => \A i \in DOMAIN hist' : hist'[i].kind = "output" => hist'[i].of # turn'.msg
      BY <1>3, <2>3, IdleTyped DEF Messages
    <2>8. QED
      BY <2>4, <2>5, <2>6, <2>7 DEF Messages
  <1>4. CASE Turn
    <2>1. CASE Promote
      <3>1. NextMessage /\ hist' = hist
        BY <2>1 DEF Promote
      <3>2. QED
        BY <1>0, <3>1, MessageFresh, NothingCompleted
    <2>2. CASE Delta
      BY <1>0, <1>1, <2>2 DEF Delta, Turns
    <2>3. CASE Store
      <3>1. CASE turn' = Idle
        BY <1>2, <2>3, <3>1 DEF Store
      <3>2. CASE turn' = [turn EXCEPT !.step = "announce", !.seq = seq + 1]
        BY <1>0, <1>1, <2>3, <3>2 DEF Store, Turns
      <3>3. QED
        BY <2>3, <3>1, <3>2 DEF Store
    <2>4. CASE Fail
      BY <1>3, <2>4, FailEmits DEF Fail
    <2>5. CASE Announce
      <3>1. turn' = Idle \/ (turn'.msg = turn.msg /\ turn'.step = "call")
        BY <1>0, <2>5 DEF Announce, Turns
      <3>2. used' = used /\ turn.step = "announce"
        BY <2>5 DEF Announce
      <3>3. QED
        BY <1>3, <2>5, <3>1, <3>2, AnnounceEmits
    <2>6. CASE Call
      <3>1. turn'.msg = turn.msg /\ turn'.step \in {"tool", "ask"} /\ turn.step = "call" /\ used' = used
        BY <1>0, <2>6 DEF Call, Turns
      <3>2. QED
        BY <1>1, <1>3, <2>6, <3>1, CallEmits
    <2>7. CASE Route
      BY <1>1, <2>7 DEF Route
    <2>8. CASE AskAborted
      BY <1>2, <2>8 DEF AskAborted
    <2>9. CASE StoreResult
      <3>1. CASE turn' = Idle
        BY <1>2, <2>9, <3>1 DEF StoreResult
      <3>2. CASE turn' = [turn EXCEPT !.step = "output", !.seq = seq + 1]
        BY <1>0, <1>1, <2>9, <3>2 DEF StoreResult, Turns
      <3>3. QED
        BY <2>9, <3>1, <3>2 DEF StoreResult
    <2>10. CASE Output
      <3>1. PICK e : Emission(e) /\ e.kind = "output" /\ e.of = turn.msg
        BY <2>10, OutputEmits
      <3>2. CASE turn' = Idle /\ UNCHANGED used
        BY <1>3, <3>1, <3>2
      <3>3. CASE NextMessage
        <4>1. /\ used'["messages"] \in Nat /\ used["messages"] <= used'["messages"] /\ turn'.msg = used'["messages"]
              /\ turn'.step = "stream"
              /\ \A i \in DOMAIN hist : hist[i].kind \in {"completed", "output"} => hist[i].of # turn'.msg
          BY <3>3, MessageFresh
        <4>2. turn'.msg # turn.msg
          <5>1. used'["messages"] = used["messages"] + 1
            BY <3>3, UseTyped DEF NextMessage, TypeInv, Counters
          <5>2. QED
            BY <1>0, <4>1, <5>1 DEF Messages
        <4>3. /\ DOMAIN hist = 1..Len(hist) /\ DOMAIN hist' = 1..(Len(hist) + 1)
              /\ hist'[Len(hist) + 1] = e /\ \A i \in 1..Len(hist) : hist'[i] = hist[i]
          BY <3>1, Appended
        <4>4. Len(hist) \in Nat
          BY <3>1, Appended
        <4>5. \A i \in DOMAIN hist' : hist'[i] = e \/ (i \in DOMAIN hist /\ hist'[i] = hist[i])
          BY <4>3, <4>4
        <4>6. \A i \in DOMAIN hist' : hist'[i].kind \in {"completed", "output"} =>
                                        hist'[i].of <= used'["messages"] /\ hist'[i].of # turn'.msg
          BY <1>0, <3>1, <4>1, <4>2, <4>5 DEF Messages
        <4>7. QED
          BY <4>1, <4>6 DEF Messages
      <3>4. QED
        BY <2>10, <3>2, <3>3 DEF Output
    <2>11. QED
      BY <1>4, <2>1, <2>2, <2>3, <2>4, <2>5, <2>6, <2>7, <2>8, <2>9, <2>10 DEF Turn
  <1>5. ASSUME NEW p, NEW reply, ReplyTo(p, reply), hist' = hist, used'["messages"] = used["messages"] PROVE Messages'
    <2>1. CASE turn' = turn
      BY <1>1, <1>5, <2>1
    <2>2. CASE turn.step = "ask" /\ turn' = [turn EXCEPT !.step = "tool"]
      BY <1>0, <1>1, <1>5, <2>2 DEF Turns
    <2>3. QED
      BY <1>5, <2>1, <2>2 DEF ReplyTo
  <1>6. CASE OtherReplies
    <2>1. used'["messages"] = used["messages"] /\ hist' = hist
      BY <1>6, UseTyped DEF OtherReplies, TypeInv, Counters
    <2>2. QED
      BY <1>5, <1>6, <2>1 DEF OtherReplies
  <1>7. ASSUME NEW r \in rpcs, ProcessRpc(r) PROVE Messages'
    <2>1. hist' = hist /\ used' = used
      BY <1>7 DEF ProcessRpc
    <2>2. CASE Abort(r)
      BY <1>0, <1>1, <2>1, <2>2 DEF Abort, Turns
    <2>3. CASE turn' = turn
      BY <1>1, <2>1, <2>3
    <2>4. QED
      BY <1>5, <1>7, <2>1, <2>2, <2>3 DEF ProcessRpc, Reply, Prompt
  <1>8. CASE Socket
    <2>1. hist' = hist /\ turn' = turn
      BY <1>8 DEF Socket, Connect, Replay, Break, Read, Notice, Write
    <2>2. used'["messages"] = used["messages"]
      BY <1>8, UseTyped DEF Socket, Connect, Replay, Break, Read, Notice, Write, TypeInv, Counters
    <2>3. QED
      BY <1>1, <2>1, <2>2
  <1>9. CASE Interface
    <2>1. hist' = hist /\ turn' = turn
      BY <1>9 DEF Interface, TypePrompt, PressEsc, Command, Handle, Takes, Answer
    <2>2. used'["messages"] = used["messages"]
      <3>1. CASE Handle
        <4>1. used' = used \/ Uses("acts", MaxActs)
          BY <3>1 DEF Handle, Takes, Reload
        <4>2. QED
          BY <4>1, UseTyped DEF TypeInv, Counters
      <3>2. QED
        BY <1>9, <3>1, UseTyped DEF Interface, TypePrompt, PressEsc, Command, Answer, TypeInv, Counters
    <2>3. QED
      BY <1>1, <2>1, <2>2
  <1>10. CASE UNCHANGED vars
    BY <1>1, <1>10 DEF vars
  <1>11. CASE OtherCompacts
    <2>1. UNCHANGED <<hist, turn>> /\ used'["messages"] = used["messages"]
      BY <1>11, UseTyped DEF OtherCompacts, TypeInv, Counters
    <2>2. QED
      BY <1>1, <2>1
  <1>12. QED
    BY <1>4, <1>6, <1>7, <1>8, <1>9, <1>10, <1>11 DEF Next

(* The last request for permission is the current one.                                    *)
LEMMA LastAskStep ==
  ASSUME TypeInv, HistNumbers, LastAsk, [Next]_vars
  PROVE  LastAsk'
  <1> USE DEF daemonVars, socketVars, stateVars
  <1>0. turn \in Turns
    BY DEF TypeInv, TurnOk
  <1>1. ASSUME UNCHANGED <<hist, perms>>, turn'.step = "ask" => turn.step = "ask" PROVE LastAsk'
    BY <1>1 DEF LastAsk, IsAsk
  <1>2. ASSUME NEW e, Emission(e), e.kind # "ask", perms' = perms, turn'.step = "ask" => turn.step = "ask" PROVE LastAsk'
    <2>1. /\ DOMAIN hist = 1..Len(hist) /\ DOMAIN hist' = 1..(Len(hist) + 1) /\ Len(hist) \in Nat
          /\ hist'[Len(hist) + 1] = e /\ \A i \in 1..Len(hist) : hist'[i] = hist[i]
      BY <1>2, Appended
    <2>2. \A i \in DOMAIN hist' : hist'[i] = e \/ (i \in DOMAIN hist /\ hist'[i] = hist[i])
      BY <2>1
    <2>3. \A i \in DOMAIN hist : i \in DOMAIN hist' /\ hist'[i] = hist[i]
      BY <2>1
    <2>4. QED
      BY <1>2, <2>2, <2>3 DEF LastAsk, IsAsk
  <1>3. ASSUME NEW e, Emission(e), e.kind = "ask", e.of = perms' PROVE LastAsk'
    <2>1. /\ DOMAIN hist' = 1..(Len(hist) + 1) /\ hist'[Len(hist) + 1] = e /\ Len(hist) \in Nat
      BY <1>3, Appended
    <2>2. \A j \in DOMAIN hist' : j <= Len(hist) + 1
      BY <2>1
    <2>3. Len(hist) + 1 \in DOMAIN hist'
      BY <2>1
    <2>4. QED
      BY <1>3, <2>1, <2>2, <2>3 DEF LastAsk, IsAsk
  <1>4. CASE Turn
    <2>1. CASE Fail
      BY <1>2, <2>1, FailEmits, IdleTyped DEF Fail
    <2>2. CASE Announce
      <3>1. turn'.step # "ask" /\ perms' = perms
        BY <1>0, <2>2, IdleTyped DEF Announce, Turns
      <3>2. QED
        BY <1>2, <2>2, <3>1, AnnounceEmits
    <2>3. CASE Output
      <3>1. turn'.step # "ask" /\ perms' = perms
        BY <1>0, <2>3, IdleTyped DEF Output, NextMessage, Idle
      <3>2. QED
        BY <1>2, <2>3, <3>1, OutputEmits
    <2>4. CASE Call
      <3>1. turn' = [turn EXCEPT !.step = "tool"] => turn'.step = "tool"
        BY <1>0 DEF Turns
      <3>2. QED
        BY <1>1, <1>3, <2>4, <3>1, CallEmits
    <2>5. CASE Promote \/ Delta \/ Store \/ Route \/ AskAborted \/ StoreResult
      <3>1. UNCHANGED <<hist, perms>>
        BY <2>5 DEF Promote, Delta, Store, Route, AskAborted, StoreResult
      <3>2. turn'.step = "ask" => turn.step = "ask"
        BY <1>0, <2>5, IdleTyped DEF Promote, NextMessage, Idle, Delta, Store, Route, AskAborted, StoreResult, Turns
      <3>3. QED
        BY <1>1, <3>1, <3>2
    <2>6. QED
      BY <1>4, <2>1, <2>2, <2>3, <2>4, <2>5 DEF Turn
  <1>5. ASSUME NEW p, NEW reply, ReplyTo(p, reply), UNCHANGED <<hist, perms>> PROVE LastAsk'
    <2>1. turn'.step = "ask" => turn.step = "ask"
      BY <1>0, <1>5 DEF ReplyTo, Turns
    <2>2. QED
      BY <1>1, <1>5, <2>1
  <1>6. CASE OtherReplies
    BY <1>5, <1>6 DEF OtherReplies
  <1>7. ASSUME NEW r \in rpcs, ProcessRpc(r) PROVE LastAsk'
    <2>1. UNCHANGED <<hist, perms>>
      BY <1>7 DEF ProcessRpc
    <2>2. CASE Abort(r)
      BY <1>0, <1>1, <2>1, <2>2 DEF Abort, Turns
    <2>3. QED
      BY <1>1, <1>5, <1>7, <2>1, <2>2 DEF ProcessRpc, Reply, Prompt
  <1>8. CASE Socket \/ Interface \/ OtherCompacts \/ UNCHANGED vars
    <2>1. UNCHANGED <<hist, perms, turn>>
      BY <1>8 DEF OtherCompacts, Socket, Connect, Replay, Break, Read, Notice, Write, Interface, TypePrompt, PressEsc, Command, Handle,
         Takes, Answer, vars
    <2>2. QED
      BY <1>1, <2>1
  <1>9. QED
    BY <1>4, <1>6, <1>7, <1>8 DEF Next

-----------------------------------------------------------------------------
(* The socket.                                                                *)

(* The elements of a sequence with one more.                                     *)
LEMMA AppendItems ==
  ASSUME NEW S, NEW s \in Seq(S), NEW e
  PROVE  /\ Len(s) \in Nat /\ DOMAIN s = 1..Len(s)
         /\ \A k \in DOMAIN s : k \in DOMAIN Append(s, e) /\ Append(s, e)[k] = s[k] /\ k < Len(s) + 1
         /\ Len(s) + 1 \in DOMAIN Append(s, e) /\ Append(s, e)[Len(s) + 1] = e
         /\ \A k \in DOMAIN Append(s, e) : k = Len(s) + 1 \/ k \in DOMAIN s
         /\ Range(Append(s, e)) = Range(s) \cup {e}
  <1>1. /\ Len(s) \in Nat /\ DOMAIN s = 1..Len(s)
        /\ \A k \in DOMAIN s : k \in DOMAIN Append(s, e) /\ Append(s, e)[k] = s[k] /\ k < Len(s) + 1
        /\ Len(s) + 1 \in DOMAIN Append(s, e) /\ Append(s, e)[Len(s) + 1] = e
        /\ \A k \in DOMAIN Append(s, e) : k = Len(s) + 1 \/ k \in DOMAIN s
    OBVIOUS
  <1>2. Range(Append(s, e)) = Range(s) \cup {e}
    BY <1>1 DEF Range
  <1>3. QED
    BY <1>1, <1>2

(* The elements of a tail.                                                       *)
LEMMA TailItems ==
  ASSUME NEW S, NEW s \in Seq(S), s # <<>>
  PROVE  /\ 1 \in DOMAIN s /\ Head(s) = s[1] /\ Len(s) \in Nat /\ DOMAIN s = 1..Len(s)
         /\ \A k \in DOMAIN Tail(s) : k \in Nat /\ k + 1 \in DOMAIN s /\ Tail(s)[k] = s[k + 1]
         /\ \A k \in DOMAIN s : k = 1 \/ (k - 1 \in DOMAIN Tail(s) /\ Tail(s)[k - 1] = s[k])
         /\ Range(s) = Range(Tail(s)) \cup {Head(s)}
  <1>1. /\ 1 \in DOMAIN s /\ Head(s) = s[1] /\ Len(s) \in Nat /\ DOMAIN s = 1..Len(s)
        /\ \A k \in DOMAIN Tail(s) : k \in Nat /\ k + 1 \in DOMAIN s /\ Tail(s)[k] = s[k + 1]
    OBVIOUS
  <1>2. \A k \in DOMAIN s : k = 1 \/ (k - 1 \in DOMAIN Tail(s) /\ Tail(s)[k - 1] = s[k])
    <2> TAKE k \in DOMAIN s
    <2>1. CASE k # 1
      <3>1. k - 1 \in 1..Len(Tail(s)) /\ k - 1 + 1 = k
        BY <1>1, <2>1
      <3>2. QED
        BY <3>1
    <2>2. QED
      BY <2>1
  <1>3. Range(s) = Range(Tail(s)) \cup {Head(s)}
    BY <1>1, <1>2 DEF Range
  <1>4. QED
    BY <1>1, <1>2, <1>3

(* The elements of a prefix.                                                     *)
LEMMA PrefixItems ==
  ASSUME NEW S, NEW s \in Seq(S), NEW n \in 0..Len(s)
  PROVE  /\ DOMAIN SubSeq(s, 1, n) = 1..n /\ DOMAIN s = 1..Len(s) /\ Len(s) \in Nat
         /\ \A k \in 1..n : k \in DOMAIN s /\ SubSeq(s, 1, n)[k] = s[k]
  OBVIOUS

(* Tails, prefixes and sequences with a later element are in order, as the sequence is.     *)
LEMMA SortedKept ==
  ASSUME NEW S, NEW s \in Seq(S), Sorted(s)
  PROVE  /\ s # <<>> => Sorted(Tail(s))
         /\ \A n \in 0..Len(s) : Sorted(SubSeq(s, 1, n))
         /\ \A e : e.seq = 0 \/ (\A k \in DOMAIN s : s[k].seq < e.seq) => Sorted(Append(s, e))
  <1>1. ASSUME s # <<>> PROVE Sorted(Tail(s))
    <2>1. \A k \in DOMAIN Tail(s) : k \in Nat /\ k + 1 \in DOMAIN s /\ Tail(s)[k] = s[k + 1]
      BY <1>1, TailItems
    <2>2. QED
      BY <2>1 DEF Sorted
  <1>2. ASSUME NEW n \in 0..Len(s) PROVE Sorted(SubSeq(s, 1, n))
    <2>1. \A k \in DOMAIN SubSeq(s, 1, n) : k \in DOMAIN s /\ SubSeq(s, 1, n)[k] = s[k]
      BY PrefixItems
    <2>2. QED
      BY <2>1 DEF Sorted
  <1>3. ASSUME NEW e, e.seq = 0 \/ (\A k \in DOMAIN s : s[k].seq < e.seq) PROVE Sorted(Append(s, e))
    <2> DEFINE t == Append(s, e)
    <2>1. /\ Len(s) \in Nat /\ DOMAIN s = 1..Len(s)
          /\ \A k \in DOMAIN t : k = Len(s) + 1 \/ k \in DOMAIN s
          /\ t[Len(s) + 1] = e /\ \A k \in DOMAIN s : t[k] = s[k]
      BY AppendItems
    <2> HIDE DEF t
    <2>2. Sorted(t)
      <3> SUFFICES ASSUME NEW i \in DOMAIN t, NEW j \in DOMAIN t, i < j, t[i].seq > 0, t[j].seq > 0
                   PROVE  t[i].seq < t[j].seq
        BY DEF Sorted
      <3>1. i \in DOMAIN s /\ t[i] = s[i]
        BY <2>1
      <3>2. CASE j \in DOMAIN s
        BY <2>1, <3>1, <3>2 DEF Sorted
      <3>3. CASE j = Len(s) + 1
        BY <1>3, <2>1, <3>1, <3>3
      <3>4. QED
        BY <2>1, <3>2, <3>3
    <2>3. QED
      BY <2>2 DEF t
  <1>4. QED
    BY <1>1, <1>2, <1>3

(* The steps by what they do to the socket.                                           *)
Drops == link = "broken" /\ LoseLink /\ UNCHANGED <<hist, after, latest>>
Forgets == latest' = 0 /\ UNCHANGED <<hist, wire, link, after, ctl>>
Handles == ctl # <<>> /\ ctl' = Tail(ctl) /\ UNCHANGED <<hist, wire, link, after, latest>>

(* Every step is one of these.                                                   *)
LEMMA SocketSteps ==
  ASSUME TypeInv, HistNumbers, [Next]_vars
  PROVE  \/ \E e : Emission(e) /\ Still
         \/ Delta \/ Quiet \/ Connect \/ Replay \/ Break \/ Read \/ Drops \/ Forgets \/ Handles
  <1> USE DEF daemonVars, socketVars
  <1>1. CASE Socket
    BY <1>1 DEF Socket, Notice, Write, Drops, Quiet, Still
  <1>2. CASE Command
    BY <1>2 DEF Command, Forgets
  <1>3. CASE Handle
    BY <1>3 DEF Handle, Takes, Handles
  <1>4. QED
    BY <1>1, <1>2, <1>3, StepKinds

(* What an event of the daemon makes of the socket.                                      *)
LEMMA Sent ==
  ASSUME TypeInv, NEW e, EmitDelta(e)
  PROVE  /\ \A k \in DOMAIN wire : k \in DOMAIN wire' /\ wire'[k] = wire[k]
         /\ \A k \in DOMAIN wire' : \/ k \in DOMAIN wire
                                    \/ /\ Live /\ k = Len(wire) + 1 /\ wire'[k] = e
                                       /\ \A l \in DOMAIN wire : l < k
         /\ Live => e \in Range(wire')
         /\ Range(wire) \subseteq Range(wire')
  <1>1. wire \in Seq(EventSet)
    BY DEF TypeInv, EventsOk
  <1>2. CASE Live
    <2>1. wire' = Append(wire, e)
      BY <1>2 DEF EmitDelta
    <2>2. QED
      BY <1>1, <1>2, <2>1, AppendItems
  <1>3. CASE ~Live
    BY <1>3 DEF EmitDelta
  <1>4. QED
    BY <1>2, <1>3
(* The elements of two sequences, one after the other.                           *)
LEMMA ConcatItems ==
  ASSUME NEW S, NEW s \in Seq(S), NEW t \in Seq(S)
  PROVE  /\ \A k \in DOMAIN (s \o t) :
              \/ k \in DOMAIN s /\ (s \o t)[k] = s[k]
              \/ k - Len(s) \in DOMAIN t /\ (s \o t)[k] = t[k - Len(s)] /\ \A l \in DOMAIN s : l < k
         /\ Range(s \o t) = Range(s) \cup Range(t)
  <1>1. Len(s) \in Nat /\ DOMAIN s = 1..Len(s) /\ Len(t) \in Nat /\ DOMAIN t = 1..Len(t)
        /\ DOMAIN (s \o t) = 1..(Len(s) + Len(t))
    OBVIOUS
  <1>2. \A k \in DOMAIN s : k \in DOMAIN (s \o t) /\ (s \o t)[k] = s[k]
    BY <1>1
  <1>3. \A k \in DOMAIN t : k + Len(s) \in DOMAIN (s \o t) /\ (s \o t)[k + Len(s)] = t[k]
    BY <1>1
  <1>4. \A k \in DOMAIN (s \o t) :
              \/ k \in DOMAIN s /\ (s \o t)[k] = s[k]
              \/ k - Len(s) \in DOMAIN t /\ (s \o t)[k] = t[k - Len(s)] /\ \A l \in DOMAIN s : l < k
    BY <1>1
  <1>5. Range(s \o t) = Range(s) \cup Range(t)
    <2> DEFINE u == s \o t
    <2>1. \A k \in DOMAIN u : (\E i \in DOMAIN s : u[k] = s[i]) \/ \E i \in DOMAIN t : u[k] = t[i]
      BY <1>4
    <2>2. (\A i \in DOMAIN s : \E k \in DOMAIN u : u[k] = s[i]) /\ \A i \in DOMAIN t : \E k \in DOMAIN u : u[k] = t[i]
      BY <1>2, <1>3
    <2> HIDE DEF u
    <2>3. Range(u) = Range(s) \cup Range(t)
      BY <2>1, <2>2 DEF Range
    <2>4. QED
      BY <2>3 DEF u
  <1>6. QED
    BY <1>4, <1>5

(* An event that is sent later than those read and than the reconnection.                 *)
LEMMA Later ==
  ASSUME TypeInv, WireInv, HistNumbers, NEW e, Emission(e)
  PROVE  e.seq \in Nat /\ e.seq > 0 /\ e.seq > latest /\ e.seq > after
  <1>1. e.seq \in Nat /\ e.seq > 0
    <2>1. e \in EventSet
      BY DEF Emission
    <2>2. e.seq \in Nat
      BY <2>1 DEF EventSet
    <2>3. QED
      BY <2>2 DEF Emission
  <1>2. ASSUME NEW n, InHist(n) PROVE e.seq > n
    <2>1. CASE n = 0
      BY <1>1, <2>1
    <2>2. CASE n # 0
      <3>1. PICK i \in DOMAIN hist : hist[i].seq = n
        BY <1>2, <2>2 DEF InHist
      <3>2. hist[i].seq \in Nat /\ hist[i].seq < e.seq
        BY HistEvent DEF Emission
      <3>3. QED
        BY <1>1, <3>1, <3>2
    <2>3. QED
      BY <2>1, <2>2
  <1>3. QED
    BY <1>1, <1>2 DEF WireInv

(* Nothing is taken out of the history.                                              *)
LEMMA HistGrows ==
  ASSUME TypeInv, HistNumbers, [Next]_vars
  PROVE  /\ Range(hist) \subseteq Range(hist')
         /\ \A n : InHist(n) => n = 0 \/ \E i \in DOMAIN hist' : hist'[i].seq = n
  <1>1. CASE hist' = hist
    BY <1>1 DEF InHist
  <1>2. ASSUME NEW e, Emission(e) PROVE /\ Range(hist) \subseteq Range(hist')
                                        /\ \A i \in DOMAIN hist : i \in DOMAIN hist' /\ hist'[i] = hist[i]
    <2>1. DOMAIN hist = 1..Len(hist) /\ DOMAIN hist' = 1..(Len(hist) + 1) /\ Len(hist) \in Nat
          /\ \A i \in 1..Len(hist) : hist'[i] = hist[i]
      BY <1>2, Appended
    <2>2. \A i \in DOMAIN hist : i \in DOMAIN hist' /\ hist'[i] = hist[i]
      BY <2>1
    <2>3. QED
      BY <2>2 DEF Range
  <1>3. hist' = hist \/ \E e : Emission(e)
    BY SocketSteps DEF Delta, Quiet, Connect, Replay, Break, Read, Drops, Forgets, Handles, daemonVars
  <1>4. QED
    BY <1>1, <1>2, <1>3 DEF InHist

(* The replay sends the history after after_seq, and of the ring only the deltas.         *)
LEMMA Replayed ==
  ASSUME TypeInv, HistNumbers, WireInv, Replay
  PROVE  \E h, w :
           /\ wire' = h \o w /\ h \in Seq(EventSet) /\ w \in Seq(EventSet) /\ Sorted(h)
           /\ \A j \in DOMAIN h : h[j] \in Range(hist) /\ h[j].seq > after
           /\ \A e \in Range(hist) : e.seq > after => e \in Range(h)
           /\ \A j \in DOMAIN w : w[j].seq = 0 /\ w[j] \in Range(wire)
  <1>1. PICK h : h = Only(hist, {e \in Range(hist) : e.seq > after})
    OBVIOUS
  <1>2. PICK m : m = MaxSeq(h, after)
    OBVIOUS
  <1>3. PICK w : w = Only(wire, {e \in Range(wire) : e.seq = 0 \/ e.seq > m})
    OBVIOUS
  <1>4. wire' = h \o w /\ link = "joining"
    BY <1>1, <1>2, <1>3 DEF Replay
  <1>5. hist \in Seq(EventSet) /\ wire \in Seq(EventSet) /\ seq \in Nat /\ after \in Nat
    BY DEF TypeInv, EventsOk, NumbersOk
  <1>6. DOMAIN hist = 1..Len(hist) /\ DOMAIN wire = 1..Len(wire)
    BY <1>5
  <1>7. PartOf(h, Len(hist), hist, EventSet, {e \in Range(hist) : e.seq > after})
    BY <1>1, <1>5, OnlyPart
  <1>8. PartOf(w, Len(wire), wire, EventSet, {e \in Range(wire) : e.seq = 0 \/ e.seq > m})
    BY <1>3, <1>5, OnlyPart
  <1>9. h \in Seq(EventSet) /\ w \in Seq(EventSet) /\ Sorted(h)
    BY <1>7, <1>8 DEF PartOf, HistNumbers
  <1>10. \A j \in DOMAIN h : h[j] \in Range(hist) /\ h[j].seq > after
    BY <1>7 DEF PartOf
  <1>11. \A e \in Range(hist) : e.seq > after => e \in Range(h)
    <2> SUFFICES ASSUME NEW e \in Range(hist), e.seq > after PROVE e \in Range(h)
      OBVIOUS
    <2>1. PICK i \in 1..Len(hist) : e = hist[i]
      BY <1>6 DEF Range
    <2>2. \E j \in DOMAIN h : h[j] = hist[i]
      BY <1>7, <2>1 DEF PartOf
    <2>3. QED
      BY <2>1, <2>2 DEF Range
  <1>12. m \in Nat /\ \A i \in DOMAIN h : h[i].seq <= m
    <2>1. \A x \in EventSet : x.seq \in Nat
      BY DEF EventSet
    <2>2. \A i \in DOMAIN hist : hist[i].seq <= seq
      BY <1>5 DEF HistNumbers
    <2>3. after <= seq
      BY <1>5, <2>2 DEF WireInv, InHist
    <2>4. \A i \in DOMAIN h : h[i].seq <= seq
      BY <1>10, <2>2 DEF Range
    <2>5. QED
      BY <1>2, <1>5, <1>9, <2>1, <2>3, <2>4, MaxSeqIs
  <1>13. \A j \in DOMAIN w : w[j].seq = 0 /\ w[j] \in Range(wire)
    <2> TAKE j \in DOMAIN w
    <2>1. PICK i \in 1..Len(wire) : w[j] = wire[i] /\ wire[i] \in {e \in Range(wire) : e.seq = 0 \/ e.seq > m}
      BY <1>8 DEF PartOf
    <2>2. wire[i] \in Range(wire) /\ (wire[i].seq = 0 \/ wire[i].seq > m)
      BY <2>1
    <2>3. wire[i].seq \in Nat
      <3>1. wire[i] \in EventSet
        BY <1>5, <1>6, <2>1
      <3>2. QED
        BY <3>1 DEF EventSet
    <2>4. CASE wire[i].seq > 0
      <3>1. wire[i] \in Range(hist) /\ wire[i].seq > after
        BY <1>4, <1>6, <2>1, <2>4 DEF WireInv
      <3>2. wire[i] \in Range(h)
        BY <1>11, <3>1
      <3>3. wire[i].seq <= m
        BY <1>12, <3>2 DEF Range
      <3>4. QED
        BY <1>12, <2>2, <2>3, <2>4, <3>3
    <2>5. QED
      BY <2>1, <2>2, <2>3, <2>4
  <1>14. QED
    BY <1>4, <1>9, <1>10, <1>11, <1>13

(* What is in the socket is in the history and later than what was read, or is a delta.    *)
LEMMA WireInvStep ==
  ASSUME TypeInv, HistNumbers, WireInv, [Next]_vars
  PROVE  WireInv'
  <1> USE DEF daemonVars, socketVars, stateVars
  <1>0. /\ wire \in Seq(EventSet) /\ latest \in Nat /\ after \in Nat
        /\ \A x \in EventSet : x.seq \in Nat
        /\ \A k \in DOMAIN wire : wire[k].seq \in Nat
        /\ link \in {"down", "joining", "up", "broken"}
    <2>1. wire \in Seq(EventSet) /\ latest \in Nat /\ after \in Nat /\ link \in {"down", "joining", "up", "broken"}
      BY DEF TypeInv, EventsOk, NumbersOk, LinkOk
    <2>2. \A x \in EventSet : x.seq \in Nat
      BY DEF EventSet
    <2>3. QED
      BY <2>1, <2>2
  <1>1. /\ Range(hist) \subseteq Range(hist')
        /\ \A n : InHist(n) => n = 0 \/ \E i \in DOMAIN hist' : hist'[i].seq = n
    BY HistGrows
  <1>2. ASSUME NEW e, EmitDelta(e), Still,
               e.seq = 0 => e.kind = "delta",
               e.seq > 0 => e \in Range(hist') /\ e.seq > latest /\ e.seq > after /\ \A i \in DOMAIN hist : hist[i].seq < e.seq,
               e.seq \in Nat
        PROVE  WireInv'
    <2>1. /\ \A k \in DOMAIN wire : k \in DOMAIN wire' /\ wire'[k] = wire[k]
          /\ \A k \in DOMAIN wire' : k \in DOMAIN wire \/ (Live /\ wire'[k] = e)
      BY <1>2, Sent
    <2>2. UNCHANGED <<link, after, latest>>
      BY <1>2 DEF Still
    <2>3. InHist(latest)' /\ InHist(after)'
      BY <1>1, <2>2 DEF WireInv, InHist
    <2>4. Sorted(wire')
      <3>1. CASE Live
        <4>1. \A k \in DOMAIN wire : wire[k].seq < e.seq \/ e.seq = 0
          BY <1>0, <1>2 DEF WireInv, Range
        <4>2. CASE e.seq = 0
          BY <1>0, <1>2, <3>1, <4>2, SortedKept DEF WireInv, EmitDelta
        <4>3. QED
          BY <1>0, <1>2, <3>1, <4>1, <4>2, SortedKept DEF WireInv, EmitDelta
      <3>2. QED
        BY <1>2, <3>1 DEF WireInv, EmitDelta
    <2>5. \A k \in DOMAIN wire' : /\ wire'[k].seq = 0 => wire'[k].kind = "delta"
                                  /\ wire'[k].seq > 0 => /\ wire'[k] \in Range(hist') /\ wire'[k].seq > latest
                                                         /\ link = "joining" => wire'[k].seq > after
      BY <1>1, <1>2, <2>1 DEF WireInv
    <2>6. link = "down" => wire' = <<>>
      BY <1>2 DEF WireInv, EmitDelta, Live
    <2>7. QED
      BY <2>2, <2>3, <2>4, <2>5, <2>6 DEF WireInv
  <1>3. ASSUME NEW e, Emission(e), Still PROVE WireInv'
    <2>1. EmitDelta(e) /\ e \in Range(hist') /\ \A i \in DOMAIN hist : hist[i].seq < e.seq
      BY <1>3, Appended DEF Emission, Emit, EmitDelta
    <2>2. e.seq \in Nat /\ e.seq > 0 /\ e.seq > latest /\ e.seq > after
      BY <1>3, Later
    <2>3. QED
      BY <1>2, <1>3, <2>1, <2>2
  <1>4. CASE Delta
    <2>1. PICK e : e = Event("delta", turn.msg, 0)
      OBVIOUS
    <2>2. e.seq = 0 /\ e.kind = "delta" /\ EmitDelta(e) /\ Still
      BY <1>4, <2>1 DEF Event, Delta, Still
    <2>3. QED
      BY <1>2, <2>2
  <1>5. CASE Quiet
    BY <1>5 DEF Quiet, Still, WireInv, InHist
  <1>6. CASE Connect
    BY <1>0, <1>6 DEF Connect, WireInv, InHist
  <1>7. CASE Replay
    <2>1. PICK h, w :
           /\ wire' = h \o w /\ h \in Seq(EventSet) /\ w \in Seq(EventSet) /\ Sorted(h)
           /\ \A j \in DOMAIN h : h[j] \in Range(hist) /\ h[j].seq > after
           /\ \A j \in DOMAIN w : w[j].seq = 0 /\ w[j] \in Range(wire)
      BY <1>7, Replayed
    <2>2. link = "joining" /\ link' = "up" /\ UNCHANGED <<hist, after, latest>>
      BY <1>7 DEF Replay
    <2>3. \A k \in DOMAIN wire' : \/ k \in DOMAIN h /\ wire'[k] = h[k]
                                  \/ /\ wire'[k].seq = 0 /\ wire'[k] \in Range(wire)
                                     /\ \A l \in DOMAIN h : l < k
      BY <2>1, ConcatItems
    <2>4. Sorted(wire')
      <3> SUFFICES ASSUME NEW i \in DOMAIN wire', NEW j \in DOMAIN wire', i < j, wire'[i].seq > 0, wire'[j].seq > 0
                   PROVE  wire'[i].seq < wire'[j].seq
        BY DEF Sorted
      <3>1. i \in DOMAIN h /\ wire'[i] = h[i] /\ j \in DOMAIN h /\ wire'[j] = h[j]
        BY <2>3
      <3>2. QED
        BY <2>1, <3>1 DEF Sorted
    <2>5. \A k \in DOMAIN h : h[k].seq \in Nat
      BY <1>0, <2>1
    <2>6. \A k \in DOMAIN wire' : wire'[k].seq > 0 => wire'[k] \in Range(hist) /\ wire'[k].seq > after
      BY <2>1, <2>3
    <2>7. \A k \in DOMAIN wire' : wire'[k].seq = 0 => wire'[k].kind = "delta"
      BY <1>0, <2>1, <2>3, <2>5 DEF WireInv, Range
    <2>8. \A k \in DOMAIN wire' : wire'[k].seq > 0 => wire'[k].seq > latest
      BY <1>0, <2>1, <2>2, <2>3, <2>5 DEF WireInv
    <2>9. QED
      BY <2>2, <2>4, <2>6, <2>7, <2>8 DEF WireInv, InHist
  <1>8. CASE Break
    <2>1. link' = "broken" /\ UNCHANGED <<hist, after, latest>>
      BY <1>8 DEF Break
    <2>2. CASE wire' = <<>>
      BY <2>1, <2>2 DEF WireInv, InHist, Sorted
    <2>3. ASSUME NEW n \in 0..Len(wire), wire' = SubSeq(wire, 1, n) PROVE WireInv'
      <3>1. Sorted(wire')
        BY <1>0, <2>3, SortedKept DEF WireInv
      <3>2. \A k \in DOMAIN wire' : k \in DOMAIN wire /\ wire'[k] = wire[k]
        BY <1>0, <2>3, PrefixItems
      <3>3. QED
        BY <2>1, <3>1, <3>2 DEF WireInv, InHist
    <2>4. QED
      BY <1>8, <2>2, <2>3 DEF Break
  <1>9. CASE Read
    <2>1. wire # <<>> /\ wire' = Tail(wire) /\ UNCHANGED <<hist, link, after>> /\ link \in {"up", "broken"}
      BY <1>9 DEF Read
    <2>2. latest' = IF Head(wire).seq > 0 THEN Head(wire).seq ELSE latest
      BY <1>9 DEF Read
    <2>3. 1 \in DOMAIN wire /\ Head(wire) = wire[1]
          /\ \A k \in DOMAIN wire' : k \in Nat /\ k + 1 \in DOMAIN wire /\ wire'[k] = wire[k + 1]
      BY <1>0, <2>1, TailItems
    <2>4. Sorted(wire')
      BY <1>0, <2>1, SortedKept DEF WireInv
    <2>5. InHist(latest')
      <3>1. CASE wire[1].seq > 0
        BY <2>2, <2>3, <3>1 DEF WireInv, InHist, Range
      <3>2. QED
        BY <2>2, <2>3, <3>1 DEF WireInv
    <2>6. \A k \in DOMAIN wire' : wire'[k].seq > 0 => wire'[k].seq > latest'
      <3> SUFFICES ASSUME NEW k \in DOMAIN wire', wire'[k].seq > 0 PROVE wire'[k].seq > latest'
        OBVIOUS
      <3>1. k + 1 \in DOMAIN wire /\ wire'[k] = wire[k + 1] /\ 1 < k + 1
        <4>1. DOMAIN wire' = 1..Len(wire')
          BY <1>0, <2>1
        <4>2. QED
          BY <2>3, <4>1
      <3>2. CASE wire[1].seq > 0
        BY <1>0, <2>2, <2>3, <3>1, <3>2 DEF WireInv, Sorted
      <3>3. CASE ~(wire[1].seq > 0)
        BY <2>2, <2>3, <3>1, <3>3 DEF WireInv
      <3>4. QED
        BY <3>2, <3>3
    <2>7. QED
      BY <2>1, <2>3, <2>4, <2>5, <2>6 DEF WireInv, InHist
  <1>10. CASE Drops
    BY <1>10 DEF Drops, LoseLink, WireInv, InHist, Sorted
  <1>11. CASE Forgets
    <2>1. \A k \in DOMAIN wire : wire[k].seq > 0 => wire[k].seq > 0
      OBVIOUS
    <2>2. QED
      BY <1>0, <1>11, <2>1 DEF Forgets, WireInv, InHist
  <1>12. CASE Handles
    BY <1>12 DEF Handles, WireInv, InHist
  <1>13. QED
    BY <1>3, <1>4, <1>5, <1>6, <1>7, <1>8, <1>9, <1>10, <1>11, <1>12, SocketSteps

(* The same of what was read and not handled.                                         *)
LEMMA CtlInvStep ==
  ASSUME TypeInv, HistNumbers, WireInv, CtlInv, [Next]_vars
  PROVE  CtlInv'
  <1> USE DEF daemonVars, socketVars
  <1>0. wire \in Seq(EventSet) /\ ctl \in Seq(EventSet) /\ Range(hist) \subseteq Range(hist')
    BY HistGrows DEF TypeInv, EventsOk
  <1>1. CASE ctl' = ctl
    BY <1>0, <1>1 DEF CtlInv
  <1>2. ASSUME NEW e, ctl' = Append(ctl, e), e.seq = 0 => e.kind \in {"delta", "connected", "disconnected"},
               e.seq > 0 => e \in Range(hist)
        PROVE  CtlInv'
    <2>1. \A k \in DOMAIN ctl' : ctl'[k] = e \/ (k \in DOMAIN ctl /\ ctl'[k] = ctl[k])
      BY <1>0, <1>2, AppendItems
    <2>2. QED
      BY <1>0, <1>2, <2>1 DEF CtlInv
  <1>3. CASE Read
    <2>1. wire # <<>> /\ ctl' = Append(ctl, Head(wire))
      BY <1>3 DEF Read
    <2>2. 1 \in DOMAIN wire /\ Head(wire) = wire[1]
      BY <1>0, <2>1, TailItems
    <2>3. QED
      BY <1>2, <2>1, <2>2 DEF WireInv
  <1>4. CASE Connect \/ Drops
    <2>1. PICK k \in {"connected", "disconnected"} : ctl' = Append(ctl, Event(k, 0, 0))
      BY <1>4 DEF Connect, Drops, LoseLink
    <2>2. Event(k, 0, 0).kind = k /\ Event(k, 0, 0).seq = 0
      BY DEF Event
    <2>3. QED
      BY <1>2, <2>1, <2>2
  <1>5. CASE Handles
    <2>1. \A k \in DOMAIN ctl' : k + 1 \in DOMAIN ctl /\ ctl'[k] = ctl[k + 1]
      BY <1>0, <1>5, TailItems DEF Handles
    <2>2. QED
      BY <1>0, <2>1 DEF CtlInv
  <1>6. QED
    BY <1>1, <1>2, <1>3, <1>4, <1>5, SocketSteps DEF Still, Delta, Quiet, Replay, Break, Forgets

-----------------------------------------------------------------------------
(* What is still going to be read.                                              *)

(* The types these lemmas need.                                                 *)
LEMMA SocketTypes ==
  ASSUME TypeInv
  PROVE  /\ wire \in Seq(EventSet) /\ ctl \in Seq(EventSet) /\ latest \in Nat /\ after \in Nat
         /\ \A k \in DOMAIN wire : wire[k].seq \in Nat
         /\ \A e \in Range(hist) : e.seq \in Nat
         /\ link \in {"down", "joining", "up", "broken"}
  <1>1. wire \in Seq(EventSet) /\ ctl \in Seq(EventSet) /\ latest \in Nat /\ after \in Nat
        /\ link \in {"down", "joining", "up", "broken"}
    BY DEF TypeInv, EventsOk, NumbersOk, LinkOk
  <1>2. \A x \in EventSet : x.seq \in Nat
    BY DEF EventSet
  <1>3. \A e \in Range(hist) : e.seq \in Nat
    BY HistEvent DEF Range
  <1>4. QED
    BY <1>1, <1>2, <1>3

(* An event still to be read stays so until it is read.                               *)
LEMMA AheadStays ==
  ASSUME TypeInv, HistNumbers, WireInv, [Next]_vars, NEW e \in Range(hist), Ahead(e)
  PROVE  Ahead(e)' \/ (Read /\ e = Head(wire))
  <1> USE DEF daemonVars, socketVars
  <1>0. /\ wire \in Seq(EventSet) /\ latest \in Nat /\ after \in Nat
        /\ \A k \in DOMAIN wire : wire[k].seq \in Nat
        /\ e.seq \in Nat
        /\ link \in {"down", "joining", "up", "broken"}
    BY SocketTypes
  <1>1. e.seq > 0
    BY <1>0 DEF HistNumbers, Range
  <1>2. ASSUME NEW x, EmitDelta(x), Still PROVE Ahead(e)'
    <2>1. UNCHANGED <<link, after, latest>> /\ Range(wire) \subseteq Range(wire')
      BY <1>2, Sent DEF Still
    <2>2. CASE Live
      BY <2>1, <2>2 DEF Ahead, Live
    <2>3. CASE ~Live
      BY <1>2, <2>1, <2>3 DEF Ahead, EmitDelta
    <2>4. QED
      BY <2>2, <2>3
  <1>3. ASSUME NEW x, Emission(x), Still PROVE Ahead(e)'
    BY <1>2, <1>3 DEF Emission, Emit, EmitDelta
  <1>4. CASE Delta
    BY <1>2, <1>4 DEF Delta, Still
  <1>5. CASE Quiet
    BY <1>5 DEF Quiet, Still, Ahead
  <1>6. CASE Connect
    BY <1>6 DEF Connect, Ahead
  <1>7. CASE Replay
    <2>1. PICK h, w : wire' = h \o w /\ h \in Seq(EventSet) /\ w \in Seq(EventSet) /\ (e.seq > after => e \in Range(h))
      BY <1>7, Replayed
    <2>2. link = "joining" /\ link' = "up"
      BY <1>7 DEF Replay
    <2>3. Range(wire') = Range(h) \cup Range(w)
      BY <2>1, ConcatItems
    <2>4. QED
      BY <2>1, <2>2, <2>3 DEF Ahead
  <1>8. CASE Break
    <2>1. link' = "broken" /\ UNCHANGED <<after, latest>> /\ link \in {"up", "joining"}
      BY <1>8 DEF Break, Live
    <2>2. CASE link = "joining"
      <3>1. wire' = <<>> /\ e.seq > after
        BY <1>8, <2>2 DEF Break, Ahead
      <3>2. e.seq > latest
        BY <1>0, <2>2, <3>1 DEF WireInv
      <3>3. QED
        BY <2>1, <3>1, <3>2 DEF Ahead
    <2>3. CASE link = "up"
      <3>1. PICK n \in 0..Len(wire) : wire' = SubSeq(wire, 1, n)
        BY <1>8, <2>3 DEF Break
      <3>2. PICK k \in DOMAIN wire : e = wire[k]
        BY <2>3 DEF Ahead, Range
      <3>3. /\ DOMAIN wire' = 1..n /\ DOMAIN wire = 1..Len(wire) /\ Len(wire) \in Nat
            /\ \A i \in 1..n : i \in DOMAIN wire /\ wire'[i] = wire[i]
        BY <1>0, <3>1, PrefixItems
      <3>4. CASE k <= n
        <4>1. k \in DOMAIN wire' /\ wire'[k] = e
          BY <3>2, <3>3, <3>4
        <4>2. QED
          BY <2>1, <4>1 DEF Ahead, Range
      <3>5. CASE n < k
        <4>1. \A i \in DOMAIN wire' : wire'[i].seq < e.seq
          <5> TAKE i \in DOMAIN wire'
          <5>1. i < k /\ i \in DOMAIN wire /\ wire'[i] = wire[i]
            BY <3>3, <3>5
          <5>2. CASE wire[i].seq = 0
            BY <1>1, <5>1, <5>2
          <5>3. CASE wire[i].seq > 0
            BY <1>1, <3>2, <5>1, <5>3 DEF WireInv, Sorted
          <5>4. QED
            BY <1>0, <5>1, <5>2, <5>3
        <4>2. e.seq > latest
          BY <1>1, <3>2 DEF WireInv
        <4>3. QED
          BY <2>1, <4>1, <4>2 DEF Ahead
      <3>6. QED
        BY <3>3, <3>4, <3>5
    <2>4. QED
      BY <2>1, <2>2, <2>3
  <1>9. CASE Read
    <2>1. wire # <<>> /\ wire' = Tail(wire) /\ link' = link /\ link \in {"up", "broken"}
          /\ latest' = IF Head(wire).seq > 0 THEN Head(wire).seq ELSE latest
      BY <1>9 DEF Read
    <2>2. /\ 1 \in DOMAIN wire /\ Head(wire) = wire[1] /\ Range(wire) = Range(wire') \cup {Head(wire)}
          /\ \A k \in DOMAIN wire' : k + 1 \in DOMAIN wire /\ wire'[k] = wire[k + 1]
      BY <1>0, <2>1, TailItems
    <2>3. CASE e \in Range(wire)
      BY <1>9, <2>1, <2>2, <2>3 DEF Ahead
    <2>4. CASE link = "broken" /\ e.seq > latest /\ \A k \in DOMAIN wire : wire[k].seq < e.seq
      BY <2>1, <2>2, <2>4 DEF Ahead
    <2>5. QED
      BY <2>1, <2>3, <2>4 DEF Ahead
  <1>10. CASE Drops
    <2>1. e.seq > latest
      BY <1>1, <1>10 DEF Drops, Ahead, WireInv, Range
    <2>2. QED
      BY <1>10, <2>1 DEF Drops, LoseLink, Ahead
  <1>11. CASE Forgets
    BY <1>1, <1>11 DEF Forgets, Ahead
  <1>12. CASE Handles
    BY <1>12 DEF Handles, Ahead
  <1>13. QED
    BY <1>3, <1>4, <1>5, <1>6, <1>7, <1>8, <1>9, <1>10, <1>11, <1>12, SocketSteps

(* An event that is sent is still to be read.                                        *)
LEMMA NewAhead ==
  ASSUME TypeInv, HistNumbers, WireInv, NEW e, Emission(e), Still
  PROVE  Ahead(e)' /\ e \in Range(hist')
  <1>1. EmitDelta(e) /\ e \in Range(hist')
    BY Appended DEF Emission, Emit, EmitDelta
  <1>2. e.seq > latest /\ e.seq > after /\ e.seq > 0
    BY Later
  <1>3. link \in {"down", "joining", "up", "broken"} /\ \A k \in DOMAIN wire : wire[k].seq \in Nat
    BY SocketTypes
  <1>4. UNCHANGED <<link, after, latest>>
    BY DEF Still
  <1>5. CASE link = "up"
    BY <1>1, <1>4, <1>5, Sent DEF Ahead, Live
  <1>6. CASE link = "broken"
    <2>1. wire' = wire
      BY <1>1, <1>6 DEF EmitDelta, Live
    <2>2. \A k \in DOMAIN wire : wire[k].seq < e.seq
      BY <1>2, <1>3 DEF WireInv, Emission, Range
    <2>3. link' = "broken" /\ e.seq > latest' /\ \A k \in DOMAIN wire' : wire'[k].seq < e.seq
      BY <1>2, <1>4, <1>6, <2>1, <2>2
    <2>4. QED
      BY <1>1, <2>3 DEF Ahead
  <1>7. QED
    BY <1>1, <1>2, <1>3, <1>4, <1>5, <1>6 DEF Ahead

-----------------------------------------------------------------------------
(* The request that a turn waits for.                                           *)

(* The steps by whether they ask for permission.                                      *)
LEMMA AskSteps ==
  ASSUME TypeInv, HistNumbers, [Next]_vars
  PROVE  \/ \E e : Emission(e) /\ Still /\ e.kind = "ask" /\ e.of = perms'
         \/ perms' = perms /\ \E e : Emission(e) /\ Still /\ e.kind # "ask"
         \/ /\ perms' = perms
            /\ Delta \/ Quiet \/ Connect \/ Replay \/ Break \/ Read \/ Drops \/ Forgets \/ Handles
  <1> USE DEF daemonVars, socketVars, stateVars, Still, Quiet
  <1>1. CASE Fail
    BY <1>1, FailEmits DEF Fail
  <1>2. CASE Announce
    BY <1>2, AnnounceEmits DEF Announce
  <1>3. CASE Output
    BY <1>3, OutputEmits DEF Output
  <1>4. CASE Call
    BY <1>4, CallEmits DEF Call
  <1>5. CASE Promote \/ Store \/ Route \/ AskAborted \/ StoreResult \/ Delta
    BY <1>5 DEF Promote, Store, Route, AskAborted, StoreResult, Delta
  <1>6. CASE OtherReplies \/ OtherCompacts \/ \E r \in rpcs : ProcessRpc(r)
    BY <1>6 DEF OtherReplies, OtherCompacts, ProcessRpc
  <1>7. CASE TypePrompt \/ PressEsc \/ \E reply \in Replies : Answer(reply)
    BY <1>7 DEF TypePrompt, PressEsc, Answer
  <1>8. CASE Command \/ Handle
    BY <1>8 DEF Command, Handle, Takes, Forgets, Handles
  <1>9. CASE Socket
    BY <1>9 DEF Socket, Connect, Replay, Break, Read, Notice, Write, Drops
  <1>10. CASE UNCHANGED vars
    BY <1>10 DEF vars
  <1>11. QED
    BY <1>1, <1>2, <1>3, <1>4, <1>5, <1>6, <1>7, <1>8, <1>9, <1>10 DEF Next, Turn, Interface

(* No event of the history is as late as the last request for permission that is in it.   *)
LEMMA LastAskSeq ==
  ASSUME TypeInv, HistNumbers, LastAsk, NEW x \in Range(hist), x.kind = "ask"
  PROVE  \E e \in Range(hist) : IsAsk(e) /\ x.seq <= e.seq
  <1>1. PICK j \in DOMAIN hist : x = hist[j]
    BY DEF Range
  <1>2. PICK i \in DOMAIN hist : IsAsk(hist[i]) /\ j <= i
    BY <1>1 DEF LastAsk
  <1>3. i \in Nat /\ j \in Nat
    BY DEF TypeInv, EventsOk
  <1>4. hist[i].seq \in Nat /\ hist[j].seq \in Nat /\ hist[i].seq > 0 /\ hist[j].seq > 0 /\ hist[i] \in Range(hist)
    BY HistEvent DEF HistNumbers
  <1>5. hist[j].seq <= hist[i].seq
    BY <1>2, <1>3, <1>4 DEF HistNumbers, Sorted
  <1>6. QED
    BY <1>1, <1>2, <1>4, <1>5

(* A request that is still to be read stays so until it is read.                        *)
LEMMA AskKept ==
  ASSUME TypeInv, HistNumbers, WireInv, [Next]_vars, perms' = perms, NEW e \in Range(hist), IsAsk(e), Ahead(e)
  PROVE  (e \in Range(hist') /\ IsAsk(e)' /\ Ahead(e)') \/ (Read /\ e = Head(wire))
  BY AheadStays, HistGrows DEF IsAsk

(* An event that is sent is not read in the same step.                                  *)
LEMMA SentNotRead ==
  ASSUME TypeInv, NEW e, Emission(e) PROVE ~Read
  <1>1. hist' # hist
    BY Appended
  <1>2. QED
    BY <1>1 DEF Read, daemonVars

(* A request that is issued is still to be read.                                 *)
LEMMA NewAskAhead ==
  ASSUME TypeInv, HistNumbers, WireInv, NEW e, Emission(e), Still, e.kind = "ask", e.of = perms'
  PROVE  IsAsk(e)' /\ Ahead(e)' /\ e \in Range(hist') /\ AskAhead'
  BY NewAhead DEF IsAsk, AskAhead

(* A request in the socket is the last, or the last comes after it.                       *)
LEMMA AskWireStep ==
  ASSUME TypeInv, HistNumbers, WireInv, LastAsk, AskWire, [Next]_vars
  PROVE  AskWire'
  <1> USE DEF daemonVars, socketVars
  <1>0. /\ wire \in Seq(EventSet)
        /\ \A k \in DOMAIN wire : wire[k].seq \in Nat /\ k \in Nat
        /\ \A k \in DOMAIN wire : wire[k].kind = "ask" => wire[k].seq > 0 /\ wire[k] \in Range(hist)
    <2>1. wire \in Seq(EventSet) /\ \A k \in DOMAIN wire : wire[k].seq \in Nat
      BY SocketTypes
    <2>2. QED
      BY <2>1 DEF WireInv
  <1>1. ASSUME NEW e, Emission(e), Still, e.kind = "ask", e.of = perms' PROVE AskWire'
    <2>1. IsAsk(e)' /\ Ahead(e)' /\ e \in Range(hist')
      BY <1>1, NewAskAhead
    <2>2. EmitDelta(e)
      BY <1>1 DEF Emission, Emit, EmitDelta
    <2>3. \A k \in DOMAIN wire' : wire'[k] = e \/ (k \in DOMAIN wire /\ wire'[k] = wire[k])
      BY <2>2, Sent
    <2>4. e.seq \in Nat /\ \A i \in DOMAIN hist : hist[i].seq < e.seq
      BY <1>1, Later DEF Emission
    <2>5. \A k \in DOMAIN wire' : wire'[k].kind = "ask" => wire'[k].seq <= e.seq
      BY <1>0, <2>3, <2>4 DEF Range
    <2>6. QED
      BY <2>1, <2>5 DEF AskWire
  <1>2. ASSUME perms' = perms,
               \A k \in DOMAIN wire' : wire'[k].kind = "ask" =>
                 \E j \in DOMAIN wire : wire[j] = wire'[k] /\ (Read => 1 < j)
        PROVE  AskWire'
    <2> SUFFICES ASSUME NEW k \in DOMAIN wire', wire'[k].kind = "ask"
                 PROVE  \E e \in Range(hist') : IsAsk(e)' /\ Ahead(e)' /\ wire'[k].seq <= e.seq
      BY DEF AskWire
    <2>1. PICK j \in DOMAIN wire : wire[j] = wire'[k] /\ (Read => 1 < j)
      BY <1>2
    <2>2. PICK e \in Range(hist) : IsAsk(e) /\ Ahead(e) /\ wire[j].seq <= e.seq
      BY <2>1 DEF AskWire
    <2>3. ~(Read /\ e = Head(wire))
      <3> SUFFICES ASSUME Read, e = Head(wire) PROVE FALSE
        OBVIOUS
      <3>1. 1 \in DOMAIN wire /\ e = wire[1] /\ 1 < j
        BY <1>0, <2>1, TailItems DEF Read
      <3>2. wire[1].seq > 0 /\ wire[j].seq > 0
        BY <1>0, <2>1, <2>2, <3>1 DEF IsAsk
      <3>3. wire[1].seq < wire[j].seq
        BY <3>1, <3>2 DEF WireInv, Sorted
      <3>4. QED
        BY <1>0, <2>2, <3>1, <3>3
    <2>4. QED
      BY <1>2, <2>1, <2>2, <2>3, AskKept
  <1>3. ASSUME NEW e, EmitDelta(e), e.kind # "ask", ~Read, perms' = perms PROVE AskWire'
    <2>1. \A k \in DOMAIN wire' : wire'[k] = e \/ (k \in DOMAIN wire /\ wire'[k] = wire[k])
      BY <1>3, Sent
    <2>2. QED
      BY <1>2, <1>3, <2>1
  <1>4. ASSUME NEW e, Emission(e), Still, e.kind # "ask", perms' = perms PROVE AskWire'
    BY <1>3, <1>4, SentNotRead DEF Emission, Emit, EmitDelta
  <1>5. ASSUME Delta, perms' = perms PROVE AskWire'
    <2>1. PICK e : e = Event("delta", turn.msg, 0)
      OBVIOUS
    <2>2. e.kind # "ask" /\ EmitDelta(e)
      BY <1>5, <2>1 DEF Event, Delta
    <2>3. ~Read
      <3>1. turn' # turn
        BY <1>5 DEF Delta, TypeInv, TurnOk, Turns
      <3>2. QED
        BY <3>1 DEF Read
    <2>4. QED
      BY <1>3, <1>5, <2>2, <2>3
  <1>6. ASSUME wire' = wire, perms' = perms, Quiet \/ Connect \/ Forgets \/ Handles PROVE AskWire'
    <2>1. CASE ~Read
      BY <1>2, <1>6, <2>1
    <2>2. CASE Read
      <3>1. FALSE
        BY <1>0, <1>6, <2>2, TailItems DEF Read
      <3>2. QED
        BY <3>1
    <2>3. QED
      BY <2>1, <2>2
  <1>7. ASSUME Replay, perms' = perms PROVE AskWire'
    <2>1. PICK h, w :
           /\ wire' = h \o w /\ h \in Seq(EventSet) /\ w \in Seq(EventSet)
           /\ \A j \in DOMAIN h : h[j] \in Range(hist) /\ h[j].seq > after
           /\ \A j \in DOMAIN w : w[j].seq = 0 /\ w[j] \in Range(wire)
      BY <1>7, Replayed
    <2>2. link = "joining" /\ hist' = hist /\ link' # link
      BY <1>7 DEF Replay
    <2> SUFFICES ASSUME NEW k \in DOMAIN wire', wire'[k].kind = "ask"
                 PROVE  \E e \in Range(hist') : IsAsk(e)' /\ Ahead(e)' /\ wire'[k].seq <= e.seq
      BY DEF AskWire
    <2>3. wire'[k] \in Range(hist) /\ wire'[k].seq > after
      <3>1. CASE k \in DOMAIN h /\ wire'[k] = h[k]
        BY <2>1, <3>1
      <3>2. CASE k - Len(h) \in DOMAIN w /\ wire'[k] = w[k - Len(h)]
        <4>1. wire'[k].seq = 0 /\ wire'[k] \in Range(wire)
          BY <2>1, <3>2
        <4>2. QED
          BY <4>1 DEF WireInv, Range
      <3>3. QED
        BY <2>1, <3>1, <3>2, ConcatItems
    <2>4. PICK e \in Range(hist) : IsAsk(e) /\ wire'[k].seq <= e.seq
      BY <2>3, LastAskSeq
    <2>5. after \in Nat /\ e.seq \in Nat /\ wire'[k].seq \in Nat
      BY <2>3, SocketTypes
    <2>6. Ahead(e)
      BY <2>2, <2>3, <2>4, <2>5 DEF Ahead
    <2>7. ~Read
      BY <2>2 DEF Read
    <2>8. QED
      BY <1>7, <2>4, <2>6, <2>7, AskKept
  <1>8. ASSUME Break, perms' = perms PROVE AskWire'
    <2>1. ~Read
      <3>1. link' # link \/ link = "broken"
        BY <1>8 DEF Break, Live
      <3>2. QED
        BY <1>8, <3>1 DEF Read, Break, Live
    <2>2. CASE wire' = <<>>
      BY <2>2 DEF AskWire
    <2>3. ASSUME NEW n \in 0..Len(wire), wire' = SubSeq(wire, 1, n) PROVE AskWire'
      <3>1. \A k \in DOMAIN wire' : k \in DOMAIN wire /\ wire'[k] = wire[k]
        BY <1>0, <2>3, PrefixItems
      <3>2. QED
        BY <1>2, <1>8, <2>1, <3>1
    <2>4. QED
      BY <1>8, <2>2, <2>3 DEF Break
  <1>9. ASSUME Read, perms' = perms PROVE AskWire'
    <2>1. wire # <<>> /\ wire' = Tail(wire)
      BY <1>9 DEF Read
    <2>2. \A k \in DOMAIN wire' : k \in Nat /\ k + 1 \in DOMAIN wire /\ wire'[k] = wire[k + 1]
      BY <1>0, <2>1, TailItems
    <2>3. \A k \in DOMAIN wire' : 1 < k + 1
      BY <1>0, <2>1
    <2>4. QED
      BY <1>2, <1>9, <2>2, <2>3
  <1>10. ASSUME Drops, perms' = perms PROVE AskWire'
    BY <1>10 DEF Drops, LoseLink, AskWire
  <1>11. QED
    BY <1>1, <1>4, <1>5, <1>6, <1>7, <1>8, <1>9, <1>10, AskSteps DEF Quiet, Connect, Forgets, Handles

(* What a step makes of the channel to the interface.                                     *)
LEMMA Received ==
  ASSUME TypeInv, HistNumbers, [Next]_vars
  PROVE  \/ ctl' = ctl /\ ~Read
         \/ ~Read /\ \E k \in {"connected", "disconnected"} : ctl' = Append(ctl, Event(k, 0, 0))
         \/ Read /\ wire # <<>> /\ ctl' = Append(ctl, Head(wire))
         \/ ~Read /\ Handles
  <1>1. wire \in Seq(EventSet) /\ ctl \in Seq(EventSet)
    BY SocketTypes
  <1>2. CASE Read
    BY <1>2 DEF Read
  <1>3. CASE ~Read
    BY <1>3, SocketSteps DEF Still, Delta, Quiet, Connect, Replay, Break, Drops, LoseLink, Forgets, Handles
  <1>4. QED
    BY <1>2, <1>3

(* A request that was read is the last, or the last comes after it.                         *)
LEMMA AskCtlStep ==
  ASSUME TypeInv, HistNumbers, WireInv, AskWire, AskCtl, [Next]_vars
  PROVE  AskCtl'
  <1>0. ctl \in Seq(EventSet) /\ wire \in Seq(EventSet)
    BY SocketTypes
  <1>1. ASSUME AskAhead' PROVE AskCtl'
    BY <1>1 DEF AskCtl
  <1>2. ASSUME perms' = perms, ~Read, AskAhead PROVE AskCtl'
    BY <1>1, <1>2, AskKept DEF AskAhead
  <1>3. ASSUME perms' = perms, ~AskAhead, ctl' = ctl PROVE AskCtl'
    BY <1>3 DEF AskCtl, IsAsk
  <1>4. ASSUME perms' = perms, ~AskAhead, NEW k \in {"connected", "disconnected"}, ctl' = Append(ctl, Event(k, 0, 0))
        PROVE  AskCtl'
    <2>1. PICK e : e = Event(k, 0, 0)
      OBVIOUS
    <2>2. e.kind # "ask" /\ ctl' = Append(ctl, e)
      BY <1>4, <2>1 DEF Event
    <2>3. /\ \A i \in DOMAIN ctl : i \in DOMAIN ctl' /\ ctl'[i] = ctl[i]
          /\ \A i \in DOMAIN ctl' : ctl'[i] = e \/ i \in DOMAIN ctl
      BY <1>0, <2>2, AppendItems
    <2>4. QED
      BY <1>4, <2>2, <2>3 DEF AskCtl, IsAsk
  <1>5. ASSUME perms' = perms, ~AskAhead, ctl # <<>>, ctl' = Tail(ctl) PROVE AskCtl'
    <2>1. /\ \A i \in DOMAIN ctl' : i \in Nat /\ i + 1 \in DOMAIN ctl /\ ctl'[i] = ctl[i + 1]
          /\ \A l \in DOMAIN ctl : l = 1 \/ (l - 1 \in DOMAIN ctl' /\ ctl'[l - 1] = ctl[l])
          /\ \A l \in DOMAIN ctl : l \in Nat
      BY <1>0, <1>5, TailItems
    <2> SUFFICES ASSUME NEW i \in DOMAIN ctl', ctl'[i].kind = "ask"
                 PROVE  \E l \in DOMAIN ctl' : i <= l /\ ctl'[l].kind = "ask" /\ ctl'[l].of = perms'
      BY DEF AskCtl, IsAsk
    <2>2. PICK l \in DOMAIN ctl : i + 1 <= l /\ IsAsk(ctl[l])
      BY <1>5, <2>1 DEF AskCtl
    <2>3. 1 <= i
      BY <1>0, <1>5
    <2>4. l - 1 \in DOMAIN ctl' /\ ctl'[l - 1] = ctl[l] /\ i <= l - 1
      BY <2>1, <2>2, <2>3
    <2>5. QED
      BY <1>5, <2>2, <2>4 DEF IsAsk
  <1>6. ASSUME perms' = perms, Read, wire # <<>>, ctl' = Append(ctl, Head(wire)) PROVE AskCtl'
    <2>1. /\ Len(ctl) \in Nat
          /\ \A i \in DOMAIN ctl : i \in DOMAIN ctl' /\ ctl'[i] = ctl[i] /\ i < Len(ctl) + 1
          /\ \A i \in DOMAIN ctl' : i = Len(ctl) + 1 \/ i \in DOMAIN ctl
          /\ Len(ctl) + 1 \in DOMAIN ctl' /\ ctl'[Len(ctl) + 1] = Head(wire)
      BY <1>0, <1>6, AppendItems
    <2>2. 1 \in DOMAIN wire /\ Head(wire) = wire[1]
      BY <1>0, <1>6, TailItems
    <2>3. \A i \in DOMAIN ctl' : i <= Len(ctl) + 1
      <3>1. \A i \in DOMAIN ctl : i \in Nat
        BY <1>0
      <3>2. QED
        BY <2>1, <3>1
    <2>4. ASSUME AskAhead PROVE AskCtl'
      <3>1. PICK e \in Range(hist) : IsAsk(e) /\ Ahead(e)
        BY <2>4 DEF AskAhead
      <3>2. CASE e = Head(wire)
        <4>1. ctl'[Len(ctl) + 1].kind = "ask" /\ ctl'[Len(ctl) + 1].of = perms'
          BY <1>6, <2>1, <3>1, <3>2 DEF IsAsk
        <4>2. QED
          BY <2>1, <2>3, <4>1 DEF AskCtl, IsAsk
      <3>3. CASE e # Head(wire)
        BY <1>1, <1>6, <3>1, <3>3, AskKept DEF AskAhead
      <3>4. QED
        BY <3>2, <3>3
    <2>5. ASSUME ~AskAhead PROVE AskCtl'
      <3>1. Head(wire).kind # "ask"
        BY <2>2, <2>5 DEF AskWire, AskAhead
      <3>2. QED
        BY <1>6, <2>1, <2>5, <3>1 DEF AskCtl, IsAsk
    <2>6. QED
      BY <2>4, <2>5
  <1>7. ASSUME perms' = perms PROVE AskCtl'
    BY <1>2, <1>3, <1>4, <1>5, <1>6, <1>7, Received DEF Handles
  <1>8. QED
    BY <1>1, <1>7, NewAskAhead, AskSteps

(* A turn that waits for permission after a step that asks nothing waited before it.        *)
LEMMA WaitsKept ==
  ASSUME TypeInv, [Next]_vars, perms' = perms, turn'.step = "ask", ~turn'.cancelled
  PROVE  turn.step = "ask" /\ ~turn.cancelled
  <1> USE DEF daemonVars, socketVars, stateVars
  <1>0. turn \in Turns /\ perms \in Nat
    BY DEF TypeInv, TurnOk, NumbersOk
  <1>1. turn' # Idle
    BY IdleTyped
  <1>2. CASE Turn
    <2>1. ~Promote /\ ~Output
      BY <1>1 DEF Promote, Output, NextMessage, Idle
    <2>2. ~Delta /\ ~Store /\ ~Fail /\ ~Announce /\ ~AskAborted /\ ~StoreResult
      BY <1>0, <1>1 DEF Delta, Store, Fail, Announce, AskAborted, StoreResult, Turns
    <2>3. ~Call
      BY <1>0 DEF Call, Turns
    <2>4. QED
      BY <1>2, <2>1, <2>2, <2>3 DEF Turn, Route
  <1>3. ASSUME NEW p, NEW reply, ReplyTo(p, reply) PROVE turn' = turn
    BY <1>0, <1>3 DEF ReplyTo, Turns
  <1>4. CASE OtherReplies
    BY <1>3, <1>4 DEF OtherReplies
  <1>5. ASSUME NEW r \in rpcs, ProcessRpc(r) PROVE turn' = turn
    <2>1. ~Abort(r)
      BY <1>0 DEF Abort, Turns
    <2>2. QED
      BY <1>3, <1>5, <2>1 DEF ProcessRpc, Reply, Prompt
  <1>6. CASE Socket \/ Interface \/ OtherCompacts \/ UNCHANGED vars
    BY <1>6 DEF OtherCompacts, Socket, Connect, Replay, Break, Read, Notice, Write, Interface, TypePrompt, PressEsc, Command, Handle,
         Takes, Answer, vars
  <1>7. QED
    BY <1>2, <1>4, <1>5, <1>6 DEF Next

(* An answer that is under way reaches the turn, or is refused or lost.                   *)
LEMMA AnsweredKept ==
  ASSUME TypeInv, [Next]_vars, perms' = perms, turn'.step = "ask", ~turn'.cancelled, Answered
  PROVE  Answered'
  <1> USE DEF daemonVars, socketVars, stateVars
  <1>0. turn \in Turns /\ out \in Seq(Requests) /\ turn.step = "ask" /\ ~turn.cancelled
    BY WaitsKept DEF TypeInv, TurnOk, RequestsOk
  <1>1. ASSUME rpcs \subseteq rpcs', gone \subseteq gone', out' = out PROVE Answered'
    BY <1>1 DEF Answered
  <1>2. CASE Turn \/ UNCHANGED vars
    BY <1>1, <1>2 DEF Turn, Promote, Delta, Store, Fail, Announce, Call, Route, AskAborted, StoreResult, Output, vars
  <1>3. CASE OtherReplies \/ OtherCompacts
    BY <1>1, <1>3 DEF OtherReplies, OtherCompacts
  <1>4. ASSUME NEW q \in rpcs, ProcessRpc(q) PROVE Answered'
    <2>1. rpcs' = rpcs \ {q} /\ out' = out /\ (Reply(q) \/ Prompt(q) \/ Abort(q))
      BY <1>4 DEF ProcessRpc
    <2>2. gone \subseteq gone'
      BY <2>1 DEF Reply, Prompt, Abort
    <2>3. CASE q.method = "permission.reply" /\ q.of = perms
      <3>1. Reply(q)
        BY <2>1, <2>3 DEF Prompt, Abort
      <3>2. ~ReplyTo(q.of, q.reply)
        BY <1>0, <2>3 DEF ReplyTo, Turns
      <3>3. perms' \in gone'
        BY <2>3, <3>1, <3>2 DEF Reply
      <3>4. QED
        BY <3>3 DEF Answered
    <2>4. CASE ~(q.method = "permission.reply" /\ q.of = perms)
      BY <2>1, <2>2, <2>4 DEF Answered
    <2>5. QED
      BY <2>3, <2>4
  <1>5. CASE Socket
    <2>1. CASE Write
      <3>1. out # <<>> /\ out' = Tail(out)
        BY <2>1 DEF Write
      <3>2. Range(out) = Range(out') \cup {Head(out)}
        BY <1>0, <3>1, TailItems
      <3>3. \/ rpcs' = rpcs \cup {Head(out)} /\ gone' = gone
            \/ /\ rpcs' = rpcs
               /\ gone' = IF Head(out).method = "permission.reply" THEN gone \cup {Head(out).of} ELSE gone
        BY <2>1 DEF Write
      <3>4. QED
        BY <3>2, <3>3 DEF Answered
    <2>2. QED
      BY <1>1, <1>5, <2>1 DEF Socket, Connect, Replay, Break, Read, Notice
  <1>6. CASE Interface
    <2>1. UNCHANGED <<rpcs, gone>> /\ (out' = out \/ \E r : out' = Append(out, r))
      BY <1>6 DEF Interface, TypePrompt, PressEsc, Command, Handle, Takes, Answer, Sends
    <2>2. Range(out) \subseteq Range(out')
      <3>1. ASSUME NEW r, out' = Append(out, r) PROVE Range(out') = Range(out) \cup {r}
        BY <1>0, <3>1, AppendItems
      <3>2. QED
        BY <2>1, <3>1
    <2>3. QED
      BY <2>1, <2>2 DEF Answered
  <1>7. QED
    BY <1>2, <1>3, <1>4, <1>5, <1>6 DEF Next

(* What a step makes of the dialog.                                                *)
LEMMA DialogSteps ==
  ASSUME TypeInv, HistNumbers, [Next]_vars
  PROVE  \/ dialog' = dialog /\ ~Handles
         \/ /\ Handles
            /\ dialog' = IF Head(ctl).kind = "ask" THEN Head(ctl).of ELSE dialog
         \/ \E reply \in Replies : Answer(reply) /\ ctl' = ctl
  <1> USE DEF daemonVars, socketVars, stateVars
  <1>0. ctl \in Seq(EventSet)
    BY SocketTypes
  <1>1. CASE Handle
    BY <1>1 DEF Handle, Takes, Handles
  <1>2. ASSUME Handles, \/ ctl' = ctl \/ \E e : ctl' = Append(ctl, e) PROVE FALSE
    <2>1. Len(ctl') < Len(ctl)
      BY <1>0, <1>2 DEF Handles
    <2>2. Len(ctl) \in Nat /\ Len(ctl') >= Len(ctl)
      BY <1>0, <1>2
    <2>3. QED
      BY <2>1, <2>2
  <1>3. ASSUME Interface, ~Handle
        PROVE  \/ dialog' = dialog /\ ctl' = ctl
               \/ \E reply \in Replies : Answer(reply) /\ ctl' = ctl
    BY <1>3 DEF Interface, TypePrompt, PressEsc, Command, Answer
  <1>4. ASSUME ~Interface
        PROVE  dialog' = dialog /\ (ctl' = ctl \/ \E e : ctl' = Append(ctl, e))
    <2>1. CASE Turn \/ UNCHANGED vars
      BY <2>1 DEF Turn, Promote, Delta, Store, Fail, Announce, Call, Route, AskAborted, StoreResult, Output, vars
    <2>2. CASE OtherReplies \/ OtherCompacts \/ \E r \in rpcs : ProcessRpc(r)
      BY <2>2 DEF OtherReplies, OtherCompacts, ProcessRpc
    <2>3. CASE Socket
      BY <2>3 DEF Socket, Connect, Replay, Break, Read, Notice, Write, LoseLink
    <2>4. QED
      BY <1>4, <2>1, <2>2, <2>3 DEF Next
  <1>5. QED
    BY <1>1, <1>2, <1>3, <1>4

(* Until it is answered, the request that a turn waits for is shown or is still to come.    *)
LEMMA AskTurnStep ==
  ASSUME TypeInv, HistNumbers, WireInv, AskCtl, AskTurn, [Next]_vars
  PROVE  AskTurn'
  <1>0. ctl \in Seq(EventSet) /\ wire \in Seq(EventSet)
    BY SocketTypes
  <1>1. ASSUME AskAhead' PROVE AskTurn'
    BY <1>1 DEF AskTurn
  <1> SUFFICES ASSUME perms' = perms, turn'.step = "ask", ~turn'.cancelled,
                      ~AskAhead', ~Answered'
               PROVE  \/ dialog' = perms'
                      \/ \E l \in DOMAIN ctl' : ctl'[l].kind = "ask" /\ ctl'[l].of = perms'
    BY <1>1, NewAskAhead, AskSteps DEF AskTurn, IsAsk
  <1>2. turn.step = "ask" /\ ~turn.cancelled
    BY WaitsKept
  <1>3. ~Answered
    BY AnsweredKept
  <1>4. AskAhead \/ dialog = perms \/ \E l \in DOMAIN ctl : IsAsk(ctl[l])
    BY <1>2, <1>3 DEF AskTurn
  <1>5. ASSUME AskAhead PROVE Read /\ IsAsk(Head(wire))
    BY <1>5, AskKept DEF AskAhead
  <1>6. ASSUME Read PROVE \/ \E l \in DOMAIN ctl' : ctl'[l].kind = "ask" /\ ctl'[l].of = perms'
                          \/ dialog' = perms'
    <2>1. dialog' = dialog
      BY <1>6 DEF Read, stateVars
    <2>2. ctl' = Append(ctl, Head(wire))
      BY <1>6 DEF Read
    <2>3. /\ \A i \in DOMAIN ctl : i \in DOMAIN ctl' /\ ctl'[i] = ctl[i]
          /\ Len(ctl) + 1 \in DOMAIN ctl' /\ ctl'[Len(ctl) + 1] = Head(wire)
      BY <1>0, <2>2, AppendItems
    <2>4. QED
      BY <1>4, <1>5, <2>1, <2>3 DEF IsAsk
  <1>7. ASSUME ~Read, dialog' = dialog, ~Handles
        PROVE  dialog' = perms' \/ \E l \in DOMAIN ctl' : ctl'[l].kind = "ask" /\ ctl'[l].of = perms'
    <2>1. ctl' = ctl \/ \E e : ctl' = Append(ctl, e)
      BY <1>7, SocketSteps DEF Delta, Quiet, Still, Connect, Replay, Break, Drops, LoseLink, Forgets
    <2>2. \A i \in DOMAIN ctl : i \in DOMAIN ctl' /\ ctl'[i] = ctl[i]
      BY <1>0, <2>1, AppendItems
    <2>3. QED
      BY <1>4, <1>5, <1>7, <2>2 DEF IsAsk
  <1>8. ASSUME Handles, dialog' = IF Head(ctl).kind = "ask" THEN Head(ctl).of ELSE dialog
        PROVE  dialog' = perms' \/ \E l \in DOMAIN ctl' : ctl'[l].kind = "ask" /\ ctl'[l].of = perms'
    <2>1. ~Read
      <3>1. Len(ctl') < Len(ctl) /\ Len(ctl) \in Nat
        BY <1>0, <1>8 DEF Handles
      <3>2. QED
        BY <1>0, <3>1 DEF Read
    <2>2. ~AskAhead
      BY <1>5, <2>1
    <2>3. /\ 1 \in DOMAIN ctl /\ Head(ctl) = ctl[1]
          /\ \A l \in DOMAIN ctl : l = 1 \/ (l - 1 \in DOMAIN ctl' /\ ctl'[l - 1] = ctl[l])
      BY <1>0, <1>8, TailItems DEF Handles
    <2>4. ASSUME NEW l \in DOMAIN ctl, IsAsk(ctl[l])
          PROVE  dialog' = perms' \/ \E i \in DOMAIN ctl' : ctl'[i].kind = "ask" /\ ctl'[i].of = perms'
      <3>1. CASE l = 1
        BY <1>8, <2>3, <2>4, <3>1 DEF IsAsk
      <3>2. CASE l # 1
        BY <2>3, <2>4, <3>2 DEF IsAsk
      <3>3. QED
        BY <3>1, <3>2
    <2>5. CASE dialog = perms /\ ~\E l \in DOMAIN ctl : IsAsk(ctl[l])
      <3>1. ctl[1].kind # "ask"
        BY <2>2, <2>3, <2>5 DEF AskCtl
      <3>2. QED
        BY <1>8, <2>3, <2>5, <3>1
    <2>6. QED
      BY <1>4, <2>2, <2>4, <2>5
  <1>9. ASSUME NEW reply \in Replies, Answer(reply), ctl' = ctl
        PROVE  \E l \in DOMAIN ctl' : ctl'[l].kind = "ask" /\ ctl'[l].of = perms'
    <2>1. ~Read
      BY <1>0, <1>9 DEF Read
    <2>2. dialog # perms
      <3> SUFFICES ASSUME dialog = perms PROVE FALSE
        OBVIOUS
      <3>1. out' = Append(out, Request("permission.reply", dialog, reply)) /\ out \in Seq(Requests)
        BY <1>9 DEF Answer, Sends, TypeInv, RequestsOk
      <3>2. PICK r : r = Request("permission.reply", dialog, reply)
        OBVIOUS
      <3>3. r.method = "permission.reply" /\ r.of = perms'
        BY <3>2 DEF Request
      <3>4. r \in Range(out')
        BY <3>1, <3>2, AppendItems
      <3>5. QED
        BY <3>3, <3>4 DEF Answered
    <2>3. QED
      BY <1>4, <1>5, <1>9, <2>1, <2>2 DEF IsAsk
  <1>10. QED
    BY <1>6, <1>7, <1>8, <1>9, DialogSteps

-----------------------------------------------------------------------------
(* The list on the screen.                                                       *)

(* An event that was still to be read or handled is so after a step that does not handle   *)
(* it, and so is an event that the step sends.                                        *)
LEMMA StillToCome ==
  ASSUME TypeInv, HistNumbers, WireInv, [Next]_vars, NEW e \in Range(hist'),
         e \in Range(hist) => Ahead(e) \/ e \in Range(ctl),
         Handles => e # Head(ctl)
  PROVE  Ahead(e)' \/ e \in Range(ctl')
  <1>0. ctl \in Seq(EventSet) /\ wire \in Seq(EventSet)
    BY SocketTypes
  <1>1. CASE e \notin Range(hist)
    <2>1. PICK x : Emission(x) /\ Still
      <3>1. hist' # hist
        BY <1>1
      <3>2. QED
        BY <3>1, SocketSteps DEF Delta, Quiet, Connect, Replay, Break, Read, Drops, Forgets, Handles, daemonVars
    <2>2. Range(hist') = Range(hist) \cup {x}
      BY <2>1, Appended
    <2>3. QED
      BY <1>1, <2>1, <2>2, NewAhead
  <1>2. CASE e \in Range(ctl)
    <2>1. CASE ctl' = ctl
      BY <1>2, <2>1
    <2>2. ASSUME NEW x, ctl' = Append(ctl, x) PROVE e \in Range(ctl')
      BY <1>0, <1>2, <2>2, AppendItems
    <2>3. CASE Handles
      <3>1. Range(ctl) = Range(ctl') \cup {Head(ctl)}
        BY <1>0, <2>3, TailItems DEF Handles
      <3>2. QED
        BY <1>2, <2>3, <3>1
    <2>4. QED
      BY <2>1, <2>2, <2>3, SocketSteps DEF Still, Delta, Quiet, Connect, Replay, Break, Read, Drops, LoseLink, Forgets
  <1>3. CASE e \in Range(hist) /\ Ahead(e)
    <2>1. CASE Read /\ e = Head(wire)
      <3>1. ctl' = Append(ctl, e)
        BY <2>1 DEF Read
      <3>2. QED
        BY <1>0, <3>1, AppendItems
    <2>2. QED
      BY <1>3, <2>1, AheadStays
  <1>4. QED
    BY <1>1, <1>2, <1>3

(* Nothing of the history tells of a row.                                              *)
Untold(r) == \A e \in Range(hist) : ~Tells(e, r)

(* The steps by what they do to the rows and the list.                                   *)
RowAppended(r) == r \in RowSet /\ rows' = Append(rows, r) /\ UNCHANGED <<shown, behind>> /\ Untold(r)' /\ ~Handles
PromptShown(r) == r \in RowSet /\ r.kind = "user" /\ shown' = Append(shown, r) /\ UNCHANGED <<rows, behind>> /\ ~Handles
Reloaded == shown' = rows /\ rows' = rows
ListKept == UNCHANGED <<rows, shown, behind>> /\ (Handles => Head(ctl).kind \notin {"completed", "output"})

(* A row that is stored has not been announced yet.                                      *)
LEMMA StoredUntold ==
  ASSUME TypeInv, HistNumbers, Messages, Turn
  PROVE  ListKept \/ \E r : RowAppended(r)
  <1> USE DEF stateVars
  <1>0. turn \in Turns /\ turn.msg \in Nat /\ ctl \in Seq(EventSet) /\ \A i \in DOMAIN inbox : inbox[i] \in Nat
    BY DEF TypeInv, TurnOk, Turns, EventsOk, InboxOk
  <1>1. UNCHANGED <<shown, behind, ctl>> /\ ~Handles
    <2>1. UNCHANGED <<shown, behind, ctl>>
      BY DEF Turn, Promote, Delta, Store, Fail, Announce, Call, Route, AskAborted, StoreResult, Output
    <2>2. QED
      BY <1>0, <2>1 DEF Handles
  <1>2. \A m : Row("user", m).kind = "user" /\ Row("assistant", m).kind = "assistant" /\ Row("result", m).kind = "result"
               /\ Row("assistant", m).of = m /\ Row("result", m).of = m
    BY DEF Row
  <1>3. CASE Promote
    <2>1. inbox # <<>> /\ hist' = hist /\ inbox \in Seq(Nat) /\ rows' = Append(rows, Row("user", Head(inbox)))
      BY <1>3 DEF Promote, TypeInv, InboxOk
    <2>2. Row("user", Head(inbox)) \in RowSet
      BY <2>1, RowTyped
    <2>3. PICK r : r = Row("user", Head(inbox))
      OBVIOUS
    <2>4. Untold(r)'
      BY <1>2, <2>3 DEF Untold, Tells
    <2>5. QED
      BY <1>1, <2>1, <2>2, <2>3, <2>4 DEF RowAppended
  <1>4. ASSUME turn.step = "stream", rows' = Append(rows, Row("assistant", turn.msg)),
               \A e \in Range(hist') : e \in Range(hist) \/ e.kind = "error"
        PROVE  \E r : RowAppended(r)
    <2>1. PICK r : r = Row("assistant", turn.msg)
      OBVIOUS
    <2>2. r \in RowSet
      BY <1>0, <2>1, RowTyped
    <2>3. \A e \in Range(hist) : e.kind = "completed" => e.of # turn.msg
      BY <1>4 DEF Messages, Range
    <2>4. \A e \in Range(hist') : ~Tells(e, r)
      BY <1>2, <1>4, <2>1, <2>3 DEF Tells
    <2>5. Untold(r)'
      BY <2>4 DEF Untold, Tells
    <2>6. QED
      BY <1>1, <1>4, <2>1, <2>2, <2>5 DEF RowAppended
  <1>5. CASE Store
    <2>1. rows' = rows \/ (rows' = Append(rows, Row("assistant", turn.msg)) /\ hist' = hist /\ turn.step = "stream")
      BY <1>5 DEF Store
    <2>2. QED
      BY <1>1, <1>4, <2>1 DEF ListKept
  <1>6. CASE Fail
    <2>1. PICK e : Emission(e) /\ e.kind = "error"
      BY <1>6, FailEmits
    <2>2. \A x \in Range(hist') : x \in Range(hist) \/ x.kind = "error"
      BY <2>1, Appended
    <2>3. rows' = rows \/ (rows' = Append(rows, Row("assistant", turn.msg)) /\ turn.step = "stream")
      BY <1>6 DEF Fail
    <2>4. QED
      BY <1>1, <1>4, <2>2, <2>3 DEF ListKept
  <1>7. CASE StoreResult
    <2>1. PICK r : r = Row("result", turn.msg)
      OBVIOUS
    <2>2. r \in RowSet
      BY <1>0, <2>1, RowTyped
    <2>3. \A e \in Range(hist) : e.kind = "output" => e.of # turn.msg
      BY <1>7 DEF StoreResult, Messages, Range
    <2>4. hist' = hist /\ (rows' = rows \/ rows' = Append(rows, r))
      BY <1>7, <2>1 DEF StoreResult
    <2>5. Untold(r)'
      BY <1>2, <2>1, <2>3, <2>4 DEF Untold, Tells
    <2>6. QED
      BY <1>1, <2>2, <2>4, <2>5 DEF RowAppended, ListKept
  <1>8. CASE Delta \/ Announce \/ Call \/ Route \/ AskAborted \/ Output
    BY <1>1, <1>8 DEF Delta, Announce, Call, Route, AskAborted, Output, ListKept
  <1>9. QED
    BY <1>3, <1>5, <1>6, <1>7, <1>8 DEF Turn

(* Every step is one of these.                                                   *)
LEMMA RowSteps ==
  ASSUME TypeInv, HistNumbers, Messages, [Next]_vars
  PROVE  (\E r : RowAppended(r)) \/ (\E r : PromptShown(r)) \/ Reloaded \/ ListKept \/ behind'
  <1> USE DEF daemonVars, stateVars
  <1>0. ctl \in Seq(EventSet)
    BY SocketTypes
  <1>1. ASSUME \/ ctl' = ctl \/ \E e : ctl' = Append(ctl, e) PROVE ~Handles
    <2>1. Handles => Len(ctl') < Len(ctl)
      BY <1>0 DEF Handles
    <2>2. Len(ctl) \in Nat /\ Len(ctl') >= Len(ctl)
      BY <1>0, <1>1
    <2>3. QED
      BY <2>1, <2>2
  <1>2. CASE Command
    BY <1>2 DEF Command
  <1>3. CASE Handle
    <2>1. rows' = rows /\ IF Head(ctl).kind \in {"connected", "completed", "output"}
                          THEN Reload ELSE UNCHANGED <<shown, behind>>
      BY <1>3 DEF Handle, Takes
    <2>2. QED
      BY <2>1 DEF Reload, Reloaded, ListKept
  <1>4. CASE TypePrompt
    <2>1. used'["prompts"] \in Nat
      BY <1>4, StepTyped DEF TypeInv, UsedOk, Counters
    <2>2. PICK r : r = Row("user", used'["prompts"])
      OBVIOUS
    <2>3. r \in RowSet /\ r.kind = "user"
      BY <2>1, <2>2, RowTyped DEF Row
    <2>4. QED
      BY <1>1, <1>4, <2>2, <2>3 DEF TypePrompt, PromptShown
  <1>5. CASE PressEsc \/ \E reply \in Replies : Answer(reply)
    BY <1>1, <1>5 DEF PressEsc, Answer, ListKept
  <1>6. CASE Socket
    BY <1>1, <1>6 DEF Socket, Connect, Replay, Break, Read, Notice, Write, LoseLink, ListKept
  <1>7. CASE OtherReplies \/ OtherCompacts \/ \E r \in rpcs : ProcessRpc(r)
    BY <1>1, <1>7 DEF OtherReplies, OtherCompacts, ProcessRpc, ListKept
  <1>8. CASE UNCHANGED vars
    BY <1>1, <1>8 DEF vars, ListKept
  <1>9. QED
    BY <1>2, <1>3, <1>4, <1>5, <1>6, <1>7, <1>8, StoredUntold DEF Next, Interface

(* The list shows the first rows, and of the later ones nothing has been told that is not    *)
(* still to be handled.                                                               *)
LEMMA ShownInvStep ==
  ASSUME TypeInv, HistNumbers, WireInv, Messages, CtlInv, ShownInv, [Next]_vars
  PROVE  ShownInv'
  <1>0. rows \in Seq(RowSet) /\ shown \in Seq(RowSet) /\ Len(rows) \in Nat /\ ctl \in Seq(EventSet)
    BY DEF TypeInv, RowsOk, EventsOk
  <1>1. ASSUME NEW e \in Range(hist'), NEW r, Tells(e, r), e \in Range(hist) => Ahead(e) \/ e \in Range(ctl),
               Handles => Head(ctl).kind \notin {"completed", "output"}
        PROVE  Ahead(e)' \/ e \in Range(ctl')
    <2>1. Handles => e # Head(ctl)
      BY <1>1 DEF Tells
    <2>2. QED
      BY <1>1, <2>1, StillToCome
  <1>2. ASSUME NEW n \in 0..Len(rows), ShownUpTo(n), NEW k, NEW e \in Range(hist'), k \in (n + 1)..Len(rows),
               Tells(e, rows[k]), Handles => Head(ctl).kind \notin {"completed", "output"}
        PROVE  Ahead(e)' \/ e \in Range(ctl')
    <2>1. e \in Range(hist) => Ahead(e) \/ e \in Range(ctl)
      BY <1>2 DEF ShownUpTo
    <2>2. QED
      BY <1>1, <1>2, <2>1
  <1>3. CASE ListKept
    <2>1. ASSUME ~behind' PROVE ShownInv'
      <3>1. PICK n \in 0..Len(rows) : ShownUpTo(n)
        BY <1>3, <2>1 DEF ListKept, ShownInv
      <3>2. rows' = rows /\ shown' = shown
        BY <1>3 DEF ListKept
      <3>3. \A k \in (n + 1)..Len(rows) : \A e \in Range(hist') : Tells(e, rows[k]) => Ahead(e)' \/ e \in Range(ctl')
        BY <1>2, <1>3, <3>1 DEF ListKept
      <3>4. ShownUpTo(n)'
        BY <3>1, <3>2, <3>3 DEF ShownUpTo, Tells
      <3>5. QED
        BY <3>1, <3>2, <3>4 DEF ShownInv
    <2>2. QED
      BY <2>1 DEF ShownInv
  <1>4. ASSUME NEW r, RowAppended(r) PROVE ShownInv'
    <2>1. ASSUME ~behind' PROVE ShownInv'
      <3>1. PICK n \in 0..Len(rows) : ShownUpTo(n)
        BY <1>4, <2>1 DEF RowAppended, ShownInv
      <3>2. rows' = Append(rows, r) /\ shown' = shown /\ r \in RowSet /\ ~Handles
        BY <1>4 DEF RowAppended
      <3>3. SubSeq(rows', 1, n) = SubSeq(rows, 1, n)
        BY <1>0, <3>1, <3>2
      <3>4. Len(rows') = Len(rows) + 1 /\ rows'[Len(rows) + 1] = r /\ \A k \in 1..Len(rows) : rows'[k] = rows[k]
        BY <1>0, <3>2
      <3>5. \A k \in (n + 1)..Len(rows') : \A e \in Range(hist') : Tells(e, rows'[k]) => Ahead(e)' \/ e \in Range(ctl')
        <4> SUFFICES ASSUME NEW k \in (n + 1)..Len(rows'), NEW e \in Range(hist'), Tells(e, rows'[k])
                     PROVE  Ahead(e)' \/ e \in Range(ctl')
          OBVIOUS
        <4>1. k # Len(rows) + 1
          BY <1>4, <3>4 DEF RowAppended, Untold, Tells
        <4>2. k \in (n + 1)..Len(rows) /\ rows'[k] = rows[k]
          BY <1>0, <3>1, <3>4, <4>1
        <4>3. QED
          BY <1>2, <3>1, <3>2, <4>2
      <3>6. ShownUpTo(n)'
        BY <3>1, <3>2, <3>3, <3>5 DEF ShownUpTo, Tells
      <3>7. n \in 0..Len(rows')
        BY <1>0, <3>4
      <3>8. QED
        BY <3>6, <3>7 DEF ShownInv
    <2>2. QED
      BY <2>1 DEF ShownInv
  <1>5. ASSUME NEW r, PromptShown(r) PROVE ShownInv'
    <2>1. ASSUME ~behind' PROVE ShownInv'
      <3>1. PICK n \in 0..Len(rows) : ShownUpTo(n)
        BY <1>5, <2>1 DEF PromptShown, ShownInv
      <3>2. rows' = rows /\ shown' = Append(shown, r) /\ r \in RowSet /\ ~Handles /\ r.kind = "user"
        BY <1>5 DEF PromptShown
      <3>3. ASSUME NEW w \in SUBSET AnswerRows PROVE Only(shown', w) = Only(shown, w)
        <4>1. r \notin w
          BY <3>2 DEF AnswerRows
        <4>2. shown' \in Seq(RowSet) /\ Len(shown') = Len(shown) + 1 /\ Len(shown) \in Nat
              /\ shown'[Len(shown) + 1] = r /\ \A k \in 1..Len(shown) : shown'[k] = shown[k]
          BY <1>0, <3>2
        <4>3. \A k \in (Len(shown) + 1)..Len(shown') : shown'[k] \notin w
          BY <4>1, <4>2
        <4>4. Len(shown) <= Len(shown')
          BY <4>2
        <4>5. QED
          BY <1>0, <4>2, <4>3, <4>4, OnlyPrefix
      <3>4. \A w \in SUBSET AnswerRows : Only(shown', w) = Only(SubSeq(rows', 1, n), w)
        BY <3>1, <3>2, <3>3 DEF ShownUpTo
      <3>5. \A k \in (n + 1)..Len(rows) : \A e \in Range(hist') : Tells(e, rows[k]) => Ahead(e)' \/ e \in Range(ctl')
        BY <1>2, <3>1, <3>2
      <3>6. ShownUpTo(n)'
        BY <3>2, <3>4, <3>5 DEF ShownUpTo, Tells, AnswerRows
      <3>7. QED
        BY <3>1, <3>2, <3>6 DEF ShownInv
    <2>2. QED
      BY <2>1 DEF ShownInv
  <1>6. CASE Reloaded
    <2>1. PICK n : n = Len(rows)
      OBVIOUS
    <2>2. shown' = rows /\ rows' = rows /\ n \in 0..Len(rows)
      BY <1>0, <1>6, <2>1 DEF Reloaded
    <2>3. SubSeq(rows, 1, n) = rows
      BY <1>0, <2>1
    <2>4. \A k \in (n + 1)..Len(rows) : FALSE
      BY <1>0, <2>1
    <2>5. ShownUpTo(n)'
      BY <2>2, <2>3, <2>4 DEF ShownUpTo
    <2>6. QED
      BY <2>2, <2>5 DEF ShownInv
  <1>7. CASE behind'
    BY <1>7 DEF ShownInv
  <1>8. QED
    BY <1>3, <1>4, <1>5, <1>6, <1>7, RowSteps

(* Nothing is still to be read or handled when the interface has caught up.               *)
LEMMA NothingAhead ==
  ASSUME TypeInv, CaughtUp
  PROVE  (\A e : ~Ahead(e) /\ e \notin Range(ctl)) /\ DOMAIN ctl = {}
  BY DEF CaughtUp, Ahead, Range

(* What is told and handled is shown.                                            *)
LEMMA ConvergedHolds ==
  ASSUME TypeInv, HistNumbers, ShownInv
  PROVE  Converged
  <1> SUFFICES ASSUME CaughtUp, ~behind PROVE Only(shown, Announced) = Only(rows, Announced)
    BY DEF Converged
  <1>1. PICK n \in 0..Len(rows) : ShownUpTo(n)
    BY DEF ShownInv
  <1>2. rows \in Seq(RowSet) /\ Len(rows) \in Nat
    BY DEF TypeInv, RowsOk
  <1>3. Announced \in SUBSET AnswerRows
    <2>1. \A e \in Range(hist) : e.of \in Nat
      BY HistEvent DEF Range
    <2>2. \A e \in Range(hist) : /\ Row("assistant", e.of) \in RowSet /\ Row("assistant", e.of).kind = "assistant"
                                 /\ Row("result", e.of) \in RowSet /\ Row("result", e.of).kind = "result"
      BY <2>1, RowTyped
    <2>3. QED
      BY <2>2 DEF Announced, AnswerRows
  <1>4. PICK t : t = SubSeq(rows, 1, n)
    OBVIOUS
  <1>5. Only(shown, Announced) = Only(t, Announced)
    BY <1>1, <1>3, <1>4 DEF ShownUpTo
  <1>6. \A k \in (n + 1)..Len(rows) : rows[k] \notin Announced
    BY <1>1, NothingAhead DEF ShownUpTo, Announced, Tells
  <1>7. t \in Seq(RowSet) /\ Len(t) = n /\ \A k \in 1..n : rows[k] = t[k]
    BY <1>1, <1>2, <1>4
  <1>8. Only(rows, Announced) = Only(t, Announced)
    <2>1. Len(t) <= Len(rows)
      BY <1>1, <1>2, <1>7
    <2>2. QED
      BY <1>2, <1>6, <1>7, <2>1, OnlyPrefix
  <1>9. QED
    BY <1>5, <1>8

(* What is told and handled is asked.                                            *)
LEMMA DialogHolds ==
  ASSUME TypeInv, AskTurn
  PROVE  DialogCurrent
  BY NothingAhead DEF DialogCurrent, AskTurn, AskAhead, Answered

-----------------------------------------------------------------------------
(* The stream buffer.                                                          *)

(* The steps by what they do to the stream buffer.                               *)
LEMMA BufferSteps ==
  ASSUME TypeInv, [Next]_vars
  PROVE  /\ caught \subseteq caught'
         /\ \/ ~Handles /\ finished' = finished /\ (buffer' = buffer \/ buffer' = <<>>)
            \/ Handles /\ Head(ctl).kind = "completed" /\ finished' = finished \cup {Head(ctl).of} /\ buffer' = <<>>
            \/ Handles /\ Head(ctl).kind = "delta" /\ finished' = finished /\ buffer' = Append(buffer, Head(ctl).of)
            \/ Handles /\ Head(ctl).kind \notin {"completed", "delta"} /\ finished' = finished /\ buffer' = buffer
  <1> USE DEF daemonVars, stateVars
  <1>0. ctl \in Seq(EventSet)
    BY SocketTypes
  <1>1. ASSUME \/ ctl' = ctl \/ \E e : ctl' = Append(ctl, e) PROVE ~Handles
    <2>1. Handles => Len(ctl') < Len(ctl)
      BY <1>0 DEF Handles
    <2>2. Len(ctl) \in Nat /\ Len(ctl') >= Len(ctl)
      BY <1>0, <1>1
    <2>3. QED
      BY <2>1, <2>2
  <1>2. CASE Handle
    <2>1. /\ Handles /\ caught' = caught
          /\ buffer' = IF Head(ctl).kind = "delta" THEN Append(buffer, Head(ctl).of)
                       ELSE IF Head(ctl).kind \in {"completed"} THEN <<>> ELSE buffer
          /\ finished' = IF Head(ctl).kind = "completed" THEN finished \cup {Head(ctl).of} ELSE finished
      BY <1>2 DEF Handle, Takes, Handles, socketVars
    <2>2. QED
      BY <2>1
  <1>3. CASE TypePrompt \/ PressEsc \/ Command \/ \E reply \in Replies : Answer(reply)
    BY <1>1, <1>3 DEF TypePrompt, PressEsc, Command, Answer
  <1>4. CASE Turn
    BY <1>1, <1>4 DEF Turn, Promote, Delta, Store, Fail, Announce, Call, Route, AskAborted, StoreResult, Output
  <1>5. CASE Socket
    BY <1>1, <1>5 DEF Socket, Connect, Replay, Break, Read, Notice, Write, LoseLink
  <1>6. CASE OtherReplies \/ OtherCompacts \/ \E r \in rpcs : ProcessRpc(r)
    BY <1>1, <1>6 DEF OtherReplies, OtherCompacts, ProcessRpc
  <1>7. CASE UNCHANGED vars
    BY <1>1, <1>7 DEF vars
  <1>8. QED
    BY <1>2, <1>3, <1>4, <1>5, <1>6, <1>7 DEF Next, Interface

(* What a delta comes after, whatever has been completed, is in the history.               *)
LEMMA CompletionKnown ==
  ASSUME TypeInv, WireInv, CtlInv, FinishedKnown, NEW m,
         \/ m \in finished
         \/ \E l \in DOMAIN ctl : Completes(ctl[l], m)
         \/ \E l \in DOMAIN wire : Completes(wire[l], m)
  PROVE  \E e \in Range(hist) : Completes(e, m)
  <1>1. \A l \in DOMAIN ctl : ctl[l].seq \in Nat
    <2>1. \A l \in DOMAIN ctl : ctl[l] \in EventSet
      BY SocketTypes
    <2>2. QED
      BY <2>1 DEF EventSet
  <1>2. \A l \in DOMAIN wire : wire[l].seq \in Nat
    BY SocketTypes
  <1>3. \A l \in DOMAIN ctl : ctl[l].kind = "completed" => ctl[l] \in Range(hist)
    BY <1>1 DEF CtlInv
  <1>4. \A l \in DOMAIN wire : wire[l].kind = "completed" => wire[l] \in Range(hist)
    BY <1>2 DEF WireInv
  <1>5. QED
    BY <1>3, <1>4 DEF FinishedKnown, Completes

(* A message that was handled as complete is complete in the history.            *)
LEMMA FinishedKnownStep ==
  ASSUME TypeInv, HistNumbers, WireInv, CtlInv, FinishedKnown, [Next]_vars
  PROVE  FinishedKnown'
  <1>1. Range(hist) \subseteq Range(hist') /\ ctl \in Seq(EventSet)
    BY HistGrows, SocketTypes
  <1>2. CASE finished' = finished
    BY <1>1, <1>2 DEF FinishedKnown, Completes
  <1>3. ASSUME Handles, Head(ctl).kind = "completed", finished' = finished \cup {Head(ctl).of} PROVE FinishedKnown'
    <2>1. 1 \in DOMAIN ctl /\ Head(ctl) = ctl[1]
      BY <1>1, <1>3, TailItems DEF Handles
    <2>2. \E e \in Range(hist) : Completes(e, Head(ctl).of)
      BY <1>3, <2>1, CompletionKnown DEF Completes
    <2>3. QED
      BY <1>1, <1>3, <2>2 DEF FinishedKnown, Completes
  <1>4. QED
    BY <1>2, <1>3, BufferSteps

(* The buffer holds nothing of a completed message that was not caught.          *)
LEMMA BufferFreshStep ==
  ASSUME TypeInv, CtlFresh, BufferFresh, [Next]_vars
  PROVE  BufferFresh'
  <1>1. ctl \in Seq(EventSet) /\ buffer \in Seq(Nat)
    BY SocketTypes DEF TypeInv, BufferOk
  <1>2. caught \subseteq caught'
    BY BufferSteps
  <1>3. CASE buffer' = <<>>
    BY <1>3 DEF BufferFresh, Range
  <1>4. CASE finished' = finished /\ buffer' = buffer
    BY <1>2, <1>4 DEF BufferFresh
  <1>5. ASSUME Handles, Head(ctl).kind = "delta", finished' = finished, buffer' = Append(buffer, Head(ctl).of)
        PROVE  BufferFresh'
    <2>1. 1 \in DOMAIN ctl /\ Head(ctl) = ctl[1]
      BY <1>1, <1>5, TailItems DEF Handles
    <2>2. Range(buffer') = Range(buffer) \cup {Head(ctl).of}
      BY <1>1, <1>5, AppendItems
    <2>3. Head(ctl).of \in finished => Head(ctl).of \in caught
      BY <1>5, <2>1 DEF CtlFresh
    <2>4. QED
      BY <1>2, <1>5, <2>2, <2>3 DEF BufferFresh
  <1>6. QED
    BY <1>3, <1>4, <1>5, BufferSteps

(* Nor does the channel to the interface.                                        *)
LEMMA CtlFreshStep ==
  ASSUME TypeInv, HistNumbers, CtlFresh, WireFresh, [Next]_vars
  PROVE  CtlFresh'
  <1>0. ctl \in Seq(EventSet) /\ wire \in Seq(EventSet) /\ caught \subseteq caught'
    BY SocketTypes, BufferSteps
  <1>1. CASE ctl' = ctl /\ finished' = finished
    BY <1>0, <1>1 DEF CtlFresh, Completes
  <1>2. ASSUME NEW e, ctl' = Append(ctl, e), finished' = finished,
               e.kind = "delta" /\ (e.of \in finished \/ \E l \in DOMAIN ctl : Completes(ctl[l], e.of)) => e.of \in caught
        PROVE  CtlFresh'
    <2>1. /\ Len(ctl) \in Nat /\ DOMAIN ctl = 1..Len(ctl)
          /\ \A k \in DOMAIN ctl' : k = Len(ctl) + 1 \/ k \in DOMAIN ctl
          /\ \A k \in DOMAIN ctl : ctl'[k] = ctl[k]
          /\ ctl'[Len(ctl) + 1] = e
      BY <1>0, <1>2, AppendItems
    <2> SUFFICES ASSUME NEW k \in DOMAIN ctl', ctl'[k].kind = "delta",
                        ctl'[k].of \in finished \/ \E l \in DOMAIN ctl' : l < k /\ Completes(ctl'[l], ctl'[k].of)
                 PROVE  ctl'[k].of \in caught
      BY <1>0, <1>2 DEF CtlFresh, Completes
    <2>2. \A l \in DOMAIN ctl' : l < k => l \in DOMAIN ctl /\ ctl'[l] = ctl[l]
      BY <2>1
    <2>3. CASE k = Len(ctl) + 1
      BY <1>2, <2>1, <2>2, <2>3
    <2>4. CASE k \in DOMAIN ctl
      BY <2>1, <2>2, <2>4 DEF CtlFresh
    <2>5. QED
      BY <2>1, <2>3, <2>4
  <1>3. ASSUME NEW c \in {"connected", "disconnected"}, ctl' = Append(ctl, Event(c, 0, 0)), finished' = finished
        PROVE  CtlFresh'
    <2>1. PICK e : e = Event(c, 0, 0)
      OBVIOUS
    <2>2. e.kind # "delta" /\ ctl' = Append(ctl, e)
      BY <1>3, <2>1 DEF Event
    <2>3. QED
      BY <1>2, <1>3, <2>2
  <1>4. CASE Read
    <2>1. link \in {"up", "broken"} /\ wire # <<>> /\ ctl' = Append(ctl, Head(wire)) /\ finished' = finished
      BY <1>4 DEF Read, stateVars
    <2>2. 1 \in DOMAIN wire /\ Head(wire) = wire[1]
      BY <1>0, <2>1, TailItems
    <2>3. QED
      BY <1>2, <2>1, <2>2 DEF WireFresh
  <1>5. CASE Handles
    <2>1. /\ 1 \in DOMAIN ctl /\ Head(ctl) = ctl[1]
          /\ \A k \in DOMAIN ctl' : k \in Nat /\ k + 1 \in DOMAIN ctl /\ ctl'[k] = ctl[k + 1]
      BY <1>0, <1>5, TailItems DEF Handles
    <2>2. \A k \in DOMAIN ctl' : 1 < k + 1
      BY <1>0, <1>5 DEF Handles
    <2>3. \A m \in finished' : m \in finished \/ Completes(ctl[1], m)
      BY <2>1, BufferSteps DEF Completes
    <2> SUFFICES ASSUME NEW k \in DOMAIN ctl', ctl'[k].kind = "delta",
                        ctl'[k].of \in finished' \/ \E l \in DOMAIN ctl' : l < k /\ Completes(ctl'[l], ctl'[k].of)
                 PROVE  ctl'[k].of \in caught
      BY <1>0 DEF CtlFresh, Completes
    <2>4. CASE ctl'[k].of \in finished'
      BY <2>1, <2>2, <2>3, <2>4 DEF CtlFresh
    <2>5. ASSUME NEW l \in DOMAIN ctl', l < k, Completes(ctl'[l], ctl'[k].of) PROVE ctl'[k].of \in caught
      <3>1. l + 1 \in DOMAIN ctl /\ l + 1 < k + 1 /\ Completes(ctl[l + 1], ctl[k + 1].of)
        BY <2>1, <2>5
      <3>2. QED
        BY <2>1, <3>1 DEF CtlFresh
    <2>6. QED
      BY <2>4, <2>5
  <1>6. ~Handles => finished' = finished
    BY BufferSteps
  <1>7. QED
    BY <1>1, <1>3, <1>4, <1>5, <1>6, Received

(* A message that is streamed has not been completed.                                    *)
LEMMA StreamedIsNew ==
  ASSUME TypeInv, Messages, Delta, NEW e \in Range(hist)
  PROVE  ~Completes(e, turn.msg)
  BY DEF Delta, Messages, Range, Completes

(* Nor does the socket.                                                          *)
LEMMA WireFreshStep ==
  ASSUME TypeInv, HistNumbers, WireInv, CtlInv, Messages, FinishedKnown, WireFresh, RingFresh, [Next]_vars
  PROVE  WireFresh'
  <1> USE DEF daemonVars, socketVars, stateVars
  <1>0. ctl \in Seq(EventSet) /\ wire \in Seq(EventSet) /\ caught \subseteq caught'
        /\ (~Handles => finished' = finished)
    BY SocketTypes, BufferSteps
  <1>1. ASSUME link' = link, ctl' = ctl, finished' = finished,
               NEW e, EmitDelta(e),
               e.kind = "delta" => \A x \in Range(hist) : ~Completes(x, e.of)
        PROVE  WireFresh'
    <2>1. /\ \A k \in DOMAIN wire : wire'[k] = wire[k]
          /\ \A k \in DOMAIN wire' : k \in DOMAIN wire \/ (wire'[k] = e /\ \A l \in DOMAIN wire : l < k)
      BY <1>1, Sent
    <2>2. \A k \in DOMAIN wire : k \in Nat
      BY <1>0
    <2>3. \A k \in DOMAIN wire' : k \in Nat
      <3>1. wire' = wire \/ wire' = Append(wire, e)
        BY <1>1 DEF EmitDelta
      <3>2. QED
        BY <1>0, <3>1
    <2> SUFFICES ASSUME link \in {"up", "broken"}, NEW k \in DOMAIN wire', wire'[k].kind = "delta",
                        \/ wire'[k].of \in finished
                        \/ \E l \in DOMAIN ctl : Completes(ctl[l], wire'[k].of)
                        \/ \E l \in DOMAIN wire' : l < k /\ Completes(wire'[l], wire'[k].of)
                 PROVE  wire'[k].of \in caught
      BY <1>0, <1>1 DEF WireFresh, Completes
    <2>4. CASE k \in DOMAIN wire
      <3>1. \A l \in DOMAIN wire' : l < k => l \in DOMAIN wire /\ wire'[l] = wire[l]
        BY <2>1, <2>2, <2>3, <2>4
      <3>2. QED
        BY <2>1, <2>4, <3>1 DEF WireFresh
    <2>5. CASE wire'[k] = e /\ \A l \in DOMAIN wire : l < k
      <3>1. \A x \in Range(hist) : ~Completes(x, e.of)
        BY <1>1, <2>5
      <3>2. \A l \in DOMAIN wire' : l \in DOMAIN wire \/ wire'[l] = e
        BY <2>1
      <3>3. ~Completes(e, e.of)
        BY <2>5 DEF Completes
      <3>4. \/ e.of \in finished
            \/ \E l \in DOMAIN ctl : Completes(ctl[l], e.of)
            \/ \E l \in DOMAIN wire : Completes(wire[l], e.of)
        BY <2>1, <2>5, <3>2, <3>3
      <3>5. QED
        BY <3>1, <3>4, CompletionKnown
    <2>6. QED
      BY <2>1, <2>4, <2>5
  <1>2. ASSUME NEW e, Emission(e), Still, ~Handles PROVE WireFresh'
    <2>1. e.kind # "delta" /\ EmitDelta(e)
      BY <1>2 DEF Emission, DurableKinds, Emit, EmitDelta
    <2>2. QED
      BY <1>0, <1>1, <1>2, <2>1 DEF Still
  <1>3. CASE Delta
    <2>1. PICK e : e = Event("delta", turn.msg, 0)
      OBVIOUS
    <2>2. EmitDelta(e) /\ e.of = turn.msg
      BY <1>3, <2>1 DEF Delta, Event
    <2>3. \A x \in Range(hist) : ~Completes(x, e.of)
      BY <1>3, <2>2, StreamedIsNew
    <2>4. link' = link /\ ctl' = ctl /\ finished' = finished
      BY <1>3 DEF Delta
    <2>5. QED
      BY <1>1, <2>2, <2>3, <2>4
  <1>4. ASSUME wire' = wire, link' = link, ctl' = ctl, finished' = finished PROVE WireFresh'
    BY <1>0, <1>4 DEF WireFresh, Completes
  <1>5. CASE Replay
    <2>1. PICK h, w :
           /\ wire' = h \o w /\ h \in Seq(EventSet) /\ w \in Seq(EventSet)
           /\ \A j \in DOMAIN h : h[j] \in Range(hist) /\ h[j].seq > after
           /\ \A j \in DOMAIN w : w[j].seq = 0 /\ w[j] \in Range(wire)
      BY <1>5, Replayed
    <2>2. /\ link = "joining" /\ hist' = hist /\ ctl' = ctl /\ finished' = finished
          /\ caught' = caught \cup {e.of : e \in {x \in Range(wire) : x.kind = "completed"}}
      BY <1>5 DEF Replay
    <2>3. \A k \in DOMAIN wire' : wire'[k] \in Range(hist) \/ (wire'[k].seq = 0 /\ wire'[k] \in Range(wire))
      BY <2>1, ConcatItems
    <2>4. \A x \in Range(hist) : x.kind # "delta"
      BY DEF HistNumbers, DurableKinds, Range
    <2>5. \A k \in DOMAIN wire' : wire'[k].kind = "delta" => wire'[k] \in Range(wire)
      BY <2>3, <2>4
    <2>6. \A k \in DOMAIN wire' : wire'[k].kind = "completed" => wire'[k] \in Range(hist)
      BY <2>3 DEF WireInv, Range
    <2> SUFFICES ASSUME NEW k \in DOMAIN wire', wire'[k].kind = "delta",
                        \/ wire'[k].of \in finished
                        \/ \E l \in DOMAIN ctl : Completes(ctl[l], wire'[k].of)
                        \/ \E l \in DOMAIN wire' : Completes(wire'[l], wire'[k].of)
                 PROVE  wire'[k].of \in caught'
      BY <2>2 DEF WireFresh, Completes
    <2>7. \E e \in Range(hist) : Completes(e, wire'[k].of)
      <3>1. CASE \E l \in DOMAIN wire' : Completes(wire'[l], wire'[k].of)
        BY <2>6, <3>1 DEF Completes
      <3>2. QED
        BY <3>1, CompletionKnown
    <2>8. PICK e \in Range(wire) : Completes(e, wire'[k].of)
      BY <2>2, <2>5, <2>7 DEF RingFresh, Range
    <2>9. QED
      BY <2>2, <2>8 DEF Completes
  <1>6. CASE Break
    <2>1. UNCHANGED <<ctl, finished>> /\ link \in {"up", "joining"}
      BY <1>6 DEF Break, Live
    <2>2. CASE wire' = <<>>
      BY <2>2 DEF WireFresh
    <2>3. ASSUME link = "up", NEW n \in 0..Len(wire), wire' = SubSeq(wire, 1, n) PROVE WireFresh'
      <3>1. \A k \in DOMAIN wire' : k \in DOMAIN wire /\ wire'[k] = wire[k]
        BY <1>0, <2>3, PrefixItems
      <3>2. QED
        BY <1>0, <2>1, <2>3, <3>1 DEF WireFresh, Completes
    <2>4. QED
      BY <1>6, <2>1, <2>2, <2>3 DEF Break
  <1>7. CASE Read
    <2>1. wire # <<>> /\ wire' = Tail(wire) /\ ctl' = Append(ctl, Head(wire)) /\ UNCHANGED <<link, finished>>
          /\ link \in {"up", "broken"}
      BY <1>7 DEF Read
    <2>2. /\ 1 \in DOMAIN wire /\ Head(wire) = wire[1]
          /\ \A k \in DOMAIN wire' : k \in Nat /\ k + 1 \in DOMAIN wire /\ wire'[k] = wire[k + 1]
      BY <1>0, <2>1, TailItems
    <2>3. \A k \in DOMAIN wire' : 1 < k + 1
      BY <1>0, <2>1
    <2>4. \A l \in DOMAIN ctl' : ctl'[l] = wire[1] \/ (l \in DOMAIN ctl /\ ctl'[l] = ctl[l])
      BY <1>0, <2>1, <2>2, AppendItems
    <2> SUFFICES ASSUME NEW k \in DOMAIN wire', wire'[k].kind = "delta",
                        \/ wire'[k].of \in finished
                        \/ \E l \in DOMAIN ctl' : Completes(ctl'[l], wire'[k].of)
                        \/ \E l \in DOMAIN wire' : l < k /\ Completes(wire'[l], wire'[k].of)
                 PROVE  wire'[k].of \in caught
      BY <1>0, <2>1 DEF WireFresh, Completes
    <2> DEFINE late == \/ wire[k + 1].of \in finished
                       \/ \E l \in DOMAIN ctl : Completes(ctl[l], wire[k + 1].of)
                       \/ \E l \in DOMAIN wire : l < k + 1 /\ Completes(wire[l], wire[k + 1].of)
    <2>5. late
      <3>1. CASE wire'[k].of \in finished
        BY <2>2, <3>1
      <3>2. ASSUME NEW l \in DOMAIN ctl', Completes(ctl'[l], wire'[k].of) PROVE late
        BY <2>2, <2>3, <2>4, <3>2
      <3>3. ASSUME NEW l \in DOMAIN wire', l < k, Completes(wire'[l], wire'[k].of) PROVE late
        <4>1. l + 1 \in DOMAIN wire /\ l + 1 < k + 1 /\ Completes(wire[l + 1], wire[k + 1].of)
          BY <2>2, <3>3
        <4>2. QED
          BY <4>1
      <3>4. QED
        BY <3>1, <3>2, <3>3
    <2>6. k + 1 \in DOMAIN wire /\ wire[k + 1].kind = "delta"
      BY <2>2
    <2>7. QED
      BY <2>1, <2>2, <2>5, <2>6 DEF WireFresh
  <1>8. CASE Connect \/ Drops
    BY <1>8 DEF Connect, Drops, LoseLink, WireFresh
  <1>9. CASE Handles
    <2>1. 1 \in DOMAIN ctl /\ Head(ctl) = ctl[1]
      BY <1>0, <1>9, TailItems DEF Handles
    <2>2. \A m \in finished' : m \in finished \/ Completes(ctl[1], m)
      BY <2>1, BufferSteps DEF Completes
    <2>3. \A l \in DOMAIN ctl' : l + 1 \in DOMAIN ctl /\ ctl'[l] = ctl[l + 1]
      BY <1>0, <1>9, TailItems DEF Handles
    <2>4. wire' = wire /\ link' = link
      BY <1>9 DEF Handles
    <2>5. QED
      BY <1>0, <2>1, <2>2, <2>3, <2>4 DEF WireFresh, Completes
  <1>10. QED
    BY <1>0, <1>2, <1>3, <1>4, <1>5, <1>6, <1>7, <1>8, <1>9, SocketSteps DEF Still, Quiet, Forgets

(* A completion that is later than a delta of the ring is in the ring.           *)
LEMMA RingFreshStep ==
  ASSUME TypeInv, HistNumbers, WireInv, Messages, RingFresh, [Next]_vars
  PROVE  RingFresh'
  <1>0. wire \in Seq(EventSet)
    BY SocketTypes
  <1>1. ASSUME link = "joining", NEW e, Emission(e), Still PROVE RingFresh'
    <2>1. e.kind # "delta" /\ EmitDelta(e) /\ Range(hist') = Range(hist) \cup {e}
      BY <1>1, Appended DEF Emission, DurableKinds, Emit, EmitDelta
    <2>2. /\ \A k \in DOMAIN wire' : wire'[k] = e \/ (k \in DOMAIN wire /\ wire'[k] = wire[k])
          /\ Range(wire) \subseteq Range(wire') /\ e \in Range(wire')
      BY <1>1, <2>1, Sent DEF Live
    <2>3. QED
      BY <1>1, <2>1, <2>2 DEF RingFresh, Completes
  <1>2. ASSUME link = "joining", Delta PROVE RingFresh'
    <2>1. PICK e : e = Event("delta", turn.msg, 0)
      OBVIOUS
    <2>2. EmitDelta(e) /\ e.of = turn.msg /\ hist' = hist
      BY <1>2, <2>1 DEF Delta, Event
    <2>3. \A x \in Range(hist) : ~Completes(x, e.of)
      BY <1>2, <2>2, StreamedIsNew
    <2>4. /\ \A k \in DOMAIN wire' : wire'[k] = e \/ (k \in DOMAIN wire /\ wire'[k] = wire[k])
          /\ Range(wire) \subseteq Range(wire')
      BY <2>2, Sent
    <2>5. QED
      BY <1>2, <2>2, <2>3, <2>4 DEF RingFresh, Completes
  <1>3. ASSUME link' = link, wire' = wire, hist' = hist PROVE RingFresh'
    BY <1>3 DEF RingFresh, Completes
  <1>4. CASE Connect
    <2>1. wire' = <<>>
      BY <1>4 DEF Connect, WireInv
    <2>2. QED
      BY <2>1 DEF RingFresh
  <1>5. CASE link' # "joining"
    BY <1>5 DEF RingFresh
  <1>6. QED
    BY <1>1, <1>2, <1>3, <1>4, <1>5, SocketSteps
       DEF Still, Delta, Quiet, Replay, Break, Read, Drops, LoseLink, Forgets, Handles, daemonVars

-----------------------------------------------------------------------------
(* The theorems.                                                               *)

SocketInv == HistNumbers /\ WireInv /\ CtlInv /\ LastAsk /\ Messages
TerminalInv == TypeInv /\ SocketInv /\ AskInv /\ ShownInv /\ BufferInv

(* The invariant holds in the beginning, and every step keeps it.                          *)
LEMMA TerminalInvAlways == Spec => []TerminalInv
  <1>1. Init => TerminalInv
    <2> SUFFICES ASSUME Init PROVE TerminalInv
      OBVIOUS
    <2>1. TypeInv
      BY InitTyped
    <2>2. SocketInv
      <3>1. HistNumbers /\ LastAsk
        BY IdleTyped DEF Init, HistNumbers, LastAsk, Sorted
      <3>2. WireInv /\ CtlInv
        BY DEF Init, WireInv, CtlInv, InHist, Sorted
      <3>3. Messages
        BY IdleTyped DEF Init, Messages, Idle
      <3>4. QED
        BY <3>1, <3>2, <3>3 DEF SocketInv
    <2>3. AskInv
      BY IdleTyped DEF Init, AskInv, AskWire, AskCtl, AskTurn
    <2>4. ShownInv
      <3>1. rows = <<>> /\ shown = <<>> /\ hist = <<>>
        BY DEF Init
      <3>2. SubSeq(rows, 1, 0) = shown /\ Len(rows) = 0
        BY <3>1
      <3>3. ShownUpTo(0)
        <4>1. \A w : Only(shown, w) = Only(SubSeq(rows, 1, 0), w)
          BY <3>2
        <4>2. \A k \in (0 + 1)..Len(rows) : FALSE
          BY <3>2
        <4>3. QED
          BY <4>1, <4>2 DEF ShownUpTo
      <3>4. QED
        BY <3>2, <3>3 DEF ShownInv
    <2>5. BufferInv
      BY DEF Init, BufferInv, FinishedKnown, BufferFresh, CtlFresh, WireFresh, RingFresh
    <2>6. QED
      BY <2>1, <2>2, <2>3, <2>4, <2>5 DEF TerminalInv
  <1>2. TerminalInv /\ [Next]_vars => TerminalInv'
    <2> SUFFICES ASSUME TerminalInv, [Next]_vars PROVE TerminalInv'
      OBVIOUS
    <2>1. TypeInv'
      BY StepTyped DEF TerminalInv
    <2>2. SocketInv'
      BY HistNumbersStep, WireInvStep, CtlInvStep, LastAskStep, MessagesStep DEF TerminalInv, SocketInv
    <2>3. AskInv'
      BY AskWireStep, AskCtlStep, AskTurnStep DEF TerminalInv, SocketInv, AskInv
    <2>4. ShownInv'
      BY ShownInvStep DEF TerminalInv, SocketInv
    <2>5. BufferInv'
      BY FinishedKnownStep, BufferFreshStep, CtlFreshStep, WireFreshStep, RingFreshStep
         DEF TerminalInv, SocketInv, BufferInv
    <2>6. QED
      BY <2>1, <2>2, <2>3, <2>4, <2>5 DEF TerminalInv
  <1>3. QED
    BY <1>1, <1>2, PTL DEF Spec

(* An interface that has caught up shows the announced messages and results of the          *)
(* database, all of them and in order, unless it was emptied, could not read them or lost     *)
(* rows to another client since, and nothing stale in the live buffer                        *)
(* (tui lib.rs handle_ws_event, ws.rs replay).                                            *)
THEOREM ScreenAlwaysTrue == Spec => []ScreenTrue
  <1>1. TerminalInv => ScreenTrue
    <2> SUFFICES ASSUME TerminalInv PROVE ScreenTrue
      OBVIOUS
    <2>1. TypeOK
      BY TypeInvOK DEF TerminalInv
    <2>2. Converged
      BY ConvergedHolds DEF TerminalInv, SocketInv
    <2>3. QED
      BY <2>1, <2>2 DEF ScreenTrue, TerminalInv, BufferInv
  <1>2. QED
    BY <1>1, TerminalInvAlways, PTL

(* While a turn waits for permission, an interface that has caught up shows that request,     *)
(* unless an answer is under way or was lost or refused (tui lib.rs, reply_permission).       *)
THEOREM DialogAlwaysCurrent == Spec => []DialogCurrent
  <1>1. TerminalInv => DialogCurrent
    BY DialogHolds DEF TerminalInv, AskInv
  <1>2. QED
    BY <1>1, TerminalInvAlways, PTL

-----------------------------------------------------------------------------
(* The desktop's session store.                                                 *)

(* An attempt to attach, once begun, has its session; an entry still being     *)
(* built leaves room for itself.                                              *)
Places ==
    /\ \A g \in Gens : view[g].pc # "none" => view[g].session \in Sessions
    /\ \A s \in Sessions : building[s] # None => life[s] < MaxLives

(* A call's session and the provider that the user picked for it.              *)
OwnPick(r) == r.pc # "none" => r.session \in Sessions /\ r.provider \in picked[r.session]

(* Whatever is on its way to a row was picked for the session of that row:     *)
(* every call under way, and the switch that is put off.                       *)
Keyed ==
    /\ \A c \in Calls : OwnPick(call[c])
    /\ pendingChange # None => pendingChange.provider \in picked[pendingChange.session]

SwitchInv == DesktopTypeOK /\ Places /\ Keyed /\ NoForeignWrite

CallsOk == call \in [Calls -> Invocations] /\ \A c \in Calls : OwnPick(call[c])

(* A call that is issued for a session with a provider picked for it.          *)
LEMMA Issued ==
  ASSUME SwitchInv, \A t \in Sessions : picked[t] \subseteq picked'[t],
         NEW c \in Calls, NEW s \in Sessions, NEW p \in Providers, p \in picked'[s], Issue(c, s, p)
  PROVE  CallsOk'
  <1>1. PICK b \in BOOLEAN : b = (config[s] # p)
    BY Zenon
  <1> DEFINE r == [NoCall EXCEPT !.pc = "read", !.session = s, !.provider = p, !.changed = b]
  <1>2. call' = [call EXCEPT ![c] = r]
    BY <1>1, Zenon DEF Issue
  <1>3. r \in Invocations /\ r.session = s /\ r.provider = p
    BY DEF NoCall, Invocations
  <1> HIDE DEF r
  <1>4. QED
    BY <1>2, <1>3 DEF CallsOk, SwitchInv, DesktopTypeOK, Keyed, OwnPick

(* A call that goes on keeps its session and its provider.                     *)
LEMMA CallGoesOn ==
  ASSUME SwitchInv, picked' = picked, NEW c \in Calls, call[c].pc # "none", NEW r \in Invocations,
         r.session = call[c].session, r.provider = call[c].provider, call' = [call EXCEPT ![c] = r]
  PROVE  CallsOk'
  BY DEF CallsOk, SwitchInv, DesktopTypeOK, Keyed, OwnPick

(* The effect that re-applies the deferred switch issues it for its session.   *)
LEMMA Flushed ==
  ASSUME SwitchInv, picked' = picked, NEW s, Flush(s)
  PROVE  CallsOk'
  <1>1. CASE pendingChange # None /\ pendingChange.session = s
    <2>1. PICK c \in Calls : Issue(c, s, pendingChange.provider)
      BY <1>1 DEF Flush
    <2>2. s \in Sessions /\ pendingChange.provider \in Providers /\ pendingChange.provider \in picked[s]
      BY <1>1 DEF SwitchInv, DesktopTypeOK, Keyed
    <2>3. QED
      BY <2>1, <2>2, Issued
  <1>2. CASE ~(pendingChange # None /\ pendingChange.session = s)
    BY <1>2 DEF Flush, CallsOk, SwitchInv, DesktopTypeOK, Keyed, OwnPick
  <1>3. QED
    BY <1>1, <1>2

(* What an attempt to attach changes in the store.                             *)
StoreOk ==
    /\ active \in Sessions \cup {None}
    /\ streaming \in BOOLEAN
    /\ gen \in 0..MaxGens
    /\ view \in [Gens -> Views]
    /\ \A g \in Gens : view[g].pc # "none" => view[g].session \in Sessions

LEMMA Attached ==
  ASSUME SwitchInv, NEW s \in Sessions, Attach(s)
  PROVE  StoreOk'
  <1>1. gen + 1 \in Gens /\ gen + 1 \in 0..MaxGens
    BY DesktopBounds DEF Attach, SwitchInv, DesktopTypeOK, Gens
  <1>2. [pc |-> "load", session |-> s, rx |-> 0] \in Views
    BY DesktopBounds DEF Views
  <1>3. QED
    BY <1>1, <1>2 DEF Attach, StoreOk, SwitchInv, DesktopTypeOK, Places

(* One step of an attempt to attach, which keeps its session.                  *)
LEMMA ViewGoesOn ==
  ASSUME SwitchInv, NEW g \in Gens, NEW v \in Views, v.session = view[g].session,
         view[g].pc # "none", view' = [view EXCEPT ![g] = v],
         UNCHANGED <<active, streaming, gen>>
  PROVE  StoreOk'
  BY DEF StoreOk, SwitchInv, DesktopTypeOK, Places

ServerOk ==
    /\ row \in [Sessions -> Providers]
    /\ entry \in [Sessions -> Providers \cup {None}]
    /\ life \in [Sessions -> 0..MaxLives]
    /\ building \in [Sessions -> Providers \cup {None}]
    /\ busy \in [Sessions -> BOOLEAN]
    /\ armed \in [Sessions -> 0..MaxGens]
    /\ \A s \in Sessions : building[s] # None => life[s] < MaxLives

RestOk ==
    /\ config \in [Sessions -> Providers]
    /\ pendingChange \in {None} \cup [session : Sessions, provider : Providers]
    /\ pendingChange # None => pendingChange.provider \in picked[pendingChange.session]
    /\ chosen \in Sessions \cup {None}
    /\ picked \in [Sessions -> SUBSET Providers]
    /\ \A s \in Sessions : row[s] \in picked[s]

LEMMA Parts == SwitchInv <=> ServerOk /\ StoreOk /\ CallsOk /\ RestOk
  BY DEF SwitchInv, DesktopTypeOK, Places, Keyed, NoForeignWrite, ServerOk, StoreOk, CallsOk, RestOk

LEMMA Rejoined ==
  ASSUME ServerOk', StoreOk', CallsOk', RestOk'
  PROVE  SwitchInv'
  BY DEF SwitchInv, DesktopTypeOK, Places, Keyed, NoForeignWrite, ServerOk, StoreOk, CallsOk, RestOk

(* The steps of the server and the rest of what a step can disturb.            *)
LEMMA ServerStep ==
  ASSUME SwitchInv, NEW s \in Sessions, BeginBuild(s) \/ FinishBuild(s) \/ TurnSettles(s)
  PROVE  SwitchInv'
  <1>1. StoreOk' /\ CallsOk' /\ RestOk'
    BY Parts DEF BeginBuild, FinishBuild, TurnSettles, storeVars, StoreOk, CallsOk, RestOk, OwnPick
  <1>2. ServerOk'
    <2>1. CASE BeginBuild(s)
      BY <2>1, Parts, NoneAssumption DEF BeginBuild, ServerOk
    <2>2. CASE FinishBuild(s)
      BY <2>2, Parts, NoneAssumption, DesktopBounds DEF FinishBuild, ServerOk
    <2>3. CASE TurnSettles(s)
      BY <2>3, Parts DEF TurnSettles, ServerOk
    <2>4. QED
      BY <2>1, <2>2, <2>3
  <1>3. QED
    BY <1>1, <1>2, Rejoined

(* A call under way, seen as one that has been made for its session.           *)
LEMMA UnderWay ==
  ASSUME SwitchInv, NEW c \in Calls, call[c].pc # "none"
  PROVE  /\ call[c] \in Invocations /\ call[c].session \in Sessions
         /\ call[c].provider \in Providers /\ call[c].provider \in picked[call[c].session]
  BY DEF SwitchInv, DesktopTypeOK, Keyed, OwnPick

LEMMA ReadStep ==
  ASSUME SwitchInv, NEW c \in Calls, SetModelReads(c)
  PROVE  SwitchInv'
  <1>1. ServerOk' /\ StoreOk' /\ RestOk'
    BY Parts DEF SetModelReads, serverVars, storeVars, ServerOk, StoreOk, RestOk
  <1> DEFINE r == [call[c] EXCEPT !.pc = "write", !.old = row[call[c].session]]
  <1>2. call[c].pc # "none" /\ call' = [call EXCEPT ![c] = r] /\ picked' = picked
    BY DEF SetModelReads
  <1>3. row[call[c].session] \in Providers
    BY <1>2, UnderWay DEF SwitchInv, DesktopTypeOK
  <1>4. r \in Invocations /\ r.session = call[c].session /\ r.provider = call[c].provider
    BY <1>2, <1>3, UnderWay DEF Invocations
  <1> HIDE DEF r
  <1>5. CallsOk'
    BY <1>2, <1>4, CallGoesOn
  <1>6. QED
    BY <1>1, <1>5, Rejoined

(* The row gets the provider of the call, which was picked for it.              *)
LEMMA WriteStep ==
  ASSUME SwitchInv, NEW c \in Calls, SetModelWrites(c)
  PROVE  SwitchInv'
  <1>1. PICK b \in BOOLEAN : b = (call[c].old = call[c].provider)
    BY Zenon
  <1> DEFINE q == IF b THEN "resolve" ELSE "evict"
             r == [call[c] EXCEPT !.pc = q, !.live = b]
  <1>2. call[c].pc # "none" /\ call' = [call EXCEPT ![c] = r] /\ picked' = picked
    BY <1>1 DEF SetModelWrites
  <1>3. r \in Invocations /\ r.session = call[c].session /\ r.provider = call[c].provider
    BY <1>2, UnderWay DEF Invocations
  <1> HIDE DEF r
  <1>4. CallsOk'
    BY <1>2, <1>3, CallGoesOn
  <1>5. ServerOk' /\ StoreOk' /\ RestOk'
    BY <1>2, Parts, UnderWay DEF SetModelWrites, storeVars, ServerOk, StoreOk, RestOk
  <1>6. QED
    BY <1>4, <1>5, Rejoined

LEMMA EvictStep ==
  ASSUME SwitchInv, NEW c \in Calls, EvictSession(c)
  PROVE  SwitchInv'
  <1>1. busy[call[c].session] \in BOOLEAN
    BY UnderWay DEF EvictSession, SwitchInv, DesktopTypeOK
  <1>2. PICK b \in BOOLEAN : b = ~busy[call[c].session]
    BY Zenon
  <1> DEFINE r == [call[c] EXCEPT !.pc = "resolve", !.live = b]
  <1>3. call[c].pc # "none" /\ picked' = picked
    BY DEF EvictSession
  <1>4. call' = [call EXCEPT ![c] = r]
    BY <1>2, Zenon DEF EvictSession
  <1>5. r \in Invocations /\ r.session = call[c].session /\ r.provider = call[c].provider
    BY <1>3, UnderWay DEF Invocations
  <1> HIDE DEF r
  <1>6. CallsOk'
    BY <1>3, <1>4, <1>5, CallGoesOn
  <1>7. ServerOk' /\ StoreOk' /\ RestOk'
    BY <1>3, Parts, UnderWay DEF EvictSession, storeVars, ServerOk, StoreOk, RestOk
  <1>8. QED
    BY <1>6, <1>7, Rejoined

(* The answer: a switch that is put off is put off for the call's session.      *)
LEMMA ResolveStep ==
  ASSUME SwitchInv, NEW c \in Calls, Resolve(c)
  PROVE  SwitchInv'
  <1>0. call[c].pc # "none" /\ UNCHANGED <<serverVars, chosen, picked>>
    BY DEF Resolve, Stash
  <1> DEFINE s == call[c].session
             r == [call[c] EXCEPT !.pc = "done"]
  <1>1. call' = [call EXCEPT ![c] = r]
    BY DEF Resolve, Stash
  <1>2. r \in Invocations /\ r.session = call[c].session /\ r.provider = call[c].provider
    BY <1>0, UnderWay DEF Invocations
  <1> HIDE DEF r
  <1>3. CallsOk'
    BY <1>0, <1>1, <1>2, CallGoesOn
  <1>4. ServerOk'
    BY <1>0, Parts DEF serverVars, ServerOk
  <1>5. StoreOk'
    <2>1. CASE Attach(s)
      BY <1>0, <2>1, Attached, UnderWay
    <2>2. CASE UNCHANGED <<active, streaming, gen, view>>
      BY <2>2, Parts DEF StoreOk
    <2>3. QED
      BY <2>1, <2>2 DEF Resolve
  <1>6. RestOk'
    <2>1. config' = [config EXCEPT ![s] = call[c].provider]
      BY DEF Resolve, Stash
    <2>2. pendingChange' \in {None, [session |-> s, provider |-> call[c].provider]}
      BY DEF Resolve, Stash
    <2>3. QED
      BY <1>0, <2>1, <2>2, Parts, UnderWay DEF serverVars, RestOk
  <1>7. QED
    BY <1>3, <1>4, <1>5, <1>6, Rejoined

LEMMA PickStep ==
  ASSUME SwitchInv, NEW c \in Calls, NEW p \in Providers, Pick(c, p)
  PROVE  SwitchInv'
  <1>1. active \in Sessions
    BY DEF Pick, SwitchInv, DesktopTypeOK
  <1>2. picked' = [picked EXCEPT ![active] = picked[active] \cup {p}]
    BY DEF Pick
  <1>3. /\ \A t \in Sessions : picked[t] \subseteq picked'[t]
        /\ p \in picked'[active]
        /\ picked' \in [Sessions -> SUBSET Providers]
    BY <1>1, <1>2 DEF SwitchInv, DesktopTypeOK
  <1>4. CallsOk'
    BY <1>1, <1>3, Issued DEF Pick
  <1>5. ServerOk' /\ StoreOk'
    BY Parts DEF Pick, serverVars, storeVars, ServerOk, StoreOk
  <1>6. RestOk'
    BY <1>3, Parts DEF Pick, serverVars, storeVars, RestOk
  <1>7. QED
    BY <1>4, <1>5, <1>6, Rejoined

LEMMA SelectStep ==
  ASSUME SwitchInv, NEW s \in Sessions, Select(s)
  PROVE  SwitchInv'
  <1>1. CallsOk'
    <2>1. CASE UNCHANGED call
      BY <2>1, Parts DEF Select, CallsOk, OwnPick
    <2>2. CASE Flush(s)
      BY <2>2, Flushed DEF Select
    <2>3. QED
      BY <2>1, <2>2 DEF Select
  <1>2. StoreOk'
    BY Attached DEF Select
  <1>3. ServerOk' /\ RestOk'
    BY Parts DEF Select, serverVars, ServerOk, RestOk
  <1>4. QED
    BY <1>1, <1>2, <1>3, Rejoined

(* What shows in the window: none of it reaches a row.                          *)
LEMMA DisplayStep ==
  ASSUME SwitchInv, TurnStarts \/ DeltaArrives \/ StreamingEnds
  PROVE  SwitchInv'
  <1>1. CallsOk'
    <2>1. CASE UNCHANGED call
      BY <2>1, Parts DEF TurnStarts, DeltaArrives, StreamingEnds, CallsOk, OwnPick
    <2>2. CASE Flush(active)
      BY <2>2, Flushed DEF TurnStarts, DeltaArrives, StreamingEnds
    <2>3. QED
      BY <2>1, <2>2 DEF TurnStarts, DeltaArrives, StreamingEnds
  <1>2. ServerOk'
    BY Parts DEF TurnStarts, DeltaArrives, StreamingEnds, serverVars, ServerOk
  <1>3. StoreOk' /\ RestOk'
    BY Parts DEF TurnStarts, DeltaArrives, StreamingEnds, serverVars, StoreOk, RestOk
  <1>4. QED
    BY <1>1, <1>2, <1>3, Rejoined

LEMMA ViewStep ==
  ASSUME SwitchInv, NEW g \in Gens, LoadMessages(g) \/ Receive(g) \/ Arm(g)
  PROVE  SwitchInv'
  <1>0. view[g] \in Views /\ view[g].pc # "none" /\ view[g].session \in Sessions
    BY DEF LoadMessages, Receive, Arm, SwitchInv, DesktopTypeOK, Places
  <1>1. CallsOk' /\ RestOk'
    BY Parts DEF LoadMessages, Receive, Arm, serverVars, CallsOk, RestOk, OwnPick
  <1>2. ServerOk'
    BY <1>0, Parts, DesktopBounds DEF LoadMessages, Receive, Arm, serverVars, ServerOk, Gens
  <1>3. life[view[g].session] \in 0..MaxLives
    BY <1>0 DEF SwitchInv, DesktopTypeOK
  <1>4. StoreOk'
    <2>1. CASE LoadMessages(g)
      <3>1. PICK q \in {"receive", "superseded"} : view' = [view EXCEPT ![g] = [view[g] EXCEPT !.pc = q]]
        BY <2>1 DEF LoadMessages
      <3> DEFINE v == [view[g] EXCEPT !.pc = q]
      <3>2. view' = [view EXCEPT ![g] = v]
        BY <2>1, <3>1 DEF LoadMessages
      <3>3. v \in Views /\ v.session = view[g].session
        BY <1>0 DEF Views
      <3> HIDE DEF v
      <3>4. QED
        BY <1>0, <2>1, <3>2, <3>3, ViewGoesOn DEF LoadMessages
    <2>2. CASE Receive(g)
      <3> DEFINE v == [view[g] EXCEPT !.pc = "arm", !.rx = life[view[g].session]]
      <3>2. view' = [view EXCEPT ![g] = v]
        BY <2>2 DEF Receive
      <3>3. v \in Views /\ v.session = view[g].session
        BY <1>0, <1>3 DEF Views
      <3> HIDE DEF v
      <3>4. QED
        BY <1>0, <2>2, <3>2, <3>3, ViewGoesOn DEF Receive
    <2>3. CASE Arm(g)
      <3> DEFINE v == [view[g] EXCEPT !.pc = "fed"]
      <3>2. view' = [view EXCEPT ![g] = v]
        BY <2>3 DEF Arm
      <3>3. v \in Views /\ v.session = view[g].session
        BY <1>0 DEF Views
      <3> HIDE DEF v
      <3>4. QED
        BY <1>0, <2>3, <3>2, <3>3, ViewGoesOn DEF Arm
    <2>4. QED
      BY <2>1, <2>2, <2>3
  <1>5. QED
    BY <1>1, <1>2, <1>4, Rejoined

LEMMA Initially == DesktopInit => SwitchInv
  <1> SUFFICES ASSUME DesktopInit PROVE SwitchInv
    OBVIOUS
  <1>0. 0 \in 0..MaxGens /\ 0 \in 0..MaxLives
    BY DesktopBounds
  <1>1. ServerOk
    BY <1>0 DEF DesktopInit, ServerOk
  <1>2. RestOk
    BY DEF DesktopInit, RestOk
  <1>3. StoreOk
    <2>1. NoView \in Views
      BY <1>0 DEF NoView, Views
    <2>2. QED
      BY <1>0, <2>1 DEF DesktopInit, StoreOk, NoView
  <1>4. CallsOk
    <2>1. NoCall \in Invocations
      BY DEF NoCall, Invocations
    <2>2. QED
      BY <2>1 DEF DesktopInit, CallsOk, OwnPick, NoCall
  <1>5. QED
    BY <1>1, <1>2, <1>3, <1>4, Parts

(* A switch of model is written only to the row of the session it was picked    *)
(* for, however calls, turns and the user's clicks interleave                *)
(* (pendingModelChange, set_model).                                           *)
THEOREM SwitchesStay == DesktopSpec => []SwitchStays
  <1>1. SwitchInv /\ [DesktopNext]_desktopVars => SwitchInv'
    <2> SUFFICES ASSUME SwitchInv, [DesktopNext]_desktopVars PROVE SwitchInv'
      OBVIOUS
    <2>1. CASE UNCHANGED desktopVars
      BY <2>1 DEF desktopVars, serverVars, storeVars, SwitchInv, DesktopTypeOK, Places, Keyed, OwnPick, NoForeignWrite
    <2>2. CASE DesktopNext
      BY <2>2, ServerStep, SelectStep, DisplayStep, ReadStep, WriteStep, EvictStep, ResolveStep,
         PickStep, ViewStep DEF DesktopNext
    <2>3. QED
      BY <2>1, <2>2
  <1>2. SwitchInv => SwitchStays
    BY DEF SwitchInv, SwitchStays
  <1>3. QED
    BY Initially, <1>1, <1>2, PTL DEF DesktopSpec

(* The window shows the session the user selected last: an answer that attaches  *)
(* again asks first whether its session is still the one (setActiveModel).      *)
THEOREM DisplayFollows == DesktopSpec => []DisplayFollowsUser
  <1>1. DesktopInit => DisplayFollowsUser
    BY DEF DesktopInit, DisplayFollowsUser
  <1>2. DisplayFollowsUser /\ [DesktopNext]_desktopVars => DisplayFollowsUser'
    <2> SUFFICES ASSUME DisplayFollowsUser, [DesktopNext]_desktopVars PROVE DisplayFollowsUser'
      OBVIOUS
    <2>1. ASSUME NEW s \in Sessions, Select(s) PROVE DisplayFollowsUser'
      BY <2>1 DEF Select, Attach, DisplayFollowsUser
    <2>2. ASSUME NEW c \in Calls, Resolve(c) PROVE DisplayFollowsUser'
      BY <2>2 DEF Resolve, Attach, DisplayFollowsUser
    <2>3. CASE UNCHANGED <<active, chosen>>
      BY <2>3 DEF DisplayFollowsUser
    <2>4. QED
      BY <2>1, <2>2, <2>3 DEF DesktopNext, desktopVars, storeVars, BeginBuild, FinishBuild, TurnSettles,
         TurnStarts, DeltaArrives, StreamingEnds, SetModelReads, SetModelWrites, EvictSession, Pick,
         LoadMessages, Receive, Arm
  <1>3. QED
    BY <1>1, <1>2, PTL DEF DesktopSpec
================================================================================
