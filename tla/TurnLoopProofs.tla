---------------------------- MODULE TurnLoopProofs ----------------------------
(***************************************************************************)
(* Proofs about TurnLoop, for any bounds of rows, sequences, turns and calls,  *)
(* and about ContextEpoch, for any tree of files, map budget and runners.      *)
(*                                                                         *)
(* What the requests are made of is said of the transcript first, as a set of  *)
(* messages that are told apart and ordered by their sequences: which parts of *)
(* it hold whatever interrupts a turn (Transcript), which only in some phases  *)
(* (Phased), and what of it a request keeps (Sent).                           *)
(***************************************************************************)
EXTENDS TurnLoop, ContextEpoch, FiniteSetTheorems, SequenceTheorems, WellFoundedInduction, TLAPS

Ordered(s) == \A j, k \in DOMAIN s : j < k => s[j].seq < s[k].seq

(* A call bears the sequence of the message that makes it, and results are some.  *)
Numbered(M) ==
    \A x \in M :
        /\ x.kind = "results" => x.calls # {}
        /\ \A c \in x.calls :
             \/ x.kind = "assistant" /\ c[1] = x.seq
             \/ x.kind = "results" /\ 1 <= c[1] /\ c[1] < x.seq

OnceIn(M) ==
    \A x, y \in M : x.kind = "results" /\ y.kind = "results" /\ x.calls \cap y.calls # {} => x = y

(* What follows is said of all calls but those in W, which recovery has overlooked. *)
Backed(M, n, W) ==
    \A x \in M : x.kind = "results" => \A c \in x.calls \ W :
        c[1] <= n \/ \E y \in M : y.kind = "assistant" /\ c \in y.calls

Together(M, W) ==
    \A x, y \in M : x.kind = "results" => \A c \in x.calls \ W :
        c[1] < y.seq /\ y.seq < x.seq => y.kind \in {"results", "note"}

AnsweredIn(M, c) == \E x \in M : x.kind = "results" /\ c \in x.calls
AllAnswered(M, W) == \A x \in M : x.kind = "assistant" => \A c \in x.calls \ W : AnsweredIn(M, c)

(* A call that is not answered yet is of the last message but for notes and results. *)
OpenLast(M, W) ==
    \A x \in M : x.kind = "assistant" => \A c \in x.calls \ W :
        AnsweredIn(M, c) \/ \A y \in M : x.seq < y.seq => y.kind \in {"results", "note"}

(* No boundary cuts between a call and its result, and a prompt comes behind it.   *)
Uncut(M, W) ==
    \A x \in M : x.kind = "marker" =>
        /\ x.through < x.seq
        /\ \A y \in M : y.kind = "results" => \A c \in y.calls \ W : c[1] > x.through \/ x.through >= y.seq
        /\ (\E y \in M : y.kind = "prompt") => \E y \in M : y.kind = "prompt" /\ x.through < y.seq

(* As long as nothing was pruned, everything but notes comes behind a prompt.       *)
Unfolded(M) ==
    \A x \in M :
        /\ x.kind # "note" => \E y \in M : y.kind = "prompt" /\ y.seq <= x.seq
        /\ x.kind = "marker" => \E y \in M :
             /\ y.kind = "prompt" /\ x.through < y.seq
             /\ \A z \in M : x.through < z.seq /\ z.seq < y.seq => z.kind = "marker"

Rows == ToSet(rows)

(* What holds of the messages M up to sequence q, if none behind n was pruned and    *)
(* the calls in W were overlooked.                                             *)
Story(M, q, n, W) ==
    /\ M \subseteq Row /\ \A x, y \in M : x.seq = y.seq => x = y
    /\ n <= q /\ \A x \in M : 1 <= x.seq /\ n < x.seq /\ x.seq <= q
    /\ Numbered(M) /\ OnceIn(M) /\ Backed(M, n, {}) /\ Together(M, W)
    /\ OpenLast(M, W) /\ Uncut(M, W)
    /\ n = 0 => Unfolded(M)

Transcript == Ordered(rows) /\ Story(Rows, seq, pruned, missed)

HasPrompt(M) == \E x \in M : x.kind = "prompt"

(* The calls of the message with sequence a are being dealt with.                 *)
Running(a) ==
    /\ a \in 1..seq
    /\ \A c \in todo \cup results : c[1] = a
    /\ \A x \in Rows : a < x.seq => x.kind = "note"
    /\ \A x \in Rows : x.seq = a =>
         /\ x.kind = "assistant"
         /\ todo \cup results \subseteq x.calls
         /\ cancelled \/ x.calls \subseteq todo \cup results
    /\ a <= pruned \/ \E x \in Rows : x.seq = a
    /\ \A x \in Rows : x.kind = "assistant" /\ x.seq # a => \A c \in x.calls \ missed : AnsweredIn(Rows, c)

Phased ==
    /\ pc \in {"promote", "reconcile", "fold", "assemble", "stream"} => AllAnswered(Rows, missed)
    /\ pc = "boundary" => cancelled \/ AllAnswered(Rows, missed)
    /\ pc \in {"tools", "store"} => \E a \in 1..seq : Running(a)
    /\ pc = "store" => todo = {}
    /\ pc \notin {"idle", "recover", "promote"} /\ pruned = 0 => HasPrompt(Rows)

(* What holds of the messages P of a request, if none behind n was pruned, and of   *)
(* those of a request made of the messages M.                                   *)
Matched(P, n, W) == Numbered(P) /\ OnceIn(P) /\ Backed(P, n, W) /\ Together(P, W) /\ AllAnswered(P, W)
Telling(P, M, n) ==
    /\ \A x \in M : x.kind = "prompt" /\ (\A y \in M : y.kind = "prompt" => y.seq <= x.seq) => x \in P
    /\ n = 0 =>
         /\ HasPrompt(P)
         /\ \A x \in P : x.kind \in {"system", "note"} \/ \E y \in P : y.kind = "prompt" /\ y.seq <= x.seq

Parts == ToSet(request)
Sent ==
    /\ pc # "stream" => request = <<>>
    /\ Ordered(request) /\ Matched(Parts, pruned, missed)
    /\ pc = "stream" => Telling(Parts, Rows, pruned)

(* Only an id that two messages have made up is overlooked.                       *)
Repeated == \A c \in missed : c[1] \in Minted /\ \E b \in 1..(c[1] - 1) : b \in Minted

TurnInv == TypeOK /\ Transcript /\ Phased /\ Sent /\ Repeated
-----------------------------------------------------------------------------
(* Maxima, and the places of a sequence that are kept.                         *)

(* A set of numbers has a least one.                                          *)
LEMMA Least ==
  ASSUME NEW T, T \subseteq Nat, T # {}
  PROVE  \E x \in T : \A y \in T : x <= y
  <1>1. PICK x \in T : \A y \in T : ~ (<<y, x>> \in OpToRel(<,Nat))
    BY WFMin, NatLessThanWellFounded, Zenon
  <1>2. \A y \in T : ~ (y < x)
    BY <1>1 DEF OpToRel
  <1>3. QED
    BY <1>2

(* A set with a bound has a greatest one.                                      *)
LEMMA Maximum ==
  ASSUME NEW T, T # {}, NEW b \in Nat, T \subseteq 0..b
  PROVE  Max(T) \in T /\ \A y \in T : y <= Max(T)
  <1> DEFINE U == {b - y : y \in T}
  <1>1. U \subseteq Nat /\ U # {}
    <2>1. \A y \in T : b - y \in Nat
      OBVIOUS
    <2>2. QED
      BY <2>1
  <1>2. PICK u \in U : \A y \in U : u <= y
    BY <1>1, Least
  <1>3. PICK x \in T : u = b - x
    OBVIOUS
  <1>4. \A y \in T : x >= y
    <2> TAKE y \in T
    <2>1. u <= b - y
      BY <1>2
    <2>2. QED
      BY <1>3, <2>1
  <1>5. \E z \in T : \A y \in T : z >= y
    BY <1>4
  <1>6. Max(T) \in T /\ \A y \in T : Max(T) >= y
    BY <1>5 DEF Max
  <1>7. QED
    BY <1>6

(* Nth(S, j) runs through S in order.                                           *)
LEMMA NthInOrder ==
  ASSUME NEW b \in Nat, NEW S, S \subseteq 1..b
  PROVE  /\ Cardinality(S) \in Nat
         /\ \A j \in 1..Cardinality(S) : Nth(S, j) \in S
         /\ \A i, j \in 1..Cardinality(S) : i < j => Nth(S, i) < Nth(S, j)
         /\ \A k \in S : \E j \in 1..Cardinality(S) : Nth(S, j) = k
  <1> DEFINE Upto(k) == {m \in S : m <= k}
             c == Cardinality(S)
  <1>0. \A k, m \in S : k \in Int /\ (k = m \/ k < m \/ m < k)
    OBVIOUS
  <1>1. IsFiniteSet(S) /\ c \in Nat
    <2>1. IsFiniteSet(1..b) /\ S \in SUBSET (1..b)
      BY FS_Interval
    <2>2. QED
      BY <2>1, FS_Subset, FS_CardinalityType
  <1>2. ASSUME NEW k \in S
        PROVE  IsFiniteSet(Upto(k)) /\ Cardinality(Upto(k)) \in 1..c
    <2>1. Upto(k) \in SUBSET S /\ k \in Upto(k)
      OBVIOUS
    <2>2. IsFiniteSet(Upto(k)) /\ Cardinality(Upto(k)) <= c
      BY <1>1, <2>1, FS_Subset
    <2>3. Cardinality(Upto(k)) \in Nat /\ Cardinality(Upto(k)) # 0
      BY <2>1, <2>2, FS_CardinalityType, FS_EmptySet
    <2>4. QED
      BY <1>1, <2>2, <2>3
  <1>3. ASSUME NEW k \in S, NEW m \in S, k < m
        PROVE  Cardinality(Upto(k)) < Cardinality(Upto(m))
    <2>1. Upto(k) \in SUBSET Upto(m) /\ m \in Upto(m) /\ m \notin Upto(k)
      <3>1. \A q \in S : q <= k => q <= m
        BY <1>3
      <3>2. m <= m /\ ~(m <= k)
        BY <1>3
      <3>3. QED
        BY <3>1, <3>2
    <2>2. Cardinality(Upto(k)) <= Cardinality(Upto(m)) /\ Cardinality(Upto(m)) # Cardinality(Upto(k))
      BY <1>2, <2>1, FS_Subset
    <2>3. QED
      BY <1>2, <2>2
  <1> DEFINE rank == [k \in S |-> Cardinality(Upto(k))]
  <1>4. rank \in Injection(S, 1..c)
    <2>1. rank \in [S -> 1..c]
      BY <1>2
    <2>2. ASSUME NEW k \in S, NEW m \in S, rank[k] = rank[m] PROVE k = m
      <3>1. ~(k < m) /\ ~(m < k)
        BY <1>2, <1>3, <2>2
      <3>2. QED
        BY <3>1
    <2>3. QED
      BY <2>1, <2>2 DEF Injection, IsInjective
  <1>5. rank \in Surjection(S, 1..c)
    <2>1. IsFiniteSet(1..c) /\ Cardinality(1..c) = c
      BY <1>1, FS_Interval
    <2>2. QED
      BY <1>4, <2>1, FS_Injection
  <1>6. ASSUME NEW j \in 1..c
        PROVE  Nth(S, j) \in S /\ Cardinality(Upto(Nth(S, j))) = j
    <2>1. \E k \in S : Cardinality(Upto(k)) = j
      BY <1>5 DEF Surjection
    <2>2. QED
      BY <2>1 DEF Nth
  <1>7. ASSUME NEW i \in 1..c, NEW j \in 1..c, i < j
        PROVE  Nth(S, i) < Nth(S, j)
    <2>1. ~(Nth(S, j) < Nth(S, i)) /\ Nth(S, i) # Nth(S, j)
      <3>1. \A k, m \in S : k < m => Cardinality(Upto(k)) < Cardinality(Upto(m))
        BY <1>3
      <3>2. /\ Nth(S, i) \in S /\ Cardinality(Upto(Nth(S, i))) = i
            /\ Nth(S, j) \in S /\ Cardinality(Upto(Nth(S, j))) = j
        BY <1>6
      <3>3. Nth(S, j) < Nth(S, i) => Cardinality(Upto(Nth(S, j))) < Cardinality(Upto(Nth(S, i)))
        BY <3>1, <3>2, Zenon
      <3>4. i \in Int /\ j \in Int /\ i < j
        BY <1>7
      <3> HIDE DEF Upto
      <3>5. ~(j < i) /\ i # j
        BY <3>4
      <3>6. ~(Nth(S, j) < Nth(S, i))
        BY <3>2, <3>3, <3>5, Zenon
      <3>7. Nth(S, i) # Nth(S, j)
        BY <3>2, <3>5, Zenon
      <3>8. QED
        BY <3>6, <3>7
    <2>2. Nth(S, i) \in S /\ Nth(S, j) \in S
      BY <1>6
    <2>3. QED
      BY <1>0, <2>1, <2>2
  <1>8. ASSUME NEW k \in S PROVE \E j \in 1..c : Nth(S, j) = k
    <2> DEFINE j == Cardinality(Upto(k))
    <2>1. j \in 1..c
      BY <1>2
    <2>2. Nth(S, j) \in S /\ Cardinality(Upto(Nth(S, j))) = j
      BY <1>6, <2>1
    <2>3. \A m \in S : k < m \/ m < k => Cardinality(Upto(k)) # Cardinality(Upto(m))
      BY <1>2, <1>3
    <2>4. QED
      BY <1>0, <2>1, <2>2, <2>3
  <1>9. QED
    BY <1>1, <1>6, <1>7, <1>8

(* The places of S, in order.                                                  *)
LEMMA Kept ==
  ASSUME NEW s \in Seq(Row), Ordered(s), NEW S, S \subseteq DOMAIN s
  PROVE  /\ Keeping(s, S) \in Seq(Row) /\ Ordered(Keeping(s, S))
         /\ Len(Keeping(s, S)) = Cardinality(S) /\ Cardinality(S) \in Nat /\ Cardinality(S) <= Len(s)
         /\ ToSet(Keeping(s, S)) = {s[k] : k \in S}
  <1> DEFINE n == Cardinality(S)
             t == Keeping(s, S)
  <1>1. Len(s) \in Nat /\ S \subseteq 1..Len(s) /\ \A k \in S : s[k] \in Row /\ k \in DOMAIN s
    BY LenProperties, ElementOfSeq
  <1>2. /\ n \in Nat
        /\ \A j \in 1..n : Nth(S, j) \in S
        /\ \A i, j \in 1..n : i < j => Nth(S, i) < Nth(S, j)
        /\ \A k \in S : \E j \in 1..n : Nth(S, j) = k
    BY <1>1, NthInOrder
  <1>3. n <= Len(s)
    <2>1. IsFiniteSet(1..Len(s)) /\ Cardinality(1..Len(s)) = Len(s) /\ S \in SUBSET (1..Len(s))
      BY <1>1, FS_Interval
    <2>2. QED
      BY <2>1, FS_Subset
  <1> HIDE DEF n
  <1>4. t = [j \in 1..n |-> s[Nth(S, j)]]
    BY DEF Keeping, n
  <1> HIDE DEF t
  <1>5. \A j \in 1..n : t[j] = s[Nth(S, j)] /\ t[j] \in Row
    BY <1>1, <1>2, <1>4
  <1>6. t \in [1..n -> Row]
    BY <1>4, <1>5
  <1>7. t \in Seq(Row) /\ Len(t) = n /\ DOMAIN t = 1..n
    BY <1>2, <1>6
  <1>8. Ordered(t)
    <2> SUFFICES ASSUME NEW i \in 1..n, NEW j \in 1..n, i < j PROVE t[i].seq < t[j].seq
      BY <1>7 DEF Ordered
    <2>1. Nth(S, i) < Nth(S, j) /\ Nth(S, i) \in DOMAIN s /\ Nth(S, j) \in DOMAIN s
      BY <1>1, <1>2
    <2>2. QED
      BY <1>5, <2>1 DEF Ordered
  <1>9. ToSet(t) = {s[k] : k \in S}
    <2>1. ToSet(t) = {t[j] : j \in 1..n}
      BY <1>7 DEF ToSet
    <2>2. QED
      BY <1>2, <1>5, <2>1
  <1>10. QED
    BY <1>2, <1>3, <1>7, <1>8, <1>9 DEF n, t

(* A message behind all others.                                                *)
LEMMA Appended ==
  ASSUME NEW s \in Seq(Row), Ordered(s), NEW x \in Row, \A y \in ToSet(s) : y.seq < x.seq
  PROVE  /\ Append(s, x) \in Seq(Row) /\ Ordered(Append(s, x)) /\ Len(Append(s, x)) = Len(s) + 1
         /\ ToSet(Append(s, x)) = ToSet(s) \cup {x}
  <1> DEFINE t == Append(s, x)
  <1>1. /\ t \in Seq(Row) /\ Len(t) = Len(s) + 1 /\ Len(s) \in Nat /\ DOMAIN s = 1..Len(s)
        /\ DOMAIN t = 1..(Len(s) + 1) /\ t[Len(s) + 1] = x /\ \A k \in 1..Len(s) : t[k] = s[k]
    OBVIOUS
  <1> HIDE DEF t
  <1>2. \A k \in DOMAIN t : k \in DOMAIN s \/ k = Len(s) + 1
    BY <1>1
  <1>3. Ordered(t)
    <2> SUFFICES ASSUME NEW j \in DOMAIN t, NEW k \in DOMAIN t, j < k PROVE t[j].seq < t[k].seq
      BY DEF Ordered
    <2>1. j \in DOMAIN s /\ t[j] = s[j]
      BY <1>1
    <2>2. CASE k \in DOMAIN s
      BY <1>1, <2>1, <2>2 DEF Ordered
    <2>3. CASE k = Len(s) + 1
      BY <1>1, <2>1, <2>3 DEF ToSet
    <2>4. QED
      BY <1>2, <2>2, <2>3
  <1>4. ToSet(t) = ToSet(s) \cup {x}
    BY <1>1, <1>2 DEF ToSet
  <1>5. QED
    BY <1>1, <1>3, <1>4 DEF t

(* Messages of one sequence are one message.                                   *)
LEMMA OneEach ==
  ASSUME NEW s \in Seq(Row), Ordered(s)
  PROVE  /\ ToSet(s) \subseteq Row
         /\ \A x, y \in ToSet(s) : x.seq = y.seq => x = y
         /\ \A j, k \in DOMAIN s : s[j].seq < s[k].seq => j < k
  <1>1. DOMAIN s = 1..Len(s) /\ Len(s) \in Nat /\ \A k \in DOMAIN s : s[k] \in Row
    OBVIOUS
  <1>2. \A k \in DOMAIN s : s[k].seq \in Int
    BY <1>1, BoundsAssumption DEF Row
  <1>3. \A j, k \in DOMAIN s : j < k \/ j = k \/ k < j
    BY <1>1
  <1>4. \A j, k \in DOMAIN s : s[j].seq = s[k].seq => j = k
    BY <1>2, <1>3 DEF Ordered
  <1>5. \A j, k \in DOMAIN s : s[j].seq < s[k].seq => j < k
    BY <1>2, <1>3 DEF Ordered
  <1>6. QED
    BY <1>1, <1>4, <1>5 DEF ToSet

(* What a request is assembled of.                                             *)
FoldedIn(M, x) == \E m \in M : m.kind = "marker" /\ (\A y \in M : y.kind = "marker" => y.seq <= m.seq) /\ x.seq <= m.through
LiveIn(M) == {x \in M : x.kind # "marker" /\ ~FoldedIn(M, x)}

(* What assemble_chat_messages takes of the rows.                              *)
LEMMA LiveOf ==
  ASSUME NEW s \in Seq(Row), Ordered(s)
  PROVE  /\ Live(s) \in Seq(Row) /\ Ordered(Live(s)) /\ ToSet(Live(s)) = LiveIn(ToSet(s))
         /\ (Markers(s) = {}) <=> \A x \in ToSet(s) : x.kind # "marker"
  <1>1. /\ DOMAIN s = 1..Len(s) /\ Len(s) \in Nat /\ \A k \in DOMAIN s : k \in Int /\ s[k] \in Row /\ s[k].seq \in Int
        /\ ToSet(s) = {s[k] : k \in DOMAIN s}
    <2>1. DOMAIN s = 1..Len(s) /\ Len(s) \in Nat /\ \A k \in DOMAIN s : s[k] \in Row
      OBVIOUS
    <2>2. \A k \in DOMAIN s : k \in Int /\ s[k].seq \in Int
      BY <2>1, BoundsAssumption DEF Row
    <2>3. QED
      BY <2>1, <2>2 DEF ToSet
  <1>2. \A j, k \in DOMAIN s : j <= k <=> s[j].seq <= s[k].seq
    <2>1. \A j, k \in DOMAIN s : j < k => s[j].seq < s[k].seq
      BY DEF Ordered
    <2>2. \A j, k \in DOMAIN s : j < k \/ j = k \/ k < j
      BY <1>1
    <2>3. QED
      BY <1>1, <2>1, <2>2
  <1>3. \A k \in DOMAIN s : Folded(s, k) <=> FoldedIn(ToSet(s), s[k])
    <2>1. \A j \in DOMAIN s : j \in Newest(Markers(s)) <=>
             s[j].kind = "marker" /\ \A y \in ToSet(s) : y.kind = "marker" => y.seq <= s[j].seq
      BY <1>1, <1>2 DEF Newest, Markers
    <2>2. Newest(Markers(s)) \subseteq DOMAIN s
      BY DEF Newest, Markers
    <2>3. QED
      BY <1>1, <2>1, <2>2 DEF Folded, FoldedIn
  <1> DEFINE S == {k \in DOMAIN s : s[k].kind # "marker" /\ ~Folded(s, k)}
  <1>4. {s[k] : k \in S} = LiveIn(ToSet(s))
    BY <1>1, <1>3 DEF LiveIn
  <1>5. Live(s) = Keeping(s, S) /\ S \subseteq DOMAIN s
    BY DEF Live
  <1> HIDE DEF S
  <1>6. QED
    BY <1>1, <1>4, <1>5, Kept DEF Markers

(* With the summary in front, which has a sequence before all others.           *)
LEMMA AssembledOf ==
  ASSUME NEW s \in Seq(Row), Ordered(s), \A x \in ToSet(s) : 1 <= x.seq
  PROVE  /\ Assembled(s) \in Seq(Row) /\ Ordered(Assembled(s))
         /\ LiveIn(ToSet(s)) \subseteq ToSet(Assembled(s))
         /\ ToSet(Assembled(s)) \subseteq LiveIn(ToSet(s)) \cup {Summary}
  <1> DEFINE l == Live(s)
             t == <<Summary>> \o l
  <1>1. l \in Seq(Row) /\ Ordered(l) /\ ToSet(l) = LiveIn(ToSet(s))
    BY LiveOf
  <1>2. CASE Markers(s) = {}
    BY <1>1, <1>2 DEF Assembled
  <1>3. CASE Markers(s) # {}
    <2>1. Summary \in Row /\ Summary.seq = 0
      BY BoundsAssumption DEF Summary, Row
    <2> HIDE DEF l
    <2>2. /\ t \in Seq(Row) /\ Len(t) = Len(l) + 1 /\ Len(l) \in Nat /\ t[1] = Summary
          /\ \A k \in 1..Len(l) : t[k + 1] = l[k] /\ k + 1 \in 1..(Len(l) + 1)
          /\ DOMAIN t = 1..(Len(l) + 1) /\ DOMAIN l = 1..Len(l)
      BY <1>1, <2>1
    <2> HIDE DEF t
    <2>3. \A k \in DOMAIN t : k = 1 \/ (k - 1 \in DOMAIN l /\ t[k] = l[k - 1])
      BY <2>2
    <2>4. ToSet(t) = ToSet(l) \cup {Summary}
      <3>1. \A k \in DOMAIN t : t[k] = Summary \/ \E j \in DOMAIN l : t[k] = l[j]
        BY <2>2, <2>3
      <3>2. 1 \in DOMAIN t
        BY <2>2
      <3>3. \A j \in DOMAIN l : j + 1 \in DOMAIN t /\ t[j + 1] = l[j]
        BY <2>2
      <3>4. QED
        BY <2>2, <3>1, <3>2, <3>3 DEF ToSet
    <2>5. \A j \in DOMAIN l : 1 <= l[j].seq
      BY <1>1 DEF LiveIn, ToSet
    <2>6. Ordered(t)
      <3> SUFFICES ASSUME NEW j \in DOMAIN t, NEW k \in DOMAIN t, j < k PROVE t[j].seq < t[k].seq
        BY DEF Ordered
      <3>1. k - 1 \in DOMAIN l /\ t[k] = l[k - 1]
        BY <2>2, <2>3
      <3>2. CASE j = 1
        <4>1. t[j].seq = 0 /\ 1 <= t[k].seq /\ t[k] \in Row
          BY <2>1, <2>2, <2>5, <3>1, <3>2
        <4>2. t[k].seq \in Int
          BY <4>1, BoundsAssumption DEF Row
        <4>3. QED
          BY <4>1, <4>2
      <3>3. CASE j # 1
        <4>1. j - 1 \in DOMAIN l /\ t[j] = l[j - 1] /\ j - 1 < k - 1
          BY <2>2, <2>3, <3>3
        <4>2. QED
          BY <1>1, <3>1, <4>1 DEF Ordered
      <3>4. QED
        BY <3>2, <3>3
    <2>7. Assembled(s) = t
      BY <1>3 DEF Assembled, t, l
    <2>8. QED
      BY <1>1, <2>2, <2>4, <2>6, <2>7
  <1>4. QED
    BY <1>2, <1>3

(* Two live messages that follow each other.                                    *)
LEMMA LiveNeighbours ==
  ASSUME NEW s \in Seq(Row), Ordered(s), NEW k \in 2..Len(Live(s))
  PROVE  /\ Live(s)[k - 1] \in LiveIn(ToSet(s)) /\ Live(s)[k] \in LiveIn(ToSet(s))
         /\ Live(s)[k - 1].seq < Live(s)[k].seq
         /\ \A x \in LiveIn(ToSet(s)) : Live(s)[k - 1].seq < x.seq => Live(s)[k].seq <= x.seq
  <1> DEFINE l == Live(s)
  <1>1. l \in Seq(Row) /\ Ordered(l) /\ ToSet(l) = LiveIn(ToSet(s))
    BY LiveOf
  <1> HIDE DEF l
  <1>2. Len(l) \in Nat /\ DOMAIN l = 1..Len(l) /\ k \in 2..Len(l)
    BY <1>1 DEF l
  <1>3. k - 1 \in DOMAIN l /\ k \in DOMAIN l /\ k - 1 < k
    BY <1>2
  <1>4. \A j \in DOMAIN l : l[j].seq \in Int
    <2>1. \A j \in DOMAIN l : l[j] \in Row
      BY <1>1
    <2>2. QED
      BY <2>1, BoundsAssumption DEF Row
  <1>5. ASSUME NEW j \in DOMAIN l, l[k - 1].seq < l[j].seq PROVE l[k].seq <= l[j].seq
    <2>1. k - 1 < j
      BY <1>1, <1>3, <1>5, OneEach
    <2>2. j = k \/ k < j
      BY <1>2, <2>1
    <2>3. QED
      BY <1>1, <1>3, <1>4, <2>2 DEF Ordered
  <1>6. l[k - 1] \in ToSet(l) /\ l[k] \in ToSet(l) /\ l[k - 1].seq < l[k].seq
    BY <1>1, <1>3 DEF Ordered, ToSet
  <1>7. \A x \in ToSet(l) : l[k - 1].seq < x.seq => l[k].seq <= x.seq
    BY <1>5 DEF ToSet
  <1>8. QED
    BY <1>1, <1>6, <1>7 DEF l
-----------------------------------------------------------------------------
(* What becomes of a transcript when a message is written or some are pruned.   *)

(* The fields of a message.                                                    *)
LEMMA RowTypes ==
  /\ MaxSeq \in Nat /\ MaxRows \in Nat /\ MaxTurns \in Nat /\ MaxCalls \in Nat /\ KeepSeqs \in Nat
  /\ \A x \in Row : /\ x.seq \in Nat /\ x.through \in Nat /\ x.calls \subseteq CallIds
                    /\ \A c \in x.calls : c[1] \in Nat
  <1>1. MaxSeq \in Nat /\ MaxRows \in Nat /\ MaxTurns \in Nat /\ MaxCalls \in Nat /\ KeepSeqs \in Nat
    BY BoundsAssumption
  <1>2. \A x \in Row : x.seq \in Nat /\ x.through \in Nat /\ x.calls \subseteq CallIds
    BY <1>1 DEF Row
  <1>3. \A c \in CallIds : c[1] \in Nat
    BY <1>1 DEF CallIds
  <1>4. QED
    BY <1>1, <1>2, <1>3

(* A message that answers nothing and folds nothing.                            *)
LEMMA Said ==
  ASSUME NEW M, NEW q \in Nat, NEW n \in Nat, NEW W, Story(M, q, n, W),
         NEW x \in Row, x.seq = q + 1, x.kind \notin {"results", "marker"},
         \A c \in x.calls : x.kind = "assistant" /\ c[1] = q + 1,
         x.kind = "note" \/ AllAnswered(M, W),
         n = 0 /\ x.kind \notin {"note", "prompt"} => HasPrompt(M)
  PROVE  /\ Story(M \cup {x}, q + 1, n, W)
         /\ AllAnswered(M, W) /\ x.calls = {} => AllAnswered(M \cup {x}, W)
         /\ \A c : AnsweredIn(M \cup {x}, c) <=> AnsweredIn(M, c)
  <1> DEFINE N == M \cup {x}
  <1>1. /\ n <= q + 1 /\ \A y \in M : y \in Row /\ y.seq \in Nat /\ y.through \in Nat /\ 1 <= y.seq /\ n < y.seq /\ y.seq <= q /\ y.seq < x.seq
        /\ \A y \in M : \A c \in y.calls : c[1] \in Nat
        /\ x.seq \in Nat /\ x.kind # "results" /\ x.kind # "marker"
    BY RowTypes DEF Story
  <1>2. N \subseteq Row /\ (\A y, z \in N : y.seq = z.seq => y = z) /\ \A y \in N : 1 <= y.seq /\ n < y.seq /\ y.seq <= q + 1
    BY <1>1 DEF Story
  <1>3. Numbered(N)
    BY <1>1 DEF Story, Numbered
  <1>4. OnceIn(N)
    BY <1>1 DEF Story, OnceIn
  <1>5. Backed(N, n, {})
    BY <1>1 DEF Story, Backed
  <1>6. Together(N, W)
    <2> SUFFICES ASSUME NEW y \in N, y.kind = "results", NEW c \in y.calls \ W, NEW z \in N, c[1] < z.seq, z.seq < y.seq
                 PROVE  z.kind \in {"results", "note"}
      BY DEF Together
    <2>1. y \in M /\ z \in M
      BY <1>1
    <2>2. QED
      BY <2>1 DEF Story, Together
  <1>7. \A c : AnsweredIn(N, c) <=> AnsweredIn(M, c)
    BY <1>1 DEF AnsweredIn
  <1>8. OpenLast(N, W)
    <2> SUFFICES ASSUME NEW y \in N, y.kind = "assistant", NEW c \in y.calls \ W, ~AnsweredIn(M, c), NEW z \in N, y.seq < z.seq
                 PROVE  z.kind \in {"results", "note"}
      BY <1>7 DEF OpenLast
    <2>1. y \in M
      BY <1>1
    <2>2. CASE z \in M
      BY <2>1, <2>2 DEF Story, OpenLast
    <2>3. CASE z = x
      BY <2>1, <2>3 DEF AllAnswered
    <2>4. QED
      BY <2>2, <2>3
  <1>9. Uncut(N, W)
    <2> SUFFICES ASSUME NEW m \in N, m.kind = "marker"
                 PROVE  /\ m.through < m.seq
                        /\ \A y \in N : y.kind = "results" => \A c \in y.calls \ W : c[1] > m.through \/ m.through >= y.seq
                        /\ (\E y \in N : y.kind = "prompt") => \E y \in N : y.kind = "prompt" /\ m.through < y.seq
      BY DEF Uncut
    <2>1. /\ m \in M
          /\ m.through < m.seq
          /\ \A y \in M : y.kind = "results" => \A c \in y.calls \ W : c[1] > m.through \/ m.through >= y.seq
          /\ (\E y \in M : y.kind = "prompt") => \E y \in M : y.kind = "prompt" /\ m.through < y.seq
      BY <1>1 DEF Story, Uncut
    <2>2. m.through < x.seq
      <3>1. m.through \in Nat /\ m.seq \in Nat /\ m.seq < x.seq
        BY <1>1, <2>1
      <3>2. QED
        BY <1>1, <2>1, <3>1
    <2>3. QED
      BY <1>1, <2>1, <2>2
  <1>10. ASSUME n = 0 PROVE Unfolded(N)
    <2> SUFFICES ASSUME NEW y \in N
                 PROVE  /\ y.kind # "note" => \E z \in N : z.kind = "prompt" /\ z.seq <= y.seq
                        /\ y.kind = "marker" => \E z \in N :
                             /\ z.kind = "prompt" /\ y.through < z.seq
                             /\ \A w \in N : y.through < w.seq /\ w.seq < z.seq => w.kind = "marker"
      BY DEF Unfolded
    <2>1. CASE y \in M
      <3>1. y.kind # "note" => \E z \in N : z.kind = "prompt" /\ z.seq <= y.seq
        BY <1>10, <2>1 DEF Story, Unfolded
      <3>2. ASSUME y.kind = "marker"
            PROVE  \E z \in N : /\ z.kind = "prompt" /\ y.through < z.seq
                                /\ \A w \in N : y.through < w.seq /\ w.seq < z.seq => w.kind = "marker"
        <4>1. PICK z \in M : /\ z.kind = "prompt" /\ y.through < z.seq
                             /\ \A w \in M : y.through < w.seq /\ w.seq < z.seq => w.kind = "marker"
          BY <1>10, <2>1, <3>2 DEF Story, Unfolded
        <4>2. ~(x.seq < z.seq)
          BY <1>1
        <4>3. QED
          BY <4>1, <4>2
      <3>3. QED
        BY <3>1, <3>2
    <2>2. CASE y = x
      <3>1. x.kind # "note" => \E z \in N : z.kind = "prompt" /\ z.seq <= x.seq
        <4>1. CASE x.kind = "prompt"
          BY <1>1, <4>1
        <4>2. CASE x.kind \notin {"note", "prompt"}
          <5>1. PICK z \in M : z.kind = "prompt"
            BY <1>10, <4>2 DEF HasPrompt
          <5>2. z.seq <= x.seq
            BY <1>1
          <5>3. QED
            BY <5>1, <5>2
        <4>3. QED
          BY <4>1, <4>2
      <3>2. QED
        BY <1>1, <2>2, <3>1
    <2>3. QED
      BY <2>1, <2>2
  <1>11. AllAnswered(M, W) /\ x.calls = {} => AllAnswered(N, W)
    BY <1>7 DEF AllAnswered
  <1>12. Story(N, q + 1, n, W)
    BY <1>2, <1>3, <1>4, <1>5, <1>6, <1>8, <1>9, <1>10 DEF Story
  <1>13. QED
    BY <1>7, <1>11, <1>12

(* A marker that folds what lies before a live prompt.                           *)
LEMMA FoldedBefore ==
  ASSUME NEW M, NEW q \in Nat, NEW n \in Nat, NEW W, Story(M, q, n, W), AllAnswered(M, W),
         NEW x \in Row, x.seq = q + 1, x.kind = "marker", x.calls = {},
         NEW a \in LiveIn(M), NEW b \in LiveIn(M), x.through = a.seq, b.kind = "prompt", a.seq < b.seq,
         \A y \in LiveIn(M) : a.seq < y.seq => b.seq <= y.seq
  PROVE  Story(M \cup {x}, q + 1, n, W) /\ AllAnswered(M \cup {x}, W) /\ HasPrompt(M \cup {x})
  <1> DEFINE N == M \cup {x}
  <1>1. /\ n <= q + 1 /\ \A y \in M : y \in Row /\ y.seq \in Nat /\ y.through \in Nat /\ 1 <= y.seq /\ n < y.seq /\ y.seq <= q /\ y.seq < x.seq
        /\ \A y \in M : \A c \in y.calls : c[1] \in Nat
        /\ x.seq \in Nat /\ x.kind # "results" /\ x.kind # "assistant"
        /\ a \in M /\ b \in M
    BY RowTypes DEF Story, LiveIn
  <1>2. N \subseteq Row /\ (\A y, z \in N : y.seq = z.seq => y = z) /\ \A y \in N : 1 <= y.seq /\ n < y.seq /\ y.seq <= q + 1
    BY <1>1 DEF Story
  <1>3. Numbered(N)
    BY <1>1 DEF Story, Numbered
  <1>4. OnceIn(N)
    BY <1>1 DEF Story, OnceIn
  <1>5. Backed(N, n, {})
    BY <1>1 DEF Story, Backed
  <1>6. Together(N, W)
    <2> SUFFICES ASSUME NEW y \in N, y.kind = "results", NEW c \in y.calls \ W, NEW z \in N, c[1] < z.seq, z.seq < y.seq
                 PROVE  z.kind \in {"results", "note"}
      BY DEF Together
    <2>1. y \in M /\ z \in M
      BY <1>1
    <2>2. QED
      BY <2>1 DEF Story, Together
  <1>7. \A c : AnsweredIn(N, c) <=> AnsweredIn(M, c)
    BY <1>1 DEF AnsweredIn
  <1>8. AllAnswered(N, W) /\ OpenLast(N, W)
    BY <1>1, <1>7 DEF AllAnswered, OpenLast
  (* Between the boundary and the prompt there are only markers.               *)
  <1>9. \A y \in M : a.seq < y.seq /\ y.seq < b.seq => y.kind = "marker"
    <2> SUFFICES ASSUME NEW y \in M, a.seq < y.seq, y.seq < b.seq, y.kind # "marker" PROVE FALSE
      OBVIOUS
    <2>1. y \notin LiveIn(M)
      BY <1>1
    <2>2. PICK m \in M : m.kind = "marker" /\ (\A z \in M : z.kind = "marker" => z.seq <= m.seq) /\ y.seq <= m.through
      BY <2>1 DEF LiveIn, FoldedIn
    <2>3. a.seq <= m.through
      BY <1>1, <2>2
    <2>4. QED
      BY <2>2, <2>3 DEF LiveIn, FoldedIn
  <1>10. Uncut(N, W)
    <2> SUFFICES ASSUME NEW m \in N, m.kind = "marker"
                 PROVE  /\ m.through < m.seq
                        /\ \A y \in N : y.kind = "results" => \A c \in y.calls \ W : c[1] > m.through \/ m.through >= y.seq
                        /\ (\E y \in N : y.kind = "prompt") => \E y \in N : y.kind = "prompt" /\ m.through < y.seq
      BY DEF Uncut
    <2>1. CASE m \in M
      <3>1. /\ m.through < m.seq
            /\ \A y \in M : y.kind = "results" => \A c \in y.calls \ W : c[1] > m.through \/ m.through >= y.seq
            /\ (\E y \in M : y.kind = "prompt") => \E y \in M : y.kind = "prompt" /\ m.through < y.seq
        BY <2>1 DEF Story, Uncut
      <3>2. QED
        BY <1>1, <3>1
    <2>2. CASE m = x
      <3>1. ASSUME NEW y \in N, y.kind = "results", NEW c \in y.calls \ W, c[1] <= a.seq, a.seq < y.seq PROVE FALSE
        <4>1. y \in M
          BY <1>1, <3>1
        <4>2. ~(b.seq < y.seq)
          <5>1. b.seq < y.seq /\ c[1] < b.seq => b.kind \in {"results", "note"}
            BY <1>1, <3>1, <4>1 DEF Story, Together
          <5>2. c[1] < b.seq
            BY <1>1, <3>1, <4>1
          <5>3. QED
            BY <5>1, <5>2
        <4>3. b.seq # y.seq
          BY <1>1, <3>1, <4>1 DEF Story
        <4>4. y.seq < b.seq
          BY <1>1, <4>1, <4>2, <4>3
        <4>5. QED
          BY <1>9, <3>1, <4>1, <4>4
      <3>2. \A y \in N : y.kind = "results" => \A c \in y.calls \ W : c[1] > a.seq \/ a.seq >= y.seq
        <4>1. \A y \in N : y.kind = "results" => y \in M
          BY <1>1
        <4>2. QED
          BY <1>1, <3>1, <4>1
      <3>3. QED
        BY <1>1, <2>2, <3>2
    <2>3. QED
      BY <2>1, <2>2
  <1>11. ASSUME n = 0 PROVE Unfolded(N)
    <2> SUFFICES ASSUME NEW y \in N
                 PROVE  /\ y.kind # "note" => \E z \in N : z.kind = "prompt" /\ z.seq <= y.seq
                        /\ y.kind = "marker" => \E z \in N :
                             /\ z.kind = "prompt" /\ y.through < z.seq
                             /\ \A w \in N : y.through < w.seq /\ w.seq < z.seq => w.kind = "marker"
      BY DEF Unfolded
    <2>1. CASE y \in M
      <3>1. y.kind # "note" => \E z \in N : z.kind = "prompt" /\ z.seq <= y.seq
        BY <1>11, <2>1 DEF Story, Unfolded
      <3>2. ASSUME y.kind = "marker"
            PROVE  \E z \in N : /\ z.kind = "prompt" /\ y.through < z.seq
                                /\ \A w \in N : y.through < w.seq /\ w.seq < z.seq => w.kind = "marker"
        <4>1. PICK z \in M : /\ z.kind = "prompt" /\ y.through < z.seq
                             /\ \A w \in M : y.through < w.seq /\ w.seq < z.seq => w.kind = "marker"
          BY <1>11, <2>1, <3>2 DEF Story, Unfolded
        <4>2. QED
          BY <4>1
      <3>3. QED
        BY <3>1, <3>2
    <2>2. CASE y = x
      <3>1. b.seq <= x.seq
        BY <1>1
      <3>2. \A w \in N : x.through < w.seq /\ w.seq < b.seq => w.kind = "marker"
        BY <1>9
      <3>3. QED
        BY <1>1, <2>2, <3>1, <3>2
    <2>3. QED
      BY <2>1, <2>2
  <1>12. Story(N, q + 1, n, W)
    BY <1>2, <1>3, <1>4, <1>5, <1>6, <1>8, <1>10, <1>11 DEF Story
  <1>13. QED
    BY <1>1, <1>8, <1>12 DEF HasPrompt

(* Results of calls of one message, behind which nothing of the turn stands.      *)
LEMMA Answered ==
  ASSUME NEW M, NEW q \in Nat, NEW n \in Nat, NEW W, Story(M, q, n, W),
         NEW x \in Row, x.seq = q + 1, x.kind = "results", x.calls # {}, NEW a \in 1..q,
         \A c \in x.calls : c[1] = a /\ ~AnsweredIn(M, c),
         x.calls \subseteq W \/ \A y \in M : a < y.seq => y.kind \in {"results", "note"},
         a <= n \/ \E y \in M : y.seq = a /\ y.kind = "assistant" /\ x.calls \subseteq y.calls
  PROVE  /\ Story(M \cup {x}, q + 1, n, W)
         /\ \A c : AnsweredIn(M \cup {x}, c) <=> AnsweredIn(M, c) \/ c \in x.calls
  <1> DEFINE N == M \cup {x}
  <1>1. /\ n <= q + 1 /\ \A y \in M : y \in Row /\ y.seq \in Nat /\ y.through \in Nat /\ 1 <= y.seq /\ n < y.seq /\ y.seq <= q /\ y.seq < x.seq
        /\ \A y \in M : \A c \in y.calls : c[1] \in Nat
        /\ x.seq \in Nat /\ x.kind # "marker" /\ x.kind # "assistant" /\ x.kind # "prompt" /\ x.kind # "note"
    BY RowTypes DEF Story
  <1>2. N \subseteq Row /\ (\A y, z \in N : y.seq = z.seq => y = z) /\ \A y \in N : 1 <= y.seq /\ n < y.seq /\ y.seq <= q + 1
    BY <1>1 DEF Story
  <1>3. Numbered(N)
    BY <1>1 DEF Story, Numbered
  <1>4. OnceIn(N)
    <2>1. \A y \in M : y.kind = "results" => y.calls \cap x.calls = {}
      BY DEF AnsweredIn
    <2>2. QED
      BY <2>1 DEF Story, OnceIn
  <1>5. Backed(N, n, {})
    BY <1>1 DEF Story, Backed
  <1>6. Together(N, W)
    <2> SUFFICES ASSUME NEW y \in N, y.kind = "results", NEW c \in y.calls \ W, NEW z \in N, c[1] < z.seq, z.seq < y.seq
                 PROVE  z.kind \in {"results", "note"}
      BY DEF Together
    <2>1. CASE y \in M
      <3>1. z \in M
        BY <1>1, <2>1
      <3>2. QED
        BY <2>1, <3>1 DEF Story, Together
    <2>2. CASE y = x
      <3>1. z \in M /\ c[1] = a /\ ~(x.calls \subseteq W)
        BY <1>1, <2>2
      <3>2. QED
        BY <3>1
    <2>3. QED
      BY <2>1, <2>2
  <1>7. \A c : AnsweredIn(N, c) <=> AnsweredIn(M, c) \/ c \in x.calls
    BY DEF AnsweredIn
  <1>8. OpenLast(N, W)
    BY <1>1, <1>7 DEF Story, OpenLast
  <1>9. Uncut(N, W)
    <2> SUFFICES ASSUME NEW m \in M, m.kind = "marker"
                 PROVE  /\ m.through < m.seq
                        /\ \A y \in N : y.kind = "results" => \A c \in y.calls \ W : c[1] > m.through \/ m.through >= y.seq
                        /\ (\E y \in N : y.kind = "prompt") => \E y \in N : y.kind = "prompt" /\ m.through < y.seq
      BY <1>1 DEF Uncut
    <2>1. /\ m.through < m.seq
          /\ \A y \in M : y.kind = "results" => \A c \in y.calls \ W : c[1] > m.through \/ m.through >= y.seq
          /\ (\E y \in M : y.kind = "prompt") => \E y \in M : y.kind = "prompt" /\ m.through < y.seq
      BY DEF Story, Uncut
    <2>2. \A c \in x.calls \ W : c[1] > m.through
      <3> SUFFICES ASSUME NEW c \in x.calls \ W PROVE c[1] > m.through
        OBVIOUS
      <3>1. ~(a < m.seq)
        OBVIOUS
      <3>2. a > m.through
        BY <1>1, <2>1, <3>1
      <3>3. QED
        BY <3>2
    <2>3. QED
      BY <1>1, <2>1, <2>2
  <1>10. ASSUME n = 0 PROVE Unfolded(N)
    <2> SUFFICES ASSUME NEW y \in N
                 PROVE  /\ y.kind # "note" => \E z \in N : z.kind = "prompt" /\ z.seq <= y.seq
                        /\ y.kind = "marker" => \E z \in N :
                             /\ z.kind = "prompt" /\ y.through < z.seq
                             /\ \A w \in N : y.through < w.seq /\ w.seq < z.seq => w.kind = "marker"
      BY DEF Unfolded
    <2>1. CASE y \in M
      <3>1. y.kind # "note" => \E z \in N : z.kind = "prompt" /\ z.seq <= y.seq
        BY <1>10, <2>1 DEF Story, Unfolded
      <3>2. ASSUME y.kind = "marker"
            PROVE  \E z \in N : /\ z.kind = "prompt" /\ y.through < z.seq
                                /\ \A w \in N : y.through < w.seq /\ w.seq < z.seq => w.kind = "marker"
        <4>1. PICK z \in M : /\ z.kind = "prompt" /\ y.through < z.seq
                             /\ \A w \in M : y.through < w.seq /\ w.seq < z.seq => w.kind = "marker"
          BY <1>10, <2>1, <3>2 DEF Story, Unfolded
        <4>2. ~(x.seq < z.seq)
          BY <1>1
        <4>3. QED
          BY <4>1, <4>2
      <3>3. QED
        BY <3>1, <3>2
    <2>2. CASE y = x
      <3>1. PICK z \in M : z.seq = a /\ z.kind = "assistant"
        BY <1>10
      <3>2. PICK p \in M : p.kind = "prompt" /\ p.seq <= z.seq
        BY <1>10, <3>1 DEF Story, Unfolded
      <3>3. p.seq <= x.seq
        BY <1>1
      <3>4. QED
        BY <1>1, <2>2, <3>2, <3>3
    <2>3. QED
      BY <2>1, <2>2
  <1>11. Story(N, q + 1, n, W)
    BY <1>2, <1>3, <1>4, <1>5, <1>6, <1>8, <1>9, <1>10 DEF Story
  <1>12. QED
    BY <1>7, <1>11

(* N is what is left of M when the messages before cut are pruned, none of them     *)
(* behind sequence k.                                                           *)
Cuts(M, N, n, k, cut) ==
    /\ cut \in Int /\ k \in Nat /\ n <= k /\ (k = n \/ k < cut)
    /\ \A x \in M : x.seq < cut => x.seq <= k
    /\ \A x : x \in N <=> x \in M /\ x.seq >= cut

(* Pruning leaves a transcript one.                                              *)
LEMMA Pruned ==
  ASSUME NEW M, NEW q \in Nat, NEW n \in Nat, NEW W, Story(M, q, n, W), NEW N, NEW k, NEW cut, Cuts(M, N, n, k, cut), k <= q
  PROVE  /\ Story(N, q, k, W)
         /\ AllAnswered(M, W) => AllAnswered(N, W)
         /\ k = 0 => N = M /\ n = 0
         /\ \A x \in M : x.kind = "assistant" => \A c \in x.calls : x \in N /\ AnsweredIn(M, c) => AnsweredIn(N, c)
  <1> USE DEF Cuts
  <1>1. /\ \A y \in M : y \in Row /\ y.seq \in Nat /\ y.through \in Nat /\ 1 <= y.seq /\ n < y.seq /\ y.seq <= q
        /\ \A y \in M : \A c \in y.calls : c[1] \in Nat
        /\ \A y \in M : y \in N \/ y.seq < cut
        /\ N \subseteq M /\ \A y \in N : y.seq >= cut
    BY RowTypes DEF Story
  <1>2. \A y \in M : y \in N \/ y.seq <= k
    BY <1>1
  <1>3. \A x \in M : x.kind = "assistant" => \A c \in x.calls : x \in N /\ AnsweredIn(M, c) => AnsweredIn(N, c)
    <2> SUFFICES ASSUME NEW x \in N, x.kind = "assistant", NEW c \in x.calls, AnsweredIn(M, c) PROVE AnsweredIn(N, c)
      OBVIOUS
    <2>1. PICK y \in M : y.kind = "results" /\ c \in y.calls
      BY DEF AnsweredIn
    <2>2. c[1] = x.seq /\ c[1] < y.seq
      BY <1>1, <2>1 DEF Story, Numbered
    <2>3. y \in N
      BY <1>1, <2>2
    <2>4. QED
      BY <2>1, <2>3 DEF AnsweredIn
  <1>4. k = 0 => N = M /\ n = 0
    <2>1. k = 0 => \A y \in M : y \in N
      BY <1>1, <1>2
    <2>2. k = 0 => N = M
      BY <1>1, <2>1
    <2>3. k = 0 => n = 0
      OBVIOUS
    <2>4. QED
      BY <2>2, <2>3
  <1>5. N \subseteq Row /\ (\A y, z \in N : y.seq = z.seq => y = z) /\ \A y \in N : 1 <= y.seq /\ k < y.seq /\ y.seq <= q
    BY <1>1 DEF Story
  <1>6. Numbered(N)
    BY <1>1 DEF Story, Numbered
  <1>7. OnceIn(N)
    BY <1>1 DEF Story, OnceIn
  <1>8. Together(N, W)
    BY <1>1 DEF Story, Together
  <1>9. Backed(N, k, {})
    <2> SUFFICES ASSUME NEW x \in N, x.kind = "results", NEW c \in x.calls
                 PROVE  c[1] <= k \/ \E y \in N : y.kind = "assistant" /\ c \in y.calls
      BY DEF Backed
    <2>1. c[1] <= n \/ \E y \in M : y.kind = "assistant" /\ c \in y.calls
      BY <1>1 DEF Story, Backed
    <2>2. CASE c[1] <= n
      BY <1>1, <2>2
    <2>3. CASE \E y \in M : y.kind = "assistant" /\ c \in y.calls
      <3>1. PICK y \in M : y.kind = "assistant" /\ c \in y.calls
        BY <2>3
      <3>2. c[1] = y.seq
        BY <3>1 DEF Story, Numbered
      <3>3. QED
        BY <1>2, <3>1, <3>2
    <2>4. QED
      BY <2>1, <2>2, <2>3
  <1>10. AllAnswered(M, W) => AllAnswered(N, W)
    BY <1>1, <1>3 DEF AllAnswered
  <1>11. OpenLast(N, W)
    <2> SUFFICES ASSUME NEW x \in N, x.kind = "assistant", NEW c \in x.calls \ W, ~AnsweredIn(N, c), NEW y \in N, x.seq < y.seq
                 PROVE  y.kind \in {"results", "note"}
      BY DEF OpenLast
    <2>1. x \in M /\ y \in M /\ ~AnsweredIn(M, c)
      BY <1>1, <1>3
    <2>2. QED
      BY <2>1 DEF Story, OpenLast
  <1>12. Uncut(N, W)
    <2> SUFFICES ASSUME NEW m \in N, m.kind = "marker"
                 PROVE  /\ m.through < m.seq
                        /\ \A y \in N : y.kind = "results" => \A c \in y.calls \ W : c[1] > m.through \/ m.through >= y.seq
                        /\ (\E y \in N : y.kind = "prompt") => \E y \in N : y.kind = "prompt" /\ m.through < y.seq
      BY DEF Uncut
    <2>1. /\ m \in M /\ m.through < m.seq
          /\ \A y \in M : y.kind = "results" => \A c \in y.calls \ W : c[1] > m.through \/ m.through >= y.seq
          /\ (\E y \in M : y.kind = "prompt") => \E y \in M : y.kind = "prompt" /\ m.through < y.seq
      BY <1>1 DEF Story, Uncut
    <2>2. ASSUME NEW p \in N, p.kind = "prompt" PROVE \E y \in N : y.kind = "prompt" /\ m.through < y.seq
      <3>1. PICK y \in M : y.kind = "prompt" /\ m.through < y.seq
        BY <1>1, <2>1, <2>2
      <3>2. CASE y \in N
        BY <3>1, <3>2
      <3>3. CASE y.seq < cut
        <4>1. m.through < p.seq
          BY <1>1, <2>1, <2>2, <3>1, <3>3
        <4>2. QED
          BY <2>2, <4>1
      <3>4. QED
        BY <1>1, <3>2, <3>3
    <2>3. QED
      BY <1>1, <2>1, <2>2
  <1>13. k = 0 => Unfolded(N)
    BY <1>4 DEF Story
  <1>14. Story(N, q, k, W)
    BY <1>5, <1>6, <1>7, <1>8, <1>9, <1>11, <1>12, <1>13 DEF Story
  <1>15. QED
    BY <1>3, <1>4, <1>10, <1>14

(* A request made of a transcript whose calls are all answered.                   *)
LEMMA Assembling ==
  ASSUME NEW s \in Seq(Row), Ordered(s), NEW q \in Nat, NEW n \in Nat, NEW W, Story(ToSet(s), q, n, W), AllAnswered(ToSet(s), W),
         n = 0 => HasPrompt(ToSet(s))
  PROVE  /\ Assembled(s) \in Seq(Row) /\ Ordered(Assembled(s))
         /\ Matched(ToSet(Assembled(s)), n, W) /\ Telling(ToSet(Assembled(s)), ToSet(s), n)
  <1> DEFINE M == ToSet(s)
             P == ToSet(Assembled(s))
             Top(m) == m \in M /\ m.kind = "marker" /\ \A y \in M : y.kind = "marker" => y.seq <= m.seq
  <1>1. /\ \A x \in M : 1 <= x.seq
        /\ \A x \in M : x \in Row /\ x.seq \in Nat /\ x.through \in Nat /\ \A c \in x.calls : c[1] \in Nat
    BY RowTypes DEF Story
  <1>2. /\ Assembled(s) \in Seq(Row) /\ Ordered(Assembled(s))
        /\ LiveIn(M) \subseteq P /\ P \subseteq LiveIn(M) \cup {Summary}
    BY <1>1, AssembledOf
  <1>3. /\ Summary.seq = 0 /\ Summary.calls = {} /\ Summary.kind = "system"
        /\ LiveIn(M) \subseteq M /\ \A x \in LiveIn(M) : x.kind # "marker"
        /\ \A x \in M : x.kind # "marker" => x \in LiveIn(M) \/ FoldedIn(M, x)
    BY DEF Summary, LiveIn
  <1>4. \A x \in P : x \in LiveIn(M) \/ (x = Summary /\ x.kind = "system" /\ x.calls = {} /\ x.seq = 0)
    BY <1>2, <1>3
  <1>5. \A x \in M : FoldedIn(M, x) <=> \E m \in M : Top(m) /\ x.seq <= m.through
    BY DEF FoldedIn
  <1>6. \A m : Top(m) => \A x \in LiveIn(M) : ~(x.seq <= m.through)
    BY DEF LiveIn, FoldedIn
  <1>7. \A m, o : Top(m) /\ Top(o) => m = o
    <2> SUFFICES ASSUME NEW m \in M, NEW o \in M, Top(m), Top(o) PROVE m = o
      OBVIOUS
    <2>1. m.seq <= o.seq /\ o.seq <= m.seq
      OBVIOUS
    <2>2. m.seq = o.seq
      BY <1>1, <2>1
    <2>3. QED
      BY <2>2 DEF Story
  <1>8. \A m : Top(m) => /\ m \in M
                         /\ \A y \in M : y.kind = "results" => \A c \in y.calls \ W : c[1] > m.through \/ m.through >= y.seq
                         /\ (\E y \in M : y.kind = "prompt") => \E y \in M : y.kind = "prompt" /\ m.through < y.seq
                         /\ n = 0 => \E y \in M : /\ y.kind = "prompt" /\ m.through < y.seq
                                                  /\ \A z \in M : m.through < z.seq /\ z.seq < y.seq => z.kind = "marker"
    BY DEF Story, Uncut, Unfolded
  <1> HIDE DEF Top, M, P
  <1>9. Story(M, q, n, W) /\ AllAnswered(M, W) /\ (n = 0 => HasPrompt(M))
    BY DEF M
  <1>10. Numbered(P)
    BY <1>3, <1>4, <1>9 DEF Story, Numbered
  <1>11. OnceIn(P)
    BY <1>3, <1>4, <1>9 DEF Story, OnceIn
  <1>12. Backed(P, n, W)
    <2> SUFFICES ASSUME NEW x \in LiveIn(M), x.kind = "results", NEW c \in x.calls \ W, ~(c[1] <= n)
                 PROVE  \E y \in P : y.kind = "assistant" /\ c \in y.calls
      BY <1>4 DEF Backed
    <2>1. PICK y \in M : y.kind = "assistant" /\ c \in y.calls
      BY <1>3, <1>9 DEF Story, Backed
    <2>2. c[1] = y.seq
      BY <1>9, <2>1 DEF Story, Numbered
    <2>3. ASSUME NEW m \in M, Top(m), y.seq <= m.through PROVE FALSE
      <3>1. m.through >= x.seq
        BY <1>1, <1>3, <1>8, <2>2, <2>3
      <3>2. QED
        BY <1>1, <1>3, <1>6, <2>3, <3>1
    <2>4. y \in LiveIn(M)
      BY <1>3, <1>5, <2>1, <2>3
    <2>5. QED
      BY <1>2, <2>1, <2>4
  <1>13. Together(P, W)
    <2> SUFFICES ASSUME NEW x \in P, x.kind = "results", NEW c \in x.calls \ W, NEW y \in P, c[1] < y.seq, y.seq < x.seq
                 PROVE  y.kind \in {"results", "note"}
      BY DEF Together
    <2>1. x \in M /\ c[1] \in Nat
      BY <1>1, <1>3, <1>4
    <2>2. y \in M
      BY <1>3, <1>4, <2>1
    <2>3. QED
      BY <1>9, <2>1, <2>2 DEF Story, Together
  <1>14. AllAnswered(P, W)
    <2> SUFFICES ASSUME NEW y \in LiveIn(M), y.kind = "assistant", NEW c \in y.calls \ W PROVE AnsweredIn(P, c)
      BY <1>4 DEF AllAnswered
    <2>1. PICK x \in M : x.kind = "results" /\ c \in x.calls
      BY <1>3, <1>9 DEF AllAnswered, AnsweredIn
    <2>2. c[1] = y.seq /\ c[1] < x.seq
      BY <1>3, <1>9, <2>1 DEF Story, Numbered
    <2>3. ASSUME NEW m \in M, Top(m), x.seq <= m.through PROVE FALSE
      <3>1. y.seq <= m.through
        BY <1>1, <1>3, <2>1, <2>2, <2>3
      <3>2. QED
        BY <1>6, <2>3, <3>1
    <2>4. x \in LiveIn(M)
      BY <1>3, <1>5, <2>1, <2>3
    <2>5. QED
      BY <1>2, <2>1, <2>4 DEF AnsweredIn
  <1>15. ASSUME NEW x \in M, x.kind = "prompt", \A y \in M : y.kind = "prompt" => y.seq <= x.seq
         PROVE  x \in P
    <2>1. ASSUME NEW m \in M, Top(m), x.seq <= m.through PROVE FALSE
      <3>1. PICK y \in M : y.kind = "prompt" /\ m.through < y.seq
        BY <1>8, <1>15, <2>1
      <3>2. QED
        BY <1>1, <1>15, <2>1, <3>1
    <2>2. QED
      BY <1>2, <1>3, <1>5, <1>15, <2>1
  (* The prompt behind the boundary is the first message that is not folded.    *)
  <1>16. ASSUME n = 0, NEW m \in M, Top(m)
         PROVE  \E y \in LiveIn(M) : /\ y.kind = "prompt"
                                     /\ \A z \in LiveIn(M) : y.seq <= z.seq
    <2>1. PICK y \in M : /\ y.kind = "prompt" /\ m.through < y.seq
                         /\ \A z \in M : m.through < z.seq /\ z.seq < y.seq => z.kind = "marker"
      BY <1>8, <1>16
    <2>2. y \in LiveIn(M)
      <3>1. ASSUME NEW o \in M, Top(o), y.seq <= o.through PROVE FALSE
        <4>1. o = m
          BY <1>7, <1>16, <3>1
        <4>2. QED
          BY <1>1, <2>1, <3>1, <4>1
      <3>2. QED
        BY <1>3, <1>5, <2>1, <3>1
    <2>3. ASSUME NEW z \in LiveIn(M) PROVE y.seq <= z.seq
      <3>1. m.through < z.seq
        BY <1>1, <1>3, <1>6, <1>16
      <3>2. ~(z.seq < y.seq)
        BY <1>3, <2>1, <3>1
      <3>3. QED
        BY <1>1, <1>3, <3>2
    <2>4. QED
      BY <2>1, <2>2, <2>3
  <1>17. ASSUME n = 0, \A m \in M : ~Top(m)
         PROVE  \A x \in M : x.kind # "marker" => x \in LiveIn(M)
    BY <1>3, <1>5, <1>17
  <1>18. ASSUME n = 0 PROVE HasPrompt(P)
    <2>1. CASE \E m \in M : Top(m)
      BY <1>2, <1>16, <1>18, <2>1 DEF HasPrompt
    <2>2. CASE \A m \in M : ~Top(m)
      BY <1>2, <1>9, <1>17, <1>18, <2>2 DEF HasPrompt
    <2>3. QED
      BY <2>1, <2>2
  <1>19. ASSUME n = 0, NEW x \in LiveIn(M), x.kind # "note"
         PROVE  \E y \in P : y.kind = "prompt" /\ y.seq <= x.seq
    <2>1. CASE \E m \in M : Top(m)
      BY <1>2, <1>16, <1>19, <2>1
    <2>2. CASE \A m \in M : ~Top(m)
      <3>1. PICK y \in M : y.kind = "prompt" /\ y.seq <= x.seq
        BY <1>3, <1>9, <1>19 DEF Story, Unfolded
      <3>2. QED
        BY <1>2, <1>17, <1>19, <2>2, <3>1
    <2>3. QED
      BY <2>1, <2>2
  <1>20. Telling(P, M, n)
    BY <1>4, <1>15, <1>18, <1>19 DEF Telling
  <1>21. QED
    BY <1>2, <1>10, <1>11, <1>12, <1>13, <1>14, <1>20 DEF Matched, P, M
-----------------------------------------------------------------------------
(* The steps of a turn, and what may come in between.                           *)

Kinds == {"prompt", "assistant", "thoughts", "results", "system", "note", "marker"}
Stored(kind, calls, through) == [kind |-> kind, seq |-> seq + 1, calls |-> calls, through |-> through]

(* The message x has been written behind all others.                            *)
Wrote(x) ==
    /\ x \in Row /\ x.seq = seq + 1
    /\ rows' \in Seq(Row) /\ Len(rows') <= MaxRows /\ Ordered(rows')
    /\ Rows' = Rows \cup {x}
    /\ seq' = seq + 1 /\ seq' \in 0..MaxSeq

(* What Write makes of the transcript.                                          *)
LEMMA Written ==
  ASSUME TypeOK, Transcript
  PROVE  \A kind \in Kinds, calls \in SUBSET CallIds, through \in 0..MaxSeq :
            Write(kind, calls, through) => Wrote(Stored(kind, calls, through))
  <1> SUFFICES ASSUME NEW kind \in Kinds, NEW calls \in SUBSET CallIds, NEW through \in 0..MaxSeq,
                      Write(kind, calls, through)
               PROVE  Wrote(Stored(kind, calls, through))
    OBVIOUS
  <1> DEFINE x == Stored(kind, calls, through)
  <1>1. /\ seq' = seq + 1 /\ rows' = Append(rows, x) /\ Len(rows) < MaxRows /\ seq < MaxSeq
        /\ x.seq = seq + 1
    BY DEF Write, Room, Stored
  <1>2. seq \in 0..MaxSeq /\ rows \in Seq(Row) /\ Ordered(rows) /\ \A y \in ToSet(rows) : y.seq \in Nat /\ y.seq <= seq
    <2>1. \A y \in ToSet(rows) : y \in Row /\ y.seq <= seq
      BY DEF Transcript, Story, Rows
    <2>2. QED
      BY <2>1, RowTypes DEF TypeOK, Transcript
  <1>3. seq + 1 \in 0..MaxSeq
    BY <1>1, <1>2, RowTypes
  <1>4. x \in Row
    BY <1>3 DEF Stored, Row, Kinds
  <1>5. \A y \in ToSet(rows) : y.seq < x.seq
    BY <1>1, <1>2
  <1> HIDE DEF x
  <1>6. /\ rows' \in Seq(Row) /\ Ordered(rows') /\ Len(rows') = Len(rows) + 1
        /\ ToSet(rows') = ToSet(rows) \cup {x}
    BY <1>1, <1>2, <1>4, <1>5, Appended
  <1>7. Len(rows') <= MaxRows
    BY <1>1, <1>2, <1>6, RowTypes
  <1>8. Rows' = Rows \cup {x}
    BY <1>6 DEF Rows
  <1>9. QED
    BY <1>1, <1>3, <1>4, <1>6, <1>7, <1>8 DEF x, Wrote

(* A transcript stays what it is when sequences are taken.                       *)
LEMMA Later ==
  ASSUME NEW M, NEW q \in Nat, NEW n \in Nat, NEW W, Story(M, q, n, W), NEW k \in Nat, q <= k
  PROVE  Story(M, k, n, W)
  <1>1. \A x \in M : x.seq \in Nat /\ x.seq <= q
    BY RowTypes DEF Story
  <1>2. \A x \in M : x.seq <= k
    BY <1>1
  <1>3. QED
    BY <1>2 DEF Story

(* No request is made.                                                         *)
LEMMA NoRequest ==
  ASSUME TypeOK, pc' # "stream", request' = <<>>
  PROVE  Sent' /\ request' \in Seq(Row)
  <1>1. Parts' = {} /\ DOMAIN request' = {} /\ request' \in Seq(Row)
    BY DEF Parts, ToSet
  <1>2. Ordered(request')
    BY <1>1 DEF Ordered
  <1>3. Matched(Parts', pruned', missed')
    BY <1>1 DEF Matched, Numbered, OnceIn, Backed, Together, AllAnswered
  <1>4. QED
    BY <1>1, <1>2, <1>3 DEF Sent

(* The types of what most steps have to do with.                                *)
LEMMA Basics ==
  ASSUME TurnInv
  PROVE  /\ seq \in Nat /\ seq <= MaxSeq /\ pruned \in Nat /\ rows \in Seq(Row) /\ Ordered(rows)
         /\ Story(Rows, seq, pruned, missed) /\ (pc # "stream" => request = <<>>)
         /\ seq \in 0..MaxSeq /\ seq + 1 \in Nat
         /\ \A x \in Rows : x \in Row /\ x.seq \in Nat /\ 1 <= x.seq /\ pruned < x.seq /\ x.seq <= seq
         /\ pruned <= seq /\ missed \subseteq CallIds /\ Repeated
  <1>1. seq \in Nat /\ seq <= MaxSeq /\ pruned \in Nat
    BY RowTypes DEF TurnInv, TypeOK
  <1>2. Story(Rows, seq, pruned, missed)
    BY DEF TurnInv, Transcript
  <1>3. QED
    BY <1>1, <1>2, RowTypes DEF TurnInv, TypeOK, Transcript, Sent, Story

(* A turn begins: nothing is written yet.                                      *)
LEMMA StartKeeps == TurnInv /\ Start => TurnInv'
  <1> SUFFICES ASSUME TurnInv, Start PROVE TurnInv'
    OBVIOUS
  <1> USE DEF Start, Goto, histVars
  <1>1. /\ UNCHANGED <<rows, seq, rounds, cancelled, compacted, todo, results, request, pruned, missed>>
        /\ pc = "idle" /\ pc' = "recover" /\ Rows' = Rows
    BY DEF Rows
  <1>2. TypeOK'
    BY <1>1 DEF TurnInv, TypeOK, Steps
  <1>3. Transcript'
    BY <1>1 DEF TurnInv, Transcript
  <1>4. Phased'
    BY <1>1 DEF Phased
  <1>5. Sent'
    BY <1>1, NoRequest DEF TurnInv, Sent
  <1>6. QED
    BY <1>1, <1>2, <1>3, <1>4, <1>5 DEF TurnInv, Repeated

(* The input becomes a message: all calls before it are answered.                 *)
LEMMA PromoteKeeps == TurnInv /\ Promote => TurnInv'
  <1> SUFFICES ASSUME TurnInv, Promote PROVE TurnInv'
    OBVIOUS
  <1> DEFINE x == Stored("prompt", {}, 0)
  <1>1. /\ UNCHANGED <<rounds, cancelled, compacted, todo, results, request, pruned, missed>>
        /\ pc = "promote" /\ pc' = "reconcile"
    BY DEF Promote, Goto, histVars
  <1>2. Wrote(x) /\ x.kind = "prompt" /\ x.calls = {}
    <2>1. 0 \in 0..MaxSeq /\ "prompt" \in Kinds /\ {} \in SUBSET CallIds /\ Write("prompt", {}, 0)
      BY RowTypes DEF Kinds, Promote
    <2>2. QED
      BY <2>1, Written DEF TurnInv, Stored
  <1> HIDE DEF x
  <1> USE DEF Wrote
  <1>3. AllAnswered(Rows, missed)
    BY <1>1 DEF TurnInv, Phased
  <1>4. Story(Rows', seq', pruned', missed') /\ AllAnswered(Rows', missed') /\ HasPrompt(Rows')
    <2>1. Story(Rows \cup {x}, seq + 1, pruned, missed) /\ AllAnswered(Rows \cup {x}, missed)
      BY <1>2, <1>3, Basics, Said
    <2>2. QED
      BY <1>1, <1>2, <2>1 DEF HasPrompt
  <1>5. TypeOK'
    BY <1>1, <1>2 DEF TurnInv, TypeOK, Steps
  <1>6. Transcript'
    BY <1>2, <1>4 DEF Transcript
  <1>7. Phased'
    BY <1>1, <1>4 DEF Phased
  <1>8. Sent'
    BY <1>1, NoRequest DEF TurnInv, Sent
  <1>9. QED
    BY <1>1, <1>5, <1>6, <1>7, <1>8 DEF TurnInv, Repeated

(* The calls recover_interrupted_tools repairs are the ones that are not answered. *)
LEMMA Unanswered ==
  ASSUME TurnInv
  PROVE  /\ \A x \in Rows : x.kind = "assistant" => \A c \in x.calls \ missed :
              AnsweredIn(Rows, c) \/ c \in Unfulfilled \/ c \in Overlooked
         /\ \A c \in Unfulfilled : ~AnsweredIn(Rows, c)
         /\ LastCalls # {} => \E x \in Rows : /\ x.kind = "assistant" /\ LastCalls = x.calls
                                              /\ \A y \in Rows : y.kind = "assistant" => y.seq <= x.seq
         /\ Unfulfilled \subseteq missed \/ \A x \in Rows : x.kind = "assistant" /\ LastCalls = x.calls =>
              \A y \in Rows : x.seq < y.seq => y.kind \in {"results", "note"}
         /\ Unfulfilled \subseteq LastCalls /\ Overlooked \subseteq LastCalls
         /\ \A c \in Overlooked : ~AnsweredIn(Rows, c) /\ \E d : AnsweredIn(Rows, d) /\ Id(d) = Id(c)
  <1>1. /\ rows \in Seq(Row) /\ Ordered(rows) /\ Story(Rows, seq, pruned, missed)
        /\ Rows = {rows[k] : k \in DOMAIN rows} /\ DOMAIN rows = 1..Len(rows) /\ Len(rows) \in Nat
    <2>1. rows \in Seq(Row) /\ Ordered(rows) /\ Story(Rows, seq, pruned, missed)
      BY Basics
    <2>2. QED
      BY <2>1 DEF Rows, ToSet
  <1>2. \A c : c \in AnsweredCalls <=> AnsweredIn(Rows, c)
    BY <1>1 DEF AnsweredCalls, AnsweredIn
  <1>3. Assistants = {k \in DOMAIN rows : rows[k].kind \in {"assistant", "thoughts"}}
    BY DEF Assistants
  <1>4. ASSUME NEW k \in DOMAIN rows, rows[k].kind = "assistant", NEW c \in rows[k].calls \ missed, ~AnsweredIn(Rows, c)
        PROVE  k \in Newest(Assistants) /\ \A y \in Rows : rows[k].seq < y.seq => y.kind \in {"results", "note"}
    <2>1. \A y \in Rows : rows[k].seq < y.seq => y.kind \in {"results", "note"}
      BY <1>1, <1>4 DEF Story, OpenLast
    <2>2. ASSUME NEW j \in Assistants, k < j PROVE FALSE
      <3>1. j \in DOMAIN rows /\ rows[j] \in Rows /\ rows[k].seq < rows[j].seq
        BY <1>1, <1>3, <1>4, <2>2 DEF Ordered
      <3>2. QED
        BY <1>3, <2>1, <3>1
    <2>3. \A j \in Assistants : j <= k
      BY <1>1, <1>3, <2>2
    <2>4. QED
      BY <1>3, <1>4, <2>1, <2>3 DEF Newest
  <1>5. \A k \in DOMAIN rows : k \in Newest(Assistants) => \A c \in rows[k].calls : rows[k].kind = "assistant"
    <2>1. \A k \in DOMAIN rows : \A c \in rows[k].calls : rows[k].kind \in {"assistant", "results"}
      BY <1>1 DEF Story, Numbered
    <2>2. QED
      BY <1>3, <2>1 DEF Newest
  <1>6. \A j, k \in Newest(Assistants) : j = k /\ k \in DOMAIN rows
    <2>1. \A j, k \in Newest(Assistants) : j <= k /\ k <= j /\ k \in DOMAIN rows /\ j \in DOMAIN rows
      BY <1>3 DEF Newest
    <2>2. QED
      BY <1>1, <2>1
  <1>7. \A c : c \in LastCalls <=> \E k \in Newest(Assistants) : c \in rows[k].calls
    BY DEF LastCalls
  <1>8. /\ \A c : c \in Unfulfilled <=> c \in LastCalls /\ Id(c) \notin Fulfilled
        /\ \A c : c \in Overlooked <=> c \in LastCalls /\ Id(c) \in Fulfilled /\ c \notin AnsweredCalls
        /\ \A i : i \in Fulfilled <=> \E d \in AnsweredCalls : i = Id(d)
    BY DEF Unfulfilled, Overlooked, Fulfilled
  <1>9. \A c \in Unfulfilled : ~AnsweredIn(Rows, c)
    BY <1>2, <1>8
  <1>10. \A c \in Overlooked : ~AnsweredIn(Rows, c) /\ \E d : AnsweredIn(Rows, d) /\ Id(d) = Id(c)
    BY <1>2, <1>8
  <1>11. ASSUME NEW x \in Rows, x.kind = "assistant", NEW c \in x.calls \ missed, ~AnsweredIn(Rows, c)
         PROVE  c \in Unfulfilled \/ c \in Overlooked
    <2>1. PICK k \in DOMAIN rows : x = rows[k]
      BY <1>1
    <2>2. c \in LastCalls
      BY <1>4, <1>7, <1>11, <2>1
    <2>3. QED
      BY <1>2, <1>8, <1>11, <2>2
  <1>12. ASSUME NEW c \in LastCalls
         PROVE  \E k \in Newest(Assistants) : /\ k \in DOMAIN rows /\ rows[k] \in Rows /\ rows[k].kind = "assistant"
                                              /\ LastCalls = rows[k].calls
                                              /\ \A y \in Rows : y.kind = "assistant" => y.seq <= rows[k].seq
    <2>1. PICK k \in Newest(Assistants) : c \in rows[k].calls
      BY <1>7
    <2>2. k \in DOMAIN rows /\ rows[k] \in Rows /\ rows[k].kind = "assistant"
      BY <1>1, <1>5, <1>6, <2>1
    <2>3. LastCalls = rows[k].calls
      BY <1>6, <1>7
    <2>4. ASSUME NEW y \in Rows, y.kind = "assistant" PROVE y.seq <= rows[k].seq
      <3>1. PICK j \in DOMAIN rows : y = rows[j]
        BY <1>1
      <3>2. j <= k
        BY <1>3, <2>1, <2>4, <3>1 DEF Newest
      <3>3. rows[j].seq \in Nat /\ rows[k].seq \in Nat
        BY <2>2, <3>1, Basics
      <3>4. j = k \/ j < k
        BY <1>1, <2>2, <3>2
      <3>5. QED
        BY <1>1, <2>2, <3>1, <3>3, <3>4 DEF Ordered
    <2>5. QED
      BY <2>2, <2>3, <2>4
  <1>13. ASSUME NEW c \in Unfulfilled, c \notin missed, NEW x \in Rows, x.kind = "assistant", LastCalls = x.calls
         PROVE  \A y \in Rows : x.seq < y.seq => y.kind \in {"results", "note"}
    <2>1. PICK k \in DOMAIN rows : x = rows[k]
      BY <1>1
    <2>2. c \in rows[k].calls \ missed
      BY <1>8, <1>13, <2>1
    <2>3. QED
      BY <1>4, <1>9, <1>13, <2>1, <2>2
  <1>14. QED
    BY <1>8, <1>9, <1>10, <1>11, <1>12, <1>13

(* Overlooking a call takes an id that two messages have made up.                  *)
LEMMA OverlookedRepeats ==
  ASSUME TurnInv, NEW c \in Overlooked
  PROVE  c[1] \in Minted /\ \E b \in 1..(c[1] - 1) : b \in Minted
  <1>1. /\ Story(Rows, seq, pruned, missed) /\ pruned \in Nat
        /\ \A x \in Rows : x \in Row /\ x.seq \in Nat /\ 1 <= x.seq /\ pruned < x.seq
    BY Basics
  <1>2. PICK a \in Rows : a.kind = "assistant" /\ LastCalls = a.calls /\ \A y \in Rows : y.kind = "assistant" => y.seq <= a.seq
    BY Unanswered
  <1>3. c \in a.calls /\ c \in CallIds /\ c[1] = a.seq
    <2>1. c \in a.calls
      BY <1>2, Unanswered
    <2>2. QED
      BY <1>1, <1>2, <2>1, RowTypes DEF Story, Numbered
  <1>4. PICK d : AnsweredIn(Rows, d) /\ Id(d) = Id(c) /\ d # c
    BY Unanswered
  <1>5. PICK y \in Rows : y.kind = "results" /\ d \in y.calls
    BY <1>4 DEF AnsweredIn
  <1>6. d \in CallIds /\ d[1] \in Nat /\ 1 <= d[1]
    BY <1>1, <1>5, RowTypes DEF Story, Numbered
  <1>7. \A e \in CallIds : e = <<e[1], e[2]>>
    BY DEF CallIds
  <1>8. c[1] \in Minted /\ d[1] \in Minted /\ d[1] # c[1]
    <2>1. c[1] # 0 /\ d[1] # 0
      BY <1>1, <1>2, <1>3, <1>6
    <2>2. CASE c[1] \in Minted /\ d[1] \in Minted
      <3>1. c[2] = d[2]
        BY <1>4, <2>2 DEF Id
      <3>2. QED
        BY <1>3, <1>4, <1>6, <1>7, <2>2, <3>1
    <2>3. CASE c[1] \in Minted /\ d[1] \notin Minted
      <3>1. d = <<0, c[2]>>
        BY <1>4, <2>3 DEF Id
      <3>2. QED
        BY <2>1, <3>1
    <2>4. CASE c[1] \notin Minted /\ d[1] \in Minted
      <3>1. c = <<0, d[2]>>
        BY <1>4, <2>4 DEF Id
      <3>2. QED
        BY <2>1, <3>1
    <2>5. CASE c[1] \notin Minted /\ d[1] \notin Minted
      BY <1>4, <2>5 DEF Id
    <2>6. QED
      BY <2>2, <2>3, <2>4, <2>5
  <1>9. d[1] <= c[1]
    <2>1. d[1] <= pruned \/ \E z \in Rows : z.kind = "assistant" /\ d \in z.calls
      BY <1>1, <1>5 DEF Story, Backed
    <2>2. CASE d[1] <= pruned
      BY <1>1, <1>2, <1>3, <1>6, <2>2
    <2>3. CASE \E z \in Rows : z.kind = "assistant" /\ d \in z.calls
      <3>1. PICK z \in Rows : z.kind = "assistant" /\ d \in z.calls
        BY <2>3
      <3>2. d[1] = z.seq
        BY <1>1, <3>1 DEF Story, Numbered
      <3>3. QED
        BY <1>2, <1>3, <3>1, <3>2
    <2>4. QED
      BY <2>1, <2>2, <2>3
  <1>10. c[1] \in Nat
    BY <1>1, <1>2, <1>3
  <1>11. d[1] \in 1..(c[1] - 1)
    BY <1>6, <1>8, <1>9, <1>10
  <1>12. QED
    BY <1>8, <1>11

(* What is said of all calls but some is said of all but more.                     *)
LEMMA Fewer ==
  ASSUME NEW M, NEW q, NEW n, NEW W, NEW V, W \subseteq V, Story(M, q, n, W)
  PROVE  Story(M, q, n, V)
  <1>1. Together(M, V) /\ OpenLast(M, V)
    BY DEF Story, Together, OpenLast
  <1>2. Uncut(M, V)
    BY DEF Story, Uncut
  <1>3. QED
    BY <1>1, <1>2 DEF Story

(* The repair answers what an interrupted turn has left, and only that.            *)
LEMMA RecoverKeeps == TurnInv /\ Recover => TurnInv'
  <1> SUFFICES ASSUME TurnInv, Recover PROVE TurnInv'
    OBVIOUS
  <1> DEFINE x == Stored("results", Unfulfilled, 0)
             W == missed \cup Overlooked
  <1>1. /\ UNCHANGED <<rounds, cancelled, compacted, todo, results, request, pruned>>
        /\ pc = "recover" /\ pc' = "promote" /\ missed' = W
    BY DEF Recover, Goto
  <1>2. Story(Rows, seq, pruned, W) /\ missed \subseteq W /\ seq \in Nat /\ pruned \in Nat
    <2>1. Story(Rows, seq, pruned, missed) /\ missed \subseteq W
      BY Basics
    <2>2. QED
      BY <2>1, Basics, Fewer
  <1>3. \A y \in Rows : y.kind = "assistant" => \A c \in y.calls \ W : AnsweredIn(Rows, c) \/ c \in Unfulfilled
    BY Unanswered
  <1>4. LastCalls \subseteq CallIds
    BY Unanswered, Basics, RowTypes
  <1>5. W \subseteq CallIds
    BY <1>4, Basics, Unanswered
  <1>6. Repeated'
    BY <1>1, Basics, OverlookedRepeats DEF Repeated
  <1> HIDE DEF W
  <1>7. /\ rows' \in Seq(Row) /\ Len(rows') <= MaxRows /\ Ordered(rows') /\ seq' \in 0..MaxSeq
        /\ Story(Rows', seq', pruned', missed') /\ AllAnswered(Rows', missed')
    <2>1. CASE Unfulfilled = {}
      <3>1. UNCHANGED <<rows, seq>> /\ Rows' = Rows
        BY <2>1 DEF Recover, Rows
      <3>2. AllAnswered(Rows, W)
        BY <1>3, <2>1 DEF AllAnswered
      <3>3. QED
        BY <1>1, <1>2, <3>1, <3>2, Basics DEF TurnInv, TypeOK
    <2>2. CASE Unfulfilled # {}
      <3>1. PICK a \in Rows : a.kind = "assistant" /\ LastCalls = a.calls
        BY <2>2, Unanswered
      <3>2. /\ Unfulfilled \subseteq a.calls
            /\ Unfulfilled \subseteq W \/ \A y \in Rows : a.seq < y.seq => y.kind \in {"results", "note"}
        BY <1>2, <3>1, Unanswered
      <3>3. a \in Row /\ a.seq \in 1..seq
        BY Basics
      <3>4. Unfulfilled \in SUBSET CallIds /\ \A c \in Unfulfilled : c[1] = a.seq
        <4>1. \A c \in a.calls : c[1] = a.seq
          BY <1>2, <3>1 DEF Story, Numbered
        <4>2. QED
          BY <3>2, <3>3, <4>1, RowTypes
      <3>5. Wrote(x) /\ x.kind = "results" /\ x.calls = Unfulfilled
        <4>1. 0 \in 0..MaxSeq /\ "results" \in Kinds /\ Write("results", Unfulfilled, 0)
          BY <2>2, RowTypes DEF Kinds, Recover
        <4>2. QED
          BY <3>4, <4>1, Written DEF TurnInv, Stored
      <3> HIDE DEF x
      <3>6. x \in Row /\ x.seq = seq + 1
        BY <3>5 DEF Wrote
      <3>7. \A c \in x.calls : c[1] = a.seq /\ ~AnsweredIn(Rows, c)
        BY <3>4, <3>5, Unanswered
      <3>8. x.calls \subseteq W \/ \A y \in Rows : a.seq < y.seq => y.kind \in {"results", "note"}
        BY <3>2, <3>5
      <3>9. \E y \in Rows : y.seq = a.seq /\ y.kind = "assistant" /\ x.calls \subseteq y.calls
        BY <3>1, <3>2, <3>5
      <3>10. Story(Rows \cup {x}, seq + 1, pruned, W) /\ \A c : AnsweredIn(Rows \cup {x}, c) <=> AnsweredIn(Rows, c) \/ c \in x.calls
        BY <1>2, <2>2, <3>3, <3>5, <3>6, <3>7, <3>8, <3>9, Answered
      <3>11. AllAnswered(Rows \cup {x}, W)
        <4>1. \A y \in Rows : y.kind = "assistant" => \A c \in y.calls \ W : AnsweredIn(Rows \cup {x}, c)
          BY <1>3, <3>5, <3>10
        <4>2. QED
          BY <3>5, <4>1 DEF AllAnswered
      <3>12. QED
        BY <1>1, <3>5, <3>10, <3>11 DEF Wrote
    <2>3. QED
      BY <2>1, <2>2
  <1>8. TypeOK'
    BY <1>1, <1>5, <1>7 DEF TurnInv, TypeOK, Steps
  <1>9. Transcript'
    BY <1>7 DEF Transcript
  <1>10. Phased'
    BY <1>1, <1>7 DEF Phased
  <1>11. Sent'
    BY <1>1, NoRequest DEF TurnInv, Sent
  <1>12. QED
    BY <1>6, <1>8, <1>9, <1>10, <1>11 DEF TurnInv

(* A context update is written when all calls are answered.                        *)
LEMMA ReconcileKeeps == TurnInv /\ Reconcile => TurnInv'
  <1> SUFFICES ASSUME TurnInv, Reconcile PROVE TurnInv'
    OBVIOUS
  <1> DEFINE x == Stored("system", {}, 0)
  <1>1. /\ UNCHANGED <<rounds, cancelled, compacted, todo, results, request, pruned, missed>>
        /\ pc = "reconcile" /\ pc' = "boundary"
    BY DEF Reconcile, Goto, histVars
  <1>2. AllAnswered(Rows, missed) /\ (pruned = 0 => HasPrompt(Rows))
    BY <1>1 DEF TurnInv, Phased
  <1>3. /\ rows' \in Seq(Row) /\ Len(rows') <= MaxRows /\ Ordered(rows') /\ seq' \in 0..MaxSeq
        /\ Story(Rows', seq', pruned', missed') /\ AllAnswered(Rows', missed') /\ (pruned' = 0 => HasPrompt(Rows'))
    <2>1. CASE UNCHANGED <<rows, seq>>
      <3>1. Rows' = Rows
        BY <2>1 DEF Rows
      <3>2. QED
        BY <1>1, <1>2, <2>1, <3>1, Basics DEF TurnInv, TypeOK
    <2>2. CASE Write("system", {}, 0)
      <3>1. Wrote(x) /\ x.kind = "system" /\ x.calls = {}
        <4>1. 0 \in 0..MaxSeq /\ "system" \in Kinds /\ {} \in SUBSET CallIds
          BY RowTypes DEF Kinds
        <4>2. QED
          BY <2>2, <4>1, Written DEF TurnInv, Stored
      <3> HIDE DEF x
      <3> USE DEF Wrote
      <3>2. Story(Rows \cup {x}, seq + 1, pruned, missed) /\ AllAnswered(Rows \cup {x}, missed)
        BY <1>2, <3>1, Basics, Said
      <3>3. QED
        BY <1>1, <1>2, <3>1, <3>2 DEF HasPrompt
    <2>3. QED
      BY <2>1, <2>2 DEF Reconcile
  <1>4. TypeOK'
    BY <1>1, <1>3 DEF TurnInv, TypeOK, Steps
  <1>5. Transcript'
    BY <1>3 DEF Transcript
  <1>6. Phased'
    BY <1>1, <1>3 DEF Phased
  <1>7. Sent'
    BY <1>1, NoRequest DEF TurnInv, Sent
  <1>8. QED
    BY <1>1, <1>4, <1>5, <1>6, <1>7 DEF TurnInv, Repeated

(* Another provider turn begins only if no abort has left calls unanswered.         *)
LEMMA BoundaryKeeps == TurnInv /\ Boundary => TurnInv'
  <1> SUFFICES ASSUME TurnInv, Boundary PROVE TurnInv'
    OBVIOUS
  <1>1. UNCHANGED <<rows, seq, pruned, missed>> /\ pc = "boundary" /\ Rows' = Rows /\ request = <<>>
    BY Basics DEF Boundary, Rows, histVars
  <1>2. /\ request' = <<>> /\ pc' \in {"fold", "idle"} /\ rounds' \in 0..MaxTurns /\ cancelled' \in BOOLEAN
        /\ compacted' \in BOOLEAN /\ todo' \subseteq CallIds /\ results' \subseteq CallIds
        /\ pc' = "fold" => ~cancelled
    <2>1. rounds \in 0..MaxTurns /\ cancelled \in BOOLEAN /\ compacted \in BOOLEAN /\ todo \subseteq CallIds /\ results \subseteq CallIds
      BY DEF TurnInv, TypeOK
    <2>2. CASE rounds < MaxTurns /\ ~cancelled
      <3>1. pc' = "fold" /\ rounds' = rounds + 1 /\ compacted' = FALSE /\ UNCHANGED <<cancelled, todo, results, request>>
        BY <2>2 DEF Boundary, Goto
      <3>2. rounds' \in 0..MaxTurns
        BY <2>1, <2>2, <3>1, RowTypes
      <3>3. QED
        BY <1>1, <2>1, <2>2, <3>1, <3>2
    <2>3. CASE ~(rounds < MaxTurns /\ ~cancelled)
      <3>1. Ends
        BY <2>3 DEF Boundary
      <3>2. 0 \in 0..MaxTurns
        BY RowTypes
      <3>3. QED
        BY <3>1, <3>2 DEF Ends, Goto
    <2>4. QED
      BY <2>2, <2>3
  <1>3. TypeOK'
    BY <1>1, <1>2 DEF TurnInv, TypeOK, Steps
  <1>4. Transcript'
    BY <1>1 DEF TurnInv, Transcript
  <1>5. Phased'
    <2>1. (cancelled \/ AllAnswered(Rows, missed)) /\ (pruned = 0 => HasPrompt(Rows))
      BY <1>1 DEF TurnInv, Phased
    <2>2. QED
      BY <1>1, <1>2, <2>1 DEF Phased
  <1>6. Sent'
    BY <1>2, NoRequest DEF TurnInv
  <1>7. QED
    BY <1>1, <1>3, <1>4, <1>5, <1>6 DEF TurnInv, Repeated

(* Steers are written when all calls are answered.                               *)
LEMMA FoldSteersKeeps == TurnInv /\ FoldSteers => TurnInv'
  <1> SUFFICES ASSUME TurnInv, FoldSteers PROVE TurnInv'
    OBVIOUS
  <1> DEFINE x == Stored("prompt", {}, 0)
  <1>1. /\ UNCHANGED <<rounds, cancelled, compacted, todo, results, request, pruned, missed>>
        /\ pc = "fold" /\ pc' \in {"fold", "assemble"}
    BY DEF FoldSteers, Goto, histVars
  <1>2. AllAnswered(Rows, missed) /\ (pruned = 0 => HasPrompt(Rows))
    BY <1>1 DEF TurnInv, Phased
  <1>3. /\ rows' \in Seq(Row) /\ Len(rows') <= MaxRows /\ Ordered(rows') /\ seq' \in 0..MaxSeq
        /\ Story(Rows', seq', pruned', missed') /\ AllAnswered(Rows', missed') /\ (pruned' = 0 => HasPrompt(Rows'))
    <2>1. CASE UNCHANGED <<rows, seq>>
      <3>1. Rows' = Rows
        BY <2>1 DEF Rows
      <3>2. QED
        BY <1>1, <1>2, <2>1, <3>1, Basics DEF TurnInv, TypeOK
    <2>2. CASE Write("prompt", {}, 0)
      <3>1. Wrote(x) /\ x.kind = "prompt" /\ x.calls = {}
        <4>1. 0 \in 0..MaxSeq /\ "prompt" \in Kinds /\ {} \in SUBSET CallIds
          BY RowTypes DEF Kinds
        <4>2. QED
          BY <2>2, <4>1, Written DEF TurnInv, Stored
      <3> HIDE DEF x
      <3> USE DEF Wrote
      <3>2. Story(Rows \cup {x}, seq + 1, pruned, missed) /\ AllAnswered(Rows \cup {x}, missed)
        BY <1>2, <3>1, Basics, Said
      <3>3. QED
        BY <1>1, <1>2, <3>1, <3>2 DEF HasPrompt
    <2>3. QED
      BY <2>1, <2>2 DEF FoldSteers
  <1>4. TypeOK'
    BY <1>1, <1>3 DEF TurnInv, TypeOK, Steps
  <1>5. Transcript'
    BY <1>3 DEF Transcript
  <1>6. Phased'
    BY <1>1, <1>3 DEF Phased
  <1>7. Sent'
    BY <1>1, NoRequest DEF TurnInv, Sent
  <1>8. QED
    BY <1>1, <1>4, <1>5, <1>6, <1>7 DEF TurnInv, Repeated

(* The request is made of the rows.                                            *)
LEMMA AssembleKeeps == TurnInv /\ Assemble => TurnInv'
  <1> SUFFICES ASSUME TurnInv, Assemble PROVE TurnInv'
    OBVIOUS
  <1>1. /\ UNCHANGED <<rows, seq, rounds, cancelled, compacted, todo, results, pruned, missed>>
        /\ pc = "assemble" /\ pc' = "stream" /\ request' = Assembled(rows) /\ Rows' = Rows
    BY DEF Assemble, Goto, Rows, histVars
  <1>2. AllAnswered(Rows, missed) /\ (pruned = 0 => HasPrompt(Rows))
    BY <1>1 DEF TurnInv, Phased
  <1>3. /\ request' \in Seq(Row) /\ Ordered(request')
        /\ Matched(Parts', pruned', missed') /\ Telling(Parts', Rows', pruned')
    BY <1>1, <1>2, Basics, Assembling DEF Rows, Parts
  <1>4. TypeOK'
    BY <1>1, <1>3 DEF TurnInv, TypeOK, Steps
  <1>5. Transcript'
    BY <1>1 DEF TurnInv, Transcript
  <1>6. Phased'
    BY <1>1, <1>2 DEF Phased
  <1>7. Sent'
    BY <1>1, <1>3 DEF Sent
  <1>8. QED
    BY <1>1, <1>4, <1>5, <1>6, <1>7 DEF TurnInv, Repeated

(* A marker is written and the request made of what it leaves.                     *)
LEMMA CompactKeeps == TurnInv /\ Compact => TurnInv'
  <1> SUFFICES ASSUME TurnInv, Compact PROVE TurnInv'
    OBVIOUS
  <1>1. /\ UNCHANGED <<rounds, cancelled, todo, results, pruned, missed>> /\ compacted' = TRUE
        /\ pc \in {"assemble", "stream"} /\ pc' = "stream" /\ request' = Assembled(rows')
    BY DEF Compact, Goto, histVars
  <1>2. AllAnswered(Rows, missed) /\ (pruned = 0 => HasPrompt(Rows))
    BY <1>1 DEF TurnInv, Phased
  <1>3. PICK k \in CleanCuts : Write("marker", {}, Live(rows)[k - 1].seq)
    BY DEF Compact
  <1> DEFINE a == Live(rows)[k - 1]
             b == Live(rows)[k]
             x == Stored("marker", {}, a.seq)
  <1>4. /\ a \in LiveIn(Rows) /\ b \in LiveIn(Rows) /\ a.seq < b.seq /\ b.kind = "prompt"
        /\ \A y \in LiveIn(Rows) : a.seq < y.seq => b.seq <= y.seq
    <2>1. k \in 2..Len(Live(rows)) /\ Live(rows)[k].kind = "prompt"
      BY DEF CleanCuts
    <2>2. QED
      BY <2>1, Basics, LiveNeighbours DEF Rows
  <1> HIDE DEF a, b
  <1>5. a \in Row /\ a.seq \in 0..MaxSeq
    <2>1. a \in Row
      BY <1>4, Basics DEF LiveIn
    <2>2. QED
      BY <2>1 DEF Row
  <1>6. Wrote(x) /\ x.kind = "marker" /\ x.calls = {} /\ x.through = a.seq
    <2>1. "marker" \in Kinds /\ {} \in SUBSET CallIds /\ Write("marker", {}, a.seq)
      BY <1>3 DEF Kinds, a
    <2>2. QED
      BY <1>5, <2>1, Written DEF TurnInv, Stored
  <1> HIDE DEF x
  <1> USE DEF Wrote
  <1>7. Story(Rows', seq', pruned', missed') /\ AllAnswered(Rows', missed') /\ HasPrompt(Rows')
    <2>1. x \in Row /\ x.seq = seq + 1
      BY <1>6
    <2>2. Story(Rows \cup {x}, seq + 1, pruned, missed) /\ AllAnswered(Rows \cup {x}, missed) /\ HasPrompt(Rows \cup {x})
      BY <1>2, <1>4, <1>6, <2>1, Basics, FoldedBefore
    <2>3. QED
      BY <1>1, <1>6, <2>2
  <1>8. /\ request' \in Seq(Row) /\ Ordered(request')
        /\ Matched(Parts', pruned', missed') /\ Telling(Parts', Rows', pruned')
    <2>1. rows' \in Seq(Row) /\ Ordered(rows') /\ Rows' = ToSet(rows') /\ Parts' = ToSet(request')
      BY <1>6 DEF Rows, Parts
    <2>2. seq' \in Nat /\ pruned' \in Nat
      BY <1>1, <1>6, Basics
    <2>3. QED
      BY <1>1, <1>7, <2>1, <2>2, Assembling
  <1>9. TypeOK'
    BY <1>1, <1>6, <1>8 DEF TurnInv, TypeOK, Steps
  <1>10. Transcript'
    BY <1>6, <1>7 DEF Transcript
  <1>11. Phased'
    BY <1>1, <1>7 DEF Phased
  <1>12. Sent'
    BY <1>1, <1>8 DEF Sent
  <1>13. QED
    BY <1>1, <1>9, <1>10, <1>11, <1>12 DEF TurnInv, Repeated

(* The turn is over, with a transcript as it should be.                            *)
LEMMA EndsKeeps ==
  ASSUME TurnInv, Ends, rows' \in Seq(Row), Len(rows') <= MaxRows, Ordered(rows'), seq' \in 0..MaxSeq,
         Story(Rows', seq', pruned', missed'), UNCHANGED <<pruned, missed>>
  PROVE  TurnInv'
  <1>1. /\ pc' = "idle" /\ rounds' = 0 /\ cancelled' = FALSE /\ compacted' = FALSE
        /\ todo' = {} /\ results' = {} /\ request' = <<>>
    BY DEF Ends, Goto
  <1>2. Sent' /\ request' \in Seq(Row)
    BY <1>1, NoRequest DEF TurnInv
  <1>3. TypeOK'
    <2>1. 0 \in 0..MaxTurns /\ pruned' \in 0..MaxSeq /\ missed' \subseteq CallIds /\ "idle" \in Steps
      BY RowTypes DEF TurnInv, TypeOK, Steps
    <2>2. QED
      BY <1>1, <1>2, <2>1 DEF TypeOK
  <1>4. Transcript'
    BY DEF Transcript
  <1>5. Phased'
    BY <1>1 DEF Phased
  <1>6. QED
    BY <1>1, <1>2, <1>3, <1>4, <1>5 DEF TurnInv, Repeated

(* An error or the end of the process leaves the rows as they are.                 *)
LEMMA FailsKeeps == TurnInv /\ Fails => TurnInv'
  <1> SUFFICES ASSUME TurnInv, Fails PROVE TurnInv'
    OBVIOUS
  <1>1. Ends /\ UNCHANGED <<rows, seq, pruned, missed>> /\ Rows' = Rows
    BY DEF Fails, Rows, histVars
  <1>2. rows \in Seq(Row) /\ Len(rows) <= MaxRows /\ Ordered(rows) /\ seq \in 0..MaxSeq /\ Story(Rows, seq, pruned, missed)
    BY DEF TurnInv, TypeOK, Transcript
  <1>3. QED
    BY <1>1, <1>2, EndsKeeps

(* The calls of the running message stay what they are.                           *)
LEMMA StillRunning ==
  ASSUME NEW a, Running(a), Rows' = Rows, seq \in Nat, seq' \in Nat, seq <= seq', UNCHANGED <<pruned, missed>>,
         todo' \cup results' \subseteq todo \cup results,
         cancelled' \/ todo \cup results \subseteq todo' \cup results', cancelled => cancelled'
  PROVE  a \in 1..seq' /\ Running(a)'
  <1>1. a \in 1..seq'
    BY DEF Running
  <1>2. \A c \in todo' \cup results' : c[1] = a
    BY DEF Running
  <1>3. \A x \in Rows : x.seq = a => /\ x.kind = "assistant"
                                     /\ todo' \cup results' \subseteq x.calls
                                     /\ cancelled' \/ x.calls \subseteq todo' \cup results'
    <2> SUFFICES ASSUME NEW x \in Rows, x.seq = a
                 PROVE  /\ x.kind = "assistant"
                        /\ todo' \cup results' \subseteq x.calls
                        /\ cancelled' \/ x.calls \subseteq todo' \cup results'
      OBVIOUS
    <2>1. /\ x.kind = "assistant" /\ todo \cup results \subseteq x.calls
          /\ cancelled \/ x.calls \subseteq todo \cup results
      BY DEF Running
    <2>2. todo' \cup results' \subseteq x.calls
      BY <2>1
    <2>3. cancelled' \/ x.calls \subseteq todo' \cup results'
      BY <2>1
    <2>4. QED
      BY <2>1, <2>2, <2>3
  <1>4. /\ \A x \in Rows : a < x.seq => x.kind = "note"
        /\ a <= pruned \/ \E x \in Rows : x.seq = a
        /\ \A x \in Rows : x.kind = "assistant" /\ x.seq # a => \A c \in x.calls \ missed : AnsweredIn(Rows, c)
    BY DEF Running
  <1> HIDE DEF Rows
  <1>5. QED
    BY <1>1, <1>2, <1>3, <1>4 DEF Running

(* An abort is only noted.                                                     *)
LEMMA AbortKeeps == TurnInv /\ Abort => TurnInv'
  <1> SUFFICES ASSUME TurnInv, Abort PROVE TurnInv'
    OBVIOUS
  <1>1. UNCHANGED <<rows, seq, pc, rounds, compacted, todo, results, request, pruned, missed>> /\ cancelled' = TRUE
    BY DEF Abort, histVars
  <1>2. Rows' = Rows /\ Parts' = Parts
    BY <1>1 DEF Rows, Parts
  <1>3. TypeOK'
    BY <1>1 DEF TurnInv, TypeOK
  <1>4. Transcript'
    BY <1>1, <1>2 DEF TurnInv, Transcript
  <1>5. pc \in {"tools", "store"} => \E a \in 1..seq' : Running(a)'
    <2> SUFFICES ASSUME pc \in {"tools", "store"} PROVE \E a \in 1..seq' : Running(a)'
      OBVIOUS
    <2>1. PICK a \in 1..seq : Running(a)
      BY DEF TurnInv, Phased
    <2>2. a \in 1..seq' /\ Running(a)'
      BY <1>1, <1>2, <2>1, Basics, StillRunning
    <2>3. QED
      BY <2>2
  <1>6. Phased'
    BY <1>1, <1>2, <1>5 DEF TurnInv, Phased
  <1>7. Sent'
    BY <1>1, <1>2 DEF TurnInv, Sent
  <1>8. QED
    BY <1>1, <1>3, <1>4, <1>6, <1>7 DEF TurnInv, Repeated

(* The answer of the provider is stored; its calls become those of the tool loop.    *)
LEMMA StreamEndsKeeps == TurnInv /\ StreamEnds => TurnInv'
  <1> SUFFICES ASSUME TurnInv, StreamEnds PROVE TurnInv'
    OBVIOUS
  <1>1. pc = "stream" /\ UNCHANGED <<pruned, missed>>
    BY DEF StreamEnds, histVars
  <1>2. AllAnswered(Rows, missed) /\ (pruned = 0 => HasPrompt(Rows))
    BY <1>1 DEF TurnInv, Phased
  <1>3. PICK m \in 0..MaxCalls, said \in {"nothing", "thoughts", "text"} :
           /\ \/ (m > 0 \/ said = "text") /\ Write("assistant", NewCalls(m), 0)
              \/ m = 0 /\ said = "thoughts" /\ Write("thoughts", {}, 0)
              \/ m = 0 /\ said = "nothing" /\ UNCHANGED <<rows, seq>>
           /\ IF cancelled \/ m = 0
                THEN Ends
                ELSE /\ Goto("tools")
                     /\ todo' = NewCalls(m)
                     /\ results' = {}
                     /\ request' = <<>>
                     /\ UNCHANGED <<rounds, cancelled, compacted>>
    BY DEF StreamEnds, histVars
  <1>4. m \in Nat /\ (\A c \in NewCalls(m) : c[1] = seq + 1) /\ (m = 0 => NewCalls(m) = {})
    BY RowTypes DEF NewCalls
  <1>5. ASSUME m > 0 \/ said = "text"
        PROVE  \E x : /\ Wrote(x) /\ x.kind = "assistant" /\ x.calls = NewCalls(m)
                      /\ Story(Rows \cup {x}, seq + 1, pruned, missed)
                      /\ \A c : AnsweredIn(Rows \cup {x}, c) <=> AnsweredIn(Rows, c)
                      /\ NewCalls(m) \subseteq CallIds
    <2> DEFINE x == Stored("assistant", NewCalls(m), 0)
    <2>1. Write("assistant", NewCalls(m), 0)
      BY <1>3, <1>5
    <2>2. NewCalls(m) \in SUBSET CallIds
      <3>1. seq + 1 \in 0..MaxSeq
        BY <2>1, Basics, RowTypes DEF Write, Room
      <3>2. \A k \in 1..m : k \in 1..MaxCalls
        BY <1>4, RowTypes
      <3>3. QED
        BY <3>1, <3>2 DEF NewCalls, CallIds
    <2>3. Wrote(x) /\ x.kind = "assistant" /\ x.calls = NewCalls(m)
      <3>1. 0 \in 0..MaxSeq /\ "assistant" \in Kinds
        BY RowTypes DEF Kinds
      <3>2. QED
        BY <2>1, <2>2, <3>1, Written DEF TurnInv, Stored
    <2> HIDE DEF x
    <2>4. x \in Row /\ x.seq = seq + 1
      BY <2>3 DEF Wrote
    <2>5. Story(Rows \cup {x}, seq + 1, pruned, missed) /\ \A c : AnsweredIn(Rows \cup {x}, c) <=> AnsweredIn(Rows, c)
      BY <1>2, <1>4, <2>3, <2>4, Basics, Said
    <2>6. QED
      BY <2>2, <2>3, <2>5
  <1>6. /\ rows' \in Seq(Row) /\ Len(rows') <= MaxRows /\ Ordered(rows') /\ seq' \in 0..MaxSeq
        /\ Story(Rows', seq', pruned', missed') /\ (pruned' = 0 => HasPrompt(Rows'))
    <2>1. CASE m > 0 \/ said = "text"
      BY <1>1, <1>2, <1>5, <2>1 DEF Wrote, HasPrompt
    <2>2. CASE m = 0 /\ said = "thoughts"
      <3> DEFINE x == Stored("thoughts", {}, 0)
      <3>1. Write("thoughts", {}, 0)
        BY <1>3, <2>2
      <3>2. Wrote(x) /\ x.kind = "thoughts" /\ x.calls = {}
        <4>1. 0 \in 0..MaxSeq /\ "thoughts" \in Kinds /\ {} \in SUBSET CallIds
          BY RowTypes DEF Kinds
        <4>2. QED
          BY <3>1, <4>1, Written DEF TurnInv, Stored
      <3> HIDE DEF x
      <3> USE DEF Wrote
      <3>3. Story(Rows \cup {x}, seq + 1, pruned, missed)
        BY <1>2, <3>2, Basics, Said
      <3>4. QED
        BY <1>1, <1>2, <3>2, <3>3 DEF HasPrompt
    <2>3. CASE m = 0 /\ said = "nothing"
      <3>1. UNCHANGED <<rows, seq>>
        BY <1>3, <2>3
      <3>2. Rows' = Rows
        BY <3>1 DEF Rows
      <3>3. QED
        BY <1>1, <1>2, <3>1, <3>2, Basics DEF TurnInv, TypeOK
    <2>4. QED
      BY <1>4, <2>1, <2>2, <2>3
  <1>7. CASE cancelled \/ m = 0
    BY <1>1, <1>3, <1>6, <1>7, EndsKeeps
  <1>8. CASE ~(cancelled \/ m = 0)
    <2>1. /\ pc' = "tools" /\ todo' = NewCalls(m) /\ results' = {} /\ request' = <<>>
          /\ UNCHANGED <<rounds, cancelled, compacted>> /\ m > 0
      BY <1>3, <1>4, <1>8 DEF Goto
    <2>2. PICK x : /\ Wrote(x) /\ x.kind = "assistant" /\ x.calls = NewCalls(m)
                   /\ Story(Rows \cup {x}, seq + 1, pruned, missed)
                   /\ \A c : AnsweredIn(Rows \cup {x}, c) <=> AnsweredIn(Rows, c)
                   /\ NewCalls(m) \subseteq CallIds
      BY <1>5, <2>1
    <2>3. Sent' /\ request' \in Seq(Row)
      BY <2>1, NoRequest DEF TurnInv
    <2>4. TypeOK'
      BY <1>1, <1>6, <2>1, <2>2, <2>3 DEF TurnInv, TypeOK, Steps
    <2>5. Transcript'
      BY <1>6 DEF Transcript
    <2>6. \E a \in 1..seq' : Running(a)'
      <3>1. Rows' = Rows \cup {x} /\ x.seq = seq + 1 /\ seq' = seq + 1 /\ seq \in Nat
        BY <2>2, Basics DEF Wrote
      <3>2. \A y \in Rows : y.seq \in Nat /\ y.seq <= seq
        BY Basics
      <3>3. \A y \in Rows' : ~(seq + 1 < y.seq) /\ (y.seq = seq + 1 => y = x)
        BY <3>1, <3>2
      <3>4. \A y \in Rows' : y.kind = "assistant" /\ y.seq # seq + 1 => \A c \in y.calls \ missed' : AnsweredIn(Rows', c)
        BY <1>1, <1>2, <2>2, <3>1 DEF AllAnswered
      <3>5. seq + 1 \in 1..seq'
        BY <3>1
      <3>6. \A c \in todo' \cup results' : c[1] = seq + 1
        BY <1>4, <2>1
      <3>7. todo' \cup results' \subseteq x.calls /\ x.calls \subseteq todo' \cup results'
        BY <2>1, <2>2
      <3>8. x \in Rows' /\ x.seq = seq + 1
        BY <3>1
      <3>9. PICK a : a = seq + 1
        OBVIOUS
      <3>10. Running(a)'
        <4>1. a \in 1..seq' /\ (\A c \in todo' \cup results' : c[1] = a) /\ \E y \in Rows' : y.seq = a
          BY <3>5, <3>6, <3>8, <3>9
        <4>2. \A y \in Rows' : ~(a < y.seq) /\ (y.seq = a => y = x)
          BY <3>3, <3>9
        <4>3. \A y \in Rows' : y.kind = "assistant" /\ y.seq # a => \A c \in y.calls \ missed' : AnsweredIn(Rows', c)
          BY <3>4, <3>9
        <4> HIDE DEF Rows
        <4>4. QED
          BY <2>2, <3>7, <4>1, <4>2, <4>3 DEF Running
      <3>11. QED
        BY <3>5, <3>9, <3>10
    <2>7. Phased'
      BY <1>6, <2>1, <2>6 DEF Phased
    <2>8. QED
      BY <1>1, <2>3, <2>4, <2>5, <2>7 DEF TurnInv, Repeated
  <1>9. QED
    BY <1>7, <1>8

(* A step within the tool loop.                                                *)
LEMMA ToolLoopKeeps ==
  ASSUME TurnInv, UNCHANGED <<rows, rounds, cancelled, compacted, request, pruned, missed>>, pc = "tools",
         pc' \in {"tools", "store"}, pc' = "store" => todo' = {}, seq' \in {seq, seq + 1}, seq' <= MaxSeq,
         todo' \cup results' \subseteq todo \cup results,
         cancelled \/ todo \cup results \subseteq todo' \cup results'
  PROVE  TurnInv'
  <1>1. seq' \in Nat /\ seq <= seq' /\ seq' \in 0..MaxSeq /\ Rows' = Rows /\ request' = <<>>
    BY Basics, RowTypes DEF Rows
  <1>2. TypeOK'
    <2>1. todo' \subseteq CallIds /\ results' \subseteq CallIds
      BY DEF TurnInv, TypeOK
    <2>2. QED
      BY <1>1, <2>1 DEF TurnInv, TypeOK, Steps
  <1>3. Transcript'
    <2>1. Story(Rows, seq', pruned, missed)
      BY <1>1, Basics, Later
    <2>2. QED
      BY <1>1, <2>1, Basics DEF Transcript
  <1>4. \E a \in 1..seq' : Running(a)'
    <2>1. PICK a \in 1..seq : Running(a)
      BY DEF TurnInv, Phased
    <2>2. a \in 1..seq' /\ Running(a)'
      BY <1>1, <2>1, Basics, StillRunning
    <2>3. QED
      BY <2>2
  <1>5. Phased'
    BY <1>1, <1>4 DEF TurnInv, Phased
  <1>6. Sent'
    BY <1>1, NoRequest DEF TurnInv
  <1>7. QED
    BY <1>1, <1>2, <1>3, <1>5, <1>6 DEF TurnInv, Repeated

(* The steps of the tool loop.                                                 *)
LEMMA ToolsKeep == TurnInv /\ (Refuse \/ StopWaiting \/ ToolCall \/ ToolsDone) => TurnInv'
  <1> SUFFICES ASSUME TurnInv, Refuse \/ StopWaiting \/ ToolCall \/ ToolsDone PROVE TurnInv'
    OBVIOUS
  <1>1. seq \in Nat /\ seq <= MaxSeq /\ seq + 1 \in Nat /\ MaxSeq \in Nat
    BY Basics, RowTypes
  <1>2. NextCall \subseteq todo
    BY DEF NextCall
  <1>3. ASSUME Answer PROVE UNCHANGED pc /\ todo' \cup results' = todo \cup results
    <2>1. PICK c \in NextCall : results' = results \cup {c} /\ todo' = todo \ {c}
      BY <1>3 DEF Answer
    <2>2. c \in todo
      BY <1>2
    <2>3. QED
      BY <1>3, <2>1, <2>2 DEF Answer
  <1>4. CASE Refuse
    <2>1. /\ UNCHANGED <<rows, rounds, cancelled, compacted, request, pruned, missed>> /\ pc = "tools" /\ Answer
          /\ seq' = seq \/ (seq < MaxSeq /\ seq' = seq + 1)
      BY <1>4 DEF Refuse, histVars
    <2>2. seq' \in {seq, seq + 1} /\ seq' <= MaxSeq
      BY <1>1, <2>1
    <2>3. pc' = "tools" /\ todo' \cup results' = todo \cup results
      BY <1>3, <2>1
    <2>4. QED
      BY <2>1, <2>2, <2>3, ToolLoopKeeps
  <1>5. CASE StopWaiting
    <2>1. /\ UNCHANGED <<rows, rounds, cancelled, compacted, results, request, pruned, missed>> /\ pc = "tools" /\ cancelled
          /\ seq < MaxSeq /\ seq' = seq + 1 /\ todo' = {} /\ pc' = "store"
      BY <1>5 DEF StopWaiting, Goto, histVars
    <2>2. seq' \in {seq, seq + 1} /\ seq' <= MaxSeq
      BY <1>1, <2>1
    <2>3. todo' \cup results' \subseteq todo \cup results
      BY <2>1
    <2>4. QED
      BY <2>1, <2>2, <2>3, ToolLoopKeeps
  <1>6. CASE ToolCall
    <2>1. /\ UNCHANGED <<rows, rounds, cancelled, compacted, request, pruned, missed>> /\ pc = "tools"
          /\ seq < MaxSeq /\ seq' = seq + 1
          /\ \/ ~cancelled /\ Answer
             \/ cancelled /\ results' = results \cup NextCall /\ todo' = {} /\ pc' = "store"
      BY <1>6 DEF ToolCall, Goto, histVars
    <2>2. seq' \in {seq, seq + 1} /\ seq' <= MaxSeq
      BY <1>1, <2>1
    <2>3. CASE Answer
      BY <1>3, <2>1, <2>2, <2>3, ToolLoopKeeps
    <2>4. CASE cancelled /\ results' = results \cup NextCall /\ todo' = {} /\ pc' = "store"
      <3>1. todo' \cup results' \subseteq todo \cup results
        BY <1>2, <2>4
      <3>2. QED
        BY <2>1, <2>2, <2>4, <3>1, ToolLoopKeeps
    <2>5. QED
      BY <2>1, <2>3, <2>4
  <1>7. CASE ToolsDone
    <2>1. /\ UNCHANGED <<rows, seq, rounds, cancelled, compacted, todo, results, request, pruned, missed>>
          /\ pc = "tools" /\ pc' = "store" /\ todo = {}
      BY <1>7 DEF ToolsDone, Goto, histVars
    <2>2. seq' \in {seq, seq + 1} /\ seq' <= MaxSeq /\ todo' \cup results' = todo \cup results /\ todo' = {}
      BY <1>1, <2>1
    <2>3. QED
      BY <2>1, <2>2, ToolLoopKeeps
  <1>8. QED
    BY <1>4, <1>5, <1>6, <1>7

(* The results are stored behind the message whose calls they answer.               *)
LEMMA StoreResultsKeeps == TurnInv /\ StoreResults => TurnInv'
  <1> SUFFICES ASSUME TurnInv, StoreResults PROVE TurnInv'
    OBVIOUS
  <1> DEFINE x == Stored("results", results, 0)
  <1>1. /\ UNCHANGED <<rounds, cancelled, compacted, todo, request, pruned, missed>> /\ results' = {}
        /\ pc = "store" /\ pc' = "boundary"
    BY DEF StoreResults, Goto, histVars
  <1>2. PICK a \in 1..seq : Running(a)
    BY <1>1 DEF TurnInv, Phased
  <1>3. /\ todo = {} /\ (pruned = 0 => HasPrompt(Rows)) /\ Story(Rows, seq, pruned, missed) /\ seq \in Nat /\ pruned \in Nat
        /\ results \in SUBSET CallIds
    BY <1>1, Basics DEF TurnInv, Phased, TypeOK
  <1>4. /\ \A c \in results : c[1] = a
        /\ \A y \in Rows : a < y.seq => y.kind = "note"
        /\ \A y \in Rows : y.seq = a => y.kind = "assistant" /\ results \subseteq y.calls /\ (cancelled \/ y.calls \subseteq results)
        /\ a <= pruned \/ \E y \in Rows : y.seq = a
        /\ \A y \in Rows : y.kind = "assistant" /\ y.seq # a => \A c \in y.calls \ missed : AnsweredIn(Rows, c)
    BY <1>2, <1>3 DEF Running
  <1>5. /\ rows' \in Seq(Row) /\ Len(rows') <= MaxRows /\ Ordered(rows') /\ seq' \in 0..MaxSeq
        /\ Story(Rows', seq', pruned', missed') /\ (cancelled \/ AllAnswered(Rows', missed')) /\ (pruned' = 0 => HasPrompt(Rows'))
    <2>1. CASE results = {}
      <3>1. UNCHANGED <<rows, seq>> /\ Rows' = Rows
        BY <2>1 DEF StoreResults, Rows
      <3>2. cancelled \/ AllAnswered(Rows, missed)
        BY <1>4, <2>1 DEF AllAnswered
      <3>3. QED
        BY <1>1, <1>3, <3>1, <3>2, Basics DEF TurnInv, TypeOK
    <2>2. CASE results # {}
      <3>1. Wrote(x) /\ x.kind = "results" /\ x.calls = results
        <4>1. 0 \in 0..MaxSeq /\ "results" \in Kinds /\ Write("results", results, 0)
          BY <2>2, RowTypes DEF Kinds, StoreResults
        <4>2. QED
          BY <1>3, <4>1, Written DEF TurnInv, Stored
      <3> HIDE DEF x
      <3>2. x \in Row /\ x.seq = seq + 1
        BY <3>1 DEF Wrote
      <3>3. \A c \in results : ~AnsweredIn(Rows, c)
        <4> SUFFICES ASSUME NEW c \in results, NEW y \in Rows, y.kind = "results", c \in y.calls PROVE FALSE
          BY DEF AnsweredIn
        <4>1. c[1] < y.seq
          BY <1>3 DEF Story, Numbered
        <4>2. QED
          BY <1>4, <4>1
      <3>4. /\ \A c \in x.calls : c[1] = a /\ ~AnsweredIn(Rows, c)
            /\ \A y \in Rows : a < y.seq => y.kind \in {"results", "note"}
            /\ a <= pruned \/ \E y \in Rows : y.seq = a /\ y.kind = "assistant" /\ x.calls \subseteq y.calls
        BY <1>4, <3>1, <3>3
      <3>5. Story(Rows, seq, pruned, missed) /\ seq \in Nat /\ pruned \in Nat /\ x.kind = "results"
        BY <1>3, <3>1
      <3>6. Story(Rows \cup {x}, seq + 1, pruned, missed) /\ \A c : AnsweredIn(Rows \cup {x}, c) <=> AnsweredIn(Rows, c) \/ c \in x.calls
        BY <2>2, <3>1, <3>2, <3>4, <3>5, Answered
      <3>7. cancelled \/ AllAnswered(Rows \cup {x}, missed)
        <4>1. ASSUME ~cancelled, NEW y \in Rows, y.kind = "assistant", NEW c \in y.calls \ missed
              PROVE  AnsweredIn(Rows \cup {x}, c)
          BY <1>4, <3>1, <3>6, <4>1
        <4>2. QED
          BY <3>1, <4>1 DEF AllAnswered
      <3>8. QED
        BY <1>1, <1>3, <3>1, <3>6, <3>7 DEF Wrote, HasPrompt
    <2>3. QED
      BY <2>1, <2>2
  <1>6. TypeOK'
    BY <1>1, <1>5 DEF TurnInv, TypeOK, Steps
  <1>7. Transcript'
    BY <1>5 DEF Transcript
  <1>8. Phased'
    BY <1>1, <1>5 DEF Phased
  <1>9. Sent'
    BY <1>1, NoRequest DEF TurnInv, Sent
  <1>10. QED
    BY <1>1, <1>6, <1>7, <1>8, <1>9 DEF TurnInv, Repeated

(* A note may be written at any time.                                          *)
LEMMA RevertNoteKeeps == TurnInv /\ RevertNote => TurnInv'
  <1> SUFFICES ASSUME TurnInv, RevertNote PROVE TurnInv'
    OBVIOUS
  <1> DEFINE x == Stored("note", {}, 0)
  <1>1. UNCHANGED <<pc, rounds, cancelled, compacted, todo, results, request, pruned, missed>> /\ Parts' = Parts
    BY DEF RevertNote, turnVars, histVars, Parts
  <1>2. Wrote(x) /\ x.kind = "note" /\ x.calls = {}
    <2>1. 0 \in 0..MaxSeq /\ "note" \in Kinds /\ {} \in SUBSET CallIds /\ Write("note", {}, 0)
      BY RowTypes DEF Kinds, RevertNote
    <2>2. QED
      BY <2>1, Written DEF TurnInv, Stored
  <1> HIDE DEF x
  <1> USE DEF Wrote
  <1>3. /\ Story(Rows \cup {x}, seq + 1, pruned, missed) /\ (AllAnswered(Rows, missed) => AllAnswered(Rows \cup {x}, missed))
        /\ \A c : AnsweredIn(Rows \cup {x}, c) <=> AnsweredIn(Rows, c)
    BY <1>2, Basics, Said
  <1>4. TypeOK'
    BY <1>1, <1>2 DEF TurnInv, TypeOK
  <1>5. Transcript'
    BY <1>1, <1>2, <1>3 DEF Transcript
  <1>6. \A a \in 1..seq : Running(a) => Running(a)' /\ a \in 1..seq'
    <2> SUFFICES ASSUME NEW a \in 1..seq, Running(a) PROVE Running(a)' /\ a \in 1..seq'
      OBVIOUS
    <2>1. seq \in Nat /\ seq' = seq + 1 /\ x.seq = seq + 1 /\ Rows' = Rows \cup {x}
      BY <1>2, Basics
    <2>2. a \in 1..seq' /\ x.seq # a
      BY <2>1
    <2>3. \A y \in Rows' : a < y.seq => y.kind = "note"
      BY <1>2, <2>1 DEF Running
    <2>4. \A y \in Rows' : y.seq = a => y \in Rows
      BY <2>1, <2>2
    <2>5. \A y \in Rows' : y.kind = "assistant" /\ y.seq # a => \A c \in y.calls \ missed' : AnsweredIn(Rows', c)
      BY <1>1, <1>2, <1>3, <2>1 DEF Running
    <2>6. a <= pruned \/ \E y \in Rows' : y.seq = a
      BY <2>1 DEF Running
    <2>7. /\ \A c \in todo \cup results : c[1] = a
          /\ \A y \in Rows : y.seq = a => /\ y.kind = "assistant"
                                          /\ todo \cup results \subseteq y.calls
                                          /\ cancelled \/ y.calls \subseteq todo \cup results
      BY DEF Running
    <2> HIDE DEF Rows
    <2>8. QED
      BY <1>1, <2>2, <2>3, <2>4, <2>5, <2>6, <2>7 DEF Running
  <1>7. Phased'
    <2>1. (AllAnswered(Rows, missed) => AllAnswered(Rows', missed')) /\ (HasPrompt(Rows) => HasPrompt(Rows'))
      BY <1>1, <1>2, <1>3 DEF HasPrompt
    <2>2. QED
      BY <1>1, <1>6, <2>1 DEF TurnInv, Phased
  <1>8. Sent'
    <2>1. Telling(Parts, Rows, pruned) => Telling(Parts, Rows \cup {x}, pruned)
      BY <1>2 DEF Telling
    <2>2. QED
      BY <1>1, <1>2, <2>1 DEF TurnInv, Sent
  <1>9. QED
    BY <1>1, <1>4, <1>5, <1>7, <1>8 DEF TurnInv, Repeated

(* Manual compaction may delete rows at any time.                               *)
LEMMA PruneKeeps == TurnInv /\ Prune => TurnInv'
  <1> SUFFICES ASSUME TurnInv, Prune PROVE TurnInv'
    OBVIOUS
  <1> DEFINE cut == Last(rows).seq - KeepSeqs
             S == {k \in DOMAIN rows : rows[k].seq >= cut}
             T == {pruned} \cup {m.seq : m \in {n \in ToSet(rows) : n.seq < cut}}
  <1>1. /\ UNCHANGED <<seq, pc, rounds, cancelled, compacted, todo, results, request, missed>> /\ Parts' = Parts
        /\ rows' = Keeping(rows, S) /\ pruned' = Max(T) /\ rows # <<>>
    BY DEF Prune, turnVars, Parts
  <1>2. cut \in Int
    <2>1. rows \in Seq(Row) /\ rows # <<>>
      BY <1>1, Basics
    <2>2. rows[Len(rows)] \in Row
      BY <2>1
    <2>3. Last(rows).seq \in Nat
      BY <2>2, RowTypes DEF Last
    <2>4. QED
      BY <2>3, RowTypes
  <1>3. /\ pruned' \in 0..MaxSeq /\ pruned' \in Nat /\ pruned <= pruned'
        /\ \A y \in Rows : y.seq < cut => y.seq <= pruned'
        /\ pruned' <= seq /\ (pruned' = pruned \/ pruned' < cut)
    <2>1. T \subseteq 0..MaxSeq /\ pruned \in T /\ MaxSeq \in Nat
      <3>1. \A y \in ToSet(rows) : y.seq \in 0..MaxSeq
        <4>1. \A y \in ToSet(rows) : y.seq \in Nat /\ y.seq <= seq
          BY Basics DEF Rows
        <4>2. QED
          BY <4>1, Basics, RowTypes
      <3>2. QED
        BY <3>1, RowTypes DEF TurnInv, TypeOK
    <2>2. \A y \in Rows : y.seq < cut => y.seq \in T
      BY DEF Rows
    <2>0. \A y \in T : y <= seq /\ (y = pruned \/ y < cut)
      BY Basics DEF Rows
    <2> HIDE DEF T
    <2>3. pruned' \in T /\ \A y \in T : y <= pruned'
      <3>1. Max(T) \in T /\ \A y \in T : y <= Max(T)
        BY <2>1, Maximum
      <3>2. QED
        BY <1>1, <3>1
    <2>4. pruned' \in 0..MaxSeq /\ pruned' \in Nat
      BY <2>1, <2>3
    <2>5. pruned <= pruned' /\ \A y \in Rows : y.seq < cut => y.seq <= pruned'
      BY <2>1, <2>2, <2>3
    <2>6. QED
      BY <2>0, <2>3, <2>4, <2>5
  <1>4. /\ rows' \in Seq(Row) /\ Ordered(rows') /\ Len(rows') <= MaxRows
        /\ Rows' = {y \in Rows : y.seq >= cut}
    <2>1. rows \in Seq(Row) /\ Ordered(rows) /\ Len(rows) <= MaxRows /\ S \subseteq DOMAIN rows
      BY DEF TurnInv, TypeOK, Transcript
    <2>2. {rows[k] : k \in S} = {y \in Rows : y.seq >= cut}
      BY DEF Rows, ToSet
    <2> HIDE DEF S, cut
    <2>3. /\ Keeping(rows, S) \in Seq(Row) /\ Ordered(Keeping(rows, S))
          /\ Len(Keeping(rows, S)) = Cardinality(S) /\ Cardinality(S) \in Nat /\ Cardinality(S) <= Len(rows)
          /\ ToSet(Keeping(rows, S)) = {rows[k] : k \in S}
      BY <2>1, Kept
    <2>4. Len(rows') <= MaxRows
      BY <1>1, <2>1, <2>3, RowTypes
    <2>5. Rows' = ToSet(rows')
      BY DEF Rows
    <2>6. QED
      BY <1>1, <2>2, <2>3, <2>4, <2>5
  <1> HIDE DEF cut, S, T
  <1>5. /\ Story(Rows', seq, pruned', missed') /\ (AllAnswered(Rows, missed) => AllAnswered(Rows', missed'))
        /\ (pruned' = 0 => Rows' = Rows /\ pruned = 0)
        /\ \A x \in Rows : x.kind = "assistant" => \A c \in x.calls : x \in Rows' /\ AnsweredIn(Rows, c) => AnsweredIn(Rows', c)
    <2>1. PICK N : N = Rows'
      OBVIOUS
    <2>2. PICK k : k = pruned'
      OBVIOUS
    <2>3. PICK h : h = cut
      OBVIOUS
    <2>4. Story(Rows, seq, pruned, missed) /\ seq \in Nat /\ pruned \in Nat /\ Cuts(Rows, N, pruned, k, h) /\ k <= seq
      BY <1>2, <1>3, <1>4, <2>1, <2>2, <2>3, Basics DEF Cuts
    <2>5. /\ Story(N, seq, k, missed) /\ (AllAnswered(Rows, missed) => AllAnswered(N, missed)) /\ (k = 0 => N = Rows /\ pruned = 0)
          /\ \A x \in Rows : x.kind = "assistant" => \A c \in x.calls : x \in N /\ AnsweredIn(Rows, c) => AnsweredIn(N, c)
      BY <2>4, Pruned
    <2>6. QED
      BY <1>1, <2>1, <2>2, <2>5
  <1>6. Rows' \subseteq Rows /\ \A y \in Rows : y \in Rows' \/ (y.seq < cut /\ y.seq <= pruned')
    <2>1. \A y \in Rows : y.seq >= cut \/ y.seq < cut
      BY <1>2, Basics
    <2>2. QED
      BY <1>3, <1>4, <2>1
  <1>7. TypeOK'
    BY <1>1, <1>3, <1>4 DEF TurnInv, TypeOK
  <1>8. Transcript'
    BY <1>1, <1>4, <1>5 DEF Transcript
  <1>9. \A a \in 1..seq : Running(a) => Running(a)'
    <2> SUFFICES ASSUME NEW a \in 1..seq, Running(a) PROVE Running(a)'
      OBVIOUS
    <2>1. /\ \A c \in todo \cup results : c[1] = a
          /\ \A x \in Rows : a < x.seq => x.kind = "note"
          /\ \A x \in Rows : x.seq = a =>
               /\ x.kind = "assistant"
               /\ todo \cup results \subseteq x.calls
               /\ cancelled \/ x.calls \subseteq todo \cup results
          /\ a <= pruned \/ \E x \in Rows : x.seq = a
          /\ \A x \in Rows : x.kind = "assistant" /\ x.seq # a => \A c \in x.calls \ missed : AnsweredIn(Rows, c)
      BY DEF Running
    <2>2. a <= pruned' \/ \E x \in Rows' : x.seq = a
      <3>1. CASE a <= pruned
        BY <1>3, <3>1, Basics
      <3>2. CASE \E x \in Rows : x.seq = a
        BY <1>6, <3>2
      <3>3. QED
        BY <2>1, <3>1, <3>2
    <2>3. \A x \in Rows' : x.kind = "assistant" /\ x.seq # a => \A c \in x.calls \ missed' : AnsweredIn(Rows', c)
      BY <1>1, <1>5, <1>6, <2>1
    <2> HIDE DEF Rows
    <2>4. QED
      BY <1>1, <1>6, <2>1, <2>2, <2>3 DEF Running
  <1>10. Phased'
    <2>1. pc \in {"tools", "store"} => \E a \in 1..seq' : Running(a)'
      BY <1>1, <1>9 DEF TurnInv, Phased
    <2>2. QED
      BY <1>1, <1>5, <2>1 DEF TurnInv, Phased
  <1>11. Sent'
    <2>1. /\ (pc # "stream" => request = <<>>) /\ Ordered(request) /\ Matched(Parts, pruned, missed)
          /\ (pc = "stream" => Telling(Parts, Rows, pruned))
      BY DEF TurnInv, Sent
    <2>2. Matched(Parts, pruned', missed)
      <3>1. request \in Seq(Row)
        BY DEF TurnInv, TypeOK
      <3>2. \A x \in Parts : x \in Row
        BY <2>1, <3>1, OneEach DEF Parts
      <3>3. \A x \in Parts : \A c \in x.calls : c[1] \in Nat /\ (c[1] <= pruned => c[1] <= pruned')
        BY <1>3, <3>2, Basics, RowTypes
      <3>4. Backed(Parts, pruned', missed)
        BY <2>1, <3>3 DEF Matched, Backed
      <3>5. QED
        BY <2>1, <3>4 DEF Matched
    <2>3. ASSUME Telling(Parts, Rows, pruned) PROVE Telling(Parts, Rows', pruned')
      <3>1. ASSUME NEW x \in Rows', x.kind = "prompt", \A y \in Rows' : y.kind = "prompt" => y.seq <= x.seq
            PROVE  x \in Parts
        <4>1. \A y \in Rows : y \in Rows' \/ y.seq <= x.seq
          <5>1. x \in Rows /\ x.seq >= cut /\ x.seq \in Nat
            BY <1>4, Basics
          <5>2. QED
            BY <1>2, <1>6, <5>1, Basics
        <4>2. \A y \in Rows : y.kind = "prompt" => y.seq <= x.seq
          BY <3>1, <4>1
        <4>3. QED
          BY <1>6, <2>3, <3>1, <4>2 DEF Telling
      <3>2. QED
        BY <1>5, <2>3, <3>1 DEF Telling
    <2>4. QED
      BY <1>1, <2>1, <2>2, <2>3 DEF Sent
  <1>12. QED
    BY <1>1, <1>7, <1>8, <1>10, <1>11 DEF TurnInv, Repeated

-----------------------------------------------------------------------------

(* The invariant of one session's transcript, of the turn that works on it and of the *)
(* request it has made, for any bounds: run_session_turn, revert_session,            *)
(* compact_session.                                                           *)
THEOREM TurnInvariant == Spec => []TurnInv
  <1>1. Init => TurnInv
    <2> SUFFICES ASSUME Init PROVE TurnInv
      OBVIOUS
    <2> USE DEF Init
    <2>1. Rows = {} /\ Parts = {} /\ DOMAIN rows = {} /\ DOMAIN request = {}
      BY DEF Rows, Parts, ToSet
    <2>2. TypeOK
      <3>1. 0 \in 0..MaxSeq /\ 0 \in 0..MaxTurns /\ 0 <= MaxRows
        BY RowTypes
      <3>2. <<>> \in Seq(Row) /\ Len(<<>>) = 0
        OBVIOUS
      <3>3. QED
        BY <3>1, <3>2 DEF TypeOK, Steps
    <2>3. Transcript
      BY <2>1 DEF Transcript, Ordered, Story, Numbered, OnceIn, Backed, Together, OpenLast, Uncut, Unfolded
    <2>4. Phased
      BY DEF Phased
    <2>5. Sent
      BY <2>1 DEF Sent, Ordered, Matched, Numbered, OnceIn, Backed, Together, AllAnswered
    <2>6. QED
      BY <2>2, <2>3, <2>4, <2>5 DEF TurnInv, Repeated
  <1>2. TurnInv /\ [Next]_vars => TurnInv'
    <2>1. TurnInv /\ UNCHANGED vars => TurnInv'
      <3> SUFFICES ASSUME TurnInv, UNCHANGED vars PROVE TurnInv'
        OBVIOUS
      <3>1. UNCHANGED <<rows, seq, pc, rounds, cancelled, compacted, todo, results, request, pruned, missed>>
        BY DEF vars, turnVars, histVars
      <3>2. Rows' = Rows /\ Parts' = Parts /\ \A a : Running(a)' <=> Running(a)
        BY <3>1 DEF Rows, Parts, Running
      <3>3. TypeOK' /\ Transcript' /\ Sent'
        BY <3>1, <3>2 DEF TurnInv, TypeOK, Transcript, Sent
      <3>4. Phased'
        BY <3>1, <3>2 DEF TurnInv, Phased
      <3>5. QED
        BY <3>1, <3>3, <3>4 DEF TurnInv, Repeated
    <2>2. QED
      BY <2>1, StartKeeps, RecoverKeeps, PromoteKeeps, ReconcileKeeps, BoundaryKeeps, FoldSteersKeeps, AssembleKeeps,
         CompactKeeps, StreamEndsKeeps, ToolsKeep, StoreResultsKeeps, AbortKeeps, FailsKeeps, RevertNoteKeeps, PruneKeeps
      DEF Next
  <1>3. QED
    BY <1>1, <1>2, PTL DEF Spec

(* What the invariant says of a request is what a provider asks for.                 *)
LEMMA PairedOf == TurnInv => Paired
  <1> SUFFICES ASSUME TurnInv PROVE Paired
    OBVIOUS
  <1>1. /\ request \in Seq(Row) /\ Ordered(request) /\ DOMAIN request = 1..Len(request) /\ Len(request) \in Nat
        /\ Matched(Parts, pruned, missed) /\ Parts = {request[k] : k \in DOMAIN request}
        /\ \A k \in DOMAIN request : request[k] \in Parts
    <2>1. request \in Seq(Row) /\ Ordered(request) /\ Matched(Parts, pruned, missed)
      BY DEF TurnInv, TypeOK, Sent
    <2>2. QED
      BY <2>1 DEF Parts, ToSet
  <1>2. \A j, k \in DOMAIN request : request[j].seq < request[k].seq => j < k
    BY <1>1, OneEach
  <1>3. \A j, k \in DOMAIN request : request[j] = request[k] => j = k
    <2>1. \A k \in DOMAIN request : request[k].seq \in Nat
      BY <1>1, RowTypes
    <2>2. \A j, k \in DOMAIN request : j < k \/ k < j \/ j = k
      BY <1>1
    <2>3. ASSUME NEW j \in DOMAIN request, NEW k \in DOMAIN request, j < k PROVE request[j] # request[k]
      <3>1. request[j].seq < request[k].seq
        BY <1>1, <2>3 DEF Ordered
      <3>2. request[j].seq \in Nat
        BY <2>1
      <3>3. QED
        BY <3>1, <3>2
    <2>4. QED
      BY <2>2, <2>3
  <1>4. ASSUME NEW j \in DOMAIN request, NEW k \in DOMAIN request, NEW c, Makes(j, c), Answers(k, c)
        PROVE  c[1] = request[j].seq /\ c[1] < request[k].seq /\ j < k
    <2>1. c[1] = request[j].seq /\ c[1] < request[k].seq
      BY <1>1, <1>4 DEF Makes, Answers, Matched, Numbered
    <2>2. QED
      BY <1>2, <2>1
  <1>5. AnsweredOnce
    <2> SUFFICES ASSUME NEW k \in DOMAIN request, NEW c \in request[k].calls \ missed, Makes(k, c)
                 PROVE  Cardinality({j \in DOMAIN request : j > k /\ Answers(j, c)}) = 1
      BY DEF AnsweredOnce
    <2>1. PICK j \in DOMAIN request : Answers(j, c)
      <3>1. request[k].kind = "assistant"
        BY DEF Makes
      <3>2. AnsweredIn(Parts, c)
        BY <1>1, <3>1 DEF Matched, AllAnswered
      <3>3. QED
        BY <1>1, <3>2 DEF AnsweredIn, Answers
    <2>2. j > k
      BY <1>1, <1>4, <2>1
    <2>3. \A i \in DOMAIN request : Answers(i, c) => i = j
      BY <1>1, <1>3, <2>1 DEF Answers, Matched, OnceIn
    <2>4. {i \in DOMAIN request : i > k /\ Answers(i, c)} = {j}
      BY <2>1, <2>2, <2>3
    <2>5. QED
      BY <2>4, FS_Singleton
  <1>6. ResultsHaveCalls
    <2> SUFFICES ASSUME NEW k \in DOMAIN request, NEW c \in request[k].calls \ missed, Answers(k, c), ~(c[1] <= pruned)
                 PROVE  \E j \in 1..(k - 1) : Makes(j, c)
      BY DEF ResultsHaveCalls
    <2>1. PICK j \in DOMAIN request : Makes(j, c)
      <3>1. request[k].kind = "results" /\ request[k] \in Parts
        BY <1>1 DEF Answers
      <3>2. PICK y \in Parts : y.kind = "assistant" /\ c \in y.calls
        BY <1>1, <3>1 DEF Matched, Backed
      <3>3. QED
        BY <1>1, <3>2 DEF Makes
    <2>2. j < k
      BY <1>4, <2>1
    <2>3. QED
      BY <1>1, <2>1, <2>2
  <1>7. ResultsFollow
    <2> SUFFICES ASSUME NEW j \in DOMAIN request, NEW k \in DOMAIN request, NEW c \in Requested \ missed,
                        Makes(j, c), Answers(k, c), NEW i \in (j + 1)..k
                 PROVE  request[i].kind \in {"results", "note"}
      BY DEF ResultsFollow
    <2>1. CASE i = k
      BY <2>1 DEF Answers
    <2>2. CASE i # k
      <3>1. i \in DOMAIN request /\ j < i /\ i < k
        <4>1. Len(request) \in Nat /\ j \in 1..Len(request) /\ k \in 1..Len(request)
          BY <1>1
        <4>2. i \in 1..Len(request) /\ j < i /\ i < k
          BY <2>2, <4>1
        <4>3. QED
          BY <1>1, <4>2
      <3>2. request[j].seq < request[i].seq /\ request[i].seq < request[k].seq
        BY <1>1, <3>1 DEF Ordered
      <3>3. c[1] < request[i].seq
        BY <1>4, <3>2
      <3>4. QED
        BY <1>1, <3>1, <3>2, <3>3 DEF Matched, Together, Answers
    <2>3. QED
      BY <2>1, <2>2
  <1>8. QED
    BY <1>5, <1>6, <1>7 DEF Paired, TurnInv, OverlooksRepeated, Repeated

(* In every request of run_session_turn every call has exactly one result, which       *)
(* follows it with nothing but results and notes in between, and no result lacks its    *)
(* call unless manual compaction deleted it; excepted are the interrupted calls that    *)
(* recovery took for answered, another stream having made up the same id.               *)
THEOREM RequestsPaired == Spec => []Paired
  <1>1. QED
    BY TurnInvariant, PairedOf, PTL

(* What the invariant says of prompts, by their places.                           *)
LEMMA HoldsPromptOf == TurnInv => HoldsPrompt
  <1> SUFFICES ASSUME TurnInv, pc = "stream" PROVE HoldsPrompt
    BY DEF HoldsPrompt
  <1>1. /\ request \in Seq(Row) /\ Ordered(request) /\ DOMAIN request = 1..Len(request) /\ Len(request) \in Nat
        /\ rows \in Seq(Row) /\ Ordered(rows) /\ Telling(Parts, Rows, pruned)
    BY DEF TurnInv, TypeOK, Transcript, Sent
  <1>2. /\ Parts = {request[k] : k \in DOMAIN request} /\ Rows = {rows[k] : k \in DOMAIN rows} /\ Parts = ToSet(request)
        /\ DOMAIN rows = 1..Len(rows) /\ Len(rows) \in Nat
        /\ \A k \in DOMAIN request : request[k] \in Row /\ request[k].seq \in Nat
        /\ \A k \in DOMAIN rows : rows[k] \in Row /\ rows[k].seq \in Nat
    <2>1. /\ \A k \in DOMAIN request : request[k] \in Row
          /\ \A k \in DOMAIN rows : rows[k] \in Row /\ DOMAIN rows = 1..Len(rows) /\ Len(rows) \in Nat
      BY <1>1
    <2>2. DOMAIN rows = 1..Len(rows) /\ Len(rows) \in Nat
      BY <1>1
    <2>3. QED
      BY <2>1, <2>2, RowTypes DEF Parts, Rows, ToSet
  <1>3. ASSUME NEW k \in Newest(Prompts(rows)) PROVE rows[k] \in ToSet(request)
    <2>1. k \in DOMAIN rows /\ rows[k].kind = "prompt" /\ \A j \in DOMAIN rows : rows[j].kind = "prompt" => j <= k
      BY DEF Newest, Prompts
    <2>2. \A j \in DOMAIN rows : j <= k => rows[j].seq <= rows[k].seq
      <3>1. \A j \in DOMAIN rows : j <= k => j < k \/ j = k
        BY <1>2, <2>1
      <3>2. QED
        BY <1>1, <1>2, <2>1, <3>1 DEF Ordered
    <2>3. \A y \in Rows : y.kind = "prompt" => y.seq <= rows[k].seq
      BY <1>2, <2>1, <2>2
    <2>4. QED
      BY <1>1, <1>2, <2>1, <2>3 DEF Telling
  <1>4. ASSUME pruned = 0 PROVE Prompts(request) # {}
    BY <1>1, <1>2, <1>4 DEF Telling, HasPrompt, Prompts
  <1>5. ASSUME pruned = 0, NEW k \in DOMAIN request, \A j \in Prompts(request) : k < j
        PROVE  request[k].kind \in {"system", "note"}
    <2>1. ASSUME NEW j \in DOMAIN request, request[j].kind = "prompt" PROVE request[k].seq < request[j].seq
      <3>1. k < j
        BY <1>5, <2>1 DEF Prompts
      <3>2. QED
        BY <1>1, <3>1 DEF Ordered
    <2>2. \A y \in Parts : y.kind = "prompt" => ~(y.seq <= request[k].seq)
      BY <1>2, <2>1
    <2>3. QED
      BY <1>1, <1>2, <1>5, <2>2 DEF Telling
  <1>6. QED
    BY <1>3, <1>4, <1>5 DEF HoldsPrompt

(* Every request of run_session_turn holds the prompt promoted last and, manual          *)
(* compaction aside, opens with a prompt: no folding hides what the turn is about.       *)
THEOREM PromptHeld == Spec => []HoldsPrompt
  <1>1. QED
    BY TurnInvariant, HoldsPromptOf, PTL

-----------------------------------------------------------------------------
(* Recursion over sequences.                                                  *)

(* h is what a step function makes of a sequence's first elements, one by one.      *)
Runs(h, s, A, a, step) ==
    /\ h \in [0..Len(s) -> A] /\ h[0] = a
    /\ \A n \in 1..Len(s) : h[n] = step[<<h[n - 1], s[n]>>]

(* There is such an h for every sequence.                                        *)
LEMMA RunExists ==
  ASSUME NEW E, NEW A, NEW a \in A, NEW step \in [A \X E -> A], NEW s \in Seq(E)
  PROVE  \E h : Runs(h, s, A, a, step)
  <1> DEFINE Upto(h, k) == /\ h \in [0..k -> A] /\ h[0] = a
                           /\ \A n \in 1..k : h[n] = step[<<h[n - 1], s[n]>>]
  <1> DEFINE bad == {k \in 0..Len(s) : ~ \E h : Upto(h, k)}
  <1>0. Len(s) \in Nat
    OBVIOUS
  <1>1. 0 \notin bad
    <2> DEFINE h == [n \in 0..0 |-> a]
    <2>1. h \in [0..0 -> A] /\ h[0] = a /\ 1..0 = {}
      OBVIOUS
    <2>2. Upto(h, 0)
      BY <2>1
    <2>3. QED
      BY <2>2
  <1>2. ASSUME NEW k \in 1..Len(s), NEW g, Upto(g, k - 1) PROVE \E h : Upto(h, k)
    <2> DEFINE h == [n \in 0..k |-> IF n = k THEN step[<<g[k - 1], s[k]>>] ELSE g[n]]
    <2>1. s[k] \in E /\ k \in Nat /\ k - 1 \in 0..(k - 1) /\ k # 0
      BY <1>0, ElementOfSeq
    <2>2. g[k - 1] \in A
      BY <1>2, <2>1
    <2>3. <<g[k - 1], s[k]>> \in A \X E
      BY <2>1, <2>2
    <2>4. step[<<g[k - 1], s[k]>>] \in A
      BY <2>3
    <2>5. \A n \in 0..k : n # k => n \in 0..(k - 1)
      BY <2>1
    <2>6. h \in [0..k -> A]
      BY <1>2, <2>4, <2>5
    <2>7. h[0] = a
      BY <1>2, <2>1
    <2>8. \A n \in 1..k : h[n] = step[<<h[n - 1], s[n]>>]
      <3> TAKE n \in 1..k
      <3>1. n \in 0..k /\ n - 1 \in 0..k /\ n - 1 # k
        BY <2>1
      <3>2. h[n - 1] = g[n - 1]
        BY <3>1
      <3>3. CASE n = k
        BY <3>1, <3>2, <3>3
      <3>4. CASE n # k
        <4>1. n \in 1..(k - 1)
          BY <2>1, <3>4
        <4>2. h[n] = g[n]
          BY <3>1, <3>4
        <4>3. QED
          BY <1>2, <3>2, <4>1, <4>2
      <3>5. QED
        BY <3>3, <3>4
    <2> HIDE DEF h
    <2>9. Upto(h, k)
      BY <2>6, <2>7, <2>8
    <2>10. QED
      BY <2>9
  <1> HIDE DEF Upto
  <1>3. bad = {}
    <2> SUFFICES ASSUME bad # {} PROVE FALSE
      OBVIOUS
    <2>1. bad \subseteq Nat
      BY <1>0
    <2>2. PICK k \in bad : \A m \in bad : k <= m
      BY <2>1, Least
    <2>3. k \in 1..Len(s) /\ k - 1 \in 0..Len(s) /\ ~ (k <= k - 1)
      BY <1>0, <1>1, <2>2
    <2>4. k - 1 \notin bad
      BY <2>2, <2>3
    <2>5. PICK g : Upto(g, k - 1)
      BY <2>3, <2>4
    <2>6. QED
      BY <1>2, <2>2, <2>3, <2>5
  <1>4. \E h : Upto(h, Len(s))
    BY <1>0, <1>3
  <1>5. QED
    BY <1>4 DEF Upto, Runs

Begins(t, s) == Len(t) <= Len(s) /\ \A n \in 1..Len(t) : t[n] = s[n]

(* What is made of the first elements does not depend on those that follow.           *)
LEMMA RunUnique ==
  ASSUME NEW E, NEW A, NEW a, NEW step, NEW s \in Seq(E), NEW t \in Seq(E), Begins(t, s),
         NEW h, NEW g, Runs(h, s, A, a, step), Runs(g, t, A, a, step)
  PROVE  \A n \in 0..Len(t) : h[n] = g[n]
  <1> DEFINE bad == {n \in 0..Len(t) : h[n] # g[n]}
  <1>0. Len(s) \in Nat /\ Len(t) \in Nat
    OBVIOUS
  <1>1. 0 \notin bad
    BY DEF Runs
  <1>2. bad = {}
    <2> SUFFICES ASSUME bad # {} PROVE FALSE
      OBVIOUS
    <2>1. bad \subseteq Nat
      BY <1>0
    <2>2. PICK k \in bad : \A m \in bad : k <= m
      BY <2>1, Least
    <2>3. k \in 1..Len(t) /\ k \in 1..Len(s) /\ k - 1 \in 0..Len(t) /\ ~ (k <= k - 1)
      BY <1>0, <1>1, <2>2 DEF Begins
    <2>4. h[k - 1] = g[k - 1]
      BY <2>2, <2>3
    <2>5. h[k] = step[<<h[k - 1], s[k]>>] /\ g[k] = step[<<g[k - 1], t[k]>>]
      BY <2>3 DEF Runs
    <2>6. t[k] = s[k]
      BY <2>3 DEF Begins
    <2>7. QED
      BY <2>2, <2>4, <2>5, <2>6
  <1>3. QED
    BY <1>2

(* A sequence that is not empty is its front and its last element.                  *)
LEMMA FrontLast ==
  ASSUME NEW E, NEW s \in Seq(E), s # <<>>
  PROVE  /\ Front(s) \in Seq(E) /\ Last(s) \in E /\ Last(s) = s[Len(s)]
         /\ Len(s) \in Nat \ {0} /\ Len(Front(s)) = Len(s) - 1
         /\ \A n \in 1..Len(Front(s)) : Front(s)[n] = s[n]
  <1>1. Len(s) \in Nat \ {0}
    BY EmptySeq
  <1>2. \A n \in 1..(Len(s) - 1) : s[n] \in E
    BY <1>1, ElementOfSeq
  <1>3. /\ SubSeq(s, 1, Len(s) - 1) \in Seq(E)
        /\ Len(SubSeq(s, 1, Len(s) - 1)) = IF 1 <= Len(s) - 1 THEN (Len(s) - 1) - 1 + 1 ELSE 0
        /\ \A n \in 1..((Len(s) - 1) - 1 + 1) : SubSeq(s, 1, Len(s) - 1)[n] = s[1 + n - 1]
    BY <1>1, <1>2, SubSeqProperties
  <1>4. s[Len(s)] \in E
    BY <1>1, ElementOfSeq
  <1>5. Len(Front(s)) = Len(s) - 1
    <2>1. Len(Front(s)) = IF 1 <= Len(s) - 1 THEN (Len(s) - 1) - 1 + 1 ELSE 0
      BY <1>3 DEF Front
    <2> DEFINE n == Len(s)
    <2>2. n \in Nat \ {0}
      BY <1>1
    <2> HIDE DEF n
    <2>3. (IF 1 <= n - 1 THEN (n - 1) - 1 + 1 ELSE 0) = n - 1
      BY <2>2
    <2>4. QED
      BY <2>1, <2>3 DEF n
  <1>6. \A n \in 1..Len(Front(s)) : Front(s)[n] = s[n]
    <2> TAKE n \in 1..Len(Front(s))
    <2>1. n \in 1..((Len(s) - 1) - 1 + 1) /\ 1 + n - 1 = n
      BY <1>1, <1>5
    <2>2. QED
      BY <1>3, <2>1 DEF Front
  <1>7. QED
    BY <1>1, <1>3, <1>4, <1>5, <1>6 DEF Front, Last

Recurs(f, E, A, a, step) ==
    /\ f \in [Seq(E) -> A]
    /\ f = [s \in Seq(E) |-> IF s = <<>> THEN a ELSE step[<<f[Front(s)], Last(s)>>]]

(* A function over sequences may be defined by the front and the last element.         *)
LEMMA Recursion ==
  ASSUME NEW E, NEW A, NEW a \in A, NEW step \in [A \X E -> A]
  PROVE  \E f : Recurs(f, E, A, a, step)
  <1> DEFINE run(s) == CHOOSE h : Runs(h, s, A, a, step)
  <1> DEFINE f == [s \in Seq(E) |-> run(s)[Len(s)]]
  <1>1. ASSUME NEW s \in Seq(E) PROVE Runs(run(s), s, A, a, step)
    <2>1. \E h : Runs(h, s, A, a, step)
      BY RunExists
    <2>2. QED
      BY <2>1
  <1> HIDE DEF run
  <1>2. ASSUME NEW s \in Seq(E) PROVE run(s)[Len(s)] \in A
    <2>1. Len(s) \in 0..Len(s)
      OBVIOUS
    <2>2. QED
      BY <1>1, <2>1 DEF Runs
  <1>3. f \in [Seq(E) -> A]
    BY <1>2
  <1>4. ASSUME NEW s \in Seq(E) PROVE f[s] = IF s = <<>> THEN a ELSE step[<<f[Front(s)], Last(s)>>]
    <2>1. CASE s = <<>>
      <3>1. Len(s) = 0
        BY <2>1, EmptySeq
      <3>2. run(s)[0] = a
        BY <1>1 DEF Runs
      <3>3. QED
        BY <2>1, <3>1, <3>2
    <2>2. CASE s # <<>>
      <3> DEFINE t == Front(s)
      <3>1. t \in Seq(E) /\ Len(s) \in Nat \ {0} /\ Len(t) = Len(s) - 1 /\ Last(s) = s[Len(s)]
            /\ \A n \in 1..Len(t) : t[n] = s[n]
        BY <2>2, FrontLast
      <3> HIDE DEF t
      <3>2. Runs(run(s), s, A, a, step) /\ Runs(run(t), t, A, a, step)
        BY <1>1, <3>1
      <3>3. \A n \in 0..Len(t) : run(s)[n] = run(t)[n]
        <4>1. Begins(t, s)
          BY <3>1 DEF Begins
        <4> DEFINE h == run(s)
        <4> DEFINE g == run(t)
        <4>2. Runs(h, s, A, a, step) /\ Runs(g, t, A, a, step)
          BY <3>2
        <4>3. t \in Seq(E) /\ \A n \in 1..Len(t) : t[n] = s[n]
          BY <3>1
        <4> HIDE DEF f
        <4> HIDE DEF h, g
        <4>4. \A n \in 0..Len(t) : h[n] = g[n]
          BY <3>1, <4>1, <4>2, RunUnique
        <4>5. QED
          BY <4>4 DEF h, g
      <3>4. run(s)[Len(s) - 1] = run(t)[Len(t)]
        BY <3>1, <3>3
      <3>5. run(s)[Len(s)] = step[<<run(s)[Len(s) - 1], s[Len(s)]>>]
        <4>1. Len(s) \in 1..Len(s)
          BY <3>1
        <4>2. QED
          BY <3>2, <4>1 DEF Runs
      <3>6. f[t] = run(t)[Len(t)]
        BY <3>1
      <3>7. f[s] = step[<<f[t], Last(s)>>]
        BY <3>1, <3>4, <3>5, <3>6
      <3>8. QED
        BY <2>2, <3>7 DEF t
    <2>3. QED
      BY <2>1, <2>2
  <1> HIDE DEF f
  <1>5. f = [s \in Seq(E) |-> IF s = <<>> THEN a ELSE step[<<f[Front(s)], Last(s)>>]]
    <2>1. f = [s \in Seq(E) |-> f[s]]
      BY <1>3
    <2>2. QED
      BY <1>4, <2>1
  <1>6. Recurs(f, E, A, a, step)
    BY <1>3, <1>5 DEF Recurs
  <1>7. QED
    BY <1>6

-----------------------------------------------------------------------------
(* The files in the order of the map.                                            *)

Counts == [Paths -> Nat]

Listed(counts) == {i \in DOMAIN PathOrder : counts[PathOrder[i]] # 0}

(* The paths are known by their places in the order of their text.                   *)
LEMMA PathPlaces ==
  /\ PathOrder \in Seq(Paths) /\ DOMAIN PathOrder = 1..Len(PathOrder) /\ Len(PathOrder) \in Nat
  /\ \A i \in DOMAIN PathOrder : PathOrder[i] \in Paths
  <1>1. PathOrder \in Seq(Paths)
    BY IndexAssumption
  <1>2. QED
    BY <1>1, LenProperties, ElementOfSeq

(* The listed paths are finitely many, and their order is strict and total.            *)
LEMMA Order ==
  ASSUME NEW counts \in Counts
  PROVE  /\ IsFiniteSet(Listed(counts))
         /\ \A i, j \in Listed(counts) : i # j => Before(counts, i, j) \/ Before(counts, j, i)
         /\ \A i, j \in Listed(counts) : Before(counts, i, j) => i # j /\ ~Before(counts, j, i)
         /\ \A i, j, k \in Listed(counts) : Before(counts, i, j) /\ Before(counts, j, k) => Before(counts, i, k)
  <1>1. Listed(counts) \in SUBSET (1..Len(PathOrder))
    BY PathPlaces DEF Listed
  <1>2. IsFiniteSet(1..Len(PathOrder))
    BY PathPlaces, FS_Interval
  <1>3. IsFiniteSet(Listed(counts))
    BY <1>1, <1>2, FS_Subset
  <1>4. \A i \in Listed(counts) : i \in Nat /\ counts[PathOrder[i]] \in Nat
    BY <1>1, PathPlaces DEF Listed, Counts
  <1>5. QED
    BY <1>3, <1>4 DEF Before

(* They can be put in that order.                                               *)
LEMMA SortedExists ==
  ASSUME NEW counts \in Counts
  PROVE  /\ Cardinality(Listed(counts)) \in Nat
         /\ \E s \in [1..Cardinality(Listed(counts)) -> Listed(counts)] :
               \A j, k \in 1..Cardinality(Listed(counts)) : j < k => Before(counts, s[j], s[k])
  <1> DEFINE L == Listed(counts)
  <1> DEFINE n == Cardinality(L)
  <1> DEFINE upto(i) == {j \in L : j = i \/ Before(counts, j, i)}
  <1> DEFINE place == [i \in L |-> Cardinality(upto(i))]
  <1>0. IsFiniteSet(L) /\ n \in Nat
    BY Order, FS_CardinalityType
  <1>1. ASSUME NEW i \in L PROVE IsFiniteSet(upto(i)) /\ Cardinality(upto(i)) \in 1..n
    <2>1. upto(i) \in SUBSET L
      OBVIOUS
    <2>2. IsFiniteSet(upto(i)) /\ Cardinality(upto(i)) <= n
      BY <1>0, <2>1, FS_Subset
    <2>3. upto(i) # {}
      OBVIOUS
    <2>4. Cardinality(upto(i)) \in Nat /\ Cardinality(upto(i)) # 0
      BY <2>2, <2>3, FS_CardinalityType, FS_EmptySet
    <2>5. QED
      BY <1>0, <2>2, <2>4
  <1>2. ASSUME NEW i \in L, NEW j \in L, Before(counts, i, j) PROVE Cardinality(upto(i)) < Cardinality(upto(j))
    <2>1. j \in upto(j) /\ j \notin upto(i)
      BY <1>2, Order
    <2>2. upto(i) \in SUBSET upto(j)
      BY <1>2, Order
    <2>3. /\ Cardinality(upto(i)) <= Cardinality(upto(j))
          /\ Cardinality(upto(j)) = Cardinality(upto(i)) => upto(j) = upto(i)
      BY <1>1, <2>2, FS_Subset
    <2> HIDE DEF upto
    <2>4. Cardinality(upto(i)) # Cardinality(upto(j))
      BY <2>1, <2>3
    <2>5. Cardinality(upto(i)) \in Nat /\ Cardinality(upto(j)) \in Nat
      BY <1>1
    <2>6. QED
      BY <2>3, <2>4, <2>5
  <1> HIDE DEF upto
  <1>3. place \in [L -> 1..n] /\ \A i \in L : place[i] = Cardinality(upto(i))
    BY <1>1
  <1> HIDE DEF place, L
  <1>4. \A i, j \in L : place[i] = place[j] => i = j
    <2> SUFFICES ASSUME NEW i \in L, NEW j \in L, place[i] = place[j], i # j PROVE FALSE
      OBVIOUS
    <2>1. Before(counts, i, j) \/ Before(counts, j, i)
      BY Order DEF L
    <2>2. place[i] < place[j] \/ place[j] < place[i]
      BY <1>2, <1>3, <2>1
    <2>3. place[i] \in Nat /\ place[j] \in Nat
      BY <1>3
    <2>4. QED
      BY <2>2, <2>3
  <1>5. \A k \in 1..n : \E i \in L : place[i] = k
    <2>1. place \in Injection(L, 1..n)
      BY <1>3, <1>4 DEF Injection, IsInjective
    <2>2. IsFiniteSet(1..n) /\ Cardinality(1..n) = n
      BY <1>0, FS_Interval
    <2>3. place \in Surjection(L, 1..n)
      BY <2>1, <2>2, FS_Injection
    <2>4. QED
      BY <2>3 DEF Surjection
  <1> DEFINE s == [k \in 1..n |-> CHOOSE i \in L : place[i] = k]
  <1>6. \A k \in 1..n : s[k] \in L /\ place[s[k]] = k
    BY <1>5
  <1>7. s \in [1..n -> L]
    BY <1>6
  <1> HIDE DEF s
  <1>8. \A j, k \in 1..n : j < k => Before(counts, s[j], s[k])
    <2> SUFFICES ASSUME NEW j \in 1..n, NEW k \in 1..n, j < k, ~Before(counts, s[j], s[k]) PROVE FALSE
      OBVIOUS
    <2>1. s[j] \in L /\ s[k] \in L /\ place[s[j]] = j /\ place[s[k]] = k
      BY <1>6
    <2>2. s[j] # s[k]
      BY <2>1
    <2>3. Before(counts, s[k], s[j])
      BY <2>1, <2>2, Order DEF L
    <2>4. k < j
      BY <1>2, <1>3, <2>1, <2>3
    <2>5. QED
      BY <1>0, <2>4
  <1>9. QED
    BY <1>0, <1>7, <1>8 DEF L

(* The ranking is a sequence of paths.                                            *)
LEMMA RankedTyped ==
  ASSUME NEW counts \in Counts
  PROVE  Ranked(counts) \in Seq(Paths)
  <1> DEFINE n == Cardinality(Listed(counts))
  <1> DEFINE sorted == CHOOSE s \in [1..n -> Listed(counts)] :
                          \A j, k \in 1..n : j < k => Before(counts, s[j], s[k])
  <1>1. n \in Nat /\ sorted \in [1..n -> Listed(counts)]
    BY SortedExists
  <1>2. Ranked(counts) = [k \in 1..n |-> PathOrder[sorted[k]]]
    BY DEF Ranked, Listed
  <1> HIDE DEF sorted, n
  <1>3. \A k \in 1..n : PathOrder[sorted[k]] \in Paths
    BY <1>1, PathPlaces DEF Listed
  <1>4. [k \in 1..n |-> PathOrder[sorted[k]]] \in Seq(Paths)
    BY <1>1, <1>3
  <1>5. QED
    BY <1>2, <1>4

-----------------------------------------------------------------------------
(* The map.                                                                    *)

Maps == [blocks : Seq(Blocks), used : Nat, omitted : Nat]

(* A product of numbers is a number.                                            *)
LEMMA Product ==
  ASSUME NEW m \in Nat, NEW n \in Nat
  PROVE  m * n \in Nat
  OBVIOUS

LEMMA Costs == {Budget, MaxSymbols} \subseteq Nat /\ {HeaderCost, LineCost, MarkerCost} \subseteq Nat \ {0}
  BY IndexAssumption

(* A block's cost is a number.                                                   *)
LEMMA CostTyped ==
  ASSUME NEW b \in Blocks
  PROVE  BlockCost(b) \in Nat
  <1>1. b.shown \in Nat /\ b.cut \in Nat
    BY DEF Blocks
  <1>2. b.shown * LineCost \in Nat
    BY <1>1, Costs, Product
  <1> DEFINE lines == b.shown * LineCost
  <1> HIDE DEF lines
  <1>3. lines \in Nat => HeaderCost + lines + (IF b.cut > 0 THEN MarkerCost ELSE 0) \in Nat
    BY Costs
  <1>4. QED
    BY <1>2, <1>3 DEF BlockCost, lines

(* A block is cut to the room there is, but for its marker.                          *)
LEMMA BlockFits ==
  ASSUME NEW p \in Paths, NEW n \in Nat, NEW room \in Nat, HeaderCost < room
  PROVE  FileBlock(p, n, room) \in Blocks /\ BlockCost(FileBlock(p, n, room)) <= room + MarkerCost
  <1> DEFINE Fits(k) == k = 0 \/ HeaderCost + k * LineCost <= room
  <1> DEFINE T == {k \in 0..n : Fits(k)}
  <1>1. 0 \in T /\ T \subseteq 0..n
    OBVIOUS
  <1>2. Max(T) \in T /\ \A y \in T : y <= Max(T)
    <2> HIDE DEF T
    <2>1. T # {}
      BY <1>1
    <2>2. QED
      BY <1>1, <2>1, Maximum
  <1>3. \E k \in 0..n : Fits(k) /\ (k = n \/ HeaderCost + (k + 1) * LineCost > room)
    <2> DEFINE k == Max(T)
    <2>1. k \in 0..n /\ Fits(k)
      BY <1>2
    <2>2. ASSUME k # n PROVE HeaderCost + (k + 1) * LineCost > room
      <3> HIDE DEF k
      <3>1. k + 1 \in 0..n /\ ~ (k + 1 <= k) /\ k + 1 # 0
        BY <2>1, <2>2
      <3>2. k + 1 \notin T
        BY <1>2, <3>1 DEF k
      <3>3. ~ (HeaderCost + (k + 1) * LineCost <= room)
        BY <3>1, <3>2
      <3> DEFINE lines == (k + 1) * LineCost
      <3>4. k + 1 \in Nat
        BY <3>1
      <3>5. lines \in Nat
        BY <3>4, Costs, Product
      <3> HIDE DEF lines
      <3>6. lines \in Nat /\ ~ (HeaderCost + lines <= room) => HeaderCost + lines > room
        BY Costs
      <3>7. QED
        BY <3>3, <3>5, <3>6 DEF lines
    <2>3. QED
      BY <2>1, <2>2
  <1> DEFINE fit == CHOOSE k \in 0..n : /\ k = 0 \/ HeaderCost + k * LineCost <= room
                                        /\ k = n \/ HeaderCost + (k + 1) * LineCost > room
  <1>4. fit \in 0..n /\ (fit = 0 \/ HeaderCost + fit * LineCost <= room)
    BY <1>3
  <1>5. FileBlock(p, n, room) = [path |-> p, shown |-> fit, cut |-> n - fit]
    BY DEF FileBlock
  <1> HIDE DEF fit
  <1>6. fit \in Nat /\ n - fit \in Nat
    BY <1>4
  <1>7. FileBlock(p, n, room) \in Blocks
    BY <1>5, <1>6 DEF Blocks
  <1> DEFINE lines == fit * LineCost
  <1>8. lines \in Nat /\ HeaderCost + lines <= room
    <2>1. lines \in Nat
      BY <1>6, Costs, Product
    <2>2. CASE fit = 0
      <3>1. lines = 0
        BY <2>2, Costs
      <3> HIDE DEF lines
      <3>2. QED
        BY <2>1, <3>1, Costs
    <2>3. CASE HeaderCost + fit * LineCost <= room
      BY <2>1, <2>3
    <2>4. QED
      BY <1>4, <2>2, <2>3
  <1>9. BlockCost(FileBlock(p, n, room)) = HeaderCost + lines + (IF n - fit > 0 THEN MarkerCost ELSE 0)
    BY <1>5 DEF BlockCost
  <1> HIDE DEF lines
  <1>10. HeaderCost + lines + (IF n - fit > 0 THEN MarkerCost ELSE 0) <= room + MarkerCost
    BY <1>6, <1>8, Costs
  <1>11. QED
    BY <1>7, <1>9, <1>10

(* What a list of blocks costs together.                                          *)
Total == CHOOSE sum : sum = [blocks \in Seq(Blocks) |->
            IF blocks = <<>> THEN 0 ELSE sum[Front(blocks)] + BlockCost(Last(blocks))]

(* The cost of a map.                                                            *)
LEMMA CostIs ==
  ASSUME NEW map
  PROVE  Cost(map) = Total[map.blocks] + (IF map.omitted > 0 THEN MarkerCost ELSE 0)
  BY DEF Cost, Total

(* A block more costs what it costs.                                              *)
LEMMA TotalGrows ==
  /\ Total[<<>>] = 0
  /\ \A blocks \in Seq(Blocks), b \in Blocks : Total[Append(blocks, b)] = Total[blocks] + BlockCost(b)
  <1> DEFINE step == [x \in Nat \X Blocks |-> x[1] + BlockCost(x[2])]
  <1>1. step \in [Nat \X Blocks -> Nat]
    <2>1. ASSUME NEW x \in Nat \X Blocks PROVE x[1] + BlockCost(x[2]) \in Nat
      <3>1. x[1] \in Nat /\ BlockCost(x[2]) \in Nat
        BY CostTyped
      <3>2. QED
        BY <3>1
    <2>2. QED
      BY <2>1
  <1>2. \A n \in Nat, b \in Blocks : step[<<n, b>>] = n + BlockCost(b)
    OBVIOUS
  <1> HIDE DEF step
  <1> DEFINE zero == 0
  <1>3. zero \in Nat
    OBVIOUS
  <1> HIDE DEF zero
  <1>4. PICK f : Recurs(f, Blocks, Nat, zero, step)
    BY <1>1, <1>3, Recursion
  <1>5. f \in [Seq(Blocks) -> Nat]
        /\ f = [s \in Seq(Blocks) |-> IF s = <<>> THEN 0 ELSE step[<<f[Front(s)], Last(s)>>]]
    BY <1>4 DEF Recurs, zero
  <1>6. f = [s \in Seq(Blocks) |-> IF s = <<>> THEN 0 ELSE f[Front(s)] + BlockCost(Last(s))]
    <2>1. ASSUME NEW s \in Seq(Blocks)
          PROVE  f[s] = IF s = <<>> THEN 0 ELSE f[Front(s)] + BlockCost(Last(s))
      <3>1. CASE s = <<>>
        BY <1>5, <3>1
      <3>2. CASE s # <<>>
        <4>1. Front(s) \in Seq(Blocks) /\ Last(s) \in Blocks
          BY <3>2, FrontLast
        <4>2. f[Front(s)] \in Nat
          BY <1>5, <4>1
        <4>3. f[s] = step[<<f[Front(s)], Last(s)>>]
          BY <1>5, <3>2
        <4>4. QED
          BY <1>2, <3>2, <4>1, <4>2, <4>3
      <3>3. QED
        BY <3>1, <3>2
    <2>2. f = [s \in Seq(Blocks) |-> f[s]]
      BY <1>5
    <2>3. QED
      BY <2>1, <2>2
  <1>7. \E g : g = [s \in Seq(Blocks) |-> IF s = <<>> THEN 0 ELSE g[Front(s)] + BlockCost(Last(s))]
    BY <1>6
  <1>8. Total = [s \in Seq(Blocks) |-> IF s = <<>> THEN 0 ELSE Total[Front(s)] + BlockCost(Last(s))]
    BY <1>7 DEF Total
  <1>9. Total[<<>>] = 0
    <2>1. <<>> \in Seq(Blocks)
      BY EmptySeq
    <2>2. QED
      BY <1>8, <2>1
  <1>10. ASSUME NEW blocks \in Seq(Blocks), NEW b \in Blocks
        PROVE  Total[Append(blocks, b)] = Total[blocks] + BlockCost(b)
    <2> DEFINE s == Append(blocks, b)
    <2>1. s \in Seq(Blocks) /\ s # <<>> /\ Len(s) = Len(blocks) + 1 /\ s[Len(s)] = b
          /\ \A n \in 1..Len(blocks) : s[n] = blocks[n]
      BY AppendProperties
    <2> HIDE DEF s
    <2>2. Last(s) = b
      BY <2>1 DEF Last
    <2>3. Front(s) = blocks
      <3>1. /\ Front(s) \in Seq(Blocks) /\ Len(Front(s)) = Len(s) - 1
            /\ \A n \in 1..Len(Front(s)) : Front(s)[n] = s[n]
        BY <2>1, FrontLast
      <3>2. Len(Front(s)) = Len(blocks)
        BY <2>1, <3>1
      <3>3. \A n \in 1..Len(Front(s)) : Front(s)[n] = blocks[n]
        BY <2>1, <3>1, <3>2
      <3>4. QED
        BY <3>1, <3>2, <3>3, SeqEqual
    <2>4. Total[s] = Total[Front(s)] + BlockCost(Last(s))
      BY <1>8, <2>1
    <2>5. QED
      BY <2>2, <2>3, <2>4 DEF s
  <1>11. QED
    BY <1>9, <1>10

(* A map that is what was counted, within the budget but for one marker.               *)
Fair(m) == m \in Maps /\ m.used <= Budget + MarkerCost /\ m.used = Total[m.blocks]

(* A file more keeps it so.                                                      *)
LEMMA AddBlockFair ==
  ASSUME NEW counts \in Counts, NEW p \in Paths, NEW m \in Maps
  PROVE  AddBlock(counts, m, p) \in Maps /\ (Fair(m) => Fair(AddBlock(counts, m, p)))
  <1>1. m.blocks \in Seq(Blocks) /\ m.used \in Nat /\ m.omitted \in Nat /\ DOMAIN m = {"blocks", "used", "omitted"}
        /\ m = [blocks |-> m.blocks, used |-> m.used, omitted |-> m.omitted]
    BY DEF Maps
  <1>2. CASE Remaining(m) <= HeaderCost
    <2>1. AddBlock(counts, m, p) = [m EXCEPT !.omitted = @ + 1]
      BY <1>2 DEF AddBlock
    <2>2. AddBlock(counts, m, p) = [blocks |-> m.blocks, used |-> m.used, omitted |-> m.omitted + 1]
      BY <1>1, <2>1
    <2>3. QED
      BY <1>1, <2>2 DEF Fair, Maps
  <1>3. CASE ~ (Remaining(m) <= HeaderCost)
    <2> DEFINE b == FileBlock(p, counts[p], Remaining(m))
    <2>1. Remaining(m) \in Nat /\ HeaderCost < Remaining(m) /\ Remaining(m) = Budget - m.used
      BY <1>1, <1>3, Costs DEF Remaining
    <2>2. counts[p] \in Nat
      BY DEF Counts
    <2>3. b \in Blocks /\ BlockCost(b) <= Remaining(m) + MarkerCost /\ BlockCost(b) \in Nat
      BY <2>1, <2>2, BlockFits, CostTyped
    <2>4. AddBlock(counts, m, p) = [m EXCEPT !.blocks = Append(@, b), !.used = @ + BlockCost(b)]
      BY <1>3 DEF AddBlock, Emit
    <2> HIDE DEF b
    <2>5. AddBlock(counts, m, p) =
            [blocks |-> Append(m.blocks, b), used |-> m.used + BlockCost(b), omitted |-> m.omitted]
      BY <1>1, <2>4
    <2>6. Append(m.blocks, b) \in Seq(Blocks)
      BY <1>1, <2>3, AppendProperties
    <2>7. m.used + BlockCost(b) \in Nat /\ m.used + BlockCost(b) <= Budget + MarkerCost
      BY <1>1, <2>1, <2>3, Costs
    <2>8. Total[Append(m.blocks, b)] = Total[m.blocks] + BlockCost(b)
      BY <1>1, <2>3, TotalGrows
    <2>9. QED
      BY <1>1, <2>5, <2>6, <2>7, <2>8 DEF Fair, Maps
  <1>4. QED
    BY <1>2, <1>3

(* The map of any table is one.                                                   *)
LEMMA RepoMapFair ==
  ASSUME NEW counts \in Counts
  PROVE  Fair(RepoMap(counts))
  <1> DEFINE step == [x \in Maps \X Paths |-> AddBlock(counts, x[1], x[2])]
  <1>1. step \in [Maps \X Paths -> Maps] /\ \A m \in Maps, p \in Paths : step[<<m, p>>] = AddBlock(counts, m, p)
    BY AddBlockFair
  <1> HIDE DEF step
  <1>2. NoMap \in Maps /\ Fair(NoMap)
    <2>1. <<>> \in Seq(Blocks)
      BY EmptySeq
    <2>2. QED
      BY <2>1, TotalGrows, Costs DEF NoMap, Maps, Fair
  <1>3. PICK f : Recurs(f, Paths, Maps, NoMap, step)
    BY <1>1, <1>2, Recursion
  <1>4. f \in [Seq(Paths) -> Maps]
        /\ f = [s \in Seq(Paths) |-> IF s = <<>> THEN NoMap ELSE step[<<f[Front(s)], Last(s)>>]]
    BY <1>3 DEF Recurs
  <1>5. f = [s \in Seq(Paths) |-> IF s = <<>> THEN NoMap ELSE AddBlock(counts, f[Front(s)], Last(s))]
    <2>1. ASSUME NEW s \in Seq(Paths)
          PROVE  f[s] = IF s = <<>> THEN NoMap ELSE AddBlock(counts, f[Front(s)], Last(s))
      <3>1. CASE s = <<>>
        BY <1>4, <3>1
      <3>2. CASE s # <<>>
        <4>1. Front(s) \in Seq(Paths) /\ Last(s) \in Paths
          BY <3>2, FrontLast
        <4>2. f[Front(s)] \in Maps
          BY <1>4, <4>1
        <4>3. f[s] = step[<<f[Front(s)], Last(s)>>]
          BY <1>4, <3>2
        <4>4. QED
          BY <1>1, <3>2, <4>1, <4>2, <4>3
      <3>3. QED
        BY <3>1, <3>2
    <2>2. f = [s \in Seq(Paths) |-> f[s]]
      BY <1>4
    <2>3. QED
      BY <2>1, <2>2
  <1> DEFINE render == CHOOSE g : g = [order \in Seq(Paths) |->
                          IF order = <<>> THEN NoMap ELSE AddBlock(counts, g[Front(order)], Last(order))]
  <1>6. RepoMap(counts) = render[Ranked(counts)]
    BY DEF RepoMap
  <1>7. render = [order \in Seq(Paths) |->
                    IF order = <<>> THEN NoMap ELSE AddBlock(counts, render[Front(order)], Last(order))]
    <2>1. \E g : g = [order \in Seq(Paths) |->
                        IF order = <<>> THEN NoMap ELSE AddBlock(counts, g[Front(order)], Last(order))]
      BY <1>5
    <2>2. QED
      BY <2>1
  <1> HIDE DEF render
  <1> DEFINE bad == {n \in Nat : \E s \in Seq(Paths) : Len(s) = n /\ ~Fair(render[s])}
  <1>8. bad = {}
    <2> SUFFICES ASSUME bad # {} PROVE FALSE
      OBVIOUS
    <2>1. bad \subseteq Nat
      OBVIOUS
    <2>2. PICK n \in bad : \A k \in bad : n <= k
      BY <2>1, Least
    <2>3. PICK s \in Seq(Paths) : Len(s) = n /\ ~Fair(render[s])
      BY <2>2
    <2>4. CASE s = <<>>
      BY <1>2, <1>7, <2>3, <2>4
    <2>5. CASE s # <<>>
      <3>1. Front(s) \in Seq(Paths) /\ Last(s) \in Paths /\ Len(s) \in Nat \ {0} /\ Len(Front(s)) = Len(s) - 1
        BY <2>5, FrontLast
      <3>2. n - 1 \in Nat /\ ~ (n <= n - 1) /\ Len(Front(s)) = n - 1
        BY <2>3, <3>1
      <3>3. n - 1 \notin bad
        BY <2>2, <3>2
      <3>4. Fair(render[Front(s)])
        BY <3>1, <3>2, <3>3
      <3>5. render[s] = AddBlock(counts, render[Front(s)], Last(s))
        BY <1>7, <2>5
      <3>6. render[Front(s)] \in Maps
        BY <3>4 DEF Fair
      <3>7. Fair(render[s])
        BY <3>1, <3>4, <3>5, <3>6, AddBlockFair
      <3>8. QED
        BY <2>3, <3>7
    <2>6. QED
      BY <2>4, <2>5
  <1>9. Ranked(counts) \in Seq(Paths) /\ Len(Ranked(counts)) \in Nat
    BY RankedTyped, LenProperties
  <1>10. Fair(render[Ranked(counts)])
    BY <1>8, <1>9
  <1>11. QED
    BY <1>6, <1>10

(* The map of any table is typed and bounded.                                       *)
LEMMA RepoMapBounded ==
  ASSUME NEW counts \in Counts
  PROVE  RepoMap(counts) \in Maps /\ Cost(RepoMap(counts)) <= Budget + 2 * MarkerCost
  <1> DEFINE m == RepoMap(counts)
  <1>1. Fair(m)
    BY RepoMapFair
  <1>2. Cost(m) = Total[m.blocks] + (IF m.omitted > 0 THEN MarkerCost ELSE 0)
    BY CostIs
  <1> HIDE DEF m
  <1>3. m \in Maps /\ m.used \in Nat /\ m.omitted \in Nat /\ m.used <= Budget + MarkerCost /\ m.used = Total[m.blocks]
    BY <1>1 DEF Fair, Maps
  <1>4. Cost(m) <= Budget + 2 * MarkerCost
    BY <1>2, <1>3, Costs
  <1>5. QED
    BY <1>3, <1>4 DEF m

-----------------------------------------------------------------------------
(* The index.                                                                   *)

Batches == [path : Paths, rows : 1..MaxSymbols]

EventPaths == Dirs \X (Names \cup {Whole})

Consumers == [step : {"idle", "read", "write"}, dir : BOOLEAN, todo : SUBSET Paths, rows : 0..MaxSymbols]

IndexTyped ==
    /\ disk \in [Paths -> 0..MaxSymbols + 1] /\ index \in [Paths -> 0..MaxSymbols]
    /\ scan \in [step : {"start", "read", "done"}, todo : SUBSET Paths, held : SUBSET Batches]
    /\ channel \in Seq(Batches) /\ Len(channel) <= ChannelSize
    /\ events \in Seq(EventPaths)
    /\ consumer \in Consumers
    /\ changes \in Nat /\ errors \in Nat /\ orphaned \subseteq Paths

(* Numbers of symbols are within their bound.                                      *)
LEMMA SymbolsTyped ==
  ASSUME NEW c \in 0..MaxSymbols + 1
  PROVE  /\ Symbols(c) \in 0..MaxSymbols /\ (Symbols(c) # 0 => Symbols(c) \in 1..MaxSymbols)
         /\ (c = 0 => Symbols(c) = 0)
  BY Costs DEF Symbols

(* Walks and deletions stay within the paths.                                      *)
LEMMA WithinPaths ==
  /\ \A dirs \in SUBSET Dirs : Walk(dirs) \subseteq Paths
  /\ \A p \in EventPaths : Under(p) \subseteq Paths
  /\ \A p \in Paths : Under(p) = {p} /\ p \in EventPaths /\ p[2] # Whole
  BY IndexAssumption DEF Walk, Under, Paths, EventPaths

(* An element is put at the end of a queue, or taken from its front.                  *)
LEMMA QueueEnd ==
  ASSUME NEW S, NEW s \in Seq(S), NEW e \in S
  PROVE  Append(s, e) \in Seq(S) /\ Len(Append(s, e)) = Len(s) + 1 /\ Range(Append(s, e)) = Range(s) \cup {e}
  <1>1. /\ Append(s, e) \in Seq(S) /\ Len(Append(s, e)) = Len(s) + 1 /\ Len(s) \in Nat
        /\ \A i \in 1..Len(s) : Append(s, e)[i] = s[i]
        /\ Append(s, e)[Len(s) + 1] = e
    BY AppendProperties, LenProperties
  <1>2. DOMAIN Append(s, e) = 1..(Len(s) + 1) /\ DOMAIN s = 1..Len(s)
    BY <1>1, LenProperties
  <1> DEFINE t == Append(s, e)
  <1> HIDE DEF t
  <1>3. Range(t) = Range(s) \cup {e}
    <2>1. \A i \in DOMAIN t : i \in DOMAIN s \/ i = Len(s) + 1
      BY <1>1, <1>2 DEF t
    <2>2. \A i \in DOMAIN s : i \in DOMAIN t /\ t[i] = s[i]
      BY <1>1, <1>2 DEF t
    <2>3. Len(s) + 1 \in DOMAIN t /\ t[Len(s) + 1] = e
      BY <1>1, <1>2 DEF t
    <2>4. QED
      BY <2>1, <2>2, <2>3 DEF Range
  <1>4. QED
    BY <1>1, <1>3 DEF t

LEMMA QueueFront ==
  ASSUME NEW S, NEW s \in Seq(S), s # <<>>
  PROVE  /\ Head(s) \in S /\ Tail(s) \in Seq(S) /\ Len(Tail(s)) <= Len(s)
         /\ Range(s) = {Head(s)} \cup Range(Tail(s))
  <1>1. Head(s) = s[1] /\ Len(s) \in Nat \ {0}
    BY EmptySeq
  <1>2. Head(s) \in S /\ Tail(s) \in Seq(S) /\ Len(Tail(s)) = Len(s) - 1
        /\ \A i \in 1..Len(Tail(s)) : Tail(s)[i] = s[i + 1]
    BY HeadTailProperties
  <1>3. DOMAIN Tail(s) = 1..(Len(s) - 1) /\ DOMAIN s = 1..Len(s)
    BY <1>2, LenProperties
  <1> DEFINE t == Tail(s)
  <1> HIDE DEF t
  <1>4. Range(s) = {s[1]} \cup Range(t)
    <2>1. \A i \in DOMAIN s : i = 1 \/ (i - 1 \in DOMAIN t /\ t[i - 1] = s[i])
      <3> TAKE i \in DOMAIN s
      <3>1. i = 1 \/ (i - 1 \in 1..(Len(s) - 1) /\ (i - 1) + 1 = i)
        BY <1>1, <1>3
      <3>2. QED
        BY <1>2, <1>3, <3>1 DEF t
    <2>2. \A i \in DOMAIN t : i + 1 \in DOMAIN s /\ t[i] = s[i + 1]
      BY <1>1, <1>2, <1>3 DEF t
    <2>3. 1 \in DOMAIN s
      BY <1>1, <1>3
    <2>4. QED
      BY <2>1, <2>2, <2>3 DEF Range
  <1>5. Len(t) <= Len(s)
    BY <1>1, <1>2 DEF t
  <1>6. QED
    BY <1>1, <1>2, <1>4, <1>5 DEF t

(* The parts of the invariant that say what is known of the scan, of the consumer's write,  *)
(* and of the batches.                                                           *)
ScanShape ==
    /\ scan.step = "start" => scan.todo = {} /\ scan.held = {} /\ channel = <<>>
    /\ scan.step = "done" => scan.todo = {} /\ scan.held = {} /\ channel = <<>>

Coming(p) == p \in Range(events) \/ <<p[1], Whole>> \in Range(events)

WriteRight ==
    consumer.step = "write" =>
      \E p \in Paths :
         /\ consumer.todo = {p}
         /\ p \in orphaned \/ consumer.rows = Symbols(disk[p]) \/ Coming(p)

InFlight == scan.held \cup Range(channel)

BatchRight == \A b \in InFlight : b.path \in orphaned \/ b.rows = Symbols(disk[b.path])

(* The scan has yet to come to a file that has symbols.                             *)
ToScan(p) ==
    /\ Symbols(disk[p]) # 0
    /\ scan.step = "start" \/ p \in scan.todo

(* A file whose rows are wrong is on its way to be put right, or orphaned.              *)
Due(p) ==
    \/ Coming(p)
    \/ consumer.step # "idle" /\ p \in consumer.todo
    \/ ToScan(p)
    \/ \E b \in InFlight : b.path = p

RowsKept(p) == index[p] = Symbols(disk[p]) \/ Due(p)

Synced == \A p \in Paths \ orphaned : p[2] \notin Ignored => RowsKept(p)

IndexInv == IndexTyped /\ ScanShape /\ WriteRight /\ BatchRight /\ Synced

(* The invariant holds in the beginning.                                           *)
LEMMA IndexBegins ==
  ASSUME NEW start \in Starts, IndexInit(start)
  PROVE  IndexInv
  <1>1. disk \in [Paths -> 0..MaxSymbols + 1] /\ index \in [Paths -> 0..MaxSymbols]
        /\ changes \in Nat /\ errors \in Nat /\ orphaned \subseteq Paths
    BY IndexAssumption DEF IndexInit
  <1>2. <<>> \in Seq(Batches) /\ <<>> \in Seq(EventPaths) /\ Len(<<>>) = 0
    BY EmptySeq
  <1>3. Idle \in Consumers /\ Idle.step = "idle"
    BY Costs DEF Idle, Consumers
  <1>4. channel = <<>> /\ events = <<>> /\ consumer = Idle
        /\ scan.step \in {"start", "done"} /\ scan.todo = {} /\ scan.held = {}
        /\ scan \in [step : {"start", "read", "done"}, todo : SUBSET Paths, held : SUBSET Batches]
    BY DEF IndexInit
  <1>5. IndexTyped
    BY <1>1, <1>2, <1>3, <1>4, IndexAssumption DEF IndexTyped
  <1>6. Range(channel) = {}
    BY <1>4 DEF Range
  <1>7. ScanShape /\ WriteRight /\ BatchRight
    BY <1>3, <1>4, <1>6 DEF ScanShape, WriteRight, BatchRight, InFlight
  <1>8. Synced
    <2> SUFFICES ASSUME NEW p \in Paths, p \notin orphaned, p[2] \notin Ignored, index[p] # Symbols(disk[p])
                 PROVE  ToScan(p)
      BY DEF Synced, RowsKept, Due
    <2>1. Symbols(disk[p]) # 0
      BY DEF IndexInit
    <2>2. scan.step = "start"
      <3>1. CASE start.scanned
        <4>1. Symbols(start.tree[p]) \in {0, start.table[p]}
          BY <3>1, ScannedAssumption
        <4>2. QED
          BY <2>1, <4>1 DEF IndexInit
      <3>2. CASE ~start.scanned
        BY <3>2 DEF IndexInit
      <3>3. QED
        BY <3>1, <3>2
    <2>3. QED
      BY <2>1, <2>2 DEF ToScan
  <1>9. QED
    BY <1>5, <1>7, <1>8 DEF IndexInv

(* The paths of two queues in a row are those of both.                            *)
LEMMA QueueTwo ==
  ASSUME NEW S, NEW s \in Seq(S), NEW a \in S, NEW b \in S
  PROVE  s \o <<a, b>> \in Seq(S) /\ Range(s \o <<a, b>>) = Range(s) \cup {a, b}
  <1>1. <<a, b>> \in Seq(S) /\ Range(<<a, b>>) = {a, b}
    <2>1. <<a, b>> \in Seq(S) /\ DOMAIN <<a, b>> = 1..2 /\ <<a, b>>[1] = a /\ <<a, b>>[2] = b
      OBVIOUS
    <2>2. QED
      BY <2>1 DEF Range
  <1>2. s \o <<a, b>> \in Seq(S)
    BY <1>1, ConcatProperties
  <1>3. Range(s \o <<a, b>>) = Range(s) \cup Range(<<a, b>>)
    BY <1>1, RangeConcatenation
  <1>4. QED
    BY <1>1, <1>2, <1>3

(* A change of the files keeps the invariant: events for the changed paths come.   *)
LEMMA FilesChange ==
  ASSUME IndexInv, NEW dirty \in SUBSET Paths, Changes(dirty),
         disk' \in [Paths -> 0..MaxSymbols + 1], \A q \in Paths \ dirty : disk'[q] = disk[q],
         events' \in Seq(EventPaths), Range(events) \subseteq Range(events'),
         \A q \in dirty : Coming(q)'
  PROVE  IndexInv'
  <1>1. IndexTyped /\ ScanShape /\ WriteRight /\ BatchRight /\ Synced
    BY DEF IndexInv
  <1>2. /\ UNCHANGED <<index, scan, channel, consumer, errors>> /\ changes' \in Nat
        /\ orphaned' \subseteq Paths /\ orphaned \ dirty \subseteq orphaned'
        /\ (scan.step # "done" => orphaned' = orphaned \cup dirty)
        /\ (orphaned' \ dirty \subseteq orphaned)
    BY <1>1 DEF Changes, IndexTyped
  <1>3. IndexTyped'
    BY <1>1, <1>2 DEF IndexTyped
  <1>4. ScanShape' /\ InFlight' = InFlight
    BY <1>1, <1>2 DEF ScanShape, InFlight
  <1>5. \A q : Coming(q) => Coming(q)'
    BY DEF Coming
  <1>6. WriteRight'
    <2> SUFFICES ASSUME consumer.step = "write"
                 PROVE  WriteRight'
      BY <1>2 DEF WriteRight
    <2>1. PICK p \in Paths : /\ consumer.todo = {p}
                             /\ p \in orphaned \/ consumer.rows = Symbols(disk[p]) \/ Coming(p)
      BY <1>1 DEF WriteRight
    <2>2. p \in orphaned' \/ consumer.rows = Symbols(disk'[p]) \/ Coming(p)'
      <3>1. CASE p \in dirty
        BY <3>1
      <3>2. CASE p \notin dirty
        BY <2>1, <3>2, <1>2, <1>5
      <3>3. QED
        BY <3>1, <3>2
    <2>3. QED
      BY <2>1, <2>2, <1>2 DEF WriteRight, Symbols
  <1>7. BatchRight'
    <2> SUFFICES ASSUME NEW b \in InFlight
                 PROVE  b.path \in orphaned' \/ b.rows = Symbols(disk'[b.path])
      BY <1>4 DEF BatchRight, Symbols
    <2>1. scan.step # "done"
      <3> SUFFICES ASSUME scan.step = "done"
                   PROVE  FALSE
        OBVIOUS
      <3>1. scan.held = {} /\ channel = <<>>
        BY <1>1 DEF ScanShape
      <3>2. Range(channel) = {}
        BY <3>1 DEF Range
      <3>3. QED
        BY <3>1, <3>2 DEF InFlight
    <2>2. b.path \in Paths
      <3>1. channel \in Seq(Batches) /\ scan.held \subseteq Batches
        BY <1>1 DEF IndexTyped
      <3>2. Range(channel) \subseteq Batches
        BY <3>1, RangeOfSeq
      <3>3. b \in Batches
        BY <3>1, <3>2 DEF InFlight
      <3>4. QED
        BY <3>3 DEF Batches
    <2>3. QED
      BY <1>1, <1>2, <2>1, <2>2 DEF BatchRight
  <1>8. Synced'
    <2> SUFFICES ASSUME NEW q \in Paths, q \notin orphaned', q[2] \notin Ignored
                 PROVE  RowsKept(q)'
      BY DEF Synced
    <2>1. CASE q \in dirty
      BY <2>1 DEF RowsKept, Due
    <2>2. CASE q \notin dirty
      <3>1. RowsKept(q) /\ disk'[q] = disk[q]
        BY <1>1, <1>2, <2>2 DEF Synced
      <3>2. QED
        BY <3>1, <1>2, <1>4, <1>5 DEF RowsKept, Due, ToScan, Symbols
    <2>3. QED
      BY <2>1, <2>2
  <1>9. QED
    BY <1>3, <1>4, <1>6, <1>7, <1>8 DEF IndexInv

(* A file is written or deleted.                                                   *)
LEMMA WriteOrDeleteKeeps ==
  ASSUME IndexInv, WriteOrDelete
  PROVE  IndexInv'
  <1>1. PICK p \in Paths, c \in 0..MaxSymbols + 1 :
           disk' = [disk EXCEPT ![p] = c] /\ events' = Append(events, p) /\ Changes({p})
    BY DEF WriteOrDelete
  <1>2. disk \in [Paths -> 0..MaxSymbols + 1] /\ events \in Seq(EventPaths) /\ p \in EventPaths
    BY WithinPaths DEF IndexInv, IndexTyped
  <1>3. events' \in Seq(EventPaths) /\ Range(events') = Range(events) \cup {p}
    BY <1>1, <1>2, QueueEnd
  <1>4. disk' \in [Paths -> 0..MaxSymbols + 1] /\ \A q \in Paths \ {p} : disk'[q] = disk[q]
    BY <1>1, <1>2
  <1>5. Coming(p)'
    BY <1>3 DEF Coming
  <1>6. QED
    BY <1>1, <1>3, <1>4, <1>5, FilesChange

(* A directory is renamed.                                                         *)
LEMMA RenameDirKeeps ==
  ASSUME IndexInv, RenameDir
  PROVE  IndexInv'
  <1>1. PICK d \in Dirs, e \in Dirs :
           /\ disk' = [p \in Paths |-> CASE p[1] = e -> disk[<<d, p[2]>>]
                                         [] p[1] = d -> 0
                                         [] OTHER -> disk[p]]
           /\ events' = events \o <<<<d, Whole>>, <<e, Whole>>>>
           /\ Changes({d, e} \X Names)
    BY DEF RenameDir
  <1> DEFINE dirty == {d, e} \X Names
  <1>2. disk \in [Paths -> 0..MaxSymbols + 1] /\ events \in Seq(EventPaths)
        /\ <<d, Whole>> \in EventPaths /\ <<e, Whole>> \in EventPaths
    BY DEF IndexInv, IndexTyped, EventPaths
  <1>3. events' \in Seq(EventPaths) /\ Range(events') = Range(events) \cup {<<d, Whole>>, <<e, Whole>>}
    <2>1. \A a, b \in EventPaths : /\ events \o <<a, b>> \in Seq(EventPaths)
                                   /\ Range(events \o <<a, b>>) = Range(events) \cup {a, b}
      BY <1>2, QueueTwo
    <2>2. QED
      BY <1>1, <1>2, <2>1
  <1>4. dirty \in SUBSET Paths /\ \A q \in Paths \ dirty : q[1] # d /\ q[1] # e
    BY DEF Paths
  <1>5. \A p \in Paths : <<d, p[2]>> \in Paths
    BY DEF Paths
  <1>6. disk' \in [Paths -> 0..MaxSymbols + 1]
    <2>1. \A p \in Paths : disk'[p] = disk[<<d, p[2]>>] \/ disk'[p] = 0 \/ disk'[p] = disk[p]
      BY <1>1
    <2>2. ASSUME NEW p \in Paths
          PROVE  disk'[p] \in 0..MaxSymbols + 1
      <3>1. disk[<<d, p[2]>>] \in 0..MaxSymbols + 1 /\ disk[p] \in 0..MaxSymbols + 1
        BY <1>2, <1>5
      <3>2. 0 \in 0..MaxSymbols + 1
        BY Costs
      <3>3. QED
        BY <2>1, <3>1, <3>2
    <2>3. QED
      BY <2>2, <1>1
  <1>7. \A q \in Paths \ dirty : disk'[q] = disk[q]
    BY <1>1, <1>4
  <1>8. \A q \in dirty : Coming(q)'
    BY <1>3 DEF Coming
  <1>9. QED
    BY <1>1, <1>3, <1>4, <1>6, <1>7, <1>8, FilesChange

-----------------------------------------------------------------------------
(* The scan's steps.                                                           *)

(* The scan walks the tree.                                                     *)
LEMMA ScanWalksKeeps ==
  ASSUME IndexInv, ScanWalks
  PROVE  IndexInv'
  <1>1. IndexTyped /\ ScanShape /\ WriteRight /\ BatchRight /\ Synced
    BY DEF IndexInv
  <1>2. /\ scan.step = "start" /\ scan' = [scan EXCEPT !.step = "read", !.todo = Walk(Dirs)]
        /\ UNCHANGED <<disk, index, channel, events, consumer, changes, errors, orphaned>>
    BY DEF ScanWalks
  <1>3. scan'.step = "read" /\ scan'.todo = Walk(Dirs) /\ scan'.held = scan.held /\ Walk(Dirs) \subseteq Paths
        /\ scan' \in [step : {"start", "read", "done"}, todo : SUBSET Paths, held : SUBSET Batches]
    BY <1>1, <1>2, WithinPaths DEF IndexTyped
  <1>4. IndexTyped'
    BY <1>1, <1>2, <1>3 DEF IndexTyped
  <1>5. InFlight' = InFlight
    BY <1>2, <1>3 DEF InFlight
  <1>6. ScanShape' /\ WriteRight' /\ BatchRight'
    BY <1>1, <1>2, <1>3, <1>5 DEF ScanShape, WriteRight, BatchRight, Coming, Symbols
  <1>7. Synced'
    <2> SUFFICES ASSUME NEW p \in Paths, p \notin orphaned, p[2] \notin Ignored
                 PROVE  RowsKept(p)'
      BY <1>2 DEF Synced
    <2>1. RowsKept(p)
      BY <1>1 DEF Synced
    <2>2. Symbols(disk[p]) # 0 => p \in Walk(Dirs)
      BY SymbolsTyped, <1>1 DEF IndexTyped, Walk, Paths
    <2>3. ToScan(p) => ToScan(p)'
      BY <1>2, <1>3, <2>2 DEF ToScan, Symbols
    <2>4. Due(p) => Due(p)'
      BY <1>2, <1>5, <2>3 DEF Due, Coming
    <2>5. QED
      BY <2>1, <2>4, <1>2 DEF RowsKept, Symbols
  <1>8. QED
    BY <1>4, <1>6, <1>7 DEF IndexInv

(* A file of the scan is read.                                                  *)
LEMMA ScanReadsKeeps ==
  ASSUME IndexInv, ScanReads
  PROVE  IndexInv'
  <1>1. IndexTyped /\ ScanShape /\ WriteRight /\ BatchRight /\ Synced
    BY DEF IndexInv
  <1>2. /\ scan.step = "read"
        /\ UNCHANGED <<disk, index, channel, events, consumer, changes, errors, orphaned>>
    BY DEF ScanReads
  <1>3. PICK f \in scan.todo :
           scan' = [scan EXCEPT !.todo = @ \ {f},
                                !.held = IF Symbols(disk[f]) = 0 THEN @
                                         ELSE @ \cup {[path |-> f, rows |-> Symbols(disk[f])]}]
    BY DEF ScanReads
  <1> DEFINE new == [path |-> f, rows |-> Symbols(disk[f])]
  <1>4. f \in Paths /\ (Symbols(disk[f]) # 0 => new \in Batches)
    BY <1>1, SymbolsTyped DEF IndexTyped, Batches
  <1>5. /\ scan'.step = "read" /\ scan'.todo = scan.todo \ {f}
        /\ scan'.held = IF Symbols(disk[f]) = 0 THEN scan.held ELSE scan.held \cup {new}
    BY <1>1, <1>2, <1>3 DEF IndexTyped
  <1>6. scan' \in [step : {"start", "read", "done"}, todo : SUBSET Paths, held : SUBSET Batches]
    <2>1. scan'.held \in SUBSET Batches /\ scan'.todo \in SUBSET Paths
      BY <1>1, <1>4, <1>5 DEF IndexTyped
    <2>2. scan' = [step |-> scan'.step, todo |-> scan'.todo, held |-> scan'.held]
      BY <1>1, <1>3 DEF IndexTyped
    <2>3. QED
      BY <2>1, <2>2, <1>5
  <1>7. IndexTyped'
    BY <1>1, <1>2, <1>6 DEF IndexTyped
  <1>8. InFlight' = IF Symbols(disk[f]) = 0 THEN InFlight ELSE InFlight \cup {new}
    BY <1>2, <1>5 DEF InFlight
  <1>9. ScanShape' /\ WriteRight'
    BY <1>1, <1>2, <1>5 DEF ScanShape, WriteRight, Coming, Symbols
  <1>10. BatchRight'
    BY <1>1, <1>2, <1>8 DEF BatchRight, Symbols
  <1>11. Synced'
    <2> SUFFICES ASSUME NEW p \in Paths, p \notin orphaned, p[2] \notin Ignored
                 PROVE  RowsKept(p)'
      BY <1>2 DEF Synced
    <2>1. RowsKept(p)
      BY <1>1 DEF Synced
    <2>2. ToScan(p) => ToScan(p)' \/ \E b \in InFlight' : b.path = p
      <3>1. CASE p = f
        <4>1. ASSUME ToScan(p)
              PROVE  \E b \in InFlight' : b.path = p
          <5>1. new \in InFlight' /\ new.path = p
            BY <4>1, <3>1, <1>8 DEF ToScan
          <5>2. QED
            BY <5>1
        <4>2. QED
          BY <4>1
      <3>2. CASE p # f
        BY <3>2, <1>2, <1>5 DEF ToScan, Symbols
      <3>3. QED
        BY <3>1, <3>2
    <2>3. Due(p) => Due(p)'
      BY <1>2, <1>8, <2>2 DEF Due, Coming
    <2>4. QED
      BY <2>1, <2>3, <1>2 DEF RowsKept, Symbols
  <1>12. QED
    BY <1>7, <1>9, <1>10, <1>11 DEF IndexInv

(* A batch goes into the channel.                                               *)
LEMMA ScanSendsKeeps ==
  ASSUME IndexInv, ScanSends
  PROVE  IndexInv'
  <1>1. IndexTyped /\ ScanShape /\ WriteRight /\ BatchRight /\ Synced
    BY DEF IndexInv
  <1>2. /\ Len(channel) < ChannelSize
        /\ UNCHANGED <<disk, index, events, consumer, changes, errors, orphaned>>
    BY DEF ScanSends
  <1>3. PICK b \in scan.held : scan' = [scan EXCEPT !.held = @ \ {b}] /\ channel' = Append(channel, b)
    BY DEF ScanSends
  <1>4. b \in Batches /\ channel \in Seq(Batches)
    BY <1>1 DEF IndexTyped
  <1>5. channel' \in Seq(Batches) /\ Len(channel') = Len(channel) + 1
        /\ Range(channel') = Range(channel) \cup {b}
    BY <1>3, <1>4, QueueEnd
  <1>6. scan'.step = scan.step /\ scan'.todo = scan.todo /\ scan'.held = scan.held \ {b}
        /\ scan' \in [step : {"start", "read", "done"}, todo : SUBSET Paths, held : SUBSET Batches]
    BY <1>1, <1>3 DEF IndexTyped
  <1>7. Len(channel') <= ChannelSize
    BY <1>2, <1>4, <1>5, IndexAssumption, LenProperties
  <1>8. IndexTyped'
    BY <1>1, <1>2, <1>5, <1>6, <1>7 DEF IndexTyped
  <1>9. InFlight' = InFlight
    BY <1>3, <1>5, <1>6 DEF InFlight
  <1>10. scan.step = "read"
    BY <1>1, <1>3 DEF ScanShape, IndexTyped
  <1>11. ScanShape' /\ WriteRight' /\ BatchRight'
    BY <1>1, <1>2, <1>6, <1>9, <1>10 DEF ScanShape, WriteRight, BatchRight, Coming, Symbols
  <1>12. Synced'
    BY <1>1, <1>2, <1>6, <1>9 DEF Synced, RowsKept, Due, ToScan, Coming, Symbols
  <1>13. QED
    BY <1>8, <1>11, <1>12 DEF IndexInv

(* A batch leaves the channel: it is stored, or the statement fails.            *)
LEMMA ScanPersistsKeeps ==
  ASSUME IndexInv, ScanPersists
  PROVE  IndexInv'
  <1>1. IndexTyped /\ ScanShape /\ WriteRight /\ BatchRight /\ Synced
    BY DEF IndexInv
  <1>2. channel # <<>> /\ channel' = Tail(channel) /\ UNCHANGED <<disk, scan, events, consumer, changes>>
    BY DEF ScanPersists
  <1> DEFINE b == Head(channel)
  <1>3. channel \in Seq(Batches) /\ Len(channel) <= ChannelSize
    BY <1>1 DEF IndexTyped
  <1>4. /\ b \in Batches /\ channel' \in Seq(Batches) /\ Len(channel') <= Len(channel)
        /\ Range(channel) = {b} \cup Range(channel')
    BY <1>2, <1>3, QueueFront
  <1>5. b.path \in Paths /\ b.rows \in 0..MaxSymbols
    BY <1>4, Costs DEF Batches
  <1>6. Len(channel') <= ChannelSize
    BY <1>3, <1>4, IndexAssumption, LenProperties
  <1>7. b \in InFlight /\ InFlight' \subseteq InFlight /\ InFlight \subseteq InFlight' \cup {b}
    BY <1>2, <1>4 DEF InFlight
  <1>8. \/ IndexFile(b.path, b.rows) /\ Succeeds
        \/ StatementFails({b.path})
    BY DEF ScanPersists
  <1> HIDE DEF b
  <1>9. /\ index' \in [Paths -> 0..MaxSymbols] /\ errors' \in Nat
        /\ orphaned \subseteq orphaned' /\ orphaned' \subseteq Paths
        /\ \A p \in Paths \ {b.path} : index'[p] = index[p]
    BY <1>1, <1>5, <1>8 DEF IndexFile, Succeeds, StatementFails, IndexTyped
  <1>10. b.path \in orphaned' \/ index'[b.path] = Symbols(disk[b.path])
    <2>1. CASE IndexFile(b.path, b.rows) /\ Succeeds
      BY <2>1, <1>1, <1>5, <1>7 DEF IndexFile, Succeeds, IndexTyped, BatchRight
    <2>2. CASE StatementFails({b.path})
      BY <2>2 DEF StatementFails
    <2>3. QED
      BY <1>8, <2>1, <2>2
  <1>11. IndexTyped'
    BY <1>1, <1>2, <1>4, <1>6, <1>9 DEF IndexTyped
  <1>12. ScanShape'
    BY <1>1, <1>2 DEF ScanShape
  <1>13. WriteRight'
    BY <1>1, <1>2, <1>9 DEF WriteRight, Coming, Symbols
  <1>14. BatchRight'
    BY <1>1, <1>2, <1>7, <1>9 DEF BatchRight, Symbols
  <1>15. Synced'
    <2> SUFFICES ASSUME NEW p \in Paths, p \notin orphaned', p[2] \notin Ignored
                 PROVE  RowsKept(p)'
      BY DEF Synced
    <2>1. CASE p = b.path
      BY <2>1, <1>2, <1>10 DEF RowsKept, Symbols
    <2>2. CASE p # b.path
      <3>1. RowsKept(p)
        BY <1>1, <1>9 DEF Synced
      <3>2. Due(p) => Due(p)'
        BY <2>2, <1>2, <1>7 DEF Due, Coming, ToScan, Symbols
      <3>3. QED
        BY <2>2, <3>1, <3>2, <1>2, <1>9 DEF RowsKept, Symbols
    <2>3. QED
      BY <2>1, <2>2
  <1>16. QED
    BY <1>11, <1>12, <1>13, <1>14, <1>15 DEF IndexInv

(* The scan is over.                                                            *)
LEMMA ScanEndsKeeps ==
  ASSUME IndexInv, ScanEnds
  PROVE  IndexInv'
  <1>1. IndexTyped /\ ScanShape /\ WriteRight /\ BatchRight /\ Synced
    BY DEF IndexInv
  <1>2. /\ scan.step = "read" /\ scan.todo = {} /\ scan.held = {} /\ channel = <<>>
        /\ scan' = [scan EXCEPT !.step = "done"]
        /\ UNCHANGED <<disk, index, channel, events, consumer, changes, errors, orphaned>>
    BY DEF ScanEnds
  <1>3. scan'.step = "done" /\ scan'.todo = scan.todo /\ scan'.held = scan.held
        /\ scan' \in [step : {"start", "read", "done"}, todo : SUBSET Paths, held : SUBSET Batches]
    BY <1>1, <1>2 DEF IndexTyped
  <1>4. IndexTyped'
    BY <1>1, <1>2, <1>3 DEF IndexTyped
  <1>5. InFlight' = InFlight
    BY <1>2, <1>3 DEF InFlight
  <1>6. ScanShape' /\ WriteRight' /\ BatchRight'
    BY <1>1, <1>2, <1>3, <1>5 DEF ScanShape, WriteRight, BatchRight, Coming, Symbols
  <1>7. Synced'
    BY <1>1, <1>2, <1>3, <1>5 DEF Synced, RowsKept, Due, ToScan, Coming, Symbols
  <1>8. QED
    BY <1>4, <1>6, <1>7 DEF IndexInv

-----------------------------------------------------------------------------
(* The consumer's steps.  None of them but the writer's concerns the scan, and *)
(* the scan's shape and batches stay as they are while the files do.           *)

(* A step of the consumer leaves the scan's parts of the invariant.            *)
LEMMA ScanApart ==
  ASSUME IndexInv, UNCHANGED <<disk, scan, channel, changes>>, orphaned \subseteq orphaned'
  PROVE  /\ ScanShape' /\ BatchRight' /\ InFlight' = InFlight
         /\ \A p : ToScan(p)' <=> ToScan(p)
  <1>1. ScanShape /\ BatchRight
    BY DEF IndexInv
  <1>2. InFlight' = InFlight
    BY DEF InFlight
  <1>3. QED
    BY <1>1, <1>2 DEF ScanShape, BatchRight, ToScan, Symbols

(* An event is taken: its path is Head(events), the others are still coming.    *)
LEMMA EventTaken ==
  ASSUME IndexInv, events # <<>>, events' = Tail(events)
  PROVE  /\ Head(events) \in EventPaths /\ events' \in Seq(EventPaths)
         /\ \A p \in Paths : Coming(p) => Coming(p)' \/ p \in Under(Head(events))
  <1>1. events \in Seq(EventPaths)
    BY DEF IndexInv, IndexTyped
  <1>2. /\ Head(events) \in EventPaths /\ events' \in Seq(EventPaths)
        /\ Range(events) = {Head(events)} \cup Range(events')
    BY <1>1, QueueFront
  <1>3. ASSUME NEW p \in Paths, Coming(p)
        PROVE  Coming(p)' \/ p \in Under(Head(events))
    <2>1. CASE p = Head(events)
      BY <2>1, WithinPaths
    <2>2. CASE <<p[1], Whole>> = Head(events)
      <3>1. Head(events)[2] = Whole /\ Head(events)[1] = p[1]
        BY <2>2
      <3>2. p \in {p[1]} \X Names
        BY DEF Paths
      <3>3. QED
        BY <3>1, <3>2 DEF Under
    <2>3. QED
      BY <1>2, <1>3, <2>1, <2>2 DEF Coming
  <1>4. QED
    BY <1>2, <1>3

(* The event of a directory that is there.                                     *)
LEMMA TakeDirKeeps ==
  ASSUME IndexInv, TakeDir
  PROVE  IndexInv'
  <1> DEFINE d == Head(events)
  <1>1. IndexTyped /\ WriteRight /\ Synced
    BY DEF IndexInv
  <1>2. /\ consumer.step = "idle" /\ events # <<>> /\ events' = Tail(events)
        /\ d[2] = Whole
        /\ consumer' = [Idle EXCEPT !.step = "read", !.dir = TRUE, !.todo = Walk({d[1]})]
        /\ orphaned' = orphaned \cup {q \in Under(d) : disk[q] = 0 /\ index[q] # 0}
        /\ UNCHANGED <<disk, index, scan, channel, changes, errors>>
    BY DEF TakeDir
  <1>3. /\ d \in EventPaths /\ events' \in Seq(EventPaths)
        /\ \A p \in Paths : Coming(p) => Coming(p)' \/ p \in Under(d)
    BY <1>2, EventTaken
  <1> HIDE DEF d
  <1>4. d[1] \in Dirs /\ Under(d) \subseteq Paths /\ Walk({d[1]}) \subseteq Paths
    BY <1>3, WithinPaths DEF EventPaths
  <1>5. consumer'.step = "read" /\ consumer'.todo = Walk({d[1]})
        /\ consumer' = [step |-> "read", dir |-> TRUE, todo |-> Walk({d[1]}), rows |-> 0]
    BY <1>2 DEF Idle
  <1>6. consumer' \in Consumers
    BY <1>4, <1>5, Costs DEF Consumers
  <1>7. orphaned \subseteq orphaned' /\ orphaned' \subseteq Paths
    BY <1>1, <1>2, <1>4 DEF IndexTyped
  <1>8. IndexTyped'
    BY <1>1, <1>2, <1>3, <1>6, <1>7 DEF IndexTyped
  <1>9. ScanShape' /\ BatchRight' /\ InFlight' = InFlight /\ \A p : ToScan(p)' <=> ToScan(p)
    BY <1>2, <1>7, ScanApart
  <1>10. WriteRight'
    BY <1>5 DEF WriteRight
  <1>11. Synced'
    <2> SUFFICES ASSUME NEW p \in Paths, p \notin orphaned', p[2] \notin Ignored
                 PROVE  RowsKept(p)'
      BY DEF Synced
    <2>1. RowsKept(p)
      BY <1>1, <1>7 DEF Synced
    <2>2. CASE p \in Under(d) /\ disk[p] = 0
      <3>1. index[p] = 0
        BY <2>2, <1>2
      <3>2. QED
        BY <2>2, <3>1, <1>2 DEF RowsKept, Symbols
    <2>3. CASE p \in Under(d) /\ disk[p] # 0
      <3>1. p \in {d[1]} \X (Names \ Ignored)
        BY <2>3, <1>2 DEF Under
      <3>2. p \in Walk({d[1]})
        BY <2>3, <3>1 DEF Walk
      <3>3. QED
        BY <3>2, <1>5 DEF RowsKept, Due
    <2>4. CASE p \notin Under(d)
      <3>1. Due(p) => Due(p)'
        BY <2>4, <1>2, <1>3, <1>9 DEF Due
      <3>2. QED
        BY <2>1, <3>1, <1>2 DEF RowsKept, Symbols
    <2>5. QED
      BY <2>2, <2>3, <2>4
  <1>12. QED
    BY <1>8, <1>9, <1>10, <1>11 DEF IndexInv

(* The event of a path that has gone.                                          *)
LEMMA TakeGoneKeeps ==
  ASSUME IndexInv, TakeGone
  PROVE  IndexInv'
  <1> DEFINE g == Head(events)
  <1>1. IndexTyped /\ WriteRight /\ Synced
    BY DEF IndexInv
  <1>2. /\ consumer.step = "idle" /\ events # <<>> /\ events' = Tail(events)
        /\ (IF g[2] = Whole THEN ~Exists(g[1]) ELSE disk[g] = 0)
        /\ (Drops(g) /\ Succeeds) \/ StatementFails(Under(g))
        /\ UNCHANGED <<disk, scan, channel, consumer, changes>>
    BY DEF TakeGone
  <1>3. /\ g \in EventPaths /\ events' \in Seq(EventPaths)
        /\ \A p \in Paths : Coming(p) => Coming(p)' \/ p \in Under(g)
    BY <1>2, EventTaken
  <1> HIDE DEF g
  <1>4. Under(g) \subseteq Paths
    BY <1>3, WithinPaths
  <1>5. \A p \in Under(g) : disk[p] = 0
    <2>1. CASE g[2] = Whole
      BY <2>1, <1>2 DEF Under, Exists
    <2>2. CASE g[2] # Whole
      BY <2>2, <1>2 DEF Under
    <2>3. QED
      BY <2>1, <2>2
  <1>6. /\ index' \in [Paths -> 0..MaxSymbols] /\ errors' \in Nat
        /\ orphaned \subseteq orphaned' /\ orphaned' \subseteq Paths
        /\ \A p \in Paths \ Under(g) : index'[p] = index[p]
        /\ \A p \in Under(g) : p \in orphaned' \/ index'[p] = 0
    <2>1. CASE Drops(g) /\ Succeeds
      <3>1. index' = [q \in Paths |-> IF q \in Under(g) THEN 0 ELSE index[q]]
        BY <2>1 DEF Drops, RemoveUnder
      <3>2. index' \in [Paths -> 0..MaxSymbols]
        BY <3>1, <1>1, Costs DEF IndexTyped
      <3>3. QED
        BY <2>1, <3>1, <3>2, <1>1, <1>4 DEF Succeeds, IndexTyped
    <2>2. CASE StatementFails(Under(g))
      BY <2>2, <1>1, <1>4 DEF StatementFails, IndexTyped
    <2>3. QED
      BY <1>2, <2>1, <2>2
  <1>7. IndexTyped'
    BY <1>1, <1>2, <1>3, <1>6 DEF IndexTyped
  <1>8. ScanShape' /\ BatchRight' /\ InFlight' = InFlight /\ \A p : ToScan(p)' <=> ToScan(p)
    BY <1>2, <1>6, ScanApart
  <1>9. WriteRight'
    BY <1>2 DEF WriteRight
  <1>10. Synced'
    <2> SUFFICES ASSUME NEW p \in Paths, p \notin orphaned', p[2] \notin Ignored
                 PROVE  RowsKept(p)'
      BY DEF Synced
    <2>1. RowsKept(p)
      BY <1>1, <1>6 DEF Synced
    <2>2. CASE p \in Under(g)
      BY <2>2, <1>2, <1>5, <1>6 DEF RowsKept, Symbols
    <2>3. CASE p \notin Under(g)
      <3>1. Due(p) => Due(p)'
        BY <2>3, <1>2, <1>3, <1>8 DEF Due
      <3>2. QED
        BY <2>1, <2>3, <3>1, <1>2, <1>6 DEF RowsKept, Symbols
    <2>4. QED
      BY <2>2, <2>3
  <1>11. QED
    BY <1>7, <1>8, <1>9, <1>10 DEF IndexInv

(* The event of a file that is there: it is read.                              *)
LEMMA TakeFileKeeps ==
  ASSUME IndexInv, TakeFile
  PROVE  IndexInv'
  <1> DEFINE f == Head(events)
  <1>1. IndexTyped /\ WriteRight /\ Synced
    BY DEF IndexInv
  <1>2. /\ consumer.step = "idle" /\ events # <<>> /\ events' = Tail(events)
        /\ f[2] # Whole
        /\ consumer' = [Idle EXCEPT !.step = "write", !.todo = {f}, !.rows = Symbols(disk[f])]
        /\ UNCHANGED <<disk, index, scan, channel, changes, errors, orphaned>>
    BY DEF TakeFile
  <1>3. /\ f \in EventPaths /\ events' \in Seq(EventPaths)
        /\ \A p \in Paths : Coming(p) => Coming(p)' \/ p \in Under(f)
    BY <1>2, EventTaken
  <1> HIDE DEF f
  <1>4. f \in Paths /\ Under(f) = {f}
    BY <1>2, <1>3 DEF EventPaths, Paths, Under
  <1>5. consumer' = [step |-> "write", dir |-> FALSE, todo |-> {f}, rows |-> Symbols(disk[f])]
    BY <1>2 DEF Idle
  <1>6. Symbols(disk[f]) \in 0..MaxSymbols
    BY <1>1, <1>4, SymbolsTyped DEF IndexTyped
  <1>7. consumer' \in Consumers
    BY <1>4, <1>5, <1>6 DEF Consumers
  <1>8. IndexTyped'
    BY <1>1, <1>2, <1>3, <1>7 DEF IndexTyped
  <1>9. ScanShape' /\ BatchRight' /\ InFlight' = InFlight /\ \A p : ToScan(p)' <=> ToScan(p)
    BY <1>2, ScanApart
  <1>10. WriteRight'
    BY <1>2, <1>4, <1>5 DEF WriteRight, Symbols
  <1>11. Synced'
    <2> SUFFICES ASSUME NEW p \in Paths, p \notin orphaned', p[2] \notin Ignored
                 PROVE  RowsKept(p)'
      BY DEF Synced
    <2>1. RowsKept(p)
      BY <1>1, <1>2 DEF Synced
    <2>2. Due(p) => Due(p)'
      <3>1. CASE p = f
        BY <3>1, <1>5 DEF Due
      <3>2. CASE p # f
        BY <3>2, <1>2, <1>3, <1>4, <1>9 DEF Due
      <3>3. QED
        BY <3>1, <3>2
    <2>3. QED
      BY <2>1, <2>2, <1>2 DEF RowsKept, Symbols
  <1>12. QED
    BY <1>8, <1>9, <1>10, <1>11 DEF IndexInv

(* The rows of the file that was read are written.                             *)
LEMMA ConsumerWritesKeeps ==
  ASSUME IndexInv, ConsumerWrites
  PROVE  IndexInv'
  <1>1. IndexTyped /\ WriteRight /\ Synced
    BY DEF IndexInv
  <1>2. consumer.step = "write" /\ consumer' = Idle /\ UNCHANGED <<disk, scan, channel, events, changes>>
    BY DEF ConsumerWrites
  <1>3. PICK f \in Paths : /\ consumer.todo = {f}
                           /\ f \in orphaned \/ consumer.rows = Symbols(disk[f]) \/ Coming(f)
    BY <1>1, <1>2 DEF WriteRight
  <1>4. \/ Succeeds /\ IF consumer.rows = 0 THEN RemoveUnder(f) ELSE IndexFile(f, consumer.rows)
        \/ StatementFails({f})
    BY <1>3 DEF ConsumerWrites
  <1>5. Under(f) = {f} /\ consumer.rows \in 0..MaxSymbols
    BY <1>1, WithinPaths DEF IndexTyped, Consumers
  <1>6. /\ index' \in [Paths -> 0..MaxSymbols] /\ errors' \in Nat
        /\ orphaned \subseteq orphaned' /\ orphaned' \subseteq Paths
        /\ \A p \in Paths \ {f} : index'[p] = index[p]
        /\ f \in orphaned' \/ index'[f] = consumer.rows
    <2>1. CASE Succeeds /\ consumer.rows = 0
      <3>1. index' = [q \in Paths |-> IF q \in {f} THEN 0 ELSE index[q]]
        <4>1. ~StatementFails({f})
          BY <2>1, <1>1 DEF Succeeds, StatementFails, IndexTyped
        <4>2. QED
          BY <2>1, <4>1, <1>4, <1>5 DEF RemoveUnder
      <3>2. index' \in [Paths -> 0..MaxSymbols]
        BY <3>1, <1>1, Costs DEF IndexTyped
      <3>3. QED
        BY <2>1, <3>1, <3>2, <1>1 DEF Succeeds, IndexTyped
    <2>2. CASE Succeeds /\ consumer.rows # 0 /\ IndexFile(f, consumer.rows)
      BY <2>2, <1>1, <1>5 DEF Succeeds, IndexTyped, IndexFile
    <2>3. CASE StatementFails({f})
      BY <2>3, <1>1 DEF StatementFails, IndexTyped
    <2>4. QED
      BY <1>4, <2>1, <2>2, <2>3
  <1>7. consumer' \in Consumers /\ consumer'.step = "idle"
    BY <1>2, Costs DEF Idle, Consumers
  <1>8. IndexTyped'
    BY <1>1, <1>2, <1>6, <1>7 DEF IndexTyped
  <1>9. ScanShape' /\ BatchRight' /\ InFlight' = InFlight /\ \A p : ToScan(p)' <=> ToScan(p)
    BY <1>2, <1>6, ScanApart
  <1>10. WriteRight'
    BY <1>7 DEF WriteRight
  <1>11. Synced'
    <2> SUFFICES ASSUME NEW p \in Paths, p \notin orphaned', p[2] \notin Ignored
                 PROVE  RowsKept(p)'
      BY DEF Synced
    <2>1. Coming(p)' <=> Coming(p)
      BY <1>2 DEF Coming
    <2>2. CASE p = f
      BY <2>1, <2>2, <1>2, <1>3, <1>6 DEF RowsKept, Due, Symbols
    <2>3. CASE p # f
      <3>1. RowsKept(p)
        BY <1>1, <1>6 DEF Synced
      <3>2. Due(p) => Due(p)'
        BY <2>1, <2>3, <1>3, <1>9 DEF Due
      <3>3. QED
        BY <2>3, <3>1, <3>2, <1>2, <1>6 DEF RowsKept, Symbols
    <2>4. QED
      BY <2>2, <2>3
  <1>12. QED
    BY <1>8, <1>9, <1>10, <1>11 DEF IndexInv

(* A file of the walked directory is read and stored, or skipped, or the walk fails. *)
LEMMA WalksFileKeeps ==
  ASSUME IndexInv, WalksFile
  PROVE  IndexInv'
  <1>1. IndexTyped /\ WriteRight /\ Synced
    BY DEF IndexInv
  <1>2. consumer.step = "read" /\ UNCHANGED <<disk, scan, channel, events, changes>>
    BY DEF WalksFile
  <1>3. PICK f \in consumer.todo :
           IF Symbols(disk[f]) = 0
             THEN /\ orphaned' = orphaned \cup (IF index[f] # 0 THEN {f} ELSE {})
                  /\ consumer' = [consumer EXCEPT !.todo = @ \ {f}]
                  /\ UNCHANGED <<index, errors>>
             ELSE \/ /\ IndexFile(f, Symbols(disk[f])) /\ Succeeds
                     /\ consumer' = [consumer EXCEPT !.todo = @ \ {f}]
                  \/ StatementFails(consumer.todo) /\ consumer' = Idle
    BY DEF WalksFile
  <1>4. consumer.todo \subseteq Paths /\ f \in Paths /\ consumer \in Consumers
    BY <1>1, <1>3 DEF IndexTyped, Consumers
  <1>5. Symbols(disk[f]) \in 0..MaxSymbols
    BY <1>1, <1>4, SymbolsTyped DEF IndexTyped
  <1>6. Idle \in Consumers /\ Idle.step = "idle"
    BY Costs DEF Idle, Consumers
  <1>7. /\ index' \in [Paths -> 0..MaxSymbols] /\ errors' \in Nat
        /\ orphaned \subseteq orphaned' /\ orphaned' \subseteq Paths
        /\ \A p \in Paths \ {f} : index'[p] = index[p]
        /\ f \in orphaned' \/ index'[f] = Symbols(disk[f])
        /\ consumer' \in Consumers /\ consumer'.step # "write"
        /\ \A p \in consumer.todo \ {f} : p \in orphaned' \/ (consumer'.step # "idle" /\ p \in consumer'.todo)
    <2>1. CASE Symbols(disk[f]) = 0
      <3>1. /\ orphaned' = orphaned \cup (IF index[f] # 0 THEN {f} ELSE {})
            /\ consumer' = [consumer EXCEPT !.todo = @ \ {f}]
            /\ index' = index /\ errors' = errors
        BY <2>1, <1>3
      <3>2. consumer' \in Consumers /\ consumer'.step = "read" /\ consumer'.todo = consumer.todo \ {f}
        BY <3>1, <1>2, <1>4 DEF Consumers
      <3>3. QED
        BY <2>1, <3>1, <3>2, <1>1, <1>4 DEF IndexTyped
    <2>2. CASE Symbols(disk[f]) # 0 /\ ~StatementFails(consumer.todo)
      <3>1. /\ index' = [index EXCEPT ![f] = Symbols(disk[f])]
            /\ consumer' = [consumer EXCEPT !.todo = @ \ {f}]
            /\ orphaned' = orphaned /\ errors' = errors
        BY <2>2, <1>3 DEF IndexFile, Succeeds
      <3>2. consumer' \in Consumers /\ consumer'.step = "read" /\ consumer'.todo = consumer.todo \ {f}
        BY <3>1, <1>2, <1>4 DEF Consumers
      <3>3. QED
        BY <3>1, <3>2, <1>1, <1>4, <1>5 DEF IndexTyped
    <2>3. CASE StatementFails(consumer.todo) /\ Symbols(disk[f]) # 0
      <3>1. CASE consumer' = Idle
        BY <2>3, <3>1, <1>1, <1>4, <1>6 DEF IndexTyped, StatementFails
      <3>2. CASE Succeeds
        BY <2>3, <3>2, <1>1 DEF Succeeds, StatementFails, IndexTyped
      <3>3. QED
        BY <2>3, <3>1, <3>2, <1>3
    <2>4. QED
      BY <2>1, <2>2, <2>3
  <1>8. IndexTyped'
    BY <1>1, <1>2, <1>7 DEF IndexTyped
  <1>9. ScanShape' /\ BatchRight' /\ InFlight' = InFlight /\ \A p : ToScan(p)' <=> ToScan(p)
    BY <1>2, <1>7, ScanApart
  <1>10. WriteRight'
    BY <1>7 DEF WriteRight
  <1>11. Synced'
    <2> SUFFICES ASSUME NEW p \in Paths, p \notin orphaned', p[2] \notin Ignored
                 PROVE  RowsKept(p)'
      BY DEF Synced
    <2>1. CASE p = f
      BY <2>1, <1>2, <1>7 DEF RowsKept, Symbols
    <2>2. CASE p # f
      <3>1. RowsKept(p)
        BY <1>1, <1>7 DEF Synced
      <3>2. Due(p) => Due(p)'
        BY <2>2, <1>2, <1>7, <1>9 DEF Due, Coming
      <3>3. QED
        BY <2>2, <3>1, <3>2, <1>2, <1>7 DEF RowsKept, Symbols
    <2>3. QED
      BY <2>1, <2>2
  <1>12. QED
    BY <1>8, <1>9, <1>10, <1>11 DEF IndexInv

(* The walk of a directory is over.                                            *)
LEMMA WalkEndsKeeps ==
  ASSUME IndexInv, WalkEnds
  PROVE  IndexInv'
  <1>1. IndexTyped /\ WriteRight /\ Synced
    BY DEF IndexInv
  <1>2. /\ consumer.todo = {} /\ consumer' = Idle
        /\ UNCHANGED <<disk, index, scan, channel, events, changes, errors, orphaned>>
    BY DEF WalkEnds
  <1>3. consumer' \in Consumers /\ consumer'.step = "idle"
    BY <1>2, Costs DEF Idle, Consumers
  <1>4. IndexTyped'
    BY <1>1, <1>2, <1>3 DEF IndexTyped
  <1>5. ScanShape' /\ BatchRight' /\ InFlight' = InFlight /\ \A p : ToScan(p)' <=> ToScan(p)
    BY <1>2, ScanApart
  <1>6. WriteRight'
    BY <1>3 DEF WriteRight
  <1>7. Synced'
    BY <1>1, <1>2, <1>5 DEF Synced, RowsKept, Due, Coming, Symbols
  <1>8. QED
    BY <1>4, <1>5, <1>6, <1>7 DEF IndexInv

(* What is no step of the index keeps its invariant.                           *)
LEMMA IndexRests ==
  ASSUME IndexInv, UNCHANGED <<disk, index, scan, channel, events, consumer, orphaned>>,
         changes' \in Nat, errors' \in Nat
  PROVE  IndexInv'
  <1>1. IndexTyped /\ WriteRight /\ Synced
    BY DEF IndexInv
  <1>2. IndexTyped'
    BY <1>1 DEF IndexTyped
  <1>3. ScanShape' /\ BatchRight'
    BY DEF IndexInv, ScanShape, BatchRight, InFlight, Symbols
  <1>4. WriteRight' /\ Synced'
    BY <1>1 DEF WriteRight, Synced, RowsKept, Due, Coming, ToScan, InFlight, Symbols
  <1>5. QED
    BY <1>2, <1>3, <1>4 DEF IndexInv

(* Every step of the system keeps the index's invariant.                       *)
LEMMA IndexKeeps ==
  ASSUME IndexInv, [ContextNext]_allVars
  PROVE  IndexInv'
  <1>1. changes \in Nat /\ errors \in Nat
    BY DEF IndexInv, IndexTyped
  <1>2. CASE IndexNext
    BY <1>2, WriteOrDeleteKeeps, RenameDirKeeps, ScanWalksKeeps, ScanReadsKeeps, ScanSendsKeeps,
       ScanPersistsKeeps, ScanEndsKeeps, TakeDirKeeps, TakeGoneKeeps, TakeFileKeeps,
       ConsumerWritesKeeps, WalksFileKeeps, WalkEndsKeeps
       DEF IndexNext, Scan, Consume
  <1>3. CASE UNCHANGED indexVars
    BY <1>1, <1>3, IndexRests DEF indexVars
  <1>4. CASE WorldChanges
    <2>1. UNCHANGED <<disk, index, scan, channel, events, consumer, errors, orphaned>> /\ changes' \in Nat
      BY <1>1, <1>4 DEF WorldChanges
    <2>2. QED
      BY <1>1, <2>1, IndexRests
  <1>5. ASSUME NEW r \in Runners, LoadSources(r)
        PROVE  IndexInv'
    <2>1. UNCHANGED <<disk, index, scan, channel, events, consumer, changes, orphaned>>
      BY <1>5 DEF LoadSources
    <2>2. errors' = errors \/ (errors > 0 /\ errors' = errors - 1)
      BY <1>5, Zenon DEF LoadSources
    <2>3. errors' \in Nat
      BY <1>1, <2>2
    <2>4. QED
      BY <1>1, <2>1, <2>3, IndexRests
  <1>6. [ContextNext]_allVars => IndexNext \/ UNCHANGED indexVars \/ WorldChanges \/ \E r \in Runners : LoadSources(r)
    BY DEF ContextNext, allVars, Fold, ReadRevision, Turn, ReadSnapshot, Commit
  <1>7. QED
    BY <1>2, <1>3, <1>4, <1>5, <1>6

(* The invariant holds throughout.                                             *)
LEMMA IndexHolds == ContextSpec => []IndexInv
  <1>1. ContextInit => IndexInv
    BY IndexBegins DEF ContextInit
  <1>2. IndexInv /\ [ContextNext]_allVars => IndexInv'
    BY IndexKeeps
  <1>3. QED
    BY <1>1, <1>2, PTL DEF ContextSpec

(* Once the scan is over and the watcher has handled every event, the table holds  *)
(* each file's present symbols, whatever was changed, renamed or not stored in      *)
(* between: all files but the ignored ones and those whose stale rows the code       *)
(* leaves behind (indexer.rs, watcher.rs:48-76, symbols.rs:71-93).                   *)
THEOREM IndexStaysCurrent == ContextSpec => []IndexCurrent
  <1>1. IndexInv => IndexCurrent
    <2> SUFFICES ASSUME IndexInv, Settled, NEW p \in Paths \ orphaned, p[2] \notin Ignored
                 PROVE  index[p] = Symbols(disk[p])
      BY DEF IndexCurrent
    <2>1. RowsKept(p) /\ scan.todo = {} /\ scan.held = {} /\ channel = <<>> /\ events = <<>>
      BY DEF IndexInv, Synced, Settled, ScanShape
    <2>2. Range(channel) = {} /\ Range(events) = {}
      BY <2>1 DEF Range
    <2>3. ~Due(p)
      BY <2>1, <2>2 DEF Due, Coming, ToScan, InFlight, Settled
    <2>4. QED
      BY <2>1, <2>3 DEF RowsKept
  <1>2. QED
    BY <1>1, IndexHolds, PTL

(* The repository map keeps to its token budget but for two omission markers,       *)
(* whatever the table holds (repomap.rs:54-66, 82-85).                               *)
THEOREM MapStaysBounded == ContextSpec => []MapBounded
  <1>1. IndexInv => MapBounded
    <2> SUFFICES ASSUME IndexInv
                 PROVE  MapBounded
      OBVIOUS
    <2>1. index \in Counts
      <3>1. index \in [Paths -> 0..MaxSymbols] /\ 0..MaxSymbols \subseteq Nat
        BY Costs DEF IndexInv, IndexTyped
      <3>2. QED
        BY <3>1 DEF Counts
    <2>2. QED
      BY <2>1, RepoMapBounded DEF MapBounded
  <1>2. QED
    BY <1>1, IndexHolds, PTL

-----------------------------------------------------------------------------
(* The facts the model is told.                                                *)

Worlds == [date : Nat, git : SUBSET {"workspace", "active"}, agents : [1..Levels -> 0..MaxTexts]]

Epochs == [here : BOOLEAN, baseline : Facts, snapshot : Facts, revision : Nat]

Turns == [step : {"closed", "rest", "load", "compare", "commit"}, had : BOOLEAN, revision : Nat,
          now : Facts, seen : BOOLEAN, snapshot : Facts]

ContextTyped ==
    /\ world \in Worlds /\ epoch \in Epochs /\ told \in Seq(Facts)
    /\ turn \in [Runners -> Turns] /\ folds \in Nat /\ lost \subseteq Sources

(* Two sets of facts agree on a source.                                         *)
Agree(s, f, g) == ~Differs(s, f, g)

(* What a set of facts does not know is as in Nothing.                          *)
Unknown(f) == \A s \in Sources \ f.of : Agree(s, Nothing, f)

(* Without an epoch nothing has been told, and its revision counts the rows since. *)
Fresh == ~epoch.here => told = <<>> /\ epoch.revision = 0

(* A turn whose revision is still the epoch's has seen the epoch's snapshot.     *)
TurnRight(r) ==
    /\ turn[r].revision <= epoch.revision
    /\ Unknown(turn[r].now)
    /\ turn[r].step = "commit" /\ turn[r].seen =>
          epoch.here /\ (epoch.revision = turn[r].revision => turn[r].snapshot = epoch.snapshot)

ToldInv == Fresh /\ (\A r \in Runners : TurnRight(r)) /\ Told

(* Facts agree on a source when they have the same value of it.                  *)
LEMMA Agreement ==
  ASSUME NEW s \in Sources, NEW f, NEW g
  PROVE  /\ Agree(s, f, f) /\ (Agree(s, f, g) => Agree(s, g, f))
         /\ \A h : Agree(s, f, g) /\ Agree(s, g, h) => Agree(s, f, h)
  BY DEF Sources, Agree, Differs

(* Facts laid over others.                                                       *)
LEMMA OverlayTyped ==
  ASSUME NEW old \in Facts, NEW new \in Facts, NEW changed \in SUBSET Sources
  PROVE  Overlay(old, new, changed) \in Facts
  <1>1. old.of \subseteq Sources /\ old.date \in Nat /\ old.git \in BOOLEAN /\ old.text \in 0..MaxTexts
        /\ old.map \in [blocks : Seq(Blocks), used : Nat, omitted : Nat]
        /\ new.of \subseteq Sources /\ new.date \in Nat /\ new.git \in BOOLEAN /\ new.text \in 0..MaxTexts
        /\ new.map \in [blocks : Seq(Blocks), used : Nat, omitted : Nat]
    BY DEF Facts
  <1>2. QED
    BY <1>1 DEF Facts, Overlay

(* ... they agree with the new ones on what changed and with the old ones elsewhere. *)
LEMMA OverlayAgrees ==
  ASSUME NEW old, NEW new, NEW changed, NEW s \in Sources
  PROVE  /\ s \in changed => Agree(s, Overlay(old, new, changed), new)
         /\ s \notin changed => Agree(s, Overlay(old, new, changed), old)
         /\ Overlay(old, new, changed).of = old.of \cup changed
  BY DEF Sources, Agree, Differs, Overlay

(* To know nothing is a set of facts.                                            *)
LEMMA NothingTyped == Nothing \in Facts /\ NoMap \in Maps /\ Unknown(Nothing)
  <1>1. <<>> \in Seq(Blocks)
    BY EmptySeq
  <1>2. NoMap \in Maps
    BY <1>1 DEF NoMap, Maps
  <1>3. 0 \in 0..MaxTexts
    BY ContextAssumption
  <1>4. Nothing \in Facts
    BY <1>2, <1>3 DEF Nothing, Facts, Maps
  <1>5. QED
    BY <1>2, <1>4, Agreement DEF Unknown

(* What the sources load is a set of facts, and nothing of a source that failed.  *)
LEMMA LoadedTyped ==
  ASSUME world \in Worlds, index \in Counts, NEW available \in BOOLEAN
  PROVE  Loaded(available) \in Facts /\ Unknown(Loaded(available))
  <1>1. world.date \in Nat /\ world.agents \in [1..Levels -> 0..MaxTexts]
    BY DEF Worlds
  <1>2. Instructions \in 0..MaxTexts
    <2> DEFINE found == {l \in 1..Levels : world.agents[l] # 0}
               nearest == CHOOSE l \in found : \A k \in found : l <= k
    <2>1. CASE found = {}
      BY <2>1, ContextAssumption DEF Instructions
    <2>2. CASE found # {}
      <3>1. found \subseteq Nat
        BY ContextAssumption
      <3>2. \E l \in found : \A k \in found : l <= k
        BY <2>2, <3>1, Least
      <3>3. nearest \in found
        BY <3>2
      <3>4. world.agents[nearest] \in 0..MaxTexts
        BY <3>3, <1>1
      <3>5. Instructions = world.agents[nearest]
        BY <2>2 DEF Instructions
      <3>6. QED
        BY <3>4, <3>5
    <2>3. QED
      BY <2>1, <2>2
  <1>3. RepoMap(index) \in Maps /\ NoMap \in Maps
    BY RepoMapBounded, NothingTyped
  <1>4. Loaded(available) \in Facts
    <2>1. Vcs \in BOOLEAN /\ Today \in Nat
      BY <1>1 DEF Vcs, Today
    <2>2. (IF available THEN RepoMap(index) ELSE NoMap) \in [blocks : Seq(Blocks), used : Nat, omitted : Nat]
      BY <1>3 DEF Maps
    <2>3. (IF available THEN Sources ELSE Sources \ {"repomap"}) \in SUBSET Sources
      OBVIOUS
    <2>4. QED
      BY <1>2, <2>1, <2>2, <2>3 DEF Loaded, Facts
  <1>5. Unknown(Loaded(available))
    BY DEF Unknown, Loaded, Agree, Differs, Nothing, Sources
  <1>6. QED
    BY <1>4, <1>5

-----------------------------------------------------------------------------
(* What the model believes.                                                    *)

(* The rows that tell of a source.                                              *)
Tellers(s, list) == {i \in DOMAIN list : s \in list[i].of}

(* The belief in those terms; the last row to tell is one of them.               *)
LEMMA BeliefIs ==
  ASSUME told \in Seq(Facts), NEW s
  PROVE  /\ Belief(s) = IF Tellers(s, told) # {} THEN told[Max(Tellers(s, told))]
                        ELSE IF s \in epoch.baseline.of THEN epoch.baseline ELSE Nothing
         /\ Len(told) \in Nat /\ DOMAIN told = 1..Len(told)
         /\ Tellers(s, told) # {} => /\ Max(Tellers(s, told)) \in Tellers(s, told)
                                     /\ \A i \in Tellers(s, told) : i <= Max(Tellers(s, told))
  <1>1. Len(told) \in Nat /\ DOMAIN told = 1..Len(told)
    BY LenProperties
  <1>2. Tellers(s, told) \subseteq 0..Len(told)
    BY <1>1 DEF Tellers
  <1>3. Tellers(s, told) # {} => /\ Max(Tellers(s, told)) \in Tellers(s, told)
                                 /\ \A i \in Tellers(s, told) : i <= Max(Tellers(s, told))
    BY <1>1, <1>2, Maximum
  <1>4. QED
    BY <1>1, <1>3 DEF Belief, Tellers

(* A greatest number is the only one.                                            *)
LEMMA MaximumIs ==
  ASSUME NEW b \in Nat, NEW T \in SUBSET (0..b), NEW m \in T, \A i \in T : i <= m
  PROVE  Max(T) = m
  <1>1. Max(T) \in T /\ \A y \in T : y <= Max(T)
    BY Maximum
  <1>2. m <= Max(T) /\ Max(T) <= m /\ m \in 0..b /\ Max(T) \in 0..b
    BY <1>1
  <1>3. QED
    BY <1>1, <1>2

(* A row more: it is believed where it tells of the source.                       *)
LEMMA BeliefAfterRow ==
  ASSUME told \in Seq(Facts), NEW x \in Facts, told' = Append(told, x),
         epoch'.baseline = epoch.baseline, NEW s
  PROVE  Belief(s)' = IF s \in x.of THEN x ELSE Belief(s)
  <1> DEFINE n == Len(told)
             old == Tellers(s, told)
             new == Tellers(s, told')
  <1>1. n \in Nat /\ DOMAIN told = 1..n
    BY LenProperties
  <1>2. told' \in Seq(Facts) /\ DOMAIN told' = 1..(n + 1) /\ told'[n + 1] = x
        /\ \A i \in 1..n : told'[i] = told[i]
    BY AppendProperties, LenProperties
  <1>3. new = old \cup (IF s \in x.of THEN {n + 1} ELSE {})
    BY <1>1, <1>2 DEF Tellers
  <1>4. old \in SUBSET (0..(n + 1)) /\ new \in SUBSET (0..(n + 1)) /\ n + 1 \in Nat
    BY <1>1, <1>2 DEF Tellers
  <1>5. Belief(s)' = IF new # {} THEN told'[Max(new)]
                     ELSE IF s \in epoch'.baseline.of THEN epoch'.baseline ELSE Nothing
    BY DEF Belief, Tellers
  <1>6. Belief(s) = IF old # {} THEN told[Max(old)]
                    ELSE IF s \in epoch.baseline.of THEN epoch.baseline ELSE Nothing
    BY DEF Belief, Tellers
  <1>7. CASE s \in x.of
    <2>1. n + 1 \in new /\ \A i \in new : i <= n + 1
      BY <1>3, <1>4, <1>7
    <2>2. Max(new) = n + 1
      BY <1>4, <2>1, MaximumIs
    <2>3. QED
      BY <1>2, <1>5, <1>7, <2>1, <2>2
  <1>8. CASE s \notin x.of
    <2>1. new = old
      BY <1>3, <1>8
    <2>2. old # {} => told'[Max(old)] = told[Max(old)]
      <3>1. old # {} => Max(old) \in old
        BY <1>4, Maximum
      <3>2. QED
        BY <3>1, <1>1, <1>2 DEF Tellers
    <2>3. QED
      BY <1>5, <1>6, <1>8, <2>1, <2>2
  <1>9. QED
    BY <1>7, <1>8

(* The oldest rows gone: nothing changes if they do not tell of the source.       *)
LEMMA BeliefAfterFold ==
  ASSUME told \in Seq(Facts), NEW n \in 1..Len(told), told' = SubSeq(told, n + 1, Len(told)),
         epoch' = epoch, NEW s, \A i \in 1..n : s \notin told[i].of
  PROVE  Belief(s)' = Belief(s)
  <1> DEFINE k == Len(told)
             old == Tellers(s, told)
             new == Tellers(s, told')
  <1>1. k \in Nat /\ DOMAIN told = 1..k
    BY LenProperties
  <1>2. DOMAIN told' = 1..(k - n) /\ (\A i \in 1..(k - n) : told'[i] = told[i + n]) /\ k - n \in Nat
    <2>1. n + 1 \in Nat /\ n \in Nat /\ n <= k
      BY <1>1
    <2>2. \A i \in n + 1 .. k : i \in 1..k
      BY <1>1, <2>1
    <2>3. Len(told') = (IF n + 1 <= k THEN k - (n + 1) + 1 ELSE 0)
          /\ \A i \in 1..(k - (n + 1) + 1) : told'[i] = told[n + 1 + i - 1]
          /\ told' \in Seq(Facts)
      BY <1>1, <2>1, SubSeqProperties
    <2>4. QED
      BY <1>1, <2>1, <2>3, LenProperties
  <1>3. /\ \A i \in new : i + n \in old
        /\ \A i \in old : i - n \in new
    <2>1. ASSUME NEW i \in new
          PROVE  i + n \in old
      <3>1. i \in 1..(k - n) /\ s \in told'[i].of
        BY <1>2 DEF Tellers
      <3>2. i + n \in 1..k /\ told'[i] = told[i + n]
        BY <1>1, <1>2, <3>1
      <3>3. QED
        BY <1>1, <3>1, <3>2 DEF Tellers
    <2>2. ASSUME NEW i \in old
          PROVE  i - n \in new
      <3>1. i \in 1..k /\ s \in told[i].of /\ i \notin 1..n
        BY <1>1 DEF Tellers
      <3>2. i - n \in 1..(k - n) /\ (i - n) + n = i
        BY <1>1, <1>2, <3>1
      <3>3. told'[i - n] = told[i]
        BY <1>2, <3>2
      <3>4. QED
        BY <1>2, <3>1, <3>2, <3>3 DEF Tellers
    <2>3. QED
      BY <2>1, <2>2
  <1>4. old \in SUBSET (0..k) /\ new \in SUBSET (0..k)
    BY <1>1, <1>2 DEF Tellers
  <1>5. Belief(s)' = IF new # {} THEN told'[Max(new)]
                     ELSE IF s \in epoch'.baseline.of THEN epoch'.baseline ELSE Nothing
    BY DEF Belief, Tellers
  <1>6. Belief(s) = IF old # {} THEN told[Max(old)]
                    ELSE IF s \in epoch.baseline.of THEN epoch.baseline ELSE Nothing
    BY DEF Belief, Tellers
  <1>7. CASE old = {}
    BY <1>3, <1>5, <1>6, <1>7
  <1>8. CASE old # {}
    <2> DEFINE m == Max(old)
    <2>1. m \in old /\ \A i \in old : i <= m
      BY <1>1, <1>4, <1>8, Maximum
    <2>2. m - n \in new /\ m \in 1..k /\ n \in 1..k
      BY <1>1, <1>3, <2>1 DEF Tellers
    <2>3. \A i \in new : i <= m - n
      <3>1. ASSUME NEW i \in new
            PROVE  i <= m - n
        <4>1. i + n <= m /\ i \in 0..k
          BY <1>3, <1>4, <2>1
        <4>2. QED
          BY <4>1, <2>2, <1>1
      <3>2. QED
        BY <3>1
    <2>4. Max(new) = m - n
      BY <1>1, <1>4, <2>2, <2>3, MaximumIs
    <2>5. m - n \in 1..(k - n)
      BY <2>2, <1>2 DEF Tellers
    <2>6. told'[m - n] = told[m]
      BY <2>2, <2>5, <1>1, <1>2
    <2>7. QED
      BY <1>5, <1>6, <1>8, <2>2, <2>4, <2>6
  <1>9. QED
    BY <1>7, <1>8

-----------------------------------------------------------------------------
(* The invariant of the epoch, and the steps that concern it.                  *)

EpochInv == IndexInv /\ ContextTyped /\ ToldInv

(* It holds in the beginning.                                                   *)
LEMMA EpochBegins == ContextInit => EpochInv
  <1> SUFFICES ASSUME ContextInit
               PROVE  EpochInv
    OBVIOUS
  <1>1. PICK start \in Starts :
           /\ IndexInit(start)
           /\ world = [date |-> 0, git |-> {},
                       agents |-> [l \in 1..Levels |-> IF l = Levels THEN 1 ELSE 0]]
           /\ epoch = [here |-> FALSE, baseline |-> Nothing, snapshot |-> Nothing, revision |-> 0]
           /\ told = <<>>
           /\ turn = [r \in Runners |-> IF r \in start.open THEN Resting
                                        ELSE [Resting EXCEPT !.step = "closed"]]
           /\ folds = start.folds /\ lost = {}
    BY DEF ContextInit
  <1>2. IndexInv
    BY <1>1, IndexBegins
  <1>3. world \in Worlds
    <2>1. [l \in 1..Levels |-> IF l = Levels THEN 1 ELSE 0] \in [1..Levels -> 0..MaxTexts]
      BY ContextAssumption
    <2>2. QED
      BY <1>1, <2>1 DEF Worlds
  <1>4. epoch \in Epochs /\ ~epoch.here
    BY <1>1, NothingTyped DEF Epochs
  <1>5. Resting \in Turns /\ [Resting EXCEPT !.step = "closed"] \in Turns
    BY NothingTyped DEF Resting, Turns
  <1>6. \A r \in Runners : /\ turn[r] \in Turns /\ turn[r].revision = 0 /\ turn[r].now = Nothing
                           /\ turn[r].step \in {"rest", "closed"}
    BY <1>1, <1>5 DEF Resting
  <1>7. told \in Seq(Facts)
    BY <1>1, EmptySeq
  <1>8. ContextTyped
    BY <1>1, <1>3, <1>4, <1>5, <1>7, ContextAssumption DEF ContextTyped
  <1>9. Fresh /\ Told
    BY <1>1, <1>4 DEF Fresh, Told
  <1>10. \A r \in Runners : TurnRight(r)
    BY <1>1, <1>6, NothingTyped DEF TurnRight
  <1>11. QED
    BY <1>2, <1>8, <1>9, <1>10 DEF EpochInv, ToldInv

(* The belief and the record depend on the rows and the epoch alone.            *)
LEMMA ToldRests ==
  ASSUME Told, UNCHANGED <<epoch, told, lost>>
  PROVE  Told'
  <1>1. \A s : Belief(s)' = Belief(s)
    BY DEF Belief
  <1>2. QED
    BY <1>1 DEF Told, Differs

(* The world changes: the epoch does not.                                       *)
LEMMA WorldChangesKeeps ==
  ASSUME EpochInv, WorldChanges
  PROVE  ContextTyped' /\ ToldInv'
  <1>1. UNCHANGED <<epoch, told, turn, folds, lost>>
    BY DEF WorldChanges
  <1>2. world' \in Worlds
    <2>1. world \in Worlds
      BY DEF EpochInv, ContextTyped
    <2>2. world.date \in Nat /\ world.git \subseteq {"workspace", "active"}
          /\ world.agents \in [1..Levels -> 0..MaxTexts]
          /\ world = [date |-> world.date, git |-> world.git, agents |-> world.agents]
      BY <2>1 DEF Worlds
    <2>3. CASE world' = [world EXCEPT !.date = @ + 1]
      <3>1. world' = [date |-> world.date + 1, git |-> world.git, agents |-> world.agents]
        BY <2>2, <2>3
      <3>2. QED
        BY <2>2, <3>1 DEF Worlds
    <2>4. ASSUME NEW d \in {"workspace", "active"},
                 world' = [world EXCEPT !.git = IF d \in @ THEN @ \ {d} ELSE @ \cup {d}]
          PROVE  world' \in Worlds
      <3>1. world' = [date |-> world.date, agents |-> world.agents,
                      git |-> IF d \in world.git THEN world.git \ {d} ELSE world.git \cup {d}]
        BY <2>2, <2>4
      <3>2. QED
        BY <2>2, <3>1 DEF Worlds
    <2>5. ASSUME NEW l \in 1..Levels, NEW x \in 0..MaxTexts, world' = [world EXCEPT !.agents[l] = x]
          PROVE  world' \in Worlds
      <3>1. world' = [date |-> world.date, git |-> world.git, agents |-> [world.agents EXCEPT ![l] = x]]
        BY <2>2, <2>5
      <3>2. QED
        BY <2>2, <3>1 DEF Worlds
    <2>6. QED
      BY <2>3, <2>4, <2>5 DEF WorldChanges
  <1>3. ContextTyped'
    BY <1>1, <1>2 DEF EpochInv, ContextTyped
  <1>4. Told'
    BY <1>1, ToldRests DEF EpochInv, ToldInv
  <1>5. Fresh' /\ \A r \in Runners : TurnRight(r)'
    BY <1>1 DEF EpochInv, ToldInv, Fresh, TurnRight
  <1>6. QED
    BY <1>3, <1>4, <1>5 DEF ToldInv

(* The oldest rows are folded into a summary.                                   *)
LEMMA FoldKeeps ==
  ASSUME EpochInv, Fold
  PROVE  ContextTyped' /\ ToldInv'
  <1>1. PICK n \in 1..Len(told) :
           /\ told' = SubSeq(told, n + 1, Len(told))
           /\ lost' = lost \cup Cuttable(SubSeq(told, 1, n))
    BY DEF Fold
  <1>2. UNCHANGED <<world, epoch, turn>> /\ told # <<>> /\ folds > 0 /\ folds' = folds - 1
    BY DEF Fold
  <1>3. told \in Seq(Facts) /\ folds \in Nat /\ lost \subseteq Sources
    BY DEF EpochInv, ContextTyped
  <1>4. Len(told) \in Nat /\ DOMAIN told = 1..Len(told) /\ \A i \in 1..Len(told) : told[i] \in Facts
    BY <1>3, LenProperties
  <1> DEFINE first == SubSeq(told, 1, n)
  <1>5. /\ first \in Seq(Facts) /\ DOMAIN first = 1..n /\ \A i \in 1..n : first[i] = told[i]
    <2>1. n \in Nat /\ n <= Len(told) /\ 1 <= n /\ \A i \in 1..n : told[i] \in Facts
      BY <1>4
    <2>2. first \in Seq(Facts) /\ Len(first) = n - 1 + 1 /\ \A i \in 1..(n - 1 + 1) : first[i] = told[1 + i - 1]
      BY <2>1, SubSeqProperties
    <2>3. QED
      BY <2>1, <2>2, LenProperties
  <1> HIDE DEF first
  <1>6. ToSet(first) \subseteq Facts /\ \A i \in 1..n : told[i] \in ToSet(first)
    <2>1. ToSet(first) = {first[i] : i \in DOMAIN first}
      BY DEF ToSet
    <2>2. QED
      BY <2>1, <1>5, <1>4
  <1>7. Cuttable(first) \subseteq Sources /\ \A i \in 1..n : told[i].of \subseteq Cuttable(first)
    BY <1>6 DEF Cuttable, Facts
  <1>8. told' \in Seq(Facts)
    <2>1. n + 1 \in Nat /\ \A i \in n + 1 .. Len(told) : told[i] \in Facts
      BY <1>4
    <2>2. QED
      BY <1>1, <1>4, <2>1, SubSeqProperties
  <1>9. lost' \subseteq Sources /\ lost \subseteq lost'
    BY <1>1, <1>3, <1>7 DEF first
  <1>10. folds' \in Nat
    BY <1>2, <1>3
  <1>11. ContextTyped'
    BY <1>2, <1>8, <1>9, <1>10 DEF EpochInv, ContextTyped
  <1>12. \A s \in Sources \ lost' : Belief(s)' = Belief(s)
    <2> SUFFICES ASSUME NEW s \in Sources \ lost'
                 PROVE  Belief(s)' = Belief(s)
      OBVIOUS
    <2>1. \A i \in 1..n : s \notin told[i].of
      BY <1>1, <1>7 DEF first
    <2>2. QED
      BY <1>1, <1>2, <1>3, <2>1, BeliefAfterFold
  <1>13. Told'
    <2> SUFFICES ASSUME epoch.here, NEW s \in {"date", "instructions", "repomap"} \ lost'
                 PROVE  ~Differs(s, Belief(s), epoch.snapshot)'
      BY <1>2 DEF Told
    <2>1. ~Differs(s, Belief(s), epoch.snapshot)
      BY <1>9 DEF EpochInv, ToldInv, Told
    <2>2. Belief(s)' = Belief(s) /\ epoch'.snapshot = epoch.snapshot
      BY <1>2, <1>12 DEF Sources
    <2>3. QED
      BY <2>1, <2>2 DEF Differs
  <1>14. epoch.here
    BY <1>2 DEF EpochInv, ToldInv, Fresh
  <1>15. Fresh' /\ \A r \in Runners : TurnRight(r)'
    BY <1>2, <1>14 DEF EpochInv, ToldInv, Fresh, TurnRight
  <1>16. QED
    BY <1>11, <1>13, <1>15 DEF ToldInv

(* A step of one runner's turn that leaves the epoch as it is.                  *)
LEMMA TurnSteps ==
  ASSUME EpochInv, NEW r \in Runners, turn' \in [Runners -> Turns],
         \A q \in Runners \ {r} : turn'[q] = turn[q], 
         UNCHANGED <<world, epoch, told, folds, lost>>, TurnRight(r)'
  PROVE  ContextTyped' /\ ToldInv'
  <1>1. ContextTyped'
    BY DEF EpochInv, ContextTyped
  <1>2. ASSUME NEW q \in Runners
        PROVE  TurnRight(q)'
    <2>1. CASE q = r
      BY <2>1
    <2>2. CASE q # r
      <3>1. turn'[q] = turn[q]
        BY <2>2
      <3>2. QED
        BY <3>1 DEF EpochInv, ToldInv, TurnRight
    <2>3. QED
      BY <2>1, <2>2
  <1>3. Told'
    BY ToldRests DEF EpochInv, ToldInv
  <1>4. Fresh'
    BY DEF EpochInv, ToldInv, Fresh
  <1>5. QED
    BY <1>1, <1>2, <1>3, <1>4 DEF ToldInv

(* A turn reads the epoch's revision.                                           *)
LEMMA ReadRevisionKeeps ==
  ASSUME EpochInv, NEW r \in Runners, ReadRevision(r)
  PROVE  ContextTyped' /\ ToldInv'
  <1> DEFINE t == [Resting EXCEPT !.step = "load", !.had = epoch.here, !.revision = epoch.revision]
  <1>1. turn' = [turn EXCEPT ![r] = t] /\ UNCHANGED <<world, epoch, told, folds, lost>>
    BY DEF ReadRevision
  <1>2. epoch.here \in BOOLEAN /\ epoch.revision \in Nat /\ turn \in [Runners -> Turns]
    BY DEF EpochInv, ContextTyped, Epochs
  <1>3. Resting \in Turns /\ Resting.now = Nothing
    BY NothingTyped DEF Turns, Resting
  <1>4. t \in Turns /\ t.revision = epoch.revision /\ t.now = Nothing /\ t.step = "load"
    BY <1>2, <1>3 DEF Turns
  <1> HIDE DEF t
  <1>5. turn'[r] = t /\ turn' \in [Runners -> Turns] /\ \A q \in Runners \ {r} : turn'[q] = turn[q]
    BY <1>1, <1>2, <1>4
  <1>6. TurnRight(r)'
    <2>1. Unknown(turn'[r].now)
      BY <1>4, <1>5, NothingTyped
    <2>2. turn'[r].revision <= epoch'.revision /\ turn'[r].step # "commit"
      BY <1>1, <1>2, <1>4, <1>5
    <2>3. QED
      BY <2>1, <2>2 DEF TurnRight, Unknown, Agree, Differs
  <1>7. QED
    BY <1>1, <1>5, <1>6, TurnSteps

(* A turn loads the sources.                                                    *)
LEMMA LoadSourcesKeeps ==
  ASSUME EpochInv, NEW r \in Runners, LoadSources(r)
  PROVE  ContextTyped' /\ ToldInv'
  <1>1. PICK available \in BOOLEAN :
           turn' = [turn EXCEPT ![r].step = "compare", ![r].now = Loaded(available)]
    BY DEF LoadSources
  <1>2. UNCHANGED <<world, epoch, told, folds, lost>>
    BY DEF LoadSources
  <1>3. turn \in [Runners -> Turns] /\ turn[r] \in Turns /\ TurnRight(r) /\ world \in Worlds
    BY DEF EpochInv, ContextTyped, ToldInv
  <1>4. index \in Counts
    <2>1. index \in [Paths -> 0..MaxSymbols] /\ 0..MaxSymbols \subseteq Nat
      BY Costs DEF EpochInv, IndexInv, IndexTyped
    <2>2. QED
      BY <2>1 DEF Counts
  <1>5. Loaded(available) \in Facts /\ Unknown(Loaded(available))
    BY <1>3, <1>4, LoadedTyped
  <1> DEFINE now == Loaded(available)
             t == [step |-> "compare", had |-> turn[r].had, revision |-> turn[r].revision, now |-> now,
                   seen |-> turn[r].seen, snapshot |-> turn[r].snapshot]
  <1> HIDE DEF now
  <1>6. t \in Turns
    BY <1>3, <1>5 DEF Turns, now
  <1>7. turn'[r] = t /\ \A q \in Runners \ {r} : turn'[q] = turn[q]
    <2>1. turn'[r] = [turn[r] EXCEPT !.step = "compare", !.now = now]
          /\ \A q \in Runners \ {r} : turn'[q] = turn[q]
      BY <1>1, <1>3 DEF now
    <2>2. QED
      BY <2>1, <1>3 DEF Turns
  <1> HIDE DEF t
  <1>8. turn' \in [Runners -> Turns]
    BY <1>1, <1>3, <1>6, <1>7
  <1>9. TurnRight(r)'
    <2>1. turn'[r].revision = turn[r].revision /\ turn'[r].now = now /\ turn'[r].step = "compare"
      BY <1>7 DEF t
    <2>2. Unknown(turn'[r].now)
      BY <1>5, <2>1 DEF now
    <2>3. QED
      BY <1>2, <1>3, <2>1, <2>2 DEF TurnRight, Unknown, Agree, Differs
  <1>10. QED
    BY <1>2, <1>7, <1>8, <1>9, TurnSteps

(* A turn reads the epoch's snapshot.                                           *)
LEMMA ReadSnapshotKeeps ==
  ASSUME EpochInv, NEW r \in Runners, ReadSnapshot(r)
  PROVE  ContextTyped' /\ ToldInv'
  <1>1. turn' = [turn EXCEPT ![r].step = "commit", ![r].seen = epoch.here, ![r].snapshot = epoch.snapshot]
        /\ UNCHANGED <<world, epoch, told, folds, lost>>
    BY DEF ReadSnapshot
  <1>2. turn \in [Runners -> Turns] /\ turn[r] \in Turns /\ TurnRight(r) /\ epoch \in Epochs
    BY DEF EpochInv, ContextTyped, ToldInv
  <1>3. epoch.here \in BOOLEAN /\ epoch.snapshot \in Facts
    BY <1>2 DEF Epochs
  <1> DEFINE t == [step |-> "commit", had |-> turn[r].had, revision |-> turn[r].revision,
                   now |-> turn[r].now, seen |-> epoch.here, snapshot |-> epoch.snapshot]
  <1>4. t \in Turns
    BY <1>2, <1>3 DEF Turns
  <1>5. turn'[r] = t /\ \A q \in Runners \ {r} : turn'[q] = turn[q]
    <2>1. turn'[r] = [turn[r] EXCEPT !.step = "commit", !.seen = epoch.here, !.snapshot = epoch.snapshot]
          /\ \A q \in Runners \ {r} : turn'[q] = turn[q]
      BY <1>1, <1>2
    <2>2. QED
      BY <2>1, <1>2 DEF Turns
  <1> HIDE DEF t
  <1>6. turn' \in [Runners -> Turns]
    BY <1>1, <1>2, <1>4, <1>5
  <1>7. TurnRight(r)'
    <2>1. /\ turn'[r].revision = turn[r].revision /\ turn'[r].now = turn[r].now
          /\ turn'[r].seen = epoch.here /\ turn'[r].snapshot = epoch.snapshot
      BY <1>5 DEF t
    <2>2. QED
      BY <1>1, <1>2, <2>1 DEF TurnRight, Unknown, Agree, Differs
  <1>8. QED
    BY <1>1, <1>5, <1>6, <1>7, TurnSteps

(* The first baseline is written: the model is told of all it holds.            *)
LEMMA InsertKeeps ==
  ASSUME EpochInv, NEW t \in Turns, Unknown(t.now), InsertEpoch(t), lost' = lost
  PROVE  /\ epoch' \in Epochs /\ told' = told /\ epoch'.here /\ Told'
         /\ epoch.here => epoch' = epoch
         /\ ~epoch.here => epoch'.revision = epoch.revision
  <1>1. epoch \in Epochs /\ told' = told /\ t.now \in Facts
    BY DEF EpochInv, ContextTyped, InsertEpoch, Turns
  <1>2. CASE epoch.here
    <2>1. epoch' = epoch
      BY <1>2 DEF InsertEpoch
    <2>2. Told'
      BY <1>1, <2>1, ToldRests DEF EpochInv, ToldInv
    <2>3. QED
      BY <1>1, <1>2, <2>1, <2>2
  <1>3. CASE ~epoch.here
    <2>1. epoch' = [here |-> TRUE, baseline |-> t.now, snapshot |-> t.now, revision |-> 0]
      BY <1>3 DEF InsertEpoch
    <2>2. epoch' \in Epochs /\ epoch'.here /\ epoch'.baseline = t.now /\ epoch'.snapshot = t.now
          /\ epoch'.revision = 0
      BY <1>1, <2>1 DEF Epochs
    <2>3. told = <<>> /\ epoch.revision = 0
      BY <1>3 DEF EpochInv, ToldInv, Fresh
    <2>4. \A s : Belief(s)' = IF s \in t.now.of THEN t.now ELSE Nothing
      BY <1>1, <2>2, <2>3 DEF Belief
    <2>5. Told'
      <3> SUFFICES ASSUME NEW s \in {"date", "instructions", "repomap"} \ lost'
                   PROVE  ~Differs(s, Belief(s), epoch.snapshot)'
        BY DEF Told
      <3>1. s \in Sources
        BY DEF Sources
      <3>2. Agree(s, t.now, t.now) /\ (s \notin t.now.of => Agree(s, Nothing, t.now))
        BY <3>1, Agreement DEF Unknown
      <3>3. Agree(s, Belief(s)', t.now)
        BY <2>4, <3>2
      <3>4. QED
        BY <2>2, <3>3 DEF Agree, Differs
    <2>6. QED
      BY <1>1, <1>3, <2>2, <2>3, <2>5
  <1>4. QED
    BY <1>2, <1>3

(* An update is written with the snapshot it belongs to, or nothing is.         *)
LEMMA AdvanceKeeps ==
  ASSUME EpochInv, NEW t \in Turns, AdvanceEpoch(t), lost' = lost, epoch.here,
         epoch.revision = t.revision => t.snapshot = epoch.snapshot
  PROVE  /\ epoch' \in Epochs /\ told' \in Seq(Facts) /\ epoch'.here /\ Told'
         /\ \/ epoch' = epoch /\ told' = told
            \/ epoch'.revision = epoch.revision + 1
         /\ epoch'.baseline = epoch.baseline
  <1>1. epoch \in Epochs /\ told \in Seq(Facts) /\ t.now \in Facts /\ t.snapshot \in Facts
        /\ epoch.revision \in Nat
    BY DEF EpochInv, ContextTyped, Turns, Epochs
  <1>2. CASE ~Unsurpassed(t)
    <2>1. epoch' = epoch /\ told' = told
      BY <1>2 DEF AdvanceEpoch
    <2>2. Told'
      BY <2>1, ToldRests DEF EpochInv, ToldInv
    <2>3. QED
      BY <1>1, <2>1, <2>2
  <1>3. CASE Unsurpassed(t)
    <2> DEFINE changed == Changed(t.snapshot, t.now)
               named == {s \in changed : Named(s, t.snapshot)}
               over == Overlay(t.snapshot, t.now, changed)
               row == Overlay(Nothing, t.now, named)
    <2>1. epoch' = [epoch EXCEPT !.snapshot = over, !.revision = @ + 1] /\ told' = Append(told, row)
      BY <1>3 DEF AdvanceEpoch, Texts
    <2>2. changed \in SUBSET Sources /\ named \in SUBSET Sources
      BY <1>1 DEF Changed, Facts
    <2>3. over \in Facts /\ row \in Facts
      BY <1>1, <2>2, NothingTyped, OverlayTyped
    <2>4. \A s \in Sources : /\ s \in changed => Agree(s, over, t.now)
                             /\ s \notin changed => Agree(s, over, t.snapshot)
                             /\ s \in named => Agree(s, row, t.now)
      BY OverlayAgrees
    <2>5. row.of = named
      BY DEF Overlay, Nothing
    <2>6. \A s \in {"date", "instructions", "repomap"} : s \in named <=> s \in changed
      BY DEF Named
    <2> HIDE DEF changed, named, over, row
    <2>7. /\ epoch' \in Epochs /\ epoch'.here /\ epoch'.snapshot = over /\ epoch'.baseline = epoch.baseline
          /\ epoch'.revision = epoch.revision + 1
      <3>1. /\ epoch'.here = epoch.here /\ epoch'.snapshot = over /\ epoch'.baseline = epoch.baseline
            /\ epoch'.revision = epoch.revision + 1
            /\ epoch' = [here |-> epoch.here, baseline |-> epoch.baseline, snapshot |-> over,
                         revision |-> epoch.revision + 1]
        BY <1>1, <2>1 DEF Epochs
      <3>2. epoch.here \in BOOLEAN /\ epoch.baseline \in Facts /\ epoch.revision + 1 \in Nat
        BY <1>1 DEF Epochs
      <3>3. QED
        BY <2>3, <3>1, <3>2 DEF Epochs
    <2>8. told' \in Seq(Facts)
      BY <1>1, <2>1, <2>3, AppendProperties
    <2>9. Told'
      <3> SUFFICES ASSUME NEW s \in {"date", "instructions", "repomap"} \ lost'
                   PROVE  ~Differs(s, Belief(s), epoch.snapshot)'
        BY DEF Told
      <3>1. s \in Sources /\ s \in {"date", "instructions", "repomap"}
        BY DEF Sources
      <3>2. Belief(s)' = IF s \in named THEN row ELSE Belief(s)
        BY <1>1, <2>1, <2>3, <2>5, <2>7, BeliefAfterRow
      <3>3. Agree(s, Belief(s), epoch.snapshot)
        BY DEF EpochInv, ToldInv, Told, Agree
      <3>4. t.snapshot = epoch.snapshot
        BY <1>3 DEF Unsurpassed
      <3>5. Agree(s, Belief(s)', over)
        <4>1. CASE s \in changed
          <5>1. Agree(s, row, t.now) /\ Agree(s, over, t.now) /\ Belief(s)' = row
            BY <4>1, <2>4, <2>6, <3>1, <3>2
          <5>2. Agree(s, t.now, over)
            BY <5>1, <3>1, Agreement
          <5>3. QED
            BY <5>1, <5>2, <3>1, Agreement
        <4>2. CASE s \notin changed
          <5>1. Agree(s, over, epoch.snapshot) /\ Belief(s)' = Belief(s)
            BY <4>2, <2>4, <2>6, <3>1, <3>2, <3>4
          <5>2. Agree(s, epoch.snapshot, over)
            BY <5>1, <3>1, Agreement
          <5>3. QED
            BY <5>1, <5>2, <3>1, <3>3, Agreement
        <4>3. QED
          BY <4>1, <4>2
      <3>6. QED
        BY <2>7, <3>5 DEF Agree, Differs
    <2>10. QED
      BY <2>7, <2>8, <2>9
  <1>4. QED
    BY <1>2, <1>3

(* What reconcile found is written, and the turn goes on.                        *)
LEMMA CommitKeeps ==
  ASSUME EpochInv, NEW r \in Runners, Commit(r)
  PROVE  ContextTyped' /\ ToldInv' /\ (epoch.here => epoch'.baseline = epoch.baseline)
  <1> DEFINE t == turn[r]
  <1>1. /\ t.step = "commit" /\ turn' = [turn EXCEPT ![r] = Resting]
        /\ UNCHANGED <<world, folds, lost>>
    BY DEF Commit
  <1>2. \/ ~t.seen /\ InsertEpoch(t)
        \/ t.seen /\ AdvanceEpoch(t)
        \/ UNCHANGED <<epoch, told>>
    BY Zenon DEF Commit
  <1>3. turn \in [Runners -> Turns] /\ t \in Turns /\ told \in Seq(Facts) /\ epoch \in Epochs
        /\ epoch.revision \in Nat /\ world \in Worlds /\ folds \in Nat /\ lost \subseteq Sources
    BY DEF EpochInv, ContextTyped, Epochs
  <1>4. \A q \in Runners : TurnRight(q) /\ turn[q].revision \in Nat
    BY <1>3 DEF EpochInv, ToldInv, Turns
  <1>5. Resting \in Turns /\ Unknown(Resting.now) /\ Resting.revision = 0 /\ Resting.step = "rest"
    BY NothingTyped DEF Turns, Resting
  <1>6. turn' \in [Runners -> Turns] /\ turn'[r] = Resting /\ \A q \in Runners \ {r} : turn'[q] = turn[q]
    BY <1>1, <1>3, <1>5
  <1>7. /\ epoch' \in Epochs /\ told' \in Seq(Facts) /\ Told' /\ Fresh'
        /\ epoch.revision <= epoch'.revision
        /\ epoch.here => epoch'.here /\ epoch'.baseline = epoch.baseline
                         /\ (epoch'.revision = epoch.revision => epoch' = epoch)
    <2>1. CASE ~t.seen /\ InsertEpoch(t)
      <3>1. /\ epoch' \in Epochs /\ told' = told /\ epoch'.here /\ Told'
            /\ epoch.here => epoch' = epoch
            /\ ~epoch.here => epoch'.revision = epoch.revision
        BY <1>1, <1>3, <1>4, <2>1, InsertKeeps DEF TurnRight
      <3>2. QED
        BY <1>3, <3>1 DEF Fresh
    <2>2. CASE t.seen /\ AdvanceEpoch(t)
      <3>1. epoch.here /\ (epoch.revision = t.revision => t.snapshot = epoch.snapshot)
        BY <1>1, <1>4, <2>2 DEF TurnRight
      <3>2. /\ epoch' \in Epochs /\ told' \in Seq(Facts) /\ epoch'.here /\ Told'
            /\ \/ epoch' = epoch /\ told' = told
               \/ epoch'.revision = epoch.revision + 1
            /\ epoch'.baseline = epoch.baseline
        BY <1>1, <1>3, <2>2, <3>1, AdvanceKeeps
      <3>3. QED
        BY <1>3, <3>1, <3>2 DEF Fresh
    <2>3. CASE UNCHANGED <<epoch, told>>
      <3>1. Told' /\ Fresh'
        BY <1>1, <2>3, ToldRests DEF EpochInv, ToldInv, Fresh
      <3>2. QED
        BY <1>3, <2>3, <3>1
    <2>4. QED
      BY <1>2, <2>1, <2>2, <2>3
  <1>8. ContextTyped'
    BY <1>1, <1>3, <1>6, <1>7 DEF ContextTyped
  <1>9. epoch'.revision \in Nat
    BY <1>7 DEF Epochs
  <1>10. ASSUME NEW q \in Runners
         PROVE  TurnRight(q)'
    <2>1. CASE q = r
      <3>1. Unknown(turn'[q].now) /\ turn'[q].revision <= epoch'.revision /\ turn'[q].step # "commit"
        BY <2>1, <1>5, <1>6, <1>9
      <3>2. QED
        BY <3>1 DEF TurnRight, Unknown, Agree, Differs
    <2>2. CASE q # r
      <3>1. turn'[q] = turn[q] /\ turn[q].revision <= epoch'.revision
        BY <2>2, <1>3, <1>4, <1>6, <1>7, <1>9 DEF TurnRight
      <3>2. ASSUME turn[q].step = "commit", turn[q].seen
            PROVE  epoch'.here /\ (epoch'.revision = turn[q].revision => turn[q].snapshot = epoch'.snapshot)
        <4>1. epoch.here /\ turn[q].revision <= epoch.revision
              /\ (epoch.revision = turn[q].revision => turn[q].snapshot = epoch.snapshot)
          BY <3>2, <1>4 DEF TurnRight
        <4>2. epoch'.here /\ (epoch'.revision = epoch.revision => epoch' = epoch)
          BY <4>1, <1>7
        <4>3. ASSUME epoch'.revision = turn[q].revision
              PROVE  turn[q].snapshot = epoch'.snapshot
          <5>1. epoch'.revision = epoch.revision
            BY <4>1, <4>3, <1>3, <1>7, <1>9
          <5>2. QED
            BY <4>1, <4>2, <4>3, <5>1
        <4>4. QED
          BY <4>2, <4>3
      <3>3. Unknown(turn[q].now)
        BY <1>4 DEF TurnRight
      <3>4. QED
        BY <3>1, <3>2, <3>3 DEF TurnRight, Unknown, Agree, Differs
    <2>3. QED
      BY <2>1, <2>2
  <1>11. QED
    BY <1>7, <1>8, <1>10 DEF ToldInv

(* Every step of the system keeps the invariant.                                *)
LEMMA EpochKeeps ==
  ASSUME EpochInv, [ContextNext]_allVars
  PROVE  EpochInv' /\ (epoch.here => epoch'.baseline = epoch.baseline)
  <1>1. IndexInv'
    BY IndexKeeps DEF EpochInv
  <1>2. CASE UNCHANGED contextVars
    <2>1. UNCHANGED <<world, epoch, told, turn, folds, lost>>
      BY <1>2 DEF contextVars
    <2>2. Told'
      BY <2>1, ToldRests DEF EpochInv, ToldInv
    <2>3. ContextTyped' /\ Fresh' /\ \A r \in Runners : TurnRight(r)'
      BY <2>1 DEF EpochInv, ToldInv, ContextTyped, Fresh, TurnRight, Unknown, Agree, Differs
    <2>4. QED
      BY <1>1, <2>1, <2>2, <2>3 DEF EpochInv, ToldInv
  <1>3. CASE WorldChanges
    <2>1. epoch' = epoch
      BY <1>3 DEF WorldChanges
    <2>2. QED
      BY <1>1, <1>3, <2>1, WorldChangesKeeps DEF EpochInv
  <1>4. CASE Fold
    <2>1. epoch' = epoch
      BY <1>4 DEF Fold
    <2>2. QED
      BY <1>1, <1>4, <2>1, FoldKeeps DEF EpochInv
  <1>5. ASSUME NEW r \in Runners, ReadRevision(r) \/ LoadSources(r) \/ ReadSnapshot(r)
        PROVE  EpochInv' /\ (epoch.here => epoch'.baseline = epoch.baseline)
    <2>1. epoch' = epoch
      BY <1>5 DEF ReadRevision, LoadSources, ReadSnapshot
    <2>2. QED
      BY <1>1, <1>5, <2>1, ReadRevisionKeeps, LoadSourcesKeeps, ReadSnapshotKeeps DEF EpochInv
  <1>6. ASSUME NEW r \in Runners, Commit(r)
        PROVE  EpochInv' /\ (epoch.here => epoch'.baseline = epoch.baseline)
    BY <1>1, <1>6, CommitKeeps DEF EpochInv
  <1>7. QED
    BY <1>2, <1>3, <1>4, <1>5, <1>6 DEF ContextNext, Turn, allVars

(* It holds throughout.                                                         *)
LEMMA EpochHolds == ContextSpec => []EpochInv
  <1>1. EpochInv /\ [ContextNext]_allVars => EpochInv'
    BY EpochKeeps
  <1>2. QED
    BY <1>1, EpochBegins, PTL DEF ContextSpec

(* The system rows and the snapshot never diverge: whichever turns overlap, of two processes *)
(* included, the model has been told exactly what the epoch records, but for what a          *)
(* compaction folds away (specs/context_engine.md:92, orchestrator.rs:410-447).               *)
THEOREM RecordStaysTrue == ContextSpec => []RecordTrue
  <1>1. EpochInv => RecordTrue
    <2> SUFFICES ASSUME EpochInv
                 PROVE  RecordTrue
      OBVIOUS
    <2>1. IndexTyped /\ ContextTyped /\ Told
      BY DEF EpochInv, IndexInv, ToldInv
    <2>2. /\ disk \in [Paths -> 0..MaxSymbols + 1]
          /\ index \in [Paths -> 0..MaxSymbols]
          /\ scan.step \in {"start", "read", "done"} /\ scan.todo \subseteq Paths
          /\ scan.held \subseteq [path : Paths, rows : 1..MaxSymbols]
          /\ Len(channel) <= ChannelSize
          /\ changes \in Nat /\ errors \in Nat /\ orphaned \subseteq Paths
      BY <2>1 DEF IndexTyped, Batches
    <2>3. \A i \in DOMAIN events : events[i] \in Dirs \X (Names \cup {Whole})
      BY <2>1 DEF IndexTyped, EventPaths
    <2>4. consumer.step \in {"idle", "read", "write"} /\ consumer.todo \subseteq Paths
      BY <2>1 DEF IndexTyped, Consumers
    <2>5. /\ folds \in Nat /\ lost \subseteq Sources
          /\ epoch.here \in BOOLEAN /\ epoch.revision \in Nat
          /\ epoch.baseline \in Facts /\ epoch.snapshot \in Facts
      BY <2>1 DEF ContextTyped, Epochs
    <2>6. \A i \in DOMAIN told : told[i] \in Facts
      BY <2>1 DEF ContextTyped
    <2>7. \A r \in Runners : turn[r] \in Turns
      BY <2>1 DEF ContextTyped
    <2>8. \A r \in Runners : /\ turn[r].step \in {"closed", "rest", "load", "compare", "commit"}
                             /\ turn[r].now \in Facts /\ turn[r].snapshot \in Facts
      BY <2>7 DEF Turns
    <2>9. ContextTypeOK
      BY <2>2, <2>3, <2>4, <2>5, <2>6, <2>8 DEF ContextTypeOK
    <2>10. QED
      BY <2>1, <2>9 DEF RecordTrue
  <1>2. QED
    BY <1>1, EpochHolds, PTL

(* The baseline the provider's prompt cache depends on is byte-stable for the life of the    *)
(* epoch, whichever turns overlap (specs/context_engine.md:127, db.rs:414-415).              *)
THEOREM BaselineStays == ContextSpec => BaselineStable
  <1>1. EpochInv /\ [ContextNext]_allVars => [epoch.here => epoch'.baseline = epoch.baseline]_allVars
    BY EpochKeeps
  <1>2. QED
    BY <1>1, EpochHolds, PTL DEF ContextSpec, BaselineStable

-----------------------------------------------------------------------------
(* The request as it is lowered.                                                *)

(* The messages with calls, and those with results.                                     *)
Makers(s)     == {k \in DOMAIN s : s[k].kind = "assistant" /\ s[k].calls # {}}
Answerers(s)  == {k \in DOMAIN s : s[k].kind = "results"}
(* There is nothing but results behind j, up to k. *)
OnlyResults(s, j, k) == \A i \in (j + 1)..k : s[i].kind = "results"
(* What holds of the messages s of a request while nothing was pruned and no note stands
   in it: results are of the calls of the assistant message right before them, each call
   has its results in one of them, and a prompt comes first. *)
Shape(s) ==
    /\ s \in Seq(Row)
    /\ \A k \in Answerers(s) : s[k].calls # {}
    /\ \A k \in DOMAIN s \ Answerers(s) : s[k].calls # {} => k \in Makers(s)
    /\ \A k \in DOMAIN s : \A c, d \in s[k].calls : c[1] = d[1]
    /\ \A k \in Answerers(s) : \E j \in Makers(s) : j < k /\ OnlyResults(s, j, k) /\ s[k].calls \subseteq s[j].calls
    /\ \A j \in Makers(s) : \A c \in s[j].calls : \E k \in Answerers(s) : j < k /\ OnlyResults(s, j, k) /\ c \in s[k].calls
    /\ \A j, k \in Answerers(s) : s[j].calls \cap s[k].calls # {} => j = k
    /\ \A k \in DOMAIN s : Role(s[k]) = "system" \/ \E j \in 1..k : s[j].kind = "prompt"

(* Which messages make calls and which answer some. *)
LEMMA Shaped ==
  ASSUME NEW s, Shape(s)
  PROVE  /\ s \in Seq(Row) /\ DOMAIN s = 1..Len(s) /\ Len(s) \in Nat
         /\ \A k \in Answerers(s) : k \in DOMAIN s /\ s[k].kind = "results" /\ s[k].calls # {}
         /\ \A k \in Makers(s) : k \in DOMAIN s /\ s[k].kind = "assistant" /\ s[k].calls # {}
         /\ \A k \in DOMAIN s : s[k].kind = "results" => k \in Answerers(s)
         /\ \A k \in DOMAIN s : s[k].kind # "results" /\ s[k].calls # {} => k \in Makers(s)
         /\ \A k \in DOMAIN s : s[k].kind = "assistant" /\ s[k].calls # {} => k \in Makers(s)
  <1>1. s \in Seq(Row) /\ DOMAIN s = 1..Len(s) /\ Len(s) \in Nat
    <2>1. s \in Seq(Row)
      BY DEF Shape
    <2>2. QED
      BY <2>1, LenProperties
  <1>2. \A k \in Answerers(s) : k \in DOMAIN s /\ s[k].kind = "results"
    BY DEF Answerers
  <1>3. \A k \in Answerers(s) : s[k].calls # {}
    BY DEF Shape
  <1>4. \A k \in Makers(s) : k \in DOMAIN s /\ s[k].kind = "assistant" /\ s[k].calls # {}
    BY DEF Makers
  <1>5. \A k \in DOMAIN s : s[k].kind = "results" => k \in Answerers(s)
    BY DEF Answerers
  <1>6. \A k \in DOMAIN s : s[k].kind # "results" /\ s[k].calls # {} => k \in Makers(s)
    <2>1. \A k \in DOMAIN s \ Answerers(s) : s[k].calls # {} => k \in Makers(s)
      BY DEF Shape
    <2>2. QED
      BY <1>2, <2>1
  <1>7. \A k \in DOMAIN s : s[k].kind = "assistant" /\ s[k].calls # {} => k \in Makers(s)
    BY DEF Makers
  <1>8. QED
    BY <1>1, <1>2, <1>3, <1>4, <1>5, <1>6, <1>7

(* The invariant of the turns says so of the request. *)
LEMMA ShapeOf == ASSUME TurnInv, pruned = 0, ~Noted, Requested \cap missed = {} PROVE Shape(request)
  <1> DEFINE s == request
  <1>1. /\ s \in Seq(Row) /\ Ordered(s) /\ DOMAIN s = 1..Len(s) /\ Len(s) \in Nat
        /\ Matched(Parts, pruned, missed) /\ Parts = {s[k] : k \in DOMAIN s}
        /\ \A k \in DOMAIN s : s[k] \in Parts /\ s[k] \in Row /\ s[k].seq \in Nat
    <2>1. s \in Seq(Row) /\ Ordered(s) /\ Matched(Parts, pruned, missed)
      BY DEF TurnInv, TypeOK, Sent
    <2>2. \A k \in DOMAIN s : s[k] \in Row
      BY <2>1, ElementOfSeq, LenProperties
    <2>3. QED
      BY <2>1, <2>2, RowTypes, LenProperties DEF Parts, ToSet
  <1>2. AnsweredOnce /\ ResultsHaveCalls /\ ResultsFollow
    BY PairedOf DEF Paired
  <1>3. \A k \in DOMAIN s : s[k].kind # "note" /\ \A c \in s[k].calls : c \notin missed
    BY DEF Noted, Requested
  <1>4. \A k \in DOMAIN s : /\ s[k].kind = "results" => s[k].calls # {}
                            /\ \A c \in s[k].calls :
                                 \/ s[k].kind = "assistant" /\ c[1] = s[k].seq
                                 \/ s[k].kind = "results" /\ 1 <= c[1] /\ c[1] < s[k].seq
    BY <1>1 DEF Matched, Numbered
  <1>5. ASSUME NEW j \in DOMAIN s, NEW k \in DOMAIN s, NEW c, Makes(j, c), Answers(k, c)
        PROVE  OnlyResults(s, j, k)
    <2>1. c \in Requested \ missed
      BY <1>5 DEF Makes, Requested
    <2>2. \A i \in (j + 1)..k : s[i].kind \in {"results", "note"}
      BY <1>2, <1>5, <2>1 DEF ResultsFollow
    <2>3. \A i \in (j + 1)..k : i \in DOMAIN s
      <3>1. DOMAIN s = 1..Len(s) /\ Len(s) \in Nat
        BY <1>1
      <3>2. j \in 1..Len(s) /\ k \in 1..Len(s)
        BY <1>5, <3>1
      <3> HIDE DEF s
      <3>3. \A i \in (j + 1)..k : i \in 1..Len(s)
        BY <3>1, <3>2
      <3>4. QED
        BY <3>1, <3>3
    <2>4. QED
      BY <1>3, <2>2, <2>3 DEF OnlyResults
  <1>6. ASSUME NEW k \in Answerers(s)
        PROVE  \E j \in Makers(s) : j < k /\ OnlyResults(s, j, k) /\ s[k].calls \subseteq s[j].calls
    <2>1. k \in DOMAIN s /\ s[k].kind = "results" /\ s[k].calls # {}
      BY <1>4 DEF Answerers
    <2>2. ASSUME NEW c \in s[k].calls
          PROVE  \E j \in Makers(s) : j < k /\ OnlyResults(s, j, k) /\ c \in s[j].calls /\ Makes(j, c)
      <3>1. Answers(k, c)
        BY <2>1 DEF Answers
      <3>2. 1 <= c[1] /\ c[1] \in Nat
        BY <1>1, <1>4, <2>1, RowTypes
      <3>3. PICK j \in 1..(k - 1) : Makes(j, c)
        BY <1>2, <1>3, <2>1, <3>1, <3>2 DEF ResultsHaveCalls
      <3>4. j \in DOMAIN s /\ j < k
        BY <1>1, <2>1
      <3>5. OnlyResults(s, j, k)
        BY <1>5, <2>1, <3>1, <3>3, <3>4
      <3>6. s[j].kind = "assistant" /\ c \in s[j].calls
        BY <3>3 DEF Makes
      <3>7. QED
        BY <3>3, <3>4, <3>5, <3>6 DEF Makers
    <2>3. PICK c \in s[k].calls : TRUE
      BY <2>1
    <2>4. PICK j \in Makers(s) : j < k /\ OnlyResults(s, j, k) /\ c \in s[j].calls
      BY <2>2
    <2>5. s[k].calls \subseteq s[j].calls
      <3> SUFFICES ASSUME NEW d \in s[k].calls PROVE d \in s[j].calls
        OBVIOUS
      <3>1. PICK i \in Makers(s) : i < k /\ OnlyResults(s, i, k) /\ d \in s[i].calls
        BY <2>2
      <3>2. i \in Nat /\ j \in Nat /\ k \in Nat /\ s[i].kind = "assistant" /\ s[j].kind = "assistant"
        <4>1. i \in DOMAIN s /\ j \in DOMAIN s /\ s[i].kind = "assistant" /\ s[j].kind = "assistant"
          BY DEF Makers
        <4>2. DOMAIN s \subseteq Nat
          BY <1>1
        <4>3. QED
          BY <2>1, <4>1, <4>2
      <3>3. ~(i < j) /\ ~(j < i)
        <4>1. i < j => j \in (i + 1)..k
          BY <2>4, <3>2
        <4>2. j < i => i \in (j + 1)..k
          BY <3>1, <3>2
        <4>3. QED
          BY <2>4, <3>1, <3>2, <4>1, <4>2 DEF OnlyResults
      <3>4. QED
        BY <3>1, <3>2, <3>3
    <2>6. QED
      BY <2>4, <2>5
  <1>7. ASSUME NEW j \in Makers(s), NEW c \in s[j].calls
        PROVE  \E k \in Answerers(s) : j < k /\ OnlyResults(s, j, k) /\ c \in s[k].calls
    <2>1. j \in DOMAIN s /\ Makes(j, c) /\ s[j].kind = "assistant"
      BY DEF Makers, Makes
    <2>2. Cardinality({k \in DOMAIN s : k > j /\ Answers(k, c)}) = 1
      BY <1>2, <1>3, <2>1 DEF AnsweredOnce
    <2>3. {k \in DOMAIN s : k > j /\ Answers(k, c)} # {}
      BY <2>2, FS_EmptySet
    <2>4. PICK k \in DOMAIN s : k > j /\ Answers(k, c)
      BY <2>3
    <2>5. QED
      BY <1>1, <1>5, <2>1, <2>4 DEF Answerers, Answers
  <1>8. ASSUME NEW j \in Answerers(s), NEW k \in Answerers(s), s[j].calls \cap s[k].calls # {} PROVE j = k
    <2>1. j \in DOMAIN s /\ k \in DOMAIN s /\ s[j] = s[k]
      BY <1>1, <1>8 DEF Answerers, Matched, OnceIn
    <2>2. ~(j < k) /\ ~(k < j)
      BY <1>1, <2>1 DEF Ordered
    <2>3. QED
      BY <1>1, <2>1, <2>2
  <1>9. ASSUME NEW k \in DOMAIN s PROVE Role(s[k]) = "system" \/ \E j \in 1..k : s[j].kind = "prompt"
    <2>1. Telling(Parts, Rows, pruned)
      <3>1. s # <<>>
        BY <1>1, EmptySeq
      <3>2. QED
        BY <3>1 DEF TurnInv, Sent
    <2>2. s[k].kind \in {"system", "note"} \/ \E y \in Parts : y.kind = "prompt" /\ y.seq <= s[k].seq
      BY <1>1, <2>1 DEF Telling
    <2>3. CASE s[k].kind \in {"system", "note"}
      BY <2>3 DEF Role
    <2>4. CASE \E y \in Parts : y.kind = "prompt" /\ y.seq <= s[k].seq
      <3>1. PICK j \in DOMAIN s : s[j].kind = "prompt" /\ s[j].seq <= s[k].seq
        BY <1>1, <2>4
      <3>2. k < j => s[k].seq < s[j].seq
        BY <1>1 DEF Ordered
      <3>3. s[k].seq \in Nat /\ s[j].seq \in Nat /\ k \in Nat /\ j \in Nat
        BY <1>1
      <3>4. j <= k
        BY <3>1, <3>2, <3>3
      <3>5. j \in 1..k
        BY <1>1, <3>4
      <3>6. QED
        BY <3>1, <3>5
    <2>5. QED
      BY <2>2, <2>3, <2>4
  <1>10. \A k \in DOMAIN s \ Answerers(s) : s[k].calls # {} => k \in Makers(s)
    BY <1>4 DEF Answerers, Makers
  <1>11. ASSUME NEW k \in DOMAIN s, NEW c \in s[k].calls, NEW d \in s[k].calls PROVE c[1] = d[1]
    <2>1. CASE s[k].kind = "assistant"
      BY <1>4, <2>1
    <2>2. CASE s[k].kind = "results"
      <3>1. PICK j \in Makers(s) : s[k].calls \subseteq s[j].calls
        BY <1>6, <2>2 DEF Answerers
      <3>2. QED
        BY <1>4, <3>1 DEF Makers
    <2>3. QED
      BY <1>4, <2>1, <2>2
  <1>12. \A k \in Answerers(s) : s[k].calls # {}
    BY <1>4 DEF Answerers
  <1> HIDE DEF s
  <1>13. Shape(s)
    BY <1>1, <1>6, <1>7, <1>8, <1>9, <1>10, <1>11, <1>12 DEF Shape
  <1>14. QED
    BY <1>13 DEF s

(* What holds at the start and is kept by every step up to n holds at n.              *)
LEMMA StepByStep ==
  ASSUME NEW n \in Nat, NEW T, 0 \in T, \A k \in 1..n : k - 1 \in T => k \in T
  PROVE  n \in T
  <1> DEFINE bad == {k \in 0..n : k \notin T}
  <1>1. ASSUME bad # {} PROVE FALSE
    <2>1. bad \subseteq Nat
      OBVIOUS
    <2>2. PICK k \in bad : \A m \in bad : k <= m
      BY <1>1, <2>1, Least
    <2>3. k \in 1..n /\ k - 1 \in 0..n /\ ~(k <= k - 1)
      BY <2>2
    <2>4. k - 1 \in T
      BY <2>2, <2>3
    <2>5. QED
      BY <2>2, <2>3, <2>4
  <1>2. QED
    BY <1>1

Grows(h, n, A, a, step) ==
    h \in [0..n -> A] /\ h[0] = a /\ \A k \in 1..n : h[k] = step[<<h[k - 1], k>>]

(* A function of the numbers up to n may be defined by the number before.              *)
LEMMA FromBefore ==
  ASSUME NEW n \in Nat, NEW A, NEW a \in A, NEW step \in [A \X (1..n) -> A]
  PROVE  \E h : Grows(h, n, A, a, step)
  <1> DEFINE s == [k \in 1..n |-> k]
  <1>1. s \in Seq(1..n) /\ Len(s) = n /\ \A k \in 1..n : s[k] = k
    OBVIOUS
  <1> HIDE DEF s
  <1>2. PICK h : Runs(h, s, A, a, step)
    BY <1>1, RunExists
  <1>3. QED
    BY <1>1, <1>2 DEF Runs, Grows

(* The calls of a message are numbered from the first to the last.                     *)
LEMMA CallsInOrder ==
  ASSUME NEW cs \in SUBSET CallIds, \A c, d \in cs : c[1] = d[1]
  PROVE  /\ \A j \in 1..Cardinality(cs) : CallAt(cs, j) \in cs
         /\ \A i, j \in 1..Cardinality(cs) : CallAt(cs, i) = CallAt(cs, j) => i = j
         /\ \A c \in cs : \E j \in 1..Cardinality(cs) : CallAt(cs, j) = c
  <1> DEFINE S == {d[2] : d \in cs}
             f == [c \in cs |-> c[2]]
  <1>1. \A c \in cs : c = <<c[1], c[2]>> /\ c[2] \in 1..MaxCalls
    BY DEF CallIds
  <1>2. \A c, d \in cs : c[2] = d[2] => c = d
    BY <1>1
  <1>3. f \in Bijection(cs, S)
    <2>1. f \in [cs -> S] /\ (\A c, d \in cs : f[c] = f[d] => c = d) /\ \A k \in S : \E c \in cs : f[c] = k
      BY <1>2
    <2>2. QED
      BY <2>1 DEF Bijection, Injection, IsInjective, Surjection
  <1>4. S \subseteq 1..MaxCalls /\ MaxCalls \in Nat
    BY <1>1, RowTypes
  <1>5. /\ Cardinality(S) \in Nat
        /\ \A j \in 1..Cardinality(S) : Nth(S, j) \in S
        /\ \A i, j \in 1..Cardinality(S) : i < j => Nth(S, i) < Nth(S, j)
        /\ \A k \in S : \E j \in 1..Cardinality(S) : Nth(S, j) = k
    BY <1>4, NthInOrder
  <1>6. Cardinality(S) = Cardinality(cs)
    <2>1. IsFiniteSet(1..MaxCalls)
      BY <1>4, FS_Interval
    <2>2. IsFiniteSet(S)
      BY <1>4, <2>1, FS_Subset
    <2>3. IsFiniteSet(cs)
      BY <1>3, <2>2, FS_Injection DEF Bijection
    <2>4. ExistsBijection(cs, S)
      BY <1>3 DEF ExistsBijection
    <2>5. QED
      BY <2>3, <2>4, FS_Bijection
  <1>7. \A j \in 1..Cardinality(cs) : CallAt(cs, j) \in cs /\ CallAt(cs, j)[2] = Nth(S, j)
    <2> TAKE j \in 1..Cardinality(cs)
    <2>1. Nth(S, j) \in S
      BY <1>5, <1>6
    <2>2. \E c \in cs : c[2] = Nth(S, j)
      BY <2>1
    <2>3. QED
      BY <2>2 DEF CallAt
  <1>8. ASSUME NEW i \in 1..Cardinality(cs), NEW j \in 1..Cardinality(cs), CallAt(cs, i) = CallAt(cs, j) PROVE i = j
    <2>1. Nth(S, i) = Nth(S, j)
      BY <1>7, <1>8
    <2>2. ~(i < j) /\ ~(j < i)
      <3>1. Nth(S, i) \in Nat
        BY <1>4, <1>5, <1>6
      <3> HIDE DEF S
      <3>2. ~(Nth(S, i) < Nth(S, j)) /\ ~(Nth(S, j) < Nth(S, i))
        BY <2>1, <3>1
      <3>3. QED
        BY <1>5, <1>6, <3>2
    <2>3. QED
      BY <2>2
  <1>9. ASSUME NEW c \in cs PROVE \E j \in 1..Cardinality(cs) : CallAt(cs, j) = c
    <2>1. PICK j \in 1..Cardinality(cs) : Nth(S, j) = c[2]
      BY <1>5, <1>6
    <2>2. QED
      BY <1>2, <1>7, <2>1
  <1>10. QED
    BY <1>7, <1>8, <1>9

(* The calls of a message are finitely many. *)
LEMMA CallsFinite ==
  ASSUME NEW cs \in SUBSET CallIds
  PROVE  IsFiniteSet(cs) /\ Cardinality(cs) \in Nat /\ (cs # {} => Cardinality(cs) \in Nat \ {0})
  <1>1. IsFiniteSet(0..MaxSeq) /\ IsFiniteSet(1..MaxCalls)
    BY RowTypes, FS_Interval
  <1>2. IsFiniteSet(CallIds)
    BY <1>1, FS_Product DEF CallIds
  <1>3. IsFiniteSet(cs)
    BY <1>2, FS_Subset
  <1>4. QED
    BY <1>3, FS_CardinalityType, FS_EmptySet

(* A context update, and every block there is. *)
Update == Block("update", NoCall)
Pieces(s) == {Update} \cup UNION {{Content(s[k])[j] : j \in DOMAIN Content(s[k])} : k \in DOMAIN s}

(* The type of the blocks of a message. *)
TypeIn(m) == CASE m.kind = "results"  -> "result"
               [] m.kind = "thoughts" -> "think"
               [] m.kind = "assistant" /\ m.calls # {} -> "call"
               [] OTHER -> "text"

(* The blocks of a message: of one type, and one for each call if they are calls or results. *)
LEMMA ContentIs ==
  ASSUME NEW s \in Seq(Row), NEW k \in DOMAIN s
  PROVE  /\ Content(s[k]) \in Seq(Pieces(s)) /\ Len(Content(s[k])) \in Nat
         /\ DOMAIN Content(s[k]) = 1..Len(Content(s[k]))
         /\ s[k].kind # "results" \/ s[k].calls # {} => Content(s[k]) # <<>>
         /\ \A j \in DOMAIN Content(s[k]) : Content(s[k])[j].type = TypeIn(s[k])
         /\ TypeIn(s[k]) \in {"result", "call"} =>
              /\ Len(Content(s[k])) = Cardinality(s[k].calls)
              /\ \A j \in DOMAIN Content(s[k]) : Content(s[k])[j].call = CallAt(s[k].calls, j)
  <1> DEFINE m == s[k]
             b == Content(m)
  <1>1. m \in Row /\ m.calls \in SUBSET CallIds
    BY ElementOfSeq, LenProperties, RowTypes
  <1>2. Cardinality(m.calls) \in Nat /\ (m.calls # {} => Cardinality(m.calls) \in Nat \ {0})
    BY <1>1, CallsFinite
  <1>3. CASE TypeIn(m) \in {"result", "call"}
    <2>1. b = [j \in 1..Cardinality(m.calls) |-> Block(TypeIn(m), CallAt(m.calls, j))]
      BY <1>3 DEF Content, TypeIn, Each
    <2>2. \A j \in DOMAIN b : b[j] \in Pieces(s)
      BY DEF Pieces
    <2> HIDE DEF b
    <2>3. DOMAIN b = 1..Cardinality(m.calls) /\ \A j \in DOMAIN b : b[j] \in Pieces(s)
      BY <2>2, <2>1
    <2>4. b \in [1..Cardinality(m.calls) -> Pieces(s)]
      BY <2>1, <2>3
    <2>5. b \in Seq(Pieces(s)) /\ Len(b) = Cardinality(m.calls)
      BY <1>2, <2>4
    <2>6. \A j \in DOMAIN b : b[j].type = TypeIn(m) /\ b[j].call = CallAt(m.calls, j)
      BY <2>1, <2>3 DEF Block
    <2>7. m.kind # "results" \/ m.calls # {} => m.calls # {}
      BY <1>3 DEF TypeIn
    <2>8. m.calls # {} => b # <<>>
      BY <1>2, <2>5, EmptySeq
    <2> HIDE DEF m
    <2>9. QED
      BY <1>2, <2>3, <2>5, <2>6, <2>7, <2>8 DEF b, m
  <1>4. CASE TypeIn(m) \in {"think", "text"}
    <2>1. b = <<Block(TypeIn(m), NoCall)>>
      BY <1>4 DEF Content, TypeIn
    <2> HIDE DEF b
    <2>2. DOMAIN b = 1..1 /\ b[1].type = TypeIn(m) /\ Len(b) = 1 /\ b # <<>>
      BY <2>1 DEF Block
    <2>3. b[1] \in Pieces(s)
      BY <2>2 DEF Pieces, b
    <2>4. b \in Seq(Pieces(s))
      BY <2>1, <2>2, <2>3
    <2>5. \A j \in DOMAIN b : b[j].type = TypeIn(m)
      BY <2>2
    <2>6. TypeIn(m) \notin {"result", "call"}
      BY <1>4
    <2> HIDE DEF m
    <2>7. QED
      BY <2>2, <2>4, <2>5, <2>6 DEF b, m
  <1>5. QED
    BY <1>3, <1>4 DEF TypeIn

(* The calls of the blocks b of a type.                                         *)
CallsOf(t, b) == {b[j].call : j \in {i \in DOMAIN b : b[i].type = t}}

(* The calls its blocks are of. *)
LEMMA CallsOfContent ==
  ASSUME NEW s \in Seq(Row), NEW k \in DOMAIN s, \A c, d \in s[k].calls : c[1] = d[1], NEW t
  PROVE  CallsOf(t, Content(s[k])) =
           IF TypeIn(s[k]) # t THEN {} ELSE IF t \in {"result", "call"} THEN s[k].calls
           ELSE CallsOf(t, Content(s[k]))
  <1> DEFINE m == s[k]
             b == Content(m)
  <1>1. \A j \in DOMAIN b : b[j].type = TypeIn(m)
    BY ContentIs
  <1>2. CASE TypeIn(m) # t
    BY <1>1, <1>2 DEF CallsOf
  <1>3. CASE TypeIn(m) = t /\ t \in {"result", "call"}
    <2>1. DOMAIN b = 1..Cardinality(m.calls) /\ \A j \in DOMAIN b : b[j].call = CallAt(m.calls, j)
      BY <1>3, ContentIs
    <2>2. m.calls \in SUBSET CallIds
      BY ElementOfSeq, LenProperties, RowTypes
    <2>3. CallsOf(t, b) = {CallAt(m.calls, j) : j \in 1..Cardinality(m.calls)}
      BY <1>1, <1>3, <2>1 DEF CallsOf
    <2>4. CallsOf(t, b) = m.calls
      BY <2>2, <2>3, CallsInOrder
    <2>5. QED
      BY <1>3, <2>4
  <1>4. QED
    BY <1>2, <1>3

(* The calls of two contents put together. *)
LEMMA CallsOfConcat ==
  ASSUME NEW B, NEW b \in Seq(B), NEW d \in Seq(B), NEW t
  PROVE  CallsOf(t, b \o d) = CallsOf(t, b) \cup CallsOf(t, d)
  <1> DEFINE e == b \o d
  <1>1. /\ DOMAIN b = 1..Len(b) /\ DOMAIN d = 1..Len(d) /\ Len(b) \in Nat /\ Len(d) \in Nat
        /\ DOMAIN e = 1..(Len(b) + Len(d))
        /\ \A i \in 1..Len(b) + Len(d) : e[i] = IF i <= Len(b) THEN b[i] ELSE d[i - Len(b)]
    BY ConcatProperties, LenProperties
  <1> HIDE DEF e
  <1>2. \A i \in DOMAIN b : i \in DOMAIN e /\ e[i] = b[i]
    BY <1>1
  <1>3. \A i \in DOMAIN d : i + Len(b) \in DOMAIN e /\ e[i + Len(b)] = d[i]
    BY <1>1
  <1>4. \A i \in DOMAIN e : \/ i \in DOMAIN b
                            \/ i - Len(b) \in DOMAIN d /\ e[i] = d[i - Len(b)]
    BY <1>1
  <1>5. CallsOf(t, b) \subseteq CallsOf(t, e) /\ CallsOf(t, d) \subseteq CallsOf(t, e)
    BY <1>2, <1>3 DEF CallsOf
  <1>6. CallsOf(t, e) \subseteq CallsOf(t, b) \cup CallsOf(t, d)
    <2> SUFFICES ASSUME NEW i \in DOMAIN e, e[i].type = t PROVE e[i].call \in CallsOf(t, b) \cup CallsOf(t, d)
      BY DEF CallsOf
    <2>1. CASE i \in DOMAIN b
      BY <1>2, <2>1 DEF CallsOf
    <2>2. CASE i - Len(b) \in DOMAIN d /\ e[i] = d[i - Len(b)]
      BY <2>2 DEF CallsOf
    <2>3. QED
      BY <1>4, <2>1, <2>2
  <1>7. QED
    BY <1>5, <1>6 DEF e

(* Messages on the wire. *)
Roles     == {"user", "assistant", "model", "system", "tool"}
Wires(B)  == [role : Roles, content : Seq(B)]

(* w is o with content c of a role put behind it, in its last message or one of its own. *)
Merges(o, w, r, c) ==
    /\ o # <<>> /\ o[Len(o)].role = r
    /\ Len(w) = Len(o) /\ w[Len(w)].role = r /\ w[Len(w)].content = o[Len(o)].content \o c
    /\ \A p \in 1..(Len(o) - 1) : w[p] = o[p]
Adds(o, w, r, c) ==
    /\ o = <<>> \/ o[Len(o)].role # r
    /\ Len(w) = Len(o) + 1 /\ w[Len(w)].role = r /\ w[Len(w)].content = c
    /\ \A p \in 1..Len(o) : w[p] = o[p]
Puts(B, o, w, r, c) ==
    /\ o \in Seq(Wires(B)) /\ w \in Seq(Wires(B)) /\ c \in Seq(B)
    /\ Merges(o, w, r, c) \/ Adds(o, w, r, c)

(* push_or_merge puts a content behind what is there. *)
LEMMA PushPuts ==
  ASSUME NEW B, NEW o \in Seq(Wires(B)), NEW r \in Roles, NEW c \in Seq(B)
  PROVE  Puts(B, o, PushOrMerge(o, r, c), r, c)
  <1> DEFINE w == PushOrMerge(o, r, c)
  <1>1. Len(o) \in Nat /\ DOMAIN o = 1..Len(o) /\ (o = <<>> <=> Len(o) = 0)
    BY LenProperties, EmptySeq
  <1>2. CASE o # <<>> /\ Last(o).role = r
    <2> DEFINE n == Len(o)
               m == [o[n] EXCEPT !.content = o[n].content \o c]
    <2>1. n \in 1..n /\ o[n] \in Wires(B) /\ o[n].role = r
      BY <1>1, <1>2, ElementOfSeq DEF Last
    <2>2. w = [o EXCEPT ![n] = m]
      BY <1>2 DEF PushOrMerge
    <2>3. o[n].content \o c \in Seq(B)
      BY <2>1, ConcatProperties DEF Wires
    <2>4. m = [role |-> r, content |-> o[n].content \o c]
      <3> DEFINE x == o[n]
      <3>1. x \in [role : Roles, content : Seq(B)] /\ x.role = r
        BY <2>1 DEF Wires
      <3> HIDE DEF x
      <3>2. [x EXCEPT !.content = x.content \o c] = [role |-> r, content |-> x.content \o c]
        <4> DEFINE y == x.content \o c
        <4> HIDE DEF y
        <4>1. [x EXCEPT !.content = y] = [role |-> r, content |-> y]
          BY <3>1
        <4>2. QED
          BY <4>1 DEF y
      <3>3. QED
        BY <3>2 DEF x
    <2>5. m \in Wires(B)
      BY <2>3, <2>4 DEF Wires
    <2>6. m.role = r /\ m.content = o[n].content \o c
      BY <2>4
    <2>7. n \in Nat /\ n = Len(o)
      BY <1>1
    <2> HIDE DEF m, w, n
    <2>8. w \in Seq(Wires(B)) /\ Len(w) = n /\ \A p \in 1..n : w[p] = IF p = n THEN m ELSE o[p]
      BY <2>7, <2>1, <2>2, <2>5, ExceptSeq
    <2>9. w[n] = m /\ \A p \in 1..(n - 1) : w[p] = o[p]
      BY <2>7, <2>1, <2>8
    <2>10. Merges(o, w, r, c)
      BY <1>2, <2>7, <2>1, <2>6, <2>8, <2>9 DEF Merges
    <2>11. QED
      BY <2>8, <2>10 DEF Puts, w
  <1>3. CASE ~(o # <<>> /\ Last(o).role = r)
    <2>1. w = Append(o, Message(r, c)) /\ Message(r, c) \in Wires(B)
      BY <1>3 DEF PushOrMerge, Message, Wires
    <2> HIDE DEF w
    <2>2. w \in Seq(Wires(B)) /\ Len(w) = Len(o) + 1 /\ (\A p \in 1..Len(o) : w[p] = o[p]) /\ w[Len(o) + 1] = Message(r, c)
      BY <2>1, AppendProperties
    <2>3. Adds(o, w, r, c)
      BY <1>3, <2>2 DEF Adds, Message, Last
    <2>4. QED
      BY <2>2, <2>3 DEF Puts, w
  <1>4. QED
    BY <1>2, <1>3

(* So does a message of its own. *)
LEMMA AppendPuts ==
  ASSUME NEW B, NEW o \in Seq(Wires(B)), NEW r \in Roles, NEW c \in Seq(B), o = <<>> \/ o[Len(o)].role # r
  PROVE  Puts(B, o, Append(o, Message(r, c)), r, c)
  <1> DEFINE w == Append(o, Message(r, c))
  <1>1. Message(r, c) \in Wires(B)
    BY DEF Message, Wires
  <1> HIDE DEF w
  <1>2. w \in Seq(Wires(B)) /\ Len(w) = Len(o) + 1 /\ (\A p \in 1..Len(o) : w[p] = o[p]) /\ w[Len(o) + 1] = Message(r, c)
    BY <1>1, AppendProperties DEF w
  <1>3. QED
    BY <1>2 DEF Puts, Adds, Message, w

-----------------------------------------------------------------------------
(* Anthropic.                                                                  *)

(* Roles alternate from the user on, and calls are the assistant's. *)
Sound(B, o) ==
    /\ o \in Seq(Wires(B))
    /\ \A p \in 1..Len(o) : Of("call", o[p]) # {} => o[p].role = "assistant"
    /\ \A p \in 1..(Len(o) - 1) : o[p].role # o[p + 1].role
    /\ o # <<>> => o[1].role = "user"

(* The calls of a message are those of its content. *)
LEMMA OfCalls == \A t, m : Of(t, m) = CallsOf(t, m.content)
  BY DEF Of, CallsOf

(* The calls of the last message after a content is put. *)
LEMMA OfPut ==
  ASSUME NEW B, NEW o, NEW w, NEW r, NEW c, NEW t, Puts(B, o, w, r, c)
  PROVE  /\ Len(o) \in Nat /\ Len(w) \in Nat \ {0} /\ w # <<>> /\ (o = <<>> <=> Len(o) = 0)
         /\ Merges(o, w, r, c) => Of(t, w[Len(w)]) = Of(t, o[Len(o)]) \cup CallsOf(t, c)
         /\ Adds(o, w, r, c) => Of(t, w[Len(w)]) = CallsOf(t, c)
  <1>1. Len(o) \in Nat /\ Len(w) \in Nat \ {0} /\ w # <<>> /\ (o = <<>> <=> Len(o) = 0)
    <2>1. Len(o) \in Nat /\ Len(w) \in Nat /\ (o = <<>> <=> Len(o) = 0) /\ (w = <<>> <=> Len(w) = 0)
      BY LenProperties, EmptySeq DEF Puts
    <2>2. QED
      BY <2>1 DEF Puts, Merges, Adds
  <1>2. ASSUME Merges(o, w, r, c) PROVE Of(t, w[Len(w)]) = Of(t, o[Len(o)]) \cup CallsOf(t, c)
    <2>1. Len(o) \in 1..Len(o)
      BY <1>1, <1>2 DEF Merges
    <2>2. o[Len(o)] \in Wires(B) /\ c \in Seq(B)
      BY <2>1, ElementOfSeq DEF Puts
    <2>3. o[Len(o)].content \in Seq(B)
      BY <2>2 DEF Wires
    <2>4. CallsOf(t, o[Len(o)].content \o c) = CallsOf(t, o[Len(o)].content) \cup CallsOf(t, c)
      BY <2>2, <2>3, CallsOfConcat
    <2>5. QED
      BY <1>2, <2>4, OfCalls DEF Merges
  <1>3. QED
    BY <1>1, <1>2, OfCalls DEF Adds

(* Roles keep alternating. *)
LEMMA SoundKept ==
  ASSUME NEW B, NEW o, NEW w, NEW r, NEW c, Sound(B, o), Puts(B, o, w, r, c),
         o = <<>> => r = "user", CallsOf("call", c) # {} => r = "assistant"
  PROVE  Sound(B, w)
  <1>1. /\ Len(o) \in Nat /\ Len(w) \in Nat \ {0} /\ (o = <<>> <=> Len(o) = 0)
        /\ Merges(o, w, r, c) => Of("call", w[Len(w)]) = Of("call", o[Len(o)]) \cup CallsOf("call", c)
        /\ Adds(o, w, r, c) => Of("call", w[Len(w)]) = CallsOf("call", c)
    BY OfPut
  <1>2. CASE Merges(o, w, r, c)
    <2>1. Len(w) = Len(o) /\ w[Len(w)].role = r /\ o[Len(o)].role = r /\ \A p \in 1..(Len(o) - 1) : w[p] = o[p]
      BY <1>2 DEF Merges
    <2>2. \A p \in 1..Len(w) : w[p].role = o[p].role
      BY <1>1, <2>1
    <2>3. \A p \in 1..Len(w) : Of("call", w[p]) # {} => w[p].role = "assistant"
      <3> TAKE p \in 1..Len(w)
      <3>1. Len(o) \in 1..Len(o) /\ p \in 1..Len(o)
        BY <1>1, <2>1
      <3>2. CASE p = Len(w)
        BY <1>1, <1>2, <2>1, <3>1, <3>2 DEF Sound
      <3>3. CASE p # Len(w)
        <4>1. p \in 1..(Len(o) - 1)
          BY <1>1, <2>1, <3>3
        <4>2. w[p] = o[p]
          BY <2>1, <4>1
        <4>3. QED
          BY <3>1, <4>2 DEF Sound
      <3>4. QED
        BY <3>2, <3>3
    <2>4. \A p \in 1..(Len(w) - 1) : w[p].role # w[p + 1].role
      BY <1>1, <2>1, <2>2 DEF Sound
    <2>5. w[1].role = "user"
      BY <1>1, <1>2, <2>1, <2>2 DEF Sound, Merges
    <2>6. QED
      BY <2>3, <2>4, <2>5 DEF Sound, Puts
  <1>3. CASE Adds(o, w, r, c)
    <2>1. Len(w) = Len(o) + 1 /\ w[Len(w)].role = r /\ (o = <<>> \/ o[Len(o)].role # r) /\ \A p \in 1..Len(o) : w[p] = o[p]
      BY <1>3 DEF Adds
    <2>2. \A p \in 1..Len(w) : p \in 1..Len(o) \/ p = Len(w)
      BY <1>1, <2>1
    <2>3. \A p \in 1..Len(w) : Of("call", w[p]) # {} => w[p].role = "assistant"
      <3> TAKE p \in 1..Len(w)
      <3>1. CASE p \in 1..Len(o)
        BY <2>1, <3>1 DEF Sound
      <3>2. CASE p = Len(w)
        BY <1>1, <1>3, <2>1, <3>2
      <3>3. QED
        BY <2>2, <3>1, <3>2
    <2>4. \A p \in 1..(Len(w) - 1) : w[p].role # w[p + 1].role
      <3> TAKE p \in 1..(Len(w) - 1)
      <3>1. CASE p = Len(o)
        BY <1>1, <2>1, <3>1
      <3>2. CASE p # Len(o)
        <4>1. p \in 1..(Len(o) - 1) /\ p \in 1..Len(o) /\ p + 1 \in 1..Len(o)
          BY <1>1, <2>1, <3>2
        <4>2. QED
          BY <2>1, <4>1 DEF Sound
      <3>3. QED
        BY <3>1, <3>2
    <2>5. w[1].role = "user"
      BY <1>1, <2>1 DEF Sound
    <2>6. QED
      BY <2>3, <2>4, <2>5 DEF Sound, Puts
  <1>4. QED
    BY <1>2, <1>3 DEF Puts

(* The message after the one at p has its results ahead of everything else. *)
AnsweredAt(o, p) ==
    /\ p < Len(o)
    /\ o[p + 1].role = "user"
    /\ Of("call", o[p]) = Of("result", o[p + 1])
    /\ Cardinality(Of("call", o[p])) \in Nat
    /\ Cardinality(Of("call", o[p])) <= Len(o[p + 1].content)
    /\ \A j \in 1..Cardinality(Of("call", o[p])) : o[p + 1].content[j].type = "result"
AllDone(o, n) == \A p \in 1..n : Of("call", o[p]) # {} => AnsweredAt(o, p)

(* The last message makes the calls cs.                                            *)
Open(o, cs) ==
    /\ o # <<>> /\ o[Len(o)].role = "assistant" /\ Of("call", o[Len(o)]) = cs /\ cs # {}
    /\ AllDone(o, Len(o) - 1)
(* The last but one does, and the last has the results rs and nothing else.           *)
Answering(o, cs, rs) ==
    /\ Len(o) >= 2 /\ Of("call", o[Len(o) - 1]) = cs
    /\ o[Len(o)].role = "user" /\ Of("result", o[Len(o)]) = rs
    /\ \A j \in DOMAIN o[Len(o)].content : o[Len(o)].content[j].type = "result"
    /\ AllDone(o, Len(o) - 2)

(* With every call answered, the last message makes none. *)
LEMMA NothingOpen ==
  ASSUME NEW o, AllDone(o, Len(o)), Len(o) \in Nat \ {0}
  PROVE  Of("call", o[Len(o)]) = {}
  <1>1. Len(o) \in 1..Len(o)
    OBVIOUS
  <1>2. QED
    BY <1>1 DEF AllDone, AnsweredAt

(* What has its answer keeps it when messages behind it change.                        *)
LEMMA DoneEarlier ==
  ASSUME NEW o, NEW w, NEW n \in Nat, AllDone(o, n - 1), n <= Len(o), n <= Len(w),
         Len(o) \in Nat, Len(w) \in Nat, \A p \in 1..n : w[p] = o[p]
  PROVE  AllDone(w, n - 1)
  <1> SUFFICES ASSUME NEW p \in 1..(n - 1), Of("call", w[p]) # {} PROVE AnsweredAt(w, p)
    BY DEF AllDone
  <1>1. w[p] = o[p] /\ w[p + 1] = o[p + 1] /\ p < Len(w)
    OBVIOUS
  <1>2. AnsweredAt(o, p)
    BY <1>1 DEF AllDone
  <1>3. QED
    BY <1>1, <1>2 DEF AnsweredAt

(* Contents without calls and results leave every call answered. *)
LEMMA DoneKept ==
  ASSUME NEW B, NEW o, NEW w, NEW r, NEW c, AllDone(o, Len(o)), Puts(B, o, w, r, c),
         CallsOf("call", c) = {}, CallsOf("result", c) = {}
  PROVE  AllDone(w, Len(w))
  <1>1. /\ Len(o) \in Nat /\ Len(w) \in Nat \ {0} /\ (o = <<>> <=> Len(o) = 0)
        /\ \A t : Merges(o, w, r, c) => Of(t, w[Len(w)]) = Of(t, o[Len(o)]) \cup CallsOf(t, c)
        /\ Adds(o, w, r, c) => Of("call", w[Len(w)]) = CallsOf("call", c)
    BY OfPut
  <1>2. CASE Adds(o, w, r, c)
    <2>1. Len(w) = Len(o) + 1 /\ \A p \in 1..Len(o) : w[p] = o[p]
      BY <1>2 DEF Adds
    <2>2. AllDone(o, Len(o) - 1)
      BY <1>1 DEF AllDone
    <2>3. AllDone(w, Len(o) - 1)
      BY <1>1, <2>1, <2>2, DoneEarlier
    <2>4. Of("call", w[Len(w)]) = {} /\ (Len(o) # 0 => Of("call", w[Len(o)]) = {})
      <3>1. Len(o) # 0 => Len(o) \in 1..Len(o)
        BY <1>1
      <3>2. QED
        BY <1>1, <1>2, <2>1, <3>1, NothingOpen
    <2>5. \A p \in 1..Len(w) : p \in 1..(Len(o) - 1) \/ p = Len(w) \/ (Len(o) # 0 /\ p = Len(o))
      BY <1>1, <2>1
    <2>6. QED
      BY <2>3, <2>4, <2>5 DEF AllDone
  <1>3. CASE Merges(o, w, r, c)
    <2> DEFINE n == Len(o)
    <2>1. Len(w) = n /\ n \in Nat \ {0} /\ w[n].role = r /\ o[n].role = r /\ w[n].content = o[n].content \o c
          /\ \A p \in 1..(n - 1) : w[p] = o[p]
      BY <1>1, <1>3 DEF Merges
    <2>2. Of("result", w[n]) = Of("result", o[n]) /\ Of("call", w[n]) = {}
      BY <1>1, <1>3, <2>1, NothingOpen
    <2>3. ASSUME NEW p \in 1..n, Of("call", w[p]) # {} PROVE AnsweredAt(w, p)
      <3>1. p \in 1..(n - 1) /\ w[p] = o[p] /\ p < n
        BY <2>1, <2>2, <2>3
      <3>2. AnsweredAt(o, p)
        BY <2>3, <3>1 DEF AllDone
      <3>3. CASE p + 1 # n
        <4>1. w[p + 1] = o[p + 1]
          BY <2>1, <3>1, <3>3
        <4>2. QED
          BY <2>1, <3>1, <3>2, <4>1 DEF AnsweredAt
      <3>4. CASE p + 1 = n
        <4> DEFINE b == o[n].content
                   e == b \o c
                   m == Cardinality(Of("call", o[p]))
        <4>1. n \in 1..Len(o) /\ o \in Seq(Wires(B)) /\ c \in Seq(B)
          BY <2>1 DEF Puts
        <4>2. b \in Seq(B) /\ c \in Seq(B)
          <5>1. o[n] \in Wires(B)
            BY <4>1, ElementOfSeq
          <5>2. QED
            BY <4>1, <5>1 DEF Wires
        <4>3. m \in Nat /\ m <= Len(b) /\ \A j \in 1..m : b[j].type = "result"
          BY <3>2, <3>4 DEF AnsweredAt
        <4>4. /\ Len(b) \in Nat /\ Len(c) \in Nat /\ Len(e) = Len(b) + Len(c)
              /\ \A i \in 1..Len(b) + Len(c) : e[i] = IF i <= Len(b) THEN b[i] ELSE c[i - Len(b)]
          BY <4>2, ConcatProperties, LenProperties
        <4> HIDE DEF b, e, m
        <4>5. m <= Len(e) /\ \A j \in 1..m : e[j].type = "result"
          BY <4>3, <4>4
        <4>6. w[n].content = e
          BY <2>1 DEF e, b
        <4>7. o[n].role = "user" /\ Of("call", o[p]) = Of("result", o[n])
          BY <3>2, <3>4 DEF AnsweredAt
        <4>8. QED
          BY <2>1, <2>2, <3>1, <3>4, <4>3, <4>5, <4>6, <4>7 DEF AnsweredAt, m
      <3>5. QED
        BY <3>3, <3>4
    <2>4. QED
      BY <2>1, <2>3 DEF AllDone
  <1>4. QED
    BY <1>2, <1>3 DEF Puts

(* A message with calls goes behind what has its answers.                               *)
LEMMA CallsOpen ==
  ASSUME NEW B, NEW o, NEW w, NEW c, AllDone(o, Len(o)), Puts(B, o, w, "assistant", c), CallsOf("call", c) # {}
  PROVE  Open(w, CallsOf("call", c))
  <1>1. /\ Len(o) \in Nat /\ Len(w) \in Nat \ {0} /\ (o = <<>> <=> Len(o) = 0) /\ w # <<>>
        /\ Merges(o, w, "assistant", c) => Of("call", w[Len(w)]) = Of("call", o[Len(o)]) \cup CallsOf("call", c)
        /\ Adds(o, w, "assistant", c) => Of("call", w[Len(w)]) = CallsOf("call", c)
    BY OfPut
  <1>2. Of("call", w[Len(w)]) = CallsOf("call", c) /\ w[Len(w)].role = "assistant"
    <2>1. CASE Merges(o, w, "assistant", c)
      <3>1. Len(o) # 0
        BY <1>1, <2>1 DEF Merges
      <3>2. QED
        BY <1>1, <2>1, <3>1, NothingOpen DEF Merges
    <2>2. CASE Adds(o, w, "assistant", c)
      BY <1>1, <2>2 DEF Adds
    <2>3. QED
      BY <2>1, <2>2 DEF Puts
  <1>3. AllDone(w, Len(w) - 1)
    <2>1. CASE Adds(o, w, "assistant", c)
      <3>1. AllDone(o, Len(o) - 1)
        <4>1. \A p \in 1..(Len(o) - 1) : p \in 1..Len(o)
          BY <1>1
        <4>2. QED
          BY <4>1 DEF AllDone
      <3>2. Len(w) = Len(o) + 1 /\ (\A p \in 1..Len(o) : w[p] = o[p]) /\ AllDone(o, Len(o) - 1)
        BY <2>1, <3>1 DEF Adds
      <3>3. AllDone(w, Len(o) - 1)
        BY <1>1, <3>2, DoneEarlier
      <3>4. Len(o) # 0 => Of("call", w[Len(o)]) = {}
        <4>1. Len(o) # 0 => Len(o) \in 1..Len(o)
          BY <1>1
        <4>2. QED
          BY <1>1, <3>2, <4>1, NothingOpen
      <3>5. \A p \in 1..(Len(w) - 1) : p \in 1..(Len(o) - 1) \/ (Len(o) # 0 /\ p = Len(o))
        BY <1>1, <3>2
      <3>6. QED
        BY <3>3, <3>4, <3>5 DEF AllDone
    <2>2. CASE Merges(o, w, "assistant", c)
      <3> DEFINE n == Len(o)
      <3>1. Len(w) = n /\ n \in Nat \ {0} /\ o[n].role = "assistant" /\ \A p \in 1..(n - 1) : w[p] = o[p]
        BY <1>1, <2>2 DEF Merges
      <3> HIDE DEF n
      <3>2. AllDone(o, n)
        BY DEF n
      <3>3. ASSUME NEW p \in 1..(n - 1), Of("call", w[p]) # {} PROVE AnsweredAt(w, p)
        <4>1. w[p] = o[p] /\ p \in 1..n /\ p < n
          BY <3>1
        <4>2. AnsweredAt(o, p)
          BY <3>2, <3>3, <4>1 DEF AllDone
        <4>3. p + 1 # n
          BY <3>1, <4>2 DEF AnsweredAt
        <4>4. w[p + 1] = o[p + 1]
          BY <3>1, <4>1, <4>3
        <4>5. QED
          BY <3>1, <4>1, <4>2, <4>4 DEF AnsweredAt
      <3>4. QED
        BY <3>1, <3>3 DEF AllDone
    <2>3. QED
      BY <2>1, <2>2 DEF Puts
  <1>4. QED
    BY <1>1, <1>2, <1>3 DEF Open

(* The first results of the calls of the last message go into one of their own.           *)
LEMMA FirstResults ==
  ASSUME NEW B, NEW o, NEW w, NEW c, NEW cs, Open(o, cs), Puts(B, o, w, "user", c),
         \A j \in DOMAIN c : c[j].type = "result"
  PROVE  Answering(w, cs, CallsOf("result", c))
  <1>1. /\ Len(o) \in Nat /\ Len(w) \in Nat \ {0} /\ (o = <<>> <=> Len(o) = 0)
        /\ Adds(o, w, "user", c) => Of("result", w[Len(w)]) = CallsOf("result", c)
    BY OfPut
  <1>2. Adds(o, w, "user", c) /\ Len(o) \in 1..Len(o)
    BY <1>1 DEF Puts, Merges, Open
  <1>3. Len(w) = Len(o) + 1 /\ w[Len(w)].role = "user" /\ w[Len(w)].content = c /\ \A p \in 1..Len(o) : w[p] = o[p]
    BY <1>2 DEF Adds
  <1>4. AllDone(w, Len(o) - 1)
    <2>1. AllDone(o, Len(o) - 1)
      BY DEF Open
    <2> DEFINE n == Len(o)
    <2>2. n \in Nat /\ AllDone(o, n - 1) /\ n <= Len(o) /\ n <= Len(w) /\ Len(w) \in Nat /\ \A p \in 1..n : w[p] = o[p]
      BY <1>1, <1>3, <2>1
    <2> HIDE DEF n
    <2>3. Len(o) \in Nat
      BY <1>1
    <2>4. AllDone(w, n - 1)
      BY <2>2, <2>3, DoneEarlier
    <2>5. QED
      BY <2>4 DEF n
  <1>5. Len(w) - 1 = Len(o) /\ Len(w) - 2 = Len(o) - 1 /\ Len(w) >= 2
    BY <1>1, <1>2, <1>3
  <1>6. w[Len(o)] = o[Len(o)]
    BY <1>2, <1>3
  <1>7. QED
    BY <1>1, <1>2, <1>3, <1>4, <1>5, <1>6 DEF Answering, Open

(* More of them go into the same message.                                          *)
LEMMA MoreResults ==
  ASSUME NEW B, NEW o, NEW w, NEW c, NEW cs, NEW rs, Answering(o, cs, rs), Puts(B, o, w, "user", c),
         \A j \in DOMAIN c : c[j].type = "result"
  PROVE  Answering(w, cs, rs \cup CallsOf("result", c))
  <1> DEFINE n == Len(o)
             b == o[n].content
             e == b \o c
  <1>1. /\ n \in Nat /\ Len(w) \in Nat \ {0} /\ (o = <<>> <=> n = 0)
        /\ Merges(o, w, "user", c) => Of("result", w[Len(w)]) = Of("result", o[n]) \cup CallsOf("result", c)
    BY OfPut
  <1>2. Merges(o, w, "user", c) /\ n >= 2
    BY <1>1 DEF Puts, Adds, Answering
  <1>3. Len(w) = n /\ w[n].role = "user" /\ w[n].content = e /\ \A p \in 1..(n - 1) : w[p] = o[p]
    BY <1>2 DEF Merges
  <1>4. b \in Seq(B) /\ c \in Seq(B)
    <2>1. n \in 1..Len(o) /\ o \in Seq(Wires(B)) /\ c \in Seq(B)
      BY <1>1, <1>2 DEF Puts
    <2>2. o[n] \in Wires(B)
      BY <2>1, ElementOfSeq
    <2>3. QED
      BY <2>1, <2>2 DEF Wires
  <1>5. \A j \in DOMAIN e : e[j].type = "result"
    <2>1. /\ Len(b) \in Nat /\ Len(c) \in Nat /\ DOMAIN b = 1..Len(b) /\ DOMAIN c = 1..Len(c) /\ DOMAIN e = 1..(Len(b) + Len(c))
          /\ \A i \in 1..Len(b) + Len(c) : e[i] = IF i <= Len(b) THEN b[i] ELSE c[i - Len(b)]
      BY <1>4, ConcatProperties, LenProperties
    <2>2. \A j \in DOMAIN b : b[j].type = "result"
      BY DEF Answering
    <2> HIDE DEF b, e
    <2> TAKE j \in DOMAIN e
    <2>3. CASE j <= Len(b)
      <3>1. j \in DOMAIN b /\ e[j] = b[j]
        BY <2>1, <2>3
      <3>2. QED
        BY <2>2, <3>1
    <2>4. CASE ~(j <= Len(b))
      <3>1. j - Len(b) \in DOMAIN c /\ e[j] = c[j - Len(b)]
        BY <2>1, <2>4
      <3>2. QED
        BY <3>1
    <2>5. QED
      BY <2>3, <2>4
  <1>6. AllDone(w, n - 2)
    <2>1. AllDone(o, (n - 1) - 1) /\ n - 1 \in Nat /\ n - 1 <= n /\ (n - 1) - 1 = n - 2
      BY <1>1, <1>2 DEF Answering
    <2> HIDE DEF n
    <2>2. AllDone(w, (n - 1) - 1)
      BY <1>1, <1>3, <2>1, DoneEarlier DEF n
    <2>3. QED
      BY <2>1, <2>2
  <1>7. w[n - 1] = o[n - 1]
    BY <1>1, <1>2, <1>3
  <1>8. Of("call", o[n - 1]) = cs /\ Of("result", o[n]) = rs
    BY DEF Answering
  <1> HIDE DEF n, e
  <1>9. Of("result", w[n]) = rs \cup CallsOf("result", c) /\ Of("call", w[n - 1]) = cs
    BY <1>1, <1>2, <1>3, <1>7, <1>8 DEF n
  <1>10. QED
    BY <1>1, <1>2, <1>3, <1>5, <1>6, <1>9 DEF Answering

(* With the last of them nothing is open.                                           *)
LEMMA AllResults ==
  ASSUME NEW B, NEW o, NEW cs, Sound(B, o), Answering(o, cs, cs), cs # {}
  PROVE  AllDone(o, Len(o))
  <1> DEFINE n == Len(o)
             b == o[n].content
             m == Cardinality(cs)
  <1>1. n \in Nat /\ n >= 2 /\ n \in 1..n /\ o[n].role = "user"
    BY LenProperties DEF Sound, Answering
  <1>2. b \in Seq(B) /\ DOMAIN b = 1..Len(b) /\ Len(b) \in Nat
    <2>1. o[n] \in Wires(B)
      BY <1>1, ElementOfSeq DEF Sound
    <2>2. b \in Seq(B)
      BY <2>1 DEF Wires
    <2>3. QED
      BY <2>2, LenProperties
  <1>3. /\ Of("call", o[n - 1]) = cs /\ cs = CallsOf("result", b) /\ AllDone(o, n - 2)
        /\ \A j \in DOMAIN b : b[j].type = "result"
    BY OfCalls DEF Answering
  <1>4. Of("call", o[n]) = {}
    BY <1>1 DEF Sound
  <1> HIDE DEF n, b, m
  <1>5. m \in Nat /\ m <= Len(b)
    <2> DEFINE f == [j \in 1..Len(b) |-> b[j].call]
    <2>1. cs = {b[j].call : j \in 1..Len(b)}
      BY <1>2, <1>3 DEF CallsOf
    <2>2. f \in Surjection(1..Len(b), cs)
      BY <2>1 DEF Surjection
    <2>3. IsFiniteSet(1..Len(b)) /\ Cardinality(1..Len(b)) = Len(b)
      BY <1>2, FS_Interval
    <2>4. IsFiniteSet(cs) /\ Cardinality(cs) <= Len(b)
      BY <2>2, <2>3, FS_Surjection
    <2>5. QED
      BY <2>4, FS_CardinalityType DEF m
  <1>6. \A j \in 1..m : b[j].type = "result"
    BY <1>2, <1>3, <1>5
  <1>7. AnsweredAt(o, n - 1)
    <2>1. (n - 1) + 1 = n /\ n - 1 < n
      BY <1>1
    <2>2. o[n].role = "user" /\ Of("call", o[n - 1]) = cs /\ Of("result", o[n]) = cs /\ o[n].content = b
      BY <1>1, <1>3, OfCalls DEF n, b
    <2>3. QED
      BY <1>5, <1>6, <2>1, <2>2 DEF AnsweredAt, m, n
  <1>8. \A p \in 1..n : p \in 1..(n - 2) \/ p = n - 1 \/ p = n
    BY <1>1
  <1>9. QED
    BY <1>3, <1>4, <1>7, <1>8 DEF AllDone, n

(* What a transcript expects next.                                                   *)
Expects(s, k)    == k < Len(s) /\ s[k + 1].kind = "results"
Given(s, j, k)   == UNION {s[i].calls : i \in (j + 1)..k}

(* The results of a message's calls that come without interruption are all of them, when    *)
(* no more are expected.                                                           *)
LEMMA GivenAll ==
  ASSUME NEW s, Shape(s), NEW j \in Makers(s), NEW k \in DOMAIN s, j < k, OnlyResults(s, j, k), ~Expects(s, k)
  PROVE  Given(s, j, k) = s[j].calls
  <1>1. DOMAIN s = 1..Len(s) /\ Len(s) \in Nat /\ j \in DOMAIN s /\ \A i \in Makers(s) : i \in Nat /\ s[i].kind = "assistant"
    BY Shaped
  <1>2. ASSUME NEW c \in s[j].calls PROVE c \in Given(s, j, k)
    <2>1. PICK i \in Answerers(s) : j < i /\ OnlyResults(s, j, i) /\ c \in s[i].calls
      BY DEF Shape
    <2>2. i \in DOMAIN s
      BY DEF Answerers
    <2>3. i <= k
      <3>1. ~(k + 1 \in (j + 1)..i /\ k < Len(s))
        BY <2>1 DEF OnlyResults, Expects
      <3>2. QED
        BY <1>1, <2>2, <3>1
    <2>4. i \in (j + 1)..k
      BY <1>1, <2>1, <2>2, <2>3
    <2>5. QED
      BY <2>1, <2>4 DEF Given
  <1>3. ASSUME NEW i \in (j + 1)..k PROVE s[i].calls \subseteq s[j].calls
    <2>1. i \in Answerers(s) /\ i \in DOMAIN s
      BY <1>1 DEF Answerers, OnlyResults
    <2>2. PICK h \in Makers(s) : h < i /\ OnlyResults(s, h, i) /\ s[i].calls \subseteq s[h].calls
      BY <2>1 DEF Shape
    <2>3. ~(h < j) /\ ~(j < h)
      <3>1. h < j => j \in (h + 1)..i
        BY <1>1, <2>1
      <3>2. j < h => h \in (j + 1)..k
        BY <1>1, <2>1, <2>2
      <3>3. s[j].kind # "results" /\ s[h].kind # "results"
        BY <1>1
      <3>4. QED
        BY <2>2, <3>1, <3>2, <3>3 DEF OnlyResults
    <2>4. h = j
      BY <1>1, <2>3
    <2>5. QED
      BY <2>2, <2>4
  <1>4. QED
    BY <1>2, <1>3 DEF Given

(* What comes between a message and what it expects.                                   *)
LEMMA Expected ==
  ASSUME NEW s, Shape(s), NEW k \in 1..Len(s)
  PROVE  /\ s[k].kind # "results" => (Expects(s, k) <=> k \in Makers(s))
         /\ ~Expects(s, 0)
         /\ s[k].kind = "results" <=> Expects(s, k - 1)
  <1>1. DOMAIN s = 1..Len(s) /\ Len(s) \in Nat
    BY LenProperties DEF Shape
  <1>2. s[k].kind = "results" <=> Expects(s, k - 1)
    BY DEF Expects
  <1>3. ASSUME s[k].kind # "results", Expects(s, k) PROVE k \in Makers(s)
    <2>1. k + 1 \in Answerers(s)
      BY <1>1, <1>3 DEF Expects, Answerers
    <2>2. PICK h \in Makers(s) : h < k + 1 /\ OnlyResults(s, h, k + 1)
      BY <2>1 DEF Shape
    <2>3. h \in Nat
      BY <1>1 DEF Makers
    <2>4. ~(h < k)
      <3>1. h < k => k \in (h + 1)..(k + 1)
        BY <2>3
      <3>2. QED
        BY <1>3, <2>2, <3>1 DEF OnlyResults
    <2>5. h = k
      BY <2>2, <2>3, <2>4
    <2>6. QED
      BY <2>2, <2>5
  <1>4. ASSUME k \in Makers(s) PROVE Expects(s, k)
    <2>1. s[k].calls # {}
      BY <1>4 DEF Makers
    <2>2. PICK i \in Answerers(s) : k < i /\ OnlyResults(s, k, i)
      BY <1>4, <2>1 DEF Shape
    <2>3. i \in DOMAIN s
      BY DEF Answerers
    <2>4. k + 1 \in (k + 1)..i /\ k < Len(s)
      BY <1>1, <2>2, <2>3
    <2>5. QED
      BY <2>2, <2>4 DEF OnlyResults, Expects
  <1>5. ASSUME Expects(s, 0) PROVE FALSE
    <2>1. 1 \in Answerers(s)
      BY <1>1, <1>5 DEF Expects, Answerers
    <2>2. PICK h \in Makers(s) : h < 1
      BY <2>1 DEF Shape
    <2>3. h \in 1..Len(s)
      BY <1>1 DEF Makers
    <2>4. QED
      BY <2>2, <2>3
  <1>6. QED
    BY <1>2, <1>3, <1>4, <1>5

(* The state of lower_messages after k messages.                                       *)
AnthropicState(B, s, k, o) ==
    /\ Sound(B, o)
    /\ (\E j \in 1..k : s[j].kind = "prompt") => o # <<>>
    /\ k # 0 /\ Role(s[k]) = "user" => o # <<>> /\ o[Len(o)].role = "user"
    /\ Expects(s, k) => \E j \in Makers(s) :
         /\ j <= k /\ OnlyResults(s, j, k)
         /\ j = k => Open(o, s[j].calls)
         /\ j < k => Answering(o, s[j].calls, Given(s, j, k))
    /\ ~Expects(s, k) => AllDone(o, Len(o))

(* The content of an update has no calls. *)
LEMMA UpdateIs ==
  ASSUME NEW s
  PROVE  <<Update>> \in Seq(Pieces(s)) /\ CallsOf("call", <<Update>>) = {} /\ CallsOf("result", <<Update>>) = {}
  <1> DEFINE u == <<Update>>
  <1>1. Update \in Pieces(s) /\ Update.type = "update"
    BY DEF Update, Pieces, Block
  <1>2. u \in Seq(Pieces(s)) /\ DOMAIN u = {1} /\ u[1] = Update
    BY <1>1
  <1>3. QED
    BY <1>1, <1>2 DEF CallsOf

(* What a message puts, by its kind. *)
LEMMA AnthropicPuts ==
  ASSUME NEW s \in Seq(Row), \A k \in Answerers(s) : s[k].calls # {},
         NEW native, NEW o \in Seq(Wires(Pieces(s))), NEW k \in 1..Len(s)
  PROVE  LET w == PutAnthropic(s, native, o, k) IN
         /\ w \in Seq(Wires(Pieces(s)))
         /\ s[k].kind = "thoughts" => w = o
         /\ Role(s[k]) = "system" /\ ~(native /\ CanUseNative(s, k)) => Puts(Pieces(s), o, w, "user", <<Update>>)
         /\ Role(s[k]) = "system" /\ native /\ CanUseNative(s, k) /\ (o = <<>> \/ o[Len(o)].role # "system")
              => Puts(Pieces(s), o, w, "system", <<Update>>)
         /\ Role(s[k]) # "system" /\ s[k].kind # "thoughts" => Puts(Pieces(s), o, w, Role(s[k]), Content(s[k]))
  <1> DEFINE B == Pieces(s)
             w == PutAnthropic(s, native, o, k)
             c == Content(s[k])
  <1>1. k \in DOMAIN s
    BY LenProperties
  <1>2. c \in Seq(B) /\ (s[k].kind # "results" \/ s[k].calls # {} => c # <<>>)
    BY <1>1, ContentIs
  <1>3. c # <<>>
    BY <1>1, <1>2 DEF Answerers
  <1>4. <<Update>> \in Seq(B)
    BY UpdateIs
  <1>5. {"user", "system", "assistant"} \subseteq Roles /\ Role(s[k]) \in {"user", "system", "assistant"}
    BY DEF Roles, Role
  <1> HIDE DEF B, c
  <1>6. CASE Role(s[k]) = "system" /\ ~(native /\ CanUseNative(s, k))
    <2>1. w = PushOrMerge(o, "user", <<Update>>) /\ s[k].kind # "thoughts"
      BY <1>6 DEF PutAnthropic, Update, Role
    <2>2. Puts(B, o, w, "user", <<Update>>)
      BY <1>4, <1>5, <2>1, PushPuts DEF B
    <2> HIDE DEF w
    <2>3. QED
      BY <1>6, <2>1, <2>2 DEF Puts, B, w
  <1>7. CASE Role(s[k]) = "system" /\ native /\ CanUseNative(s, k)
    <2>1. w = Append(o, Message("system", <<Update>>)) /\ s[k].kind # "thoughts"
      BY <1>7 DEF PutAnthropic, Update, Role
    <2> HIDE DEF w
    <2>2. w \in Seq(Wires(B))
      <3>1. Message("system", <<Update>>) \in Wires(B)
        BY <1>4, <1>5 DEF Wires, Message
      <3>2. QED
        BY <2>1, <3>1, AppendProperties DEF B
    <2>3. ASSUME o = <<>> \/ o[Len(o)].role # "system" PROVE Puts(B, o, w, "system", <<Update>>)
      BY <1>4, <1>5, <2>1, <2>3, AppendPuts DEF B
    <2>4. QED
      BY <1>7, <2>1, <2>2, <2>3 DEF B, w
  <1>8. CASE Role(s[k]) # "system" /\ s[k].kind = "thoughts"
    <2>1. w = o
      BY <1>8 DEF PutAnthropic
    <2> HIDE DEF w
    <2>2. QED
      BY <1>8, <2>1 DEF w
  <1>9. CASE Role(s[k]) # "system" /\ s[k].kind # "thoughts"
    <2>1. w = PushOrMerge(o, Role(s[k]), c)
      BY <1>3, <1>9 DEF PutAnthropic, c
    <2>2. Puts(B, o, w, Role(s[k]), c)
      BY <1>2, <1>5, <2>1, PushPuts DEF B
    <2> HIDE DEF w
    <2>3. QED
      BY <1>9, <2>2 DEF Puts, B, w, c
  <1>10. QED
    BY <1>6, <1>7, <1>8, <1>9

(* The state is kept message by message. *)
LEMMA AnthropicStep ==
  ASSUME NEW s, Shape(s), NEW native, NEW o, NEW k \in 1..Len(s), AnthropicState(Pieces(s), s, k - 1, o)
  PROVE  AnthropicState(Pieces(s), s, k, PutAnthropic(s, native, o, k))
  <1> DEFINE B == Pieces(s)
             w == PutAnthropic(s, native, o, k)
             c == Content(s[k])
  <1>1. /\ s \in Seq(Row) /\ DOMAIN s = 1..Len(s) /\ Len(s) \in Nat /\ k \in DOMAIN s /\ k - 1 \in Nat
        /\ \A i \in Answerers(s) : s[i].calls # {}
        /\ s[k].kind # "results" /\ s[k].calls # {} => k \in Makers(s)
        /\ k \in Makers(s) <=> s[k].kind = "assistant" /\ s[k].calls # {}
    BY Shaped
  <1>2. Sound(B, o) /\ o \in Seq(Wires(B)) /\ ((\E j \in 1..(k - 1) : s[j].kind = "prompt") => o # <<>>)
    BY DEF AnthropicState, Sound
  <1>3. /\ w \in Seq(Wires(B))
        /\ s[k].kind = "thoughts" => w = o
        /\ Role(s[k]) = "system" /\ ~(native /\ CanUseNative(s, k)) => Puts(B, o, w, "user", <<Update>>)
        /\ Role(s[k]) = "system" /\ native /\ CanUseNative(s, k) /\ (o = <<>> \/ o[Len(o)].role # "system")
             => Puts(B, o, w, "system", <<Update>>)
        /\ Role(s[k]) # "system" /\ s[k].kind # "thoughts" => Puts(B, o, w, Role(s[k]), c)
    BY <1>1, <1>2, AnthropicPuts
  <1>4. /\ s[k].kind # "results" => (Expects(s, k) <=> k \in Makers(s))
        /\ s[k].kind = "results" <=> Expects(s, k - 1)
    BY Expected
  <1>5. /\ CallsOf("call", c) = IF TypeIn(s[k]) = "call" THEN s[k].calls ELSE {}
        /\ CallsOf("result", c) = IF TypeIn(s[k]) = "result" THEN s[k].calls ELSE {}
        /\ \A j \in DOMAIN c : c[j].type = TypeIn(s[k])
    <2>1. \A a, b \in s[k].calls : a[1] = b[1]
      BY <1>1 DEF Shape
    <2>2. QED
      BY <1>1, <2>1, CallsOfContent, ContentIs
  <1>6. k - 1 # 0 /\ Role(s[k - 1]) = "user" => o # <<>> /\ o[Len(o)].role = "user"
    BY DEF AnthropicState
  <1>7. s[k].kind # "results" => AllDone(o, Len(o))
    BY <1>4 DEF AnthropicState
  <1>8. ASSUME Expects(s, k - 1)
        PROVE  \E j \in Makers(s) :
                 /\ j <= k - 1 /\ OnlyResults(s, j, k - 1)
                 /\ j = k - 1 => Open(o, s[j].calls)
                 /\ j < k - 1 => Answering(o, s[j].calls, Given(s, j, k - 1))
    BY <1>8 DEF AnthropicState
  <1>9. Role(s[k]) # "system" /\ s[k].kind # "prompt" => o # <<>>
    <2>1. ASSUME Role(s[k]) # "system", s[k].kind # "prompt" PROVE o # <<>>
      <3>1. PICK j \in 1..k : s[j].kind = "prompt"
        BY <1>1, <2>1 DEF Shape
      <3>2. j \in 1..(k - 1)
        BY <2>1, <3>1
      <3>3. QED
        BY <1>2, <3>1, <3>2
    <2>2. QED
      BY <2>1
  <1> HIDE DEF B, w, c
  <1>10. CASE s[k].kind = "thoughts"
    <2>1. w = o /\ AllDone(o, Len(o)) /\ ~Expects(s, k) /\ Role(s[k]) = "assistant"
      BY <1>1, <1>3, <1>4, <1>7, <1>10 DEF Role
    <2>2. (\E j \in 1..k : s[j].kind = "prompt") => \E j \in 1..(k - 1) : s[j].kind = "prompt"
      BY <1>10
    <2>3. AnthropicState(B, s, k, w)
      BY <1>2, <2>1, <2>2 DEF AnthropicState
    <2>4. QED
      BY <2>3 DEF B, w
  <1>11. ASSUME NEW r, NEW b, Puts(B, o, w, r, b), CallsOf("call", b) = {}, CallsOf("result", b) = {},
                o = <<>> => r = "user", Role(s[k]) = "user" => r = "user",
                s[k].kind # "results", k \notin Makers(s)
         PROVE  AnthropicState(B, s, k, w)
    <2>1. Sound(B, w) /\ AllDone(w, Len(w)) /\ w # <<>> /\ w[Len(w)].role = r
      BY <1>2, <1>7, <1>11, SoundKept, DoneKept, OfPut DEF Puts, Merges, Adds
    <2>2. ~Expects(s, k)
      BY <1>4, <1>11
    <2>3. QED
      BY <1>11, <2>1, <2>2 DEF AnthropicState
  <1>12. CASE Role(s[k]) = "system"
    <2>1. s[k].kind # "results" /\ s[k].kind # "assistant" /\ k \notin Makers(s) /\ Role(s[k]) # "user"
      BY <1>1, <1>12 DEF Role
    <2>2. CallsOf("call", <<Update>>) = {} /\ CallsOf("result", <<Update>>) = {}
      BY UpdateIs
    <2>3. CASE ~(native /\ CanUseNative(s, k))
      <3>1. Puts(B, o, w, "user", <<Update>>)
        BY <1>3, <1>12, <2>3
      <3>2. AnthropicState(B, s, k, w)
        BY <1>11, <2>1, <2>2, <3>1
      <3>3. QED
        BY <3>2 DEF B, w
    <2>4. CASE native /\ CanUseNative(s, k)
      <3>1. o # <<>> /\ o[Len(o)].role = "user"
        BY <1>6, <2>4 DEF CanUseNative
      <3>2. Puts(B, o, w, "system", <<Update>>)
        BY <1>3, <1>12, <2>4, <3>1
      <3>3. AnthropicState(B, s, k, w)
        BY <1>11, <2>1, <2>2, <3>1, <3>2
      <3>4. QED
        BY <3>3 DEF B, w
    <2>5. QED
      BY <2>3, <2>4
  <1>13. CASE s[k].kind = "prompt" \/ (s[k].kind = "assistant" /\ s[k].calls = {})
    <2>1. /\ Role(s[k]) \in {"user", "assistant"} /\ s[k].kind # "results" /\ k \notin Makers(s) /\ s[k].kind # "thoughts"
          /\ TypeIn(s[k]) = "text" /\ (s[k].kind # "prompt" => Role(s[k]) = "assistant")
          /\ (s[k].kind = "prompt" => Role(s[k]) = "user")
      BY <1>1, <1>13 DEF Role, TypeIn
    <2>2. Puts(B, o, w, Role(s[k]), c) /\ CallsOf("call", c) = {} /\ CallsOf("result", c) = {}
      BY <1>3, <1>5, <2>1
    <2>3. AnthropicState(B, s, k, w)
      BY <1>9, <1>11, <2>1, <2>2
    <2>4. QED
      BY <2>3 DEF B, w
  <1>14. CASE k \in Makers(s)
    <2>1. s[k].kind = "assistant" /\ s[k].calls # {} /\ Role(s[k]) = "assistant" /\ TypeIn(s[k]) = "call"
      BY <1>1, <1>14 DEF Role, TypeIn
    <2>2. Puts(B, o, w, "assistant", c) /\ CallsOf("call", c) = s[k].calls
      BY <1>3, <1>5, <2>1
    <2>3. AllDone(o, Len(o)) /\ o # <<>> /\ Expects(s, k)
      BY <1>4, <1>7, <1>9, <1>14, <2>1
    <2>4. Open(w, s[k].calls)
      BY <2>1, <2>2, <2>3, CallsOpen
    <2>5. Sound(B, w) /\ w # <<>>
      BY <1>2, <2>1, <2>2, <2>3, SoundKept, OfPut
    <2>6. OnlyResults(s, k, k) /\ k <= k /\ ~(k < k)
      BY DEF OnlyResults
    <2>7. AnthropicState(B, s, k, w)
      BY <1>14, <2>1, <2>3, <2>4, <2>5, <2>6 DEF AnthropicState
    <2>8. QED
      BY <2>7 DEF B, w
  <1>15. CASE s[k].kind = "results"
    <2>1. Role(s[k]) = "user" /\ TypeIn(s[k]) = "result" /\ s[k].kind # "thoughts"
      BY <1>15 DEF Role, TypeIn
    <2>2. /\ Puts(B, o, w, "user", c) /\ CallsOf("result", c) = s[k].calls /\ CallsOf("call", c) = {}
          /\ \A j \in DOMAIN c : c[j].type = "result"
      BY <1>3, <1>5, <2>1
    <2>3. PICK j \in Makers(s) : /\ j <= k - 1 /\ OnlyResults(s, j, k - 1)
                                 /\ j = k - 1 => Open(o, s[j].calls)
                                 /\ j < k - 1 => Answering(o, s[j].calls, Given(s, j, k - 1))
      BY <1>4, <1>8, <1>15
    <2>4. j \in Nat /\ j < k /\ (j = k - 1 \/ j < k - 1) /\ s[j].calls # {}
      BY <1>1, <2>3 DEF Makers
    <2>5. Given(s, j, j) = {} /\ Given(s, j, k) = Given(s, j, k - 1) \cup s[k].calls
      <3>1. (j + 1)..j = {} /\ (j + 1)..k = ((j + 1)..(k - 1)) \cup {k}
        BY <1>1, <2>4
      <3>2. QED
        BY <3>1 DEF Given
    <2>6. Answering(w, s[j].calls, Given(s, j, k))
      <3>1. CASE j = k - 1
        BY <2>2, <2>3, <2>5, <3>1, FirstResults
      <3>2. CASE j < k - 1
        <4>1. Answering(w, s[j].calls, Given(s, j, k - 1) \cup CallsOf("result", c))
          BY <2>2, <2>3, <3>2, MoreResults
        <4>2. QED
          BY <2>2, <2>5, <4>1
      <3>3. QED
        BY <2>4, <3>1, <3>2
    <2>7. Sound(B, w) /\ w # <<>> /\ w[Len(w)].role = "user"
      <3>1. Sound(B, w) /\ w # <<>>
        BY <1>2, <2>2, SoundKept, OfPut
      <3>2. QED
        BY <2>6, <3>1 DEF Answering
    <2>8. OnlyResults(s, j, k)
      <3>1. \A i \in (j + 1)..k : i \in (j + 1)..(k - 1) \/ i = k
        BY <2>4
      <3>2. QED
        BY <1>15, <2>3, <3>1 DEF OnlyResults
    <2>9. ~Expects(s, k) => AllDone(w, Len(w))
      <3>1. ASSUME ~Expects(s, k) PROVE AllDone(w, Len(w))
        <4>1. Given(s, j, k) = s[j].calls
          BY <1>1, <2>4, <2>8, <3>1, GivenAll
        <4>2. QED
          BY <2>4, <2>6, <2>7, <4>1, AllResults
      <3>2. QED
        BY <3>1
    <2>10. AnthropicState(B, s, k, w)
      <3>1. j <= k /\ j # k
        BY <2>4
      <3>2. QED
        BY <2>4, <2>6, <2>7, <2>8, <2>9, <3>1 DEF AnthropicState
    <2>11. QED
      BY <2>10 DEF B, w
  <1>16. s[k].kind \in {"thoughts", "prompt", "assistant", "results"} \/ Role(s[k]) = "system"
    BY DEF Role
  <1>17. QED
    BY <1>1, <1>10, <1>12, <1>13, <1>14, <1>15, <1>16

(* lower_messages is defined message by message.                                       *)
LEMMA AnthropicRuns ==
  ASSUME NEW s \in Seq(Row), \A k \in Answerers(s) : s[k].calls # {}, NEW native
  PROVE  \E out : /\ LowerAnthropic(s, native) = out[Len(s)] /\ out[0] = <<>>
                  /\ \A k \in 1..Len(s) : out[k] = PutAnthropic(s, native, out[k - 1], k)
  <1> DEFINE A == Seq(Wires(Pieces(s)))
             n == Len(s)
             step == [x \in A \X (1..n) |-> PutAnthropic(s, native, x[1], x[2])]
  <1>1. n \in Nat /\ <<>> \in A
    BY LenProperties, EmptySeq
  <1>2. \A o \in A, k \in 1..n : PutAnthropic(s, native, o, k) \in A
    BY AnthropicPuts
  <1> HIDE DEF A
  <1>3. step \in [A \X (1..n) -> A] /\ \A o \in A, k \in 1..n : step[<<o, k>>] = PutAnthropic(s, native, o, k)
    BY <1>2
  <1> HIDE DEF step, n
  <1>4. PICK h \in [0..n -> A] : h[0] = <<>> /\ \A k \in 1..n : h[k] = step[<<h[k - 1], k>>]
    <2>1. n \in Nat /\ <<>> \in A /\ step \in [A \X (1..n) -> A]
      BY <1>1, <1>3
    <2>2. \E h : Grows(h, n, A, <<>>, step)
      BY <2>1, FromBefore
    <2>3. QED
      BY <2>2 DEF Grows
  <1>5. \A k \in 0..n : h[k] = IF k = 0 THEN <<>> ELSE PutAnthropic(s, native, h[k - 1], k)
    <2> TAKE k \in 0..n
    <2>1. CASE k = 0
      BY <1>4, <2>1
    <2>2. CASE k # 0
      <3>1. k \in 1..n /\ k - 1 \in 0..n
        BY <1>1, <2>2
      <3>2. h[k - 1] \in A
        BY <1>4, <3>1
      <3>3. QED
        BY <1>3, <1>4, <2>2, <3>1, <3>2
    <2>3. QED
      BY <2>1, <2>2
  <1>6. h = [k \in 0..n |-> IF k = 0 THEN <<>> ELSE PutAnthropic(s, native, h[k - 1], k)]
    <2>1. h = [k \in 0..n |-> h[k]]
      BY <1>4
    <2>2. QED
      BY <1>5, <2>1
  <1> DEFINE out == CHOOSE g : g = [k \in 0..n |-> IF k = 0 THEN <<>> ELSE PutAnthropic(s, native, g[k - 1], k)]
  <1>7. out = [k \in 0..n |-> IF k = 0 THEN <<>> ELSE PutAnthropic(s, native, out[k - 1], k)]
    BY <1>6
  <1>8. LowerAnthropic(s, native) = out[n]
    BY DEF LowerAnthropic, n
  <1> HIDE DEF out
  <1>9. out[0] = <<>> /\ \A k \in 1..n : out[k] = PutAnthropic(s, native, out[k - 1], k)
    <2>1. 0 \in 0..n /\ \A k \in 1..n : k \in 0..n /\ k # 0
      BY <1>1
    <2>2. QED
      BY <1>7, <2>1
  <1>10. QED
    BY <1>8, <1>9 DEF n

(* Anthropic takes the request, whether it takes inline system messages or not. *)
LEMMA AnthropicTakesIt ==
  ASSUME NEW s, Shape(s), NEW native
  PROVE  AnthropicAccepts(LowerAnthropic(s, native))
  <1> DEFINE n == Len(s)
             B == Pieces(s)
  <1>1. s \in Seq(Row) /\ n \in Nat /\ \A k \in Answerers(s) : s[k].calls # {}
    BY LenProperties DEF Shape
  <1>2. PICK out : /\ LowerAnthropic(s, native) = out[n] /\ out[0] = <<>>
                   /\ \A k \in 1..n : out[k] = PutAnthropic(s, native, out[k - 1], k)
    BY <1>1, AnthropicRuns
  <1> DEFINE T == {k \in 0..n : AnthropicState(B, s, k, out[k])}
  <1>3. 0 \in T
    <2>1. ~Expects(s, 0)
      <3>1. CASE n = 0
        BY <3>1 DEF Expects
      <3>2. CASE n # 0
        <4>1. 1 \in 1..Len(s)
          BY <1>1, <3>2
        <4>2. QED
          BY <4>1, Expected
      <3>3. QED
        BY <3>1, <3>2
    <2>2. Sound(B, <<>>) /\ AllDone(<<>>, Len(<<>>)) /\ 1..0 = {}
      <3>1. <<>> \in Seq(Wires(B)) /\ Len(<<>>) = 0
        BY EmptySeq
      <3>2. 1..0 = {} /\ 1..(0 - 1) = {}
        OBVIOUS
      <3> HIDE DEF B
      <3>3. QED
        BY <3>1, <3>2 DEF Sound, AllDone
    <2>3. AnthropicState(B, s, 0, <<>>)
      BY <2>1, <2>2 DEF AnthropicState
    <2>4. QED
      BY <1>1, <1>2, <2>3
  <1>4. \A k \in 1..n : k - 1 \in T => k \in T
    <2> SUFFICES ASSUME NEW k \in 1..n, k - 1 \in T PROVE k \in T
      OBVIOUS
    <2>1. AnthropicState(B, s, k, PutAnthropic(s, native, out[k - 1], k))
      BY AnthropicStep
    <2>2. QED
      BY <1>1, <1>2, <2>1
  <1> HIDE DEF T
  <1>5. n \in T
    BY <1>1, <1>3, <1>4, StepByStep
  <1> DEFINE o == out[n]
  <1>6. Sound(B, o) /\ AllDone(o, Len(o))
    <2>1. AnthropicState(B, s, n, o)
      BY <1>5 DEF T
    <2>2. ~Expects(s, n)
      BY <1>1 DEF Expects
    <2>3. QED
      BY <2>1, <2>2 DEF AnthropicState
  <1>7. o = LowerAnthropic(s, native)
    BY <1>2
  <1> HIDE DEF o
  <1>8. DOMAIN o = 1..Len(o)
    BY <1>6, LenProperties DEF Sound
  <1>9. AnthropicAccepts(o)
    BY <1>6, <1>8 DEF AnthropicAccepts, Sound, AllDone, AnsweredAt
  <1>10. QED
    BY <1>7, <1>9

(* The inline system messages after k messages, when no thoughts are left out.            *)
InlineState(B, s, k, o) ==
    /\ o \in Seq(Wires(B))
    /\ k # 0 /\ Role(s[k]) = "user" => o # <<>> /\ o[Len(o)].role = "user"
    /\ \A p \in 1..Len(o) : o[p].role = "system" =>
         /\ p > 1 /\ o[p - 1].role = "user"
         /\ p < Len(o) => o[p + 1].role = "assistant"
         /\ p = Len(o) => k = Len(s) \/ Role(s[k + 1]) = "assistant"

(* The state is kept message by message. *)
LEMMA InlineStep ==
  ASSUME NEW s \in Seq(Row), \A k \in Answerers(s) : s[k].calls # {}, \A k \in DOMAIN s : s[k].kind # "thoughts",
         NEW o, NEW k \in 1..Len(s), InlineState(Pieces(s), s, k - 1, o)
  PROVE  InlineState(Pieces(s), s, k, PutAnthropic(s, TRUE, o, k))
  <1> DEFINE B == Pieces(s)
             w == PutAnthropic(s, TRUE, o, k)
             n == Len(o)
  <1>1. /\ DOMAIN s = 1..Len(s) /\ Len(s) \in Nat /\ k \in DOMAIN s /\ o \in Seq(Wires(B)) /\ n \in Nat
        /\ s[k].kind # "thoughts" /\ (o = <<>> <=> n = 0)
    BY LenProperties, EmptySeq DEF InlineState
  <1>2. /\ Role(s[k]) = "system" /\ ~CanUseNative(s, k) => Puts(B, o, w, "user", <<Update>>)
        /\ Role(s[k]) = "system" /\ CanUseNative(s, k) /\ (o = <<>> \/ o[Len(o)].role # "system")
             => Puts(B, o, w, "system", <<Update>>)
        /\ Role(s[k]) # "system" => Puts(B, o, w, Role(s[k]), Content(s[k]))
    BY <1>1, AnthropicPuts
  <1>3. /\ k - 1 # 0 /\ Role(s[k - 1]) = "user" => o # <<>> /\ o[n].role = "user"
        /\ \A p \in 1..n : o[p].role = "system" =>
             /\ p > 1 /\ o[p - 1].role = "user"
             /\ p < n => o[p + 1].role = "assistant"
             /\ p = n => Role(s[k]) = "assistant"
    <2>1. k - 1 # Len(s) /\ (k - 1) + 1 = k
      BY <1>1
    <2>2. QED
      BY <2>1 DEF InlineState
  <1>4. Role(s[k]) \in {"user", "assistant", "system"}
    BY DEF Role
  <1> HIDE DEF B, w, n
  <1>5. ASSUME NEW r \in {"user", "assistant"}, NEW c, Puts(B, o, w, r, c), r = "user" => Role(s[k]) # "assistant",
               Role(s[k]) = "user" => r = "user"
        PROVE  InlineState(B, s, k, w)
    <2>1. Len(w) \in Nat \ {0} /\ w # <<>> /\ w \in Seq(Wires(B)) /\ w[Len(w)].role = r
      BY <1>5, OfPut DEF Puts, Merges, Adds
    <2>2. /\ Len(w) = n \/ Len(w) = n + 1
          /\ \A p \in 1..n : w[p].role = o[p].role
          /\ Len(w) = n => n # 0
      <3>1. CASE Merges(o, w, r, c)
        <4>1. Len(w) = n /\ w[n].role = r /\ o[n].role = r /\ (\A p \in 1..(n - 1) : w[p] = o[p]) /\ n # 0
          BY <1>1, <3>1 DEF Merges, n
        <4>2. QED
          BY <1>1, <4>1
      <3>2. CASE Adds(o, w, r, c)
        BY <1>1, <3>2 DEF Adds, n
      <3>3. QED
        BY <1>5, <3>1, <3>2 DEF Puts
    <2>3. ASSUME NEW p \in 1..Len(w), w[p].role = "system"
          PROVE  p > 1 /\ w[p - 1].role = "user" /\ p < Len(w) /\ w[p + 1].role = "assistant"
      <3>1. p # Len(w)
        BY <2>1, <2>3
      <3>2. p \in 1..n /\ o[p].role = "system" /\ p < Len(w)
        BY <1>1, <2>1, <2>2, <2>3, <3>1
      <3>3. p > 1 /\ o[p - 1].role = "user" /\ w[p - 1].role = "user"
        <4>1. p > 1 /\ o[p - 1].role = "user"
          BY <1>3, <3>2
        <4>2. p - 1 \in 1..n
          BY <1>1, <3>2, <4>1
        <4>3. QED
          BY <2>2, <4>1, <4>2
      <3>4. CASE p < n
        <4>1. p + 1 \in 1..n /\ o[p + 1].role = "assistant"
          BY <1>1, <1>3, <3>2, <3>4
        <4>2. QED
          BY <2>2, <3>2, <3>3, <4>1
      <3>5. CASE p = n
        <4>1. Role(s[k]) = "assistant"
          BY <1>3, <3>2, <3>5
        <4>2. r = "assistant" /\ Len(w) = n + 1
          BY <1>5, <2>2, <3>1, <3>5, <4>1
        <4>3. QED
          BY <2>1, <3>2, <3>3, <3>5, <4>2
      <3>6. QED
        BY <1>1, <3>2, <3>4, <3>5
    <2>4. QED
      BY <1>5, <2>1, <2>3 DEF InlineState
  <1>6. CASE Role(s[k]) = "system" /\ CanUseNative(s, k)
    <2>1. k > 1 /\ Role(s[k - 1]) = "user" /\ (k = Len(s) \/ Role(s[k + 1]) = "assistant")
      BY <1>6 DEF CanUseNative
    <2>2. o # <<>> /\ o[n].role = "user" /\ n # 0
      BY <1>1, <1>3, <2>1
    <2>3. Puts(B, o, w, "system", <<Update>>)
      BY <1>2, <1>6, <2>2 DEF n
    <2>4. Adds(o, w, "system", <<Update>>)
      BY <2>2, <2>3 DEF Puts, Merges, n
    <2>5. Len(w) = n + 1 /\ w[n + 1].role = "system" /\ \A p \in 1..n : w[p] = o[p]
      BY <2>4 DEF Adds, n
    <2>6. ASSUME NEW p \in 1..Len(w), w[p].role = "system"
          PROVE  /\ p > 1 /\ w[p - 1].role = "user"
                 /\ p < Len(w) => w[p + 1].role = "assistant"
                 /\ p = Len(w) => k = Len(s) \/ Role(s[k + 1]) = "assistant"
      <3>1. CASE p = Len(w)
        <4>1. n \in Nat \ {0} /\ p = n + 1
          BY <1>1, <2>2, <2>5, <3>1
        <4>2. p - 1 = n /\ n \in 1..n /\ p > 1
          BY <4>1
        <4>3. QED
          BY <2>1, <2>2, <2>5, <3>1, <4>2
      <3>2. CASE p # Len(w)
        <4>1. p \in 1..n /\ o[p].role = "system"
          BY <1>1, <2>5, <2>6, <3>2
        <4>2. p # n
          BY <2>2, <4>1
        <4>3. p < n /\ p + 1 \in 1..n
          BY <1>1, <4>1, <4>2
        <4>4. p > 1 /\ o[p - 1].role = "user" /\ o[p + 1].role = "assistant"
          BY <1>3, <4>1, <4>3
        <4>5. p - 1 \in 1..n
          BY <1>1, <4>1, <4>4
        <4>6. QED
          BY <2>5, <3>2, <4>3, <4>4, <4>5
      <3>3. QED
        BY <3>1, <3>2
    <2>7. w \in Seq(Wires(B)) /\ Role(s[k]) # "user"
      BY <1>6, <2>3 DEF Puts
    <2>8. InlineState(B, s, k, w)
      BY <2>6, <2>7 DEF InlineState
    <2>9. QED
      BY <2>8 DEF B, w
  <1>7. CASE Role(s[k]) = "system" /\ ~CanUseNative(s, k)
    <2>1. Puts(B, o, w, "user", <<Update>>)
      BY <1>2, <1>7
    <2>2. InlineState(B, s, k, w)
      BY <1>5, <1>7, <2>1
    <2>3. QED
      BY <2>2 DEF B, w
  <1>8. CASE Role(s[k]) # "system"
    <2>1. Puts(B, o, w, Role(s[k]), Content(s[k])) /\ Role(s[k]) \in {"user", "assistant"}
      BY <1>2, <1>4, <1>8
    <2>2. InlineState(B, s, k, w)
      BY <1>5, <2>1
    <2>3. QED
      BY <2>2 DEF B, w
  <1>9. QED
    BY <1>6, <1>7, <1>8

(* What is inline is in place. *)
LEMMA InlineInPlaceOf ==
  ASSUME NEW s \in Seq(Row), \A k \in Answerers(s) : s[k].calls # {}, \A k \in DOMAIN s : s[k].kind # "thoughts"
  PROVE  InlineInPlace(LowerAnthropic(s, TRUE))
  <1> DEFINE n == Len(s)
             B == Pieces(s)
  <1>1. n \in Nat
    BY LenProperties
  <1>2. PICK out : /\ LowerAnthropic(s, TRUE) = out[n] /\ out[0] = <<>>
                   /\ \A k \in 1..n : out[k] = PutAnthropic(s, TRUE, out[k - 1], k)
    BY AnthropicRuns
  <1> DEFINE T == {k \in 0..n : InlineState(B, s, k, out[k])}
  <1>3. 0 \in T
    <2>1. <<>> \in Seq(Wires(B)) /\ Len(<<>>) = 0 /\ 1..0 = {}
      BY EmptySeq
    <2> HIDE DEF B
    <2>2. InlineState(B, s, 0, <<>>)
      BY <2>1 DEF InlineState
    <2>3. QED
      BY <1>1, <1>2, <2>2
  <1>4. \A k \in 1..n : k - 1 \in T => k \in T
    <2> SUFFICES ASSUME NEW k \in 1..n, k - 1 \in T PROVE k \in T
      OBVIOUS
    <2>1. InlineState(B, s, k, PutAnthropic(s, TRUE, out[k - 1], k))
      BY InlineStep
    <2>2. out[k] = PutAnthropic(s, TRUE, out[k - 1], k) /\ k \in 0..n
      <3>1. k \in 0..n
        BY <1>1
      <3>2. out[k] = PutAnthropic(s, TRUE, out[k - 1], k)
        BY <1>2, Zenon
      <3>3. QED
        BY <3>1, <3>2
    <2>3. QED
      BY <2>1, <2>2
  <1> HIDE DEF T
  <1>5. n \in T
    BY <1>1, <1>3, <1>4, StepByStep
  <1> DEFINE o == out[n]
  <1>6. InlineState(B, s, n, o)
    BY <1>5 DEF T
  <1>7. o = LowerAnthropic(s, TRUE)
    BY <1>2
  <1> HIDE DEF o, n, B
  <1>8. DOMAIN o = 1..Len(o)
    BY <1>6, LenProperties DEF InlineState
  <1>9. InlineInPlace(o)
    BY <1>6, <1>8 DEF InlineInPlace, InlineState
  <1>10. QED
    BY <1>7, <1>9

-----------------------------------------------------------------------------
(* OpenAI-compatible.                                                           *)

(* The messages that are put for one, by its kind. *)
LEMMA OpenAiPuts ==
  ASSUME NEW s, Shape(s), NEW k \in DOMAIN s
  PROVE  LET t == PutOpenAi(s[k]) IN
         /\ t \in Seq(Wires(Pieces(s)))
         /\ s[k].kind = "thoughts" => t = <<>>
         /\ s[k].kind \notin {"thoughts", "results"} =>
              /\ Len(t) = 1 /\ t[1].role # "tool"
              /\ Of("call", t[1]) = IF k \in Makers(s) THEN s[k].calls ELSE {}
         /\ s[k].kind = "results" =>
              /\ Len(t) = Cardinality(s[k].calls)
              /\ \A i \in 1..Len(t) : t[i].role = "tool" /\ Len(t[i].content) = 1 /\ Of("call", t[i]) = {}
              /\ \A i \in 1..Len(t) : Of("result", t[i]) = {CallAt(s[k].calls, i)}
  <1> DEFINE B == Pieces(s)
             m == s[k]
             t == PutOpenAi(m)
             c == Content(m)
  <1>1. s \in Seq(Row) /\ \A a, b \in m.calls : a[1] = b[1]
    BY DEF Shape
  <1>2. /\ c \in Seq(B) /\ Len(c) \in Nat /\ DOMAIN c = 1..Len(c)
        /\ \A j \in DOMAIN c : c[j].type = TypeIn(m)
        /\ TypeIn(m) \in {"result", "call"} =>
             Len(c) = Cardinality(m.calls) /\ \A j \in DOMAIN c : c[j].call = CallAt(m.calls, j)
    BY <1>1, ContentIs
  <1>3. CallsOf("call", c) = IF TypeIn(m) = "call" THEN m.calls ELSE {}
    BY <1>1, CallsOfContent
  <1>4. Update \in B /\ Update.type = "update" /\ {"system", "user", "assistant", "tool"} \subseteq Roles
    BY DEF Update, Pieces, Block, Roles
  <1> HIDE DEF B, c
  <1>5. CASE Role(m) = "system"
    <2>1. m.kind \notin {"results", "thoughts"}
      BY <1>5 DEF Role
    <2>2. t = <<Message("system", <<Block("update", NoCall)>>)>>
      BY <1>5, <2>1 DEF PutOpenAi
    <2>3. t = <<Message("system", <<Update>>)>>
      BY <2>2, Zenon DEF Update
    <2>4. Message("system", <<Update>>) \in Wires(B)
      BY <1>4 DEF Message, Wires
    <2>5. t \in Seq(Wires(B)) /\ Len(t) = 1 /\ t[1] = Message("system", <<Update>>)
      BY <2>3, <2>4
    <2>6. Of("call", t[1]) = {} /\ t[1].role # "tool"
      <3>1. t[1].content = <<Update>> /\ t[1].role = "system"
        BY <2>5 DEF Message
      <3>2. CallsOf("call", <<Update>>) = {}
        BY UpdateIs
      <3>3. QED
        BY <3>1, <3>2, OfCalls
    <2>7. m.kind \notin {"thoughts", "results"} /\ k \notin Makers(s)
      BY <1>5 DEF Role, Makers
    <2>8. QED
      BY <2>5, <2>6, <2>7 DEF B
  <1>6. CASE m.kind = "thoughts"
    <2>1. t = <<>>
      BY <1>6 DEF PutOpenAi, Role
    <2>2. <<>> \in Seq(Wires(B))
      BY EmptySeq
    <2>3. QED
      BY <1>6, <2>1, <2>2 DEF B
  <1>7. CASE m.kind \in {"prompt", "assistant"}
    <2>1. t = <<Message(Role(m), c)>> /\ Role(m) \in {"user", "assistant"}
      BY <1>7 DEF PutOpenAi, Role, c
    <2>2. Message(Role(m), c) \in Wires(B)
      BY <1>2, <1>4, <2>1 DEF Message, Wires
    <2>3. t \in Seq(Wires(B)) /\ Len(t) = 1 /\ t[1] = Message(Role(m), c)
      BY <2>1, <2>2
    <2>4. t[1].content = c /\ t[1].role # "tool"
      BY <2>1, <2>3 DEF Message
    <2>5. TypeIn(m) = "call" <=> k \in Makers(s)
      BY <1>7 DEF TypeIn, Makers
    <2>6. Of("call", t[1]) = IF k \in Makers(s) THEN m.calls ELSE {}
      BY <1>3, <2>4, <2>5, OfCalls
    <2>7. QED
      BY <1>7, <2>3, <2>4, <2>6 DEF B
  <1>8. CASE m.kind = "results"
    <2>1. t = [i \in 1..Len(c) |-> Message("tool", <<c[i]>>)] /\ TypeIn(m) = "result"
      BY <1>2, <1>8 DEF PutOpenAi, Role, c, TypeIn
    <2>2. \A i \in 1..Len(c) : Message("tool", <<c[i]>>) \in Wires(B)
      BY <1>2, <1>4 DEF Message, Wires
    <2>3. t \in [1..Len(c) -> Wires(B)]
      BY <2>1, <2>2
    <2>4. t \in Seq(Wires(B)) /\ Len(t) = Len(c)
      BY <1>2, <2>3
    <2>5. ASSUME NEW i \in 1..Len(t)
          PROVE  /\ t[i].role = "tool" /\ Len(t[i].content) = 1
                 /\ Of("call", t[i]) = {} /\ Of("result", t[i]) = {CallAt(m.calls, i)}
      <3> DEFINE d == <<c[i]>>
      <3>1. t[i].role = "tool" /\ t[i].content = d
        BY <2>1, <2>4 DEF Message
      <3>2. Len(d) = 1 /\ DOMAIN d = {1} /\ d[1] = c[i] /\ c[i].type = "result" /\ c[i].call = CallAt(m.calls, i)
        BY <1>2, <2>1, <2>4
      <3> HIDE DEF d
      <3>3. CallsOf("call", d) = {} /\ CallsOf("result", d) = {CallAt(m.calls, i)}
        BY <3>2 DEF CallsOf
      <3>4. QED
        BY <3>1, <3>2, <3>3, OfCalls
    <2>6. QED
      BY <1>2, <1>8, <2>1, <2>4, <2>5 DEF B
  <1>9. QED
    BY <1>5, <1>6, <1>7, <1>8 DEF Role

(* The calls, and the results, of a message of o.                                      *)
CallsAt(o, p)   == Of("call", o[p])
ResultsAt(o, p) == Of("result", o[p])

CallsIn(o, P)   == UNION {CallsAt(o, p) : p \in P}
ResultsIn(o, P) == UNION {ResultsAt(o, p) : p \in P}

(* A message with calls is followed by a tool message for each of them.                   *)
ServedAt(o, p) ==
    LET n == Cardinality(CallsAt(o, p)) IN
    /\ n \in Nat /\ p + n <= Len(o)
    /\ CallsAt(o, p) = ResultsIn(o, (p + 1)..(p + n))
    /\ \A j \in (p + 1)..(p + n) : o[j].role = "tool" /\ Len(o[j].content) = 1
AllServed(o, n) == \A p \in 1..n : CallsAt(o, p) # {} => ServedAt(o, p)

(* Where the tool messages are, and the calls answered and made by the first k messages. *)
ToolPlaces(o)    == {p \in 1..Len(o) : o[p].role = "tool"}
AnsweredBy(s, k) == UNION {s[i].calls : i \in {j \in Answerers(s) : j <= k}}
MadeBy(s, k)     == UNION {s[i].calls : i \in {j \in Makers(s) : j <= k}}

(* A tool message has one result, and each result so far is in one of them.               *)
ToolsRight(s, k, o) ==
    /\ \A p \in ToolPlaces(o) : Len(o[p].content) = 1 /\ CallsAt(o, p) = {}
    /\ \A p \in ToolPlaces(o) : \E c \in AnsweredBy(s, k) : ResultsAt(o, p) = {c}
    /\ \A p, q \in ToolPlaces(o) : ResultsAt(o, p) = ResultsAt(o, q) => p = q
    /\ \A c \in AnsweredBy(s, k) : \E p \in ToolPlaces(o) : ResultsAt(o, p) = {c}

(* The state of lower_openai_messages after k messages.                                *)
OpenAiState(B, s, k, o) ==
    /\ o \in Seq(Wires(B))
    /\ ToolsRight(s, k, o)
    /\ CallsIn(o, 1..Len(o)) = MadeBy(s, k)
    /\ ~Expects(s, k) => AllServed(o, Len(o))
    /\ Expects(s, k) => \E j \in Makers(s), p \in 1..Len(o) :
         /\ j <= k /\ OnlyResults(s, j, k)
         /\ CallsAt(o, p) = s[j].calls
         /\ \A q \in (p + 1)..Len(o) : q \in ToolPlaces(o)
         /\ ResultsIn(o, (p + 1)..Len(o)) = Given(s, j, k)
         /\ AllServed(o, p - 1)

(* What was served stays so when messages come behind it.                               *)
LEMMA ServedStays ==
  ASSUME NEW o, NEW w, NEW n \in Nat, AllServed(o, n), n <= Len(o), Len(o) <= Len(w),
         Len(o) \in Nat, Len(w) \in Nat, \A p \in 1..Len(o) : w[p] = o[p]
  PROVE  AllServed(w, n)
  <1> SUFFICES ASSUME NEW p \in 1..n, CallsAt(w, p) # {} PROVE ServedAt(w, p)
    BY DEF AllServed
  <1>1. p \in 1..Len(o) /\ CallsAt(w, p) = CallsAt(o, p)
    BY DEF CallsAt
  <1>2. ServedAt(o, p)
    BY <1>1 DEF AllServed
  <1> DEFINE m == Cardinality(CallsAt(o, p))
  <1>3. /\ m \in Nat /\ p + m <= Len(o)
        /\ CallsAt(o, p) = ResultsIn(o, (p + 1)..(p + m))
        /\ \A j \in (p + 1)..(p + m) : o[j].role = "tool" /\ Len(o[j].content) = 1
    BY <1>2 DEF ServedAt
  <1> HIDE DEF m
  <1>4. \A j \in (p + 1)..(p + m) : w[j] = o[j] /\ ResultsAt(w, j) = ResultsAt(o, j)
    <2>1. \A j \in (p + 1)..(p + m) : j \in 1..Len(o)
      BY <1>1, <1>3
    <2>2. QED
      BY <2>1 DEF ResultsAt
  <1>5. p + m <= Len(w)
    BY <1>1, <1>3
  <1>6. ResultsIn(w, (p + 1)..(p + m)) = ResultsIn(o, (p + 1)..(p + m))
    BY <1>4 DEF ResultsIn
  <1>7. m = Cardinality(CallsAt(w, p))
    BY <1>1 DEF m
  <1>8. QED
    BY <1>1, <1>3, <1>4, <1>5, <1>6, <1>7 DEF ServedAt

(* A sequence behind another.                                                        *)
LEMMA Behind ==
  ASSUME NEW A, NEW o, NEW t, NEW w, o \in Seq(A), t \in Seq(A), w = o \o t
  PROVE  /\ w \in Seq(A) /\ Len(o) \in Nat /\ Len(t) \in Nat /\ Len(w) = Len(o) + Len(t)
         /\ \A p \in 1..Len(o) : w[p] = o[p]
         /\ \A i \in 1..Len(t) : w[Len(o) + i] = t[i]
         /\ \A q \in 1..Len(w) : q \in 1..Len(o) \/ \E i \in 1..Len(t) : q = Len(o) + i
  <1>1. /\ w \in Seq(A) /\ Len(o) \in Nat /\ Len(t) \in Nat /\ Len(w) = Len(o) + Len(t)
        /\ \A i \in 1..Len(o) + Len(t) : w[i] = IF i <= Len(o) THEN o[i] ELSE t[i - Len(o)]
    BY ConcatProperties, LenProperties
  <1>2. \A p \in 1..Len(o) : w[p] = o[p]
    BY <1>1
  <1>3. ASSUME NEW i \in 1..Len(t) PROVE w[Len(o) + i] = t[i]
    <2>1. Len(o) + i \in 1..Len(o) + Len(t) /\ ~(Len(o) + i <= Len(o)) /\ (Len(o) + i) - Len(o) = i
      BY <1>1
    <2>2. QED
      BY <1>1, <2>1
  <1>4. ASSUME NEW q \in 1..Len(w), q \notin 1..Len(o) PROVE \E i \in 1..Len(t) : q = Len(o) + i
    <2>1. q - Len(o) \in 1..Len(t) /\ q = Len(o) + (q - Len(o))
      BY <1>1, <1>4
    <2>2. QED
      BY <2>1
  <1>5. QED
    BY <1>1, <1>2, <1>3, <1>4

(* There are as many tool messages as results in them.                                  *)
LEMMA OneToolEach ==
  ASSUME NEW s, NEW k, NEW o, ToolsRight(s, k, o), NEW P \in SUBSET ToolPlaces(o), IsFiniteSet(P)
  PROVE  /\ IsFiniteSet(ResultsIn(o, P))
         /\ Cardinality(ResultsIn(o, P)) = Cardinality(P)
  <1> DEFINE R == ResultsIn(o, P)
             f == [p \in P |-> CHOOSE c : ResultsAt(o, p) = {c}]
  <1>1. \A p \in P : ResultsAt(o, p) = {f[p]}
    BY DEF ToolsRight
  <1>2. ASSUME NEW p \in P, NEW q \in P, f[p] = f[q] PROVE p = q
    <2>1. ResultsAt(o, p) = ResultsAt(o, q)
      BY <1>1, <1>2
    <2>2. \A x, y \in ToolPlaces(o) : ResultsAt(o, x) = ResultsAt(o, y) => x = y
      BY DEF ToolsRight
    <2>3. QED
      BY <2>1, <2>2
  <1> HIDE DEF f
  <1>3. R = {f[p] : p \in P}
    BY <1>1 DEF ResultsIn
  <1>4. f \in [P -> R]
    BY <1>3 DEF f
  <1> HIDE DEF R
  <1>5. f \in Bijection(P, R)
    BY <1>2, <1>3, <1>4 DEF Bijection, Injection, IsInjective, Surjection
  <1>6. ExistsBijection(P, R)
    BY <1>5 DEF ExistsBijection
  <1>7. IsFiniteSet(R) /\ Cardinality(R) = Cardinality(P)
    BY <1>5, <1>6, FS_Surjection, FS_Bijection DEF Bijection
  <1>8. QED
    BY <1>7 DEF R

(* What a message adds to the calls made and answered.                                  *)
LEMMA MadeAndAnswered ==
  ASSUME NEW s, Shape(s), NEW k \in 1..Len(s)
  PROVE  /\ s[k].kind = "results" => AnsweredBy(s, k) = AnsweredBy(s, k - 1) \cup s[k].calls
         /\ s[k].kind # "results" => AnsweredBy(s, k) = AnsweredBy(s, k - 1)
         /\ k \in Makers(s) => MadeBy(s, k) = MadeBy(s, k - 1) \cup s[k].calls
         /\ k \notin Makers(s) => MadeBy(s, k) = MadeBy(s, k - 1)
         /\ s[k].kind = "results" => AnsweredBy(s, k - 1) \cap s[k].calls = {}
         /\ AnsweredBy(s, 0) = {} /\ MadeBy(s, 0) = {}
         /\ k \in Makers(s) => s[k].kind = "assistant"
  <1>1. Len(s) \in Nat /\ DOMAIN s = 1..Len(s) /\ k \in DOMAIN s
        /\ Makers(s) \subseteq 1..Len(s) /\ Answerers(s) \subseteq 1..Len(s)
    BY Shaped
  <1>2. \A S \in SUBSET (1..Len(s)) : {j \in S : j <= k} = {j \in S : j <= k - 1} \cup (S \cap {k})
    <2> TAKE S \in SUBSET (1..Len(s))
    <2>1. \A j \in S : j <= k <=> j <= k - 1 \/ j = k
      BY <1>1
    <2>2. QED
      BY <1>1, <2>1
  <1>3. AnsweredBy(s, k) = AnsweredBy(s, k - 1) \cup IF s[k].kind = "results" THEN s[k].calls ELSE {}
    <2>1. k \in Answerers(s) <=> s[k].kind = "results"
      BY <1>1 DEF Answerers
    <2>2. {j \in Answerers(s) : j <= k} = {j \in Answerers(s) : j <= k - 1} \cup (Answerers(s) \cap {k})
      BY <1>1, <1>2
    <2>3. QED
      BY <2>1, <2>2 DEF AnsweredBy
  <1>4. MadeBy(s, k) = MadeBy(s, k - 1) \cup IF k \in Makers(s) THEN s[k].calls ELSE {}
    <2>1. {j \in Makers(s) : j <= k} = {j \in Makers(s) : j <= k - 1} \cup (Makers(s) \cap {k})
      BY <1>1, <1>2
    <2>2. QED
      BY <2>1 DEF MadeBy
  <1>5. ASSUME s[k].kind = "results" PROVE AnsweredBy(s, k - 1) \cap s[k].calls = {}
    <2>1. k \in Answerers(s)
      BY <1>1, <1>5 DEF Answerers
    <2>2. \A j \in Answerers(s) : j <= k - 1 => j # k
      BY <1>1
    <2>3. \A j \in Answerers(s) : j <= k - 1 => s[j].calls \cap s[k].calls = {}
      BY <2>1, <2>2 DEF Shape
    <2>4. QED
      BY <2>3 DEF AnsweredBy
  <1>6. AnsweredBy(s, 0) = {} /\ MadeBy(s, 0) = {}
    <2>1. {j \in Answerers(s) : j <= 0} = {} /\ {j \in Makers(s) : j <= 0} = {}
      BY <1>1
    <2>2. QED
      BY <2>1 DEF AnsweredBy, MadeBy
  <1>7. QED
    <2>1. k \in Makers(s) => s[k].kind = "assistant"
      BY DEF Makers
    <2>2. QED
      BY <1>3, <1>4, <1>5, <1>6, <2>1

(* Messages that are no results: their calls, if any, are not served yet.                  *)
LEMMA OpenAiPlain ==
  ASSUME NEW s, Shape(s), NEW k \in 1..Len(s), NEW o, OpenAiState(Pieces(s), s, k - 1, o),
         s[k].kind \notin {"results", "thoughts"}
  PROVE  OpenAiState(Pieces(s), s, k, o \o PutOpenAi(s[k]))
  <1> DEFINE B == Pieces(s)
             t == PutOpenAi(s[k])
             w == o \o t
             n == Len(o)
  <1>1. k \in DOMAIN s /\ k \in Nat \ {0} /\ o \in Seq(Wires(B))
    BY LenProperties DEF Shape, OpenAiState
  <1>2. /\ t \in Seq(Wires(B)) /\ Len(t) = 1 /\ t[1].role # "tool"
        /\ Of("call", t[1]) = IF k \in Makers(s) THEN s[k].calls ELSE {}
    BY <1>1, OpenAiPuts
  <1> HIDE DEF B, t
  <1>3. /\ w \in Seq(Wires(B)) /\ n \in Nat /\ Len(w) = n + 1 /\ w[n + 1] = t[1]
        /\ \A p \in 1..n : w[p] = o[p]
    <2>1. /\ w \in Seq(Wires(B)) /\ n \in Nat /\ Len(w) = n + Len(t)
          /\ (\A p \in 1..n : w[p] = o[p]) /\ \A i \in 1..Len(t) : w[n + i] = t[i]
      <3>1. o \in Seq(Wires(B)) /\ t \in Seq(Wires(B)) /\ w = o \o t /\ n = Len(o)
        BY <1>1, <1>2
      <3> HIDE DEF w, n
      <3>2. QED
        BY <3>1, Behind
    <2>2. QED
      BY <1>2, <2>1
  <1>4. /\ AnsweredBy(s, k) = AnsweredBy(s, k - 1)
        /\ MadeBy(s, k) = MadeBy(s, k - 1) \cup Of("call", t[1])
        /\ Expects(s, k) <=> k \in Makers(s)
        /\ ~Expects(s, k - 1)
    <2>1. CASE k \in Makers(s)
      BY <1>2, <2>1, MadeAndAnswered, Expected
    <2>2. CASE k \notin Makers(s)
      BY <1>2, <2>2, MadeAndAnswered, Expected
    <2>3. QED
      BY <2>1, <2>2
  <1>5. ToolsRight(s, k - 1, o) /\ AllServed(o, n) /\ CallsIn(o, 1..n) = MadeBy(s, k - 1)
    BY <1>4 DEF OpenAiState
  <1> HIDE DEF w, n
  <1>6. \A p \in 1..Len(w) : p \in 1..n \/ p = n + 1
    BY <1>3
  <1>7. ToolPlaces(w) = ToolPlaces(o)
    <2>1. \A p \in 1..n : p \in 1..Len(w)
      BY <1>3
    <2>2. QED
      BY <1>2, <1>3, <1>6, <2>1 DEF ToolPlaces, n
  <1>8. /\ \A p \in 1..n : CallsAt(w, p) = CallsAt(o, p) /\ ResultsAt(w, p) = ResultsAt(o, p)
        /\ CallsAt(w, n + 1) = Of("call", t[1])
    BY <1>3 DEF CallsAt, ResultsAt
  <1>9. ToolsRight(s, k, w)
    <2> DEFINE T == ToolPlaces(o)
               A == AnsweredBy(s, k)
    <2>1. /\ \A p \in T : Len(o[p].content) = 1 /\ CallsAt(o, p) = {}
          /\ \A p \in T : \E c \in A : ResultsAt(o, p) = {c}
          /\ \A p, q \in T : ResultsAt(o, p) = ResultsAt(o, q) => p = q
          /\ \A c \in A : \E p \in T : ResultsAt(o, p) = {c}
      BY <1>4, <1>5 DEF ToolsRight
    <2>2. \A p \in T : w[p] = o[p] /\ CallsAt(w, p) = CallsAt(o, p) /\ ResultsAt(w, p) = ResultsAt(o, p)
      BY <1>3, <1>8 DEF ToolPlaces, n
    <2> HIDE DEF T, A
    <2>3. /\ \A p \in T : Len(w[p].content) = 1 /\ CallsAt(w, p) = {}
          /\ \A p \in T : \E c \in A : ResultsAt(w, p) = {c}
      BY <2>1, <2>2
    <2>4. /\ \A p, q \in T : ResultsAt(w, p) = ResultsAt(w, q) => p = q
          /\ \A c \in A : \E p \in T : ResultsAt(w, p) = {c}
      BY <2>1, <2>2
    <2>5. T = ToolPlaces(w)
      BY <1>7 DEF T
    <2>6. QED
      BY <2>3, <2>4, <2>5 DEF ToolsRight, A
  <1>10. CallsIn(w, 1..Len(w)) = MadeBy(s, k)
    <2>1. 1..Len(w) = (1..n) \cup {n + 1}
      BY <1>3
    <2>2. CallsIn(w, 1..Len(w)) = CallsIn(w, 1..n) \cup CallsAt(w, n + 1)
      <3>1. CallsIn(w, (1..n) \cup {n + 1}) = CallsIn(w, 1..n) \cup CallsIn(w, {n + 1})
        BY DEF CallsIn
      <3>2. CallsIn(w, {n + 1}) = CallsAt(w, n + 1)
        BY DEF CallsIn
      <3>3. CallsIn(w, (1..n) \cup {n + 1}) = CallsIn(w, 1..Len(w))
        BY <2>1
      <3>4. QED
        BY <3>1, <3>2, <3>3
    <2>3. CallsIn(w, 1..n) = CallsIn(o, 1..n)
      BY <1>8 DEF CallsIn
    <2>4. QED
      BY <1>4, <1>5, <1>8, <2>2, <2>3
  <1>11. AllServed(w, n)
    <2>1. Len(o) = n /\ n <= Len(o) /\ Len(o) <= Len(w) /\ Len(w) \in Nat
      BY <1>3 DEF n
    <2>2. QED
      BY <1>3, <1>5, <2>1, ServedStays
  <1>12. ASSUME ~Expects(s, k) PROVE AllServed(w, Len(w))
    <2>1. CallsAt(w, n + 1) = {}
      BY <1>2, <1>4, <1>8, <1>12
    <2>2. QED
      BY <1>6, <1>11, <2>1 DEF AllServed
  <1>13. ASSUME Expects(s, k)
         PROVE  \E j \in Makers(s), p \in 1..Len(w) :
                  /\ j <= k /\ OnlyResults(s, j, k)
                  /\ CallsAt(w, p) = s[j].calls
                  /\ \A q \in (p + 1)..Len(w) : q \in ToolPlaces(w)
                  /\ ResultsIn(w, (p + 1)..Len(w)) = Given(s, j, k)
                  /\ AllServed(w, p - 1)
    <2>1. k \in Makers(s) /\ CallsAt(w, n + 1) = s[k].calls
      BY <1>2, <1>4, <1>8, <1>13
    <2>2. n + 1 \in 1..Len(w) /\ ((n + 1) + 1)..Len(w) = {} /\ k <= k /\ (n + 1) - 1 = n
      <3>1. n \in Nat /\ Len(w) = n + 1 /\ k \in Nat
        BY <1>1, <1>3
      <3>2. ((n + 1) + 1)..(n + 1) = {}
        BY <3>1
      <3>3. QED
        BY <3>1, <3>2
    <2>3. OnlyResults(s, k, k) /\ Given(s, k, k) = {}
      <3>1. (k + 1)..k = {}
        BY <1>1
      <3>2. QED
        BY <3>1 DEF OnlyResults, Given
    <2>4. ResultsIn(w, ((n + 1) + 1)..Len(w)) = {}
      BY <2>2 DEF ResultsIn
    <2>5. QED
      BY <1>11, <2>1, <2>2, <2>3, <2>4
  <1>14. OpenAiState(B, s, k, w)
    BY <1>3, <1>9, <1>10, <1>12, <1>13 DEF OpenAiState
  <1>15. QED
    BY <1>14 DEF w, t, B

(* Tool messages of their own for the results of further calls.                         *)
(* Results are a tool message each, and the last of them serves the message with the calls. *)
LEMMA OpenAiResults ==
  ASSUME NEW s, Shape(s), NEW k \in 1..Len(s), NEW o, OpenAiState(Pieces(s), s, k - 1, o), s[k].kind = "results"
  PROVE  OpenAiState(Pieces(s), s, k, o \o PutOpenAi(s[k]))
  <1> DEFINE B == Pieces(s)
             t == PutOpenAi(s[k])
             w == o \o t
             n == Len(o)
             m == Len(t)
             cs == s[k].calls
  <1>1. /\ DOMAIN s = 1..Len(s) /\ Len(s) \in Nat /\ k \in DOMAIN s /\ k \in Nat \ {0} /\ o \in Seq(Wires(B))
        /\ s \in Seq(Row) /\ \A c, d \in cs : c[1] = d[1]
    BY LenProperties DEF Shape, OpenAiState
  <1>2. /\ t \in Seq(Wires(B)) /\ m = Cardinality(cs)
        /\ \A i \in 1..m : /\ t[i].role = "tool" /\ Len(t[i].content) = 1
                           /\ Of("call", t[i]) = {} /\ Of("result", t[i]) = {CallAt(cs, i)}
    <2>1. k \in DOMAIN s
      BY <1>1
    <2>2. t \in Seq(Wires(B)) /\ m = Cardinality(cs)
      BY <2>1, OpenAiPuts
    <2>3. \A i \in 1..m : t[i].role = "tool" /\ Len(t[i].content) = 1 /\ Of("call", t[i]) = {}
      BY <2>1, OpenAiPuts
    <2>4. \A i \in 1..m : Of("result", t[i]) = {CallAt(cs, i)}
      BY <2>1, OpenAiPuts, Zenon
    <2>5. QED
      BY <2>2, <2>3, <2>4
  <1>3. cs \in SUBSET CallIds
    BY <1>1, ElementOfSeq, RowTypes
  <1>4. /\ \A i \in 1..m : CallAt(cs, i) \in cs
        /\ \A i, j \in 1..m : CallAt(cs, i) = CallAt(cs, j) => i = j
        /\ \A c \in cs : \E i \in 1..m : CallAt(cs, i) = c
    BY <1>1, <1>2, <1>3, CallsInOrder
  <1> HIDE DEF B, t, cs
  <1>5. /\ w \in Seq(Wires(B)) /\ n \in Nat /\ m \in Nat /\ Len(w) = n + m
        /\ \A p \in 1..n : w[p] = o[p]
        /\ \A i \in 1..m : w[n + i] = t[i]
        /\ \A q \in 1..Len(w) : q \in 1..n \/ \E i \in 1..m : q = n + i
    <2>1. o \in Seq(Wires(B)) /\ t \in Seq(Wires(B)) /\ w = o \o t /\ n = Len(o) /\ m = Len(t)
      BY <1>1, <1>2
    <2> HIDE DEF w, n, m
    <2>2. /\ w \in Seq(Wires(B)) /\ Len(o) \in Nat /\ Len(t) \in Nat /\ Len(w) = Len(o) + Len(t)
          /\ \A p \in 1..Len(o) : w[p] = o[p]
          /\ \A i \in 1..Len(t) : w[Len(o) + i] = t[i]
      BY <2>1, Behind
    <2>3. ASSUME NEW q \in 1..Len(w) PROVE q \in 1..Len(o) \/ \E i \in 1..Len(t) : q = Len(o) + i
      <3>1. CASE q <= Len(o)
        BY <2>2, <3>1
      <3>2. CASE ~(q <= Len(o))
        <4>1. q - Len(o) \in 1..Len(t) /\ q = Len(o) + (q - Len(o))
          BY <2>2, <3>2
        <4>2. QED
          BY <4>1
      <3>3. QED
        BY <3>1, <3>2
    <2>4. QED
      BY <2>2, <2>3 DEF n, m
  <1> HIDE DEF w, n, m
  <1>6. /\ AnsweredBy(s, k) = AnsweredBy(s, k - 1) \cup cs /\ AnsweredBy(s, k - 1) \cap cs = {}
        /\ MadeBy(s, k) = MadeBy(s, k - 1)
        /\ Expects(s, k - 1)
    <2>1. k \notin Makers(s)
      BY MadeAndAnswered
    <2>2. QED
      BY <2>1, MadeAndAnswered, Expected DEF cs
  <1>7. /\ ToolsRight(s, k - 1, o)
        /\ CallsIn(o, 1..n) = MadeBy(s, k - 1)
    BY DEF OpenAiState, n
  <1>8. PICK j \in Makers(s), p \in 1..n :
          /\ j <= k - 1 /\ OnlyResults(s, j, k - 1)
          /\ CallsAt(o, p) = s[j].calls
          /\ \A q \in (p + 1)..n : q \in ToolPlaces(o)
          /\ ResultsIn(o, (p + 1)..n) = Given(s, j, k - 1)
          /\ AllServed(o, p - 1)
    BY <1>6 DEF OpenAiState, n
  <1>9. /\ \A q \in 1..n : /\ q \in 1..Len(w) /\ w[q] = o[q]
                           /\ CallsAt(w, q) = CallsAt(o, q) /\ ResultsAt(w, q) = ResultsAt(o, q)
        /\ \A i \in 1..m : n + i \in 1..Len(w) /\ n + i \notin 1..n
    <2>1. \A q \in 1..n : q \in 1..Len(w)
      BY <1>5
    <2>2. \A i \in 1..m : n + i \in 1..Len(w) /\ n + i \notin 1..n
      BY <1>5
    <2>3. QED
      BY <1>5, <2>1, <2>2 DEF CallsAt, ResultsAt
  <1>10. \A i \in 1..m : /\ n + i \in ToolPlaces(w) /\ Len(w[n + i].content) = 1
                          /\ CallsAt(w, n + i) = {} /\ ResultsAt(w, n + i) = {CallAt(cs, i)}
    <2> TAKE i \in 1..m
    <2>1. w[n + i] = t[i] /\ n + i \in 1..Len(w)
      BY <1>5, <1>9
    <2>2. w[n + i].role = "tool" /\ Len(w[n + i].content) = 1
      BY <1>2, <2>1
    <2>3. CallsAt(w, n + i) = {} /\ ResultsAt(w, n + i) = {CallAt(cs, i)}
      BY <1>2, <2>1 DEF CallsAt, ResultsAt
    <2>4. QED
      BY <2>1, <2>2, <2>3 DEF ToolPlaces
  <1>11. /\ \A q \in ToolPlaces(o) : q \in 1..n /\ q \in ToolPlaces(w)
        /\ \A q \in ToolPlaces(w) : q \in ToolPlaces(o) \/ \E i \in 1..m : q = n + i
    <2>1. \A q \in ToolPlaces(o) : q \in 1..n /\ q \in ToolPlaces(w)
      BY <1>9 DEF ToolPlaces, n
    <2>2. \A q \in ToolPlaces(w) : q \in 1..n => q \in ToolPlaces(o)
      BY <1>9 DEF ToolPlaces, n
    <2>3. \A q \in ToolPlaces(w) : q \in 1..Len(w)
      BY DEF ToolPlaces
    <2>4. QED
      BY <1>5, <2>1, <2>2, <2>3
  <1>12. ToolsRight(s, k, w)
    <2> DEFINE T == ToolPlaces(o)
               A == AnsweredBy(s, k - 1)
    <2>1. /\ \A q \in T : Len(o[q].content) = 1 /\ CallsAt(o, q) = {}
          /\ \A q \in T : \E c \in A : ResultsAt(o, q) = {c}
          /\ \A q, r \in T : ResultsAt(o, q) = ResultsAt(o, r) => q = r
          /\ \A c \in A : \E q \in T : ResultsAt(o, q) = {c}
      BY <1>7 DEF ToolsRight
    <2>2. \A q \in T : w[q] = o[q] /\ q \in ToolPlaces(w)
      BY <1>9, <1>11
    <2>3. \A i \in 1..m : /\ ResultsAt(w, n + i) = {CallAt(cs, i)} /\ CallsAt(w, n + i) = {}
                          /\ Len(w[n + i].content) = 1 /\ n + i \in ToolPlaces(w)
      BY <1>10
    <2>4. \A q \in ToolPlaces(w) : q \in T \/ \E i \in 1..m : q = n + i
      BY <1>11
    <2>5. AnsweredBy(s, k) = A \cup cs /\ A \cap cs = {}
      BY <1>6
    <2> HIDE DEF T, A
    <2>6. \A q \in T : CallsAt(w, q) = CallsAt(o, q) /\ ResultsAt(w, q) = ResultsAt(o, q)
      BY <2>2 DEF CallsAt, ResultsAt
    <2>7. \A q \in ToolPlaces(w) : Len(w[q].content) = 1 /\ CallsAt(w, q) = {}
      BY <2>1, <2>2, <2>3, <2>4, <2>6
    <2>8. \A q \in T : \E c \in A : ResultsAt(w, q) = {c}
      BY <2>1, <2>6
    <2>9. \A q \in ToolPlaces(w) : \E c \in A \cup cs : ResultsAt(w, q) = {c}
      BY <1>4, <2>3, <2>4, <2>8
    <2>10. ASSUME NEW q \in ToolPlaces(w), NEW r \in ToolPlaces(w), ResultsAt(w, q) = ResultsAt(w, r)
          PROVE  q = r
      <3>1. CASE q \in T /\ r \in T
        BY <2>1, <2>6, <2>10, <3>1
      <3>2. ASSUME NEW x \in T, NEW i \in 1..m, ResultsAt(w, x) = ResultsAt(w, n + i) PROVE FALSE
        <4>1. PICK c \in A : ResultsAt(w, x) = {c}
          BY <2>8
        <4>2. c = CallAt(cs, i)
          BY <2>3, <3>2, <4>1
        <4>3. QED
          BY <1>4, <2>5, <4>2
      <3>3. ASSUME NEW x \in 1..m, NEW y \in 1..m, q = n + x, r = n + y PROVE q = r
        <4>1. ResultsAt(w, q) = {CallAt(cs, x)} /\ ResultsAt(w, r) = {CallAt(cs, y)}
          BY <2>3, <3>3
        <4>2. CallAt(cs, x) = CallAt(cs, y)
          BY <2>10, <4>1
        <4>3. QED
          BY <1>4, <3>3, <4>2
      <3>4. QED
        BY <2>4, <2>10, <3>1, <3>2, <3>3
    <2>11. ASSUME NEW c \in A \cup cs PROVE \E q \in ToolPlaces(w) : ResultsAt(w, q) = {c}
      <3>1. CASE c \in A
        BY <2>1, <2>2, <2>6, <3>1
      <3>2. CASE c \in cs
        <4>1. PICK i \in 1..m : CallAt(cs, i) = c
          BY <1>4, <3>2
        <4>2. QED
          BY <2>3, <4>1
      <3>3. QED
        BY <3>1, <3>2
    <2>12. QED
      BY <2>5, <2>7, <2>9, <2>10, <2>11 DEF ToolsRight
  <1>13. CallsIn(w, 1..Len(w)) = MadeBy(s, k)
    <2> DEFINE N == {n + i : i \in 1..m}
    <2>1. 1..Len(w) = (1..n) \cup N
      <3>1. \A q \in 1..Len(w) : q \in 1..n \/ q \in N
        BY <1>5
      <3>2. \A q \in N : q \in 1..Len(w)
        BY <1>9
      <3>3. \A q \in 1..n : q \in 1..Len(w)
        BY <1>9
      <3> HIDE DEF N
      <3>4. QED
        BY <3>1, <3>2, <3>3
    <2>2. CallsIn(w, N) = {}
      BY <1>10 DEF CallsIn
    <2>3. CallsIn(w, 1..n) = CallsIn(o, 1..n)
      BY <1>9 DEF CallsIn
    <2> HIDE DEF N
    <2>4. CallsIn(w, 1..Len(w)) = CallsIn(w, 1..n) \cup CallsIn(w, N)
      <3>1. CallsIn(w, (1..n) \cup N) = CallsIn(w, 1..n) \cup CallsIn(w, N)
        BY DEF CallsIn
      <3>2. CallsIn(w, (1..n) \cup N) = CallsIn(w, 1..Len(w))
        BY <2>1
      <3>3. QED
        BY <3>1, <3>2
    <2>5. QED
      BY <1>6, <1>7, <2>2, <2>3, <2>4
  <1>14. j \in Nat /\ j < k /\ p \in Nat /\ p <= n /\ p - 1 \in Nat
    BY <1>1, <1>5, <1>8 DEF Makers
  <1>15. OnlyResults(s, j, k)
    <2>1. \A i \in (j + 1)..k : i \in (j + 1)..(k - 1) \/ i = k
      BY <1>1, <1>14
    <2>2. QED
      BY <1>8, <2>1 DEF OnlyResults
  <1>16. p \in 1..Len(w) /\ CallsAt(w, p) = s[j].calls
    BY <1>8, <1>9
  <1>17. \A q \in (p + 1)..Len(w) : q \in ToolPlaces(w)
    <2> TAKE q \in (p + 1)..Len(w)
    <2>1. q \in 1..Len(w) /\ (q \in 1..n => q \in (p + 1)..n)
      BY <1>5, <1>14
    <2>2. QED
      BY <1>5, <1>8, <1>10, <1>11, <2>1
  <1>18. ResultsIn(w, (p + 1)..Len(w)) = Given(s, j, k)
    <2> DEFINE N == {n + i : i \in 1..m}
               P == (p + 1)..n
               Q == (p + 1)..Len(w)
    <2>1. Given(s, j, k) = Given(s, j, k - 1) \cup cs
      <3>1. Given(s, j, k) = Given(s, j, k - 1) \cup s[k].calls
        <4>1. (j + 1)..k = ((j + 1)..(k - 1)) \cup {k}
          BY <1>1, <1>14
        <4>2. QED
          BY <4>1 DEF Given
      <3>2. QED
        BY <3>1 DEF cs
    <2>2. Q = P \cup N
      <3>1. ASSUME NEW q \in Q PROVE q \in P \/ q \in N
        <4>1. q \in 1..Len(w) /\ (q \in 1..n => q \in P)
          BY <1>5, <1>14
        <4>2. QED
          BY <1>5, <4>1
      <3>2. \A q \in P : q \in Q
        BY <1>5, <1>14
      <3>3. \A i \in 1..m : n + i \in Q
        BY <1>5, <1>14
      <3>4. \A q \in N : q \in Q
        BY <3>3
      <3> HIDE DEF N, P, Q
      <3>5. QED
        BY <3>1, <3>2, <3>4
    <2>3. ResultsIn(w, N) = cs
      <3>1. \A i \in 1..m : ResultsAt(w, n + i) = {CallAt(cs, i)}
        BY <1>10
      <3>2. ResultsIn(w, N) \subseteq cs
        BY <1>4, <3>1 DEF ResultsIn
      <3>3. ASSUME NEW c \in cs PROVE c \in ResultsIn(w, N)
        <4>1. PICK i \in 1..m : CallAt(cs, i) = c
          BY <1>4
        <4>2. n + i \in N /\ c \in ResultsAt(w, n + i)
          BY <3>1, <4>1
        <4> HIDE DEF N
        <4>3. QED
          BY <4>2 DEF ResultsIn
      <3> HIDE DEF N
      <3>4. QED
        BY <3>2, <3>3
    <2>4. ResultsIn(w, P) = ResultsIn(o, P)
      <3>1. \A q \in P : q \in 1..n
        BY <1>5, <1>14
      <3> HIDE DEF P
      <3>2. \A q \in P : ResultsAt(w, q) = ResultsAt(o, q)
        BY <1>9, <3>1
      <3>3. QED
        BY <3>2 DEF ResultsIn
    <2>5. ResultsIn(o, P) = Given(s, j, k - 1)
      BY <1>8
    <2> HIDE DEF N, P, Q
    <2>6. ResultsIn(w, Q) = Given(s, j, k)
      <3>1. ResultsIn(w, P \cup N) = ResultsIn(w, P) \cup ResultsIn(w, N)
        BY DEF ResultsIn
      <3>2. ResultsIn(w, P \cup N) = ResultsIn(w, Q)
        BY <2>2
      <3>3. QED
        BY <2>1, <2>3, <2>4, <2>5, <3>1, <3>2
    <2>7. QED
      BY <2>6 DEF Q
  <1>19. AllServed(w, p - 1)
    <2>1. p - 1 <= Len(o) /\ Len(o) = n /\ Len(o) <= Len(w) /\ Len(w) \in Nat
      BY <1>5, <1>14 DEF n
    <2> DEFINE x == p - 1
    <2>2. x \in Nat /\ AllServed(o, x) /\ x <= Len(o)
      BY <1>8, <1>14, <2>1
    <2> HIDE DEF x
    <2>3. AllServed(w, x)
      BY <1>5, <2>1, <2>2, ServedStays
    <2>4. QED
      BY <2>3 DEF x
  <1>20. ASSUME ~Expects(s, k) PROVE AllServed(w, Len(w))
    <2>1. Given(s, j, k) = s[j].calls
      BY <1>1, <1>14, <1>15, <1>20, GivenAll
    <2> DEFINE P == (p + 1)..Len(w)
    <2>2. IsFiniteSet(P) /\ Cardinality(P) = Len(w) - p
      <3>1. p + 1 \in Int /\ Len(w) \in Int /\ p + 1 <= Len(w) + 1 /\ Len(w) - (p + 1) + 1 = Len(w) - p
        BY <1>5, <1>14
      <3>2. IsFiniteSet(P) /\ Cardinality(P) = IF p + 1 > Len(w) THEN 0 ELSE Len(w) - (p + 1) + 1
        BY <3>1, FS_Interval
      <3> HIDE DEF P
      <3>3. QED
        BY <1>5, <1>14, <3>1, <3>2
    <2>3. Cardinality(s[j].calls) = Len(w) - p
      <3>1. P \in SUBSET ToolPlaces(w)
        BY <1>17
      <3>2. ResultsIn(w, P) = s[j].calls
        BY <1>18, <2>1
      <3> HIDE DEF P
      <3>3. Cardinality(ResultsIn(w, P)) = Cardinality(P)
        BY <1>12, <2>2, <3>1, OneToolEach
      <3>4. QED
        BY <2>2, <3>2, <3>3
    <2>4. ServedAt(w, p)
      <3> DEFINE c == Cardinality(CallsAt(w, p))
      <3>1. c = Len(w) - p
        BY <1>16, <2>3
      <3> HIDE DEF c
      <3>2. c \in Nat /\ p + c = Len(w) /\ p + c <= Len(w)
        BY <1>5, <1>14, <3>1
      <3>3. CallsAt(w, p) = ResultsIn(w, (p + 1)..(p + c))
        BY <1>16, <1>18, <2>1, <3>2
      <3>4. \A q \in (p + 1)..(p + c) : w[q].role = "tool" /\ Len(w[q].content) = 1
        <4>1. \A q \in (p + 1)..(p + c) : q \in ToolPlaces(w)
          BY <1>17, <3>2
        <4>2. QED
          BY <1>12, <4>1 DEF ToolsRight, ToolPlaces
      <3>5. QED
        BY <3>2, <3>3, <3>4 DEF ServedAt, c
    <2>5. \A q \in 1..Len(w) : q \in 1..(p - 1) \/ q = p \/ q \in (p + 1)..Len(w)
      BY <1>5, <1>14
    <2>6. \A q \in (p + 1)..Len(w) : CallsAt(w, q) = {}
      BY <1>12, <1>17 DEF ToolsRight
    <2>7. QED
      BY <1>19, <2>4, <2>5, <2>6 DEF AllServed
  <1>21. OpenAiState(B, s, k, w)
    <2>1. j <= k
      BY <1>1, <1>14
    <2>2. QED
      BY <1>5, <1>8, <1>12, <1>13, <1>15, <1>16, <1>17, <1>18, <1>19, <1>20, <2>1 DEF OpenAiState
  <1>22. QED
    BY <1>21 DEF w, t, B

(* The state is kept message by message. *)
LEMMA OpenAiStep ==
  ASSUME NEW s, Shape(s), NEW k \in 1..Len(s), NEW o, OpenAiState(Pieces(s), s, k - 1, o)
  PROVE  OpenAiState(Pieces(s), s, k, o \o PutOpenAi(s[k]))
  <1>1. CASE s[k].kind = "thoughts"
    <2>1. k \in DOMAIN s /\ o \in Seq(Wires(Pieces(s)))
      BY LenProperties DEF Shape, OpenAiState
    <2>2. PutOpenAi(s[k]) = <<>>
      BY <1>1, <2>1, OpenAiPuts
    <2>3. o \o PutOpenAi(s[k]) = o
      BY <2>1, <2>2, ConcatEmptySeq
    <2>4. AnsweredBy(s, k) = AnsweredBy(s, k - 1) /\ MadeBy(s, k) = MadeBy(s, k - 1)
          /\ ~Expects(s, k) /\ ~Expects(s, k - 1)
      BY <1>1, MadeAndAnswered, Expected
    <2>5. ToolsRight(s, k, o)
      BY <2>4 DEF OpenAiState, ToolsRight
    <2> DEFINE B == Pieces(s)
    <2> HIDE DEF B
    <2>6. OpenAiState(B, s, k - 1, o)
      BY DEF B
    <2>7. OpenAiState(B, s, k, o)
      BY <2>4, <2>5, <2>6 DEF OpenAiState
    <2>8. QED
      BY <2>3, <2>7 DEF B
  <1>2. CASE s[k].kind = "results"
    BY <1>2, OpenAiResults
  <1>3. CASE s[k].kind \notin {"results", "thoughts"}
    BY <1>3, OpenAiPlain
  <1>4. QED
    BY <1>1, <1>2, <1>3

(* lower_openai_messages is defined message by message.                                *)
LEMMA OpenAiRuns ==
  ASSUME NEW s, Shape(s)
  PROVE  \E out : /\ LowerOpenAi(s) = out[Len(s)] /\ out[0] = <<>>
                  /\ \A k \in 1..Len(s) : out[k] = out[k - 1] \o PutOpenAi(s[k])
  <1> DEFINE A == Seq(Wires(Pieces(s)))
             n == Len(s)
             step == [x \in A \X (1..n) |-> x[1] \o PutOpenAi(s[x[2]])]
  <1>1. n \in Nat /\ <<>> \in A /\ DOMAIN s = 1..n
    BY LenProperties, EmptySeq DEF Shape
  <1>2. \A o \in A, k \in 1..n : o \o PutOpenAi(s[k]) \in A
    <2> TAKE o \in A, k \in 1..n
    <2>1. PutOpenAi(s[k]) \in A
      BY <1>1, OpenAiPuts
    <2>2. QED
      BY <2>1, ConcatProperties
  <1> HIDE DEF A
  <1>3. step \in [A \X (1..n) -> A] /\ \A o \in A, k \in 1..n : step[<<o, k>>] = o \o PutOpenAi(s[k])
    BY <1>2
  <1> HIDE DEF step, n
  <1>4. PICK h \in [0..n -> A] : h[0] = <<>> /\ \A k \in 1..n : h[k] = step[<<h[k - 1], k>>]
    <2>1. n \in Nat /\ <<>> \in A /\ step \in [A \X (1..n) -> A]
      BY <1>1, <1>3
    <2>2. \E h : Grows(h, n, A, <<>>, step)
      BY <2>1, FromBefore
    <2>3. QED
      BY <2>2 DEF Grows
  <1>5. \A k \in 0..n : h[k] = IF k = 0 THEN <<>> ELSE h[k - 1] \o PutOpenAi(s[k])
    <2> TAKE k \in 0..n
    <2>1. CASE k = 0
      BY <1>4, <2>1
    <2>2. CASE k # 0
      <3>1. k \in 1..n /\ k - 1 \in 0..n
        BY <1>1, <2>2
      <3>2. h[k - 1] \in A
        BY <1>4, <3>1
      <3>3. QED
        BY <1>3, <1>4, <2>2, <3>1, <3>2
    <2>3. QED
      BY <2>1, <2>2
  <1>6. h = [k \in 0..n |-> IF k = 0 THEN <<>> ELSE h[k - 1] \o PutOpenAi(s[k])]
    <2>1. h = [k \in 0..n |-> h[k]]
      BY <1>4
    <2>2. QED
      BY <1>5, <2>1
  <1> DEFINE out == CHOOSE g : g = [k \in 0..n |-> IF k = 0 THEN <<>> ELSE g[k - 1] \o PutOpenAi(s[k])]
  <1>7. out = [k \in 0..n |-> IF k = 0 THEN <<>> ELSE out[k - 1] \o PutOpenAi(s[k])]
    BY <1>6
  <1>8. LowerOpenAi(s) = out[n]
    BY DEF LowerOpenAi, n
  <1> HIDE DEF out
  <1>9. out[0] = <<>> /\ \A k \in 1..n : out[k] = out[k - 1] \o PutOpenAi(s[k])
    <2>1. 0 \in 0..n /\ \A k \in 1..n : k \in 0..n /\ k # 0
      BY <1>1
    <2>2. QED
      BY <1>7, <2>1
  <1>10. QED
    BY <1>8, <1>9 DEF n

(* Every call made is answered in the end.                                             *)
LEMMA EveryAnswered ==
  ASSUME NEW s, Shape(s)
  PROVE  AnsweredBy(s, Len(s)) = MadeBy(s, Len(s))
  <1>1. Len(s) \in Nat /\ (\A k \in Answerers(s) : k <= Len(s)) /\ \A j \in Makers(s) : j <= Len(s)
    BY Shaped
  <1>2. ASSUME NEW c \in AnsweredBy(s, Len(s)) PROVE c \in MadeBy(s, Len(s))
    <2>1. PICK k \in Answerers(s) : c \in s[k].calls
      BY <1>2 DEF AnsweredBy
    <2>2. PICK j \in Makers(s) : s[k].calls \subseteq s[j].calls
      BY DEF Shape
    <2>3. QED
      BY <1>1, <2>1, <2>2 DEF MadeBy
  <1>3. ASSUME NEW c \in MadeBy(s, Len(s)) PROVE c \in AnsweredBy(s, Len(s))
    <2>1. PICK j \in Makers(s) : c \in s[j].calls
      BY <1>3 DEF MadeBy
    <2>2. PICK k \in Answerers(s) : c \in s[k].calls
      BY <2>1 DEF Shape
    <2>3. QED
      BY <1>1, <2>2 DEF AnsweredBy
  <1>4. AnsweredBy(s, Len(s)) \subseteq MadeBy(s, Len(s)) /\ MadeBy(s, Len(s)) \subseteq AnsweredBy(s, Len(s))
    BY <1>2, <1>3
  <1>5. QED
    BY <1>4

(* An OpenAI-compatible provider takes the request. *)
LEMMA OpenAiTakesIt ==
  ASSUME NEW s, Shape(s)
  PROVE  OpenAiAccepts(LowerOpenAi(s))
  <1> DEFINE n == Len(s)
             B == Pieces(s)
  <1>1. s \in Seq(Row) /\ n \in Nat
    BY LenProperties DEF Shape
  <1>2. PICK out : /\ LowerOpenAi(s) = out[n] /\ out[0] = <<>>
                   /\ \A k \in 1..n : out[k] = out[k - 1] \o PutOpenAi(s[k])
    BY OpenAiRuns
  <1> DEFINE T == {k \in 0..n : OpenAiState(B, s, k, out[k])}
  <1>3. 0 \in T
    <2>1. ~Expects(s, 0)
      <3>1. CASE n = 0
        BY <3>1 DEF Expects
      <3>2. CASE n # 0
        <4>1. 1 \in 1..Len(s)
          BY <1>1, <3>2
        <4>2. QED
          BY <4>1, Expected
      <3>3. QED
        BY <3>1, <3>2
    <2>2. AnsweredBy(s, 0) = {} /\ MadeBy(s, 0) = {}
      <3>1. \A k \in Answerers(s) \cup Makers(s) : k \in 1..n
        BY Shaped
      <3>2. \A k \in Answerers(s) \cup Makers(s) : ~(k <= 0)
        BY <1>1, <3>1
      <3>3. QED
        BY <3>2 DEF AnsweredBy, MadeBy
    <2>3. <<>> \in Seq(Wires(B)) /\ Len(<<>>) = 0 /\ 1..0 = {}
      BY EmptySeq
    <2> HIDE DEF B
    <2>4. ToolPlaces(<<>>) = {} /\ CallsIn(<<>>, 1..Len(<<>>)) = {} /\ AllServed(<<>>, Len(<<>>))
      BY <2>3 DEF ToolPlaces, CallsIn, AllServed
    <2>5. ToolsRight(s, 0, <<>>)
      BY <2>2, <2>4 DEF ToolsRight
    <2>6. OpenAiState(B, s, 0, <<>>)
      BY <2>1, <2>2, <2>3, <2>4, <2>5 DEF OpenAiState
    <2>7. QED
      BY <1>1, <1>2, <2>6
  <1>4. \A k \in 1..n : k - 1 \in T => k \in T
    <2> SUFFICES ASSUME NEW k \in 1..n, k - 1 \in T PROVE k \in T
      OBVIOUS
    <2>1. OpenAiState(B, s, k, out[k - 1] \o PutOpenAi(s[k]))
      BY OpenAiStep
    <2>2. out[k] = out[k - 1] \o PutOpenAi(s[k]) /\ k \in 0..n
      <3>1. k \in 0..n
        BY <1>1
      <3>2. out[k] = out[k - 1] \o PutOpenAi(s[k])
        BY <1>2, Zenon
      <3>3. QED
        BY <3>1, <3>2
    <2>3. QED
      BY <2>1, <2>2
  <1> HIDE DEF T
  <1>5. n \in T
    BY <1>1, <1>3, <1>4, StepByStep
  <1> DEFINE o == out[n]
  <1>6. OpenAiState(B, s, n, o)
    BY <1>5 DEF T
  <1>7. o = LowerOpenAi(s)
    BY <1>2
  <1>8. ~Expects(s, n)
    BY <1>1 DEF Expects
  <1> HIDE DEF o, n, B
  <1>9. DOMAIN o = 1..Len(o) /\ Len(o) \in Nat
    BY <1>6, LenProperties DEF OpenAiState
  <1>10. AllServed(o, Len(o)) /\ ToolsRight(s, n, o) /\ CallsIn(o, 1..Len(o)) = MadeBy(s, n)
    BY <1>6, <1>8 DEF OpenAiState
  <1>11. ASSUME NEW k \in DOMAIN o, Cardinality(Of("call", o[k])) > 0
         PROVE  LET m == Cardinality(Of("call", o[k])) IN
                /\ k + m <= Len(o)
                /\ Of("call", o[k]) = UNION {Of("result", o[j]) : j \in (k + 1)..(k + m)}
                /\ \A j \in (k + 1)..(k + m) : o[j].role = "tool" /\ Len(o[j].content) = 1
    <2>1. CallsAt(o, k) # {}
      BY <1>11, FS_EmptySet DEF CallsAt
    <2>2. ServedAt(o, k)
      BY <1>9, <1>10, <2>1 DEF AllServed
    <2>3. QED
      BY <2>2 DEF ServedAt, CallsAt, ResultsAt, ResultsIn
  <1>12. Cardinality({k \in DOMAIN o : o[k].role = "tool"}) = Cardinality(UNION {Of("call", o[k]) : k \in DOMAIN o})
    <2>1. ResultsIn(o, ToolPlaces(o)) = AnsweredBy(s, n)
      <3>1. /\ \A p \in ToolPlaces(o) : \E c \in AnsweredBy(s, n) : ResultsAt(o, p) = {c}
            /\ \A c \in AnsweredBy(s, n) : \E p \in ToolPlaces(o) : ResultsAt(o, p) = {c}
        BY <1>10 DEF ToolsRight
      <3>2. ResultsIn(o, ToolPlaces(o)) \subseteq AnsweredBy(s, n)
        BY <3>1 DEF ResultsIn
      <3>3. AnsweredBy(s, n) \subseteq ResultsIn(o, ToolPlaces(o))
        BY <3>1 DEF ResultsIn
      <3>4. QED
        BY <3>2, <3>3
    <2>2. IsFiniteSet(ToolPlaces(o))
      <3>1. IsFiniteSet(1..Len(o)) /\ ToolPlaces(o) \subseteq 1..Len(o)
        BY <1>9, FS_Interval DEF ToolPlaces
      <3>2. QED
        BY <3>1, FS_Subset
    <2>3. Cardinality(ResultsIn(o, ToolPlaces(o))) = Cardinality(ToolPlaces(o))
      <3> DEFINE P == ToolPlaces(o)
      <3>1. P \in SUBSET ToolPlaces(o) /\ IsFiniteSet(P)
        BY <2>2
      <3> HIDE DEF P
      <3>2. Cardinality(ResultsIn(o, P)) = Cardinality(P)
        BY <1>10, <3>1, OneToolEach
      <3>3. QED
        BY <3>2 DEF P
    <2>4. MadeBy(s, n) = AnsweredBy(s, n)
      BY EveryAnswered DEF n
    <2>5. UNION {Of("call", o[k]) : k \in DOMAIN o} = CallsIn(o, 1..Len(o))
      BY <1>9 DEF CallsIn, CallsAt
    <2>6. {k \in DOMAIN o : o[k].role = "tool"} = ToolPlaces(o)
      BY <1>9 DEF ToolPlaces
    <2>7. QED
      BY <1>10, <2>1, <2>3, <2>4, <2>5, <2>6
  <1>13. OpenAiAccepts(o)
    BY <1>11, <1>12 DEF OpenAiAccepts
  <1>14. QED
    BY <1>7, <1>13

-----------------------------------------------------------------------------
(* Gemini.                                                                      *)
(* The messages that are not the system's. *)
Spoken(s) == {k \in DOMAIN s : Role(s[k]) # "system"}

(* What is sent to Gemini: the messages but the system's, in order.                     *)
LEMMA GeminiSends ==
  ASSUME NEW s, Shape(s)
  PROVE  LET o == LowerGemini(s) at == [p \in DOMAIN o |-> Nth(Spoken(s), p)] IN
         /\ Len(o) \in Nat /\ DOMAIN o = 1..Len(o)
         /\ \A p \in DOMAIN o : at[p] \in DOMAIN s
         /\ \A p \in DOMAIN o : \A q \in DOMAIN o : p < q <=> at[p] < at[q]
         /\ \A k \in DOMAIN s : Role(s[k]) # "system" => \E p \in DOMAIN o : at[p] = k
         /\ \A p \in DOMAIN o : o[p].role = "model" <=> s[at[p]].kind \in {"assistant", "thoughts"}
         /\ \A p \in DOMAIN o : Of("call", o[p]) = IF at[p] \in Makers(s) THEN s[at[p]].calls ELSE {}
         /\ \A p \in DOMAIN o : Of("result", o[p]) = IF at[p] \in Answerers(s) THEN s[at[p]].calls ELSE {}
  <1> DEFINE S == Spoken(s)
             n == Cardinality(S)
             o == LowerGemini(s)
             at == [p \in DOMAIN o |-> Nth(S, p)]
             sent == Keeping(s, S)
  <1>1. s \in Seq(Row) /\ Len(s) \in Nat /\ DOMAIN s = 1..Len(s) /\ S \subseteq 1..Len(s)
    BY LenProperties DEF Shape, Spoken
  <1>2. /\ n \in Nat
        /\ \A j \in 1..n : Nth(S, j) \in S
        /\ \A i, j \in 1..n : i < j => Nth(S, i) < Nth(S, j)
        /\ \A k \in S : \E j \in 1..n : Nth(S, j) = k
    BY <1>1, NthInOrder
  <1> HIDE DEF S, n
  <1>3. DOMAIN sent = 1..n /\ \A p \in 1..n : sent[p] = s[Nth(S, p)]
    BY DEF Keeping, n
  <1>4. o = [k \in DOMAIN sent |-> Message(IF Role(sent[k]) = "user" THEN "user" ELSE "model", Content(sent[k]))]
    BY DEF LowerGemini, S, Spoken
  <1> HIDE DEF o, sent
  <1>5. DOMAIN o = 1..n /\ \A p \in 1..n : /\ o[p].role = IF Role(s[Nth(S, p)]) = "user" THEN "user" ELSE "model"
                                           /\ o[p].content = Content(s[Nth(S, p)])
    BY <1>3, <1>4 DEF Message
  <1>6. Len(o) = n
    <2>1. o = [k \in 1..n |-> o[k]]
      BY <1>3, <1>4
    <2>2. QED
      BY <1>2, <2>1
  <1>7. \A p \in 1..n : at[p] = Nth(S, p) /\ at[p] \in S /\ at[p] \in DOMAIN s /\ at[p] \in Nat
    <2>1. \A p \in 1..n : at[p] = Nth(S, p)
      BY <1>5
    <2> HIDE DEF at
    <2>2. \A p \in 1..n : at[p] \in S
      BY <1>2, <2>1
    <2>3. \A k \in S : k \in DOMAIN s /\ k \in Nat
      BY <1>1
    <2>4. QED
      BY <2>1, <2>2, <2>3
  <1> HIDE DEF at
  <1>8. ASSUME NEW p \in 1..n, NEW q \in 1..n PROVE p < q <=> at[p] < at[q]
    <2>1. p < q => at[p] < at[q]
      BY <1>2, <1>7
    <2>2. q < p => at[q] < at[p]
      BY <1>2, <1>7
    <2>3. at[p] \in Nat /\ at[q] \in Nat
      BY <1>7
    <2>4. QED
      BY <2>1, <2>2, <2>3
  <1>9. \A k \in DOMAIN s : Role(s[k]) # "system" => \E p \in 1..n : at[p] = k
    <2>1. \A k \in DOMAIN s : Role(s[k]) # "system" => k \in S
      BY DEF S, Spoken
    <2>2. QED
      BY <1>2, <1>7, <2>1
  <1>10. ASSUME NEW p \in 1..n
         PROVE  /\ o[p].role = "model" <=> s[at[p]].kind \in {"assistant", "thoughts"}
                /\ Of("call", o[p]) = IF at[p] \in Makers(s) THEN s[at[p]].calls ELSE {}
                /\ Of("result", o[p]) = IF at[p] \in Answerers(s) THEN s[at[p]].calls ELSE {}
    <2> DEFINE k == at[p]
               m == s[k]
               c == Content(m)
    <2>1. k \in DOMAIN s /\ Role(m) # "system" /\ o[p].content = c /\ o[p].role = IF Role(m) = "user" THEN "user" ELSE "model"
      BY <1>5, <1>7 DEF S, Spoken
    <2>2. \A a, b \in m.calls : a[1] = b[1]
      BY <2>1 DEF Shape
    <2>3. /\ CallsOf("call", c) = IF TypeIn(m) = "call" THEN m.calls ELSE {}
          /\ CallsOf("result", c) = IF TypeIn(m) = "result" THEN m.calls ELSE {}
      BY <1>1, <2>1, <2>2, CallsOfContent
    <2>4. /\ TypeIn(m) = "call" <=> k \in Makers(s)
          /\ TypeIn(m) = "result" <=> k \in Answerers(s)
      BY <2>1 DEF TypeIn, Makers, Answerers
    <2>5. o[p].role = "model" <=> m.kind \in {"assistant", "thoughts"}
      BY <2>1 DEF Role
    <2> HIDE DEF c, k, m
    <2>6. Of("call", o[p]) = CallsOf("call", c) /\ Of("result", o[p]) = CallsOf("result", c)
      BY <2>1, OfCalls
    <2>7. QED
      BY <2>3, <2>4, <2>5, <2>6 DEF k, m
  <1>11. /\ Len(o) \in Nat /\ DOMAIN o = 1..Len(o)
         /\ \A p \in DOMAIN o : at[p] \in DOMAIN s
         /\ \A p \in DOMAIN o : \A q \in DOMAIN o : p < q <=> at[p] < at[q]
         /\ \A k \in DOMAIN s : Role(s[k]) # "system" => \E p \in DOMAIN o : at[p] = k
    BY <1>2, <1>5, <1>6, <1>7, <1>8, <1>9
  <1>12. /\ \A p \in DOMAIN o : o[p].role = "model" <=> s[at[p]].kind \in {"assistant", "thoughts"}
         /\ \A p \in DOMAIN o : Of("call", o[p]) = IF at[p] \in Makers(s) THEN s[at[p]].calls ELSE {}
         /\ \A p \in DOMAIN o : Of("result", o[p]) = IF at[p] \in Answerers(s) THEN s[at[p]].calls ELSE {}
    BY <1>5, <1>10
  <1>13. at = [p \in DOMAIN o |-> Nth(Spoken(s), p)] /\ o = LowerGemini(s)
    BY DEF at, S, o
  <1>14. QED
    BY <1>11, <1>12, <1>13, Zenon

(* Gemini takes the request. *)
LEMMA GeminiTakesIt ==
  ASSUME NEW s, Shape(s)
  PROVE  GeminiAccepts(LowerGemini(s))
  <1> DEFINE o == LowerGemini(s)
             at == [p \in DOMAIN o |-> Nth(Spoken(s), p)]
  <1>1. Len(o) \in Nat /\ DOMAIN o = 1..Len(o)
    BY GeminiSends
  <1>2. \A p \in DOMAIN o : at[p] \in DOMAIN s
    BY GeminiSends
  <1>3. \A p \in DOMAIN o : \A q \in DOMAIN o : p < q <=> at[p] < at[q]
    BY GeminiSends
  <1>4. \A k \in DOMAIN s : Role(s[k]) # "system" => \E p \in DOMAIN o : at[p] = k
    BY GeminiSends
  <1>5. \A p \in DOMAIN o : o[p].role = "model" <=> s[at[p]].kind \in {"assistant", "thoughts"}
    BY GeminiSends
  <1>6. \A p \in DOMAIN o : Of("call", o[p]) = IF at[p] \in Makers(s) THEN s[at[p]].calls ELSE {}
    BY GeminiSends
  <1>7. \A p \in DOMAIN o : Of("result", o[p]) = IF at[p] \in Answerers(s) THEN s[at[p]].calls ELSE {}
    BY GeminiSends
  <1>8. /\ DOMAIN s = 1..Len(s) /\ Len(s) \in Nat
        /\ \A k \in Makers(s) : k \in DOMAIN s /\ s[k].kind = "assistant" /\ Role(s[k]) # "system"
        /\ \A k \in Answerers(s) : k \in DOMAIN s /\ s[k].kind = "results" /\ Role(s[k]) # "system"
    BY Shaped DEF Role
  <1> HIDE DEF o, at
  <1>9. ASSUME NEW p \in DOMAIN o, Of("call", o[p]) # {}
        PROVE  LET next == {j \in (p + 1)..Len(o) : o[j].role = "model"}
                   end  == IF next = {} THEN Len(o) ELSE Min(next) - 1
               IN  /\ Of("call", o[p]) = UNION {Of("result", o[j]) : j \in (p + 1)..end}
                   /\ \A i, j \in (p + 1)..end : i # j => Of("result", o[i]) \cap Of("result", o[j]) = {}
    <2> DEFINE next == {j \in (p + 1)..Len(o) : o[j].role = "model"}
               end  == IF next = {} THEN Len(o) ELSE Min(next) - 1
               h    == at[p]
    <2>1. h \in Makers(s) /\ Of("call", o[p]) = s[h].calls
      BY <1>6, <1>9
    <2>2. p \in Nat /\ p <= Len(o) /\ h \in DOMAIN s /\ h \in Nat
      BY <1>1, <1>2, <1>8
    <2>3. /\ end \in Int /\ end <= Len(o)
          /\ \A j \in next : end < j
          /\ next # {} => end + 1 \in next
      <3>1. CASE next = {}
        BY <1>1, <3>1
      <3>2. CASE next # {}
        <4>1. next \subseteq Nat
          BY <2>2
        <4>2. \E x \in next : \A y \in next : x <= y
          BY <3>2, <4>1, Least
        <4>3. Min(next) \in next /\ \A y \in next : Min(next) <= y
          BY <4>2 DEF Min
        <4>4. Min(next) \in Nat /\ Min(next) <= Len(o) /\ \A y \in next : y \in Nat
          BY <2>2, <4>1, <4>3
        <4>5. end = Min(next) - 1
          BY <3>2
        <4> HIDE DEF next, end
        <4>6. QED
          BY <1>1, <4>3, <4>4, <4>5
      <3>3. QED
        BY <3>1, <3>2
    <2>4. \A j \in (p + 1)..end : j \in DOMAIN o
      BY <1>1, <2>2, <2>3
    <2> HIDE DEF end
    <2>5. ASSUME NEW q \in (p + 1)..end, NEW c \in Of("result", o[q]) PROVE c \in s[h].calls
      <3> DEFINE i == at[q]
      <3>1. q \in DOMAIN o /\ p < q /\ i \in Answerers(s) /\ c \in s[i].calls /\ h < i
        <4>1. q \in DOMAIN o /\ p < q
          BY <2>2, <2>4
        <4>2. i \in Answerers(s) /\ c \in s[i].calls
          BY <1>7, <2>5, <4>1
        <4>3. QED
          BY <1>3, <4>1, <4>2
      <3>2. PICK g \in Makers(s) : g < i /\ OnlyResults(s, g, i) /\ s[i].calls \subseteq s[g].calls
        BY <3>1 DEF Shape
      <3>3. g \in Nat /\ i \in Nat
        BY <1>8, <3>1, <3>2
      <3> HIDE DEF i
      <3>4. ~(g < h)
        <4>1. g < h => h \in (g + 1)..i
          BY <2>2, <3>1, <3>3
        <4>2. s[h].kind = "assistant"
          BY <1>8, <2>1
        <4>3. QED
          BY <3>2, <4>1, <4>2 DEF OnlyResults
      <3>5. ~(h < g)
        <4> SUFFICES ASSUME h < g PROVE FALSE
          OBVIOUS
        <4>1. PICK r \in DOMAIN o : at[r] = g
          BY <1>4, <1>8, <3>2
        <4>2. p < r /\ r < q
          BY <1>3, <3>1, <3>2, <4>1 DEF i
        <4>3. o[r].role = "model"
          BY <1>5, <1>8, <3>2, <4>1
        <4>4. r \in next
          BY <1>1, <2>2, <4>2, <4>3
        <4>5. end < r
          BY <2>3, <4>4
        <4>6. QED
          BY <1>1, <2>2, <2>3, <4>2, <4>5
      <3>6. g = h
        BY <2>2, <3>3, <3>4, <3>5
      <3>7. QED
        BY <3>1, <3>2, <3>6
    <2>6. ASSUME NEW c \in s[h].calls PROVE \E q \in (p + 1)..end : c \in Of("result", o[q])
      <3>1. PICK i \in Answerers(s) : h < i /\ OnlyResults(s, h, i) /\ c \in s[i].calls
        BY <2>1 DEF Shape
      <3>2. PICK q \in DOMAIN o : at[q] = i
        BY <1>4, <1>8
      <3>3. p < q /\ c \in Of("result", o[q])
        BY <1>3, <1>7, <3>1, <3>2
      <3>4. q <= end
        <4> SUFFICES ASSUME ~(q <= end) PROVE FALSE
          OBVIOUS
        <4>1. next # {}
          BY <1>1, <3>2 DEF end
        <4>2. PICK r \in next : r <= q
          BY <1>1, <2>3, <3>2, <4>1
        <4>3. r \in DOMAIN o /\ p < r /\ o[r].role = "model"
          BY <1>1, <2>2
        <4>4. h < at[r] /\ at[r] \in DOMAIN s
          BY <1>2, <1>3, <4>3
        <4>5. at[r] <= i
          <5>1. ~(q < r)
            BY <1>1, <4>2, <4>3
          <5>2. ~(i < at[r])
            BY <1>3, <3>2, <4>3, <5>1
          <5>3. QED
            BY <1>8, <4>4, <5>2
        <4>6. at[r] \in (h + 1)..i
          BY <1>8, <2>2, <4>4, <4>5
        <4>7. s[at[r]].kind = "results"
          BY <3>1, <4>6 DEF OnlyResults
        <4>8. QED
          BY <1>5, <4>3, <4>7
      <3>5. q \in (p + 1)..end
        BY <1>1, <2>2, <2>3, <3>3, <3>4
      <3>6. QED
        BY <3>3, <3>5
    <2>7. s[h].calls = UNION {Of("result", o[j]) : j \in (p + 1)..end}
      BY <2>5, <2>6
    <2>8. ASSUME NEW i \in (p + 1)..end, NEW j \in (p + 1)..end, i # j
          PROVE  Of("result", o[i]) \cap Of("result", o[j]) = {}
      <3>1. i \in DOMAIN o /\ j \in DOMAIN o
        BY <2>4
      <3>2. CASE at[i] \notin Answerers(s) \/ at[j] \notin Answerers(s)
        BY <1>7, <3>1, <3>2
      <3>3. CASE at[i] \in Answerers(s) /\ at[j] \in Answerers(s)
        <4>1. at[i] # at[j]
          <5>1. i < j \/ j < i
            BY <1>1, <2>8, <3>1
          <5>2. at[i] < at[j] \/ at[j] < at[i]
            BY <1>3, <3>1, <5>1
          <5>3. at[i] \in Nat /\ at[j] \in Nat
            BY <1>2, <1>8, <3>1
          <5>4. QED
            BY <5>2, <5>3
        <4>2. s[at[i]].calls \cap s[at[j]].calls = {}
          BY <3>3, <4>1 DEF Shape
        <4>3. Of("result", o[i]) = s[at[i]].calls /\ Of("result", o[j]) = s[at[j]].calls
          BY <1>7, <3>1, <3>3
        <4>4. QED
          BY <4>2, <4>3
      <3>4. QED
        BY <3>2, <3>3
    <2> HIDE DEF next
    <2>9. QED
      BY <2>1, <2>7, <2>8 DEF end, next
  <1>10. GeminiAccepts(o)
    BY <1>9 DEF GeminiAccepts
  <1>11. QED
    BY <1>10 DEF o

-----------------------------------------------------------------------------
(* The property.                                                                *)

(* The invariant of the turns is all that is needed of the request.                       *)
LEMMA LowerableOf == ASSUME TurnInv PROVE Lowerable
  <1>1. Accepted
    <2> SUFFICES ASSUME pruned = 0, ~Noted, Requested \cap missed = {}
                 PROVE  /\ \A native \in BOOLEAN : AnthropicAccepts(LowerAnthropic(request, native))
                        /\ OpenAiAccepts(LowerOpenAi(request))
                        /\ GeminiAccepts(LowerGemini(request))
      BY DEF Accepted
    <2>1. Shape(request)
      BY ShapeOf
    <2>2. \A native \in BOOLEAN : AnthropicAccepts(LowerAnthropic(request, native))
      BY <2>1, AnthropicTakesIt
    <2>3. OpenAiAccepts(LowerOpenAi(request)) /\ GeminiAccepts(LowerGemini(request))
      BY <2>1, OpenAiTakesIt, GeminiTakesIt
    <2>4. QED
      BY <2>2, <2>3
  <1>2. InlineAccepted
    <2> SUFFICES ASSUME \A k \in DOMAIN request : request[k].kind # "thoughts"
                 PROVE  InlineInPlace(LowerAnthropic(request, TRUE))
      BY DEF InlineAccepted
    <2>1. request \in Seq(Row) /\ Numbered(Parts)
      BY DEF TurnInv, TypeOK, Sent, Matched
    <2>2. \A k \in DOMAIN request : request[k] \in Parts
      BY <2>1, LenProperties DEF Parts, ToSet
    <2>3. \A k \in Answerers(request) : request[k].calls # {}
      BY <2>1, <2>2 DEF Answerers, Numbered
    <2>4. QED
      BY <2>1, <2>3, InlineInPlaceOf
  <1>3. QED
    BY <1>1, <1>2 DEF Lowerable

(* Whatever tools, cancelled turns, crashes, steers and compactions left in the transcript,  *)
(* the request made of it is one that each of the three providers takes as it lowers it    *)
(* (lower_messages, lower_openai_messages, lower_gemini_messages; only of Anthropic's is it  *)
(* asked that the roles alternate), unless manual compaction deleted rows, a revert's note   *)
(* stands in it or recovery overlooked one of its calls; and whatever stands in it,           *)
(* Anthropic gets inline system messages only where it takes them, unless thoughts without   *)
(* a signature do.                                                                           *)
THEOREM RequestsLowerable == Spec => []Lowerable
  <1>1. TurnInv => Lowerable
    BY LowerableOf
  <1>2. QED
    BY <1>1, TurnInvariant, PTL
================================================================================
