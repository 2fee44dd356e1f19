-------------------------- MODULE EventDeliveryProofs --------------------------
(***************************************************************************)
(* Proofs about EventDelivery, for any number of clients and any capacities. *)
(*                                                                         *)
(* The invariant has a part for the entry (EntryInv: the channel, the logs   *)
(* of all entries in one line, the history against the live entry's log) and *)
(* one for each client (ClientOK, and Caught for what it has been taken      *)
(* past).  A client's step keeps its own part, every other step keeps it     *)
(* because the logs only grow (LogsGrow, OthersKeep, OthersCaught).          *)
(***************************************************************************)
EXTENDS EventDelivery, FiniteSetTheorems, WellFoundedInduction, TLAPS

-----------------------------------------------------------------------------
(* Maxima, and what is left of the history past a cursor.                       *)

LEMMA Least ==
  ASSUME NEW T, T \subseteq Nat, T # {}
  PROVE  \E x \in T : \A y \in T : x <= y
  <1>1. PICK x \in T : \A y \in T : ~ (<<y, x>> \in OpToRel(<,Nat))
    BY WFMin, NatLessThanWellFounded, Zenon
  <1>2. \A y \in T : ~ (y < x)
    BY <1>1 DEF OpToRel
  <1>3. QED
    BY <1>2

(* The set whose maximum SeqMax takes is bounded, so it has one.                *)
LEMMA Maximum ==
  ASSUME NEW T, T # {}, NEW b \in Nat, T \subseteq 0..b
  PROVE  Max(T) \in T /\ \A y \in T : y <= Max(T)
  <1> DEFINE U == {b - y : y \in T}
  <1>1. U \subseteq Nat /\ U # {}
    <2>1. \A y \in T : b - y \in Nat
      OBVIOUS
    <2>2. QED
      BY <2>1
  <1>2. PICK u \in U : \A y \in U : u <= y
    BY <1>1, Least
  <1>3. PICK x \in T : u = b - x
    OBVIOUS
  <1>4. \A y \in T : x >= y
    <2> TAKE y \in T
    <2>1. u <= b - y
      BY <1>2
    <2>2. QED
      BY <1>3, <2>1
  <1>5. \E z \in T : \A y \in T : z >= y
    BY <1>4
  <1>6. Max(T) \in T /\ \A y \in T : Max(T) >= y
    BY <1>5 DEF Max
  <1>7. QED
    BY <1>6

LEMMA SeqMaxOf ==
  ASSUME NEW n \in 0..MaxEvents, NEW s \in Seq(Event)
  PROVE  /\ SeqMax(n, s) \in 0..MaxEvents
         /\ n <= SeqMax(n, s)
         /\ \A k \in DOMAIN s : s[k].seq <= SeqMax(n, s)
         /\ SeqMax(n, s) = n \/ \E k \in DOMAIN s : SeqMax(n, s) = s[k].seq
  <1> DEFINE T == {n} \cup {s[k].seq : k \in DOMAIN s}
  <1>0. MaxEvents \in Nat
    BY CapsAssumption
  <1>1. T \subseteq 0..MaxEvents /\ T # {}
    <2>1. \A k \in DOMAIN s : s[k] \in Event
      OBVIOUS
    <2>2. \A e \in Event : e.seq \in 0..MaxEvents
      BY DEF Event
    <2>3. QED
      BY <2>1, <2>2
  <1>2. Max(T) \in T /\ \A y \in T : y <= Max(T)
    BY <1>0, <1>1, Maximum
  <1>3. SeqMax(n, s) = Max(T)
    BY DEF SeqMax
  <1> HIDE DEF T
  <1>4. Max(T) \in 0..MaxEvents
    BY <1>1, <1>2
  <1>5. QED
    BY <1>2, <1>3, <1>4 DEF T

(* Nth(S, j) runs through S in order.                                           *)
LEMMA NthInOrder ==
  ASSUME NEW b \in Nat, NEW S, S \subseteq 1..b
  PROVE  /\ Cardinality(S) \in Nat
         /\ \A j \in 1..Cardinality(S) : Nth(S, j) \in S
         /\ \A i, j \in 1..Cardinality(S) : i < j => Nth(S, i) < Nth(S, j)
         /\ \A k \in S : \E j \in 1..Cardinality(S) : Nth(S, j) = k
  <1> DEFINE Upto(k) == {m \in S : m <= k}
             c == Cardinality(S)
  <1>0. \A k, m \in S : k \in Int /\ (k = m \/ k < m \/ m < k)
    OBVIOUS
  <1>1. IsFiniteSet(S) /\ c \in Nat
    <2>1. IsFiniteSet(1..b) /\ S \in SUBSET (1..b)
      BY FS_Interval
    <2>2. QED
      BY <2>1, FS_Subset, FS_CardinalityType
  <1>2. ASSUME NEW k \in S
        PROVE  IsFiniteSet(Upto(k)) /\ Cardinality(Upto(k)) \in 1..c
    <2>1. Upto(k) \in SUBSET S /\ k \in Upto(k)
      OBVIOUS
    <2>2. IsFiniteSet(Upto(k)) /\ Cardinality(Upto(k)) <= c
      BY <1>1, <2>1, FS_Subset
    <2>3. Cardinality(Upto(k)) \in Nat /\ Cardinality(Upto(k)) # 0
      BY <2>1, <2>2, FS_CardinalityType, FS_EmptySet
    <2>4. QED
      BY <1>1, <2>2, <2>3
  <1>3. ASSUME NEW k \in S, NEW m \in S, k < m
        PROVE  Cardinality(Upto(k)) < Cardinality(Upto(m))
    <2>1. Upto(k) \in SUBSET Upto(m) /\ m \in Upto(m) /\ m \notin Upto(k)
      <3>1. \A q \in S : q <= k => q <= m
        BY <1>3
      <3>2. m <= m /\ ~(m <= k)
        BY <1>3
      <3>3. QED
        BY <3>1, <3>2
    <2>2. Cardinality(Upto(k)) <= Cardinality(Upto(m)) /\ Cardinality(Upto(m)) # Cardinality(Upto(k))
      BY <1>2, <2>1, FS_Subset
    <2>3. QED
      BY <1>2, <2>2
  <1> DEFINE rank == [k \in S |-> Cardinality(Upto(k))]
  <1>4. rank \in Injection(S, 1..c)
    <2>1. rank \in [S -> 1..c]
      BY <1>2
    <2>2. ASSUME NEW k \in S, NEW m \in S, rank[k] = rank[m] PROVE k = m
      <3>1. ~(k < m) /\ ~(m < k)
        BY <1>2, <1>3, <2>2
      <3>2. QED
        BY <3>1
    <2>3. QED
      BY <2>1, <2>2 DEF Injection, IsInjective
  <1>5. rank \in Surjection(S, 1..c)
    <2>1. IsFiniteSet(1..c) /\ Cardinality(1..c) = c
      BY <1>1, FS_Interval
    <2>2. QED
      BY <1>4, <2>1, FS_Injection
  <1>6. ASSUME NEW j \in 1..c
        PROVE  Nth(S, j) \in S /\ Cardinality(Upto(Nth(S, j))) = j
    <2>1. \E k \in S : Cardinality(Upto(k)) = j
      BY <1>5 DEF Surjection
    <2>2. QED
      BY <2>1 DEF Nth
  <1>7. ASSUME NEW i \in 1..c, NEW j \in 1..c, i < j
        PROVE  Nth(S, i) < Nth(S, j)
    <2>1. ~(Nth(S, j) < Nth(S, i)) /\ Nth(S, i) # Nth(S, j)
      <3>1. \A k, m \in S : k < m => Cardinality(Upto(k)) < Cardinality(Upto(m))
        BY <1>3
      <3>2. /\ Nth(S, i) \in S /\ Cardinality(Upto(Nth(S, i))) = i
            /\ Nth(S, j) \in S /\ Cardinality(Upto(Nth(S, j))) = j
        BY <1>6
      <3>3. Nth(S, j) < Nth(S, i) => Cardinality(Upto(Nth(S, j))) < Cardinality(Upto(Nth(S, i)))
        BY <3>1, <3>2, Zenon
      <3>4. i \in Int /\ j \in Int /\ i < j
        BY <1>7
      <3> HIDE DEF Upto
      <3>5. ~(j < i) /\ i # j
        BY <3>4
      <3>6. ~(Nth(S, j) < Nth(S, i))
        BY <3>2, <3>3, <3>5, Zenon
      <3>7. Nth(S, i) # Nth(S, j)
        BY <3>2, <3>5, Zenon
      <3>8. QED
        BY <3>6, <3>7
    <2>2. Nth(S, i) \in S /\ Nth(S, j) \in S
      BY <1>6
    <2>3. QED
      BY <1>0, <2>1, <2>2
  <1>8. ASSUME NEW k \in S PROVE \E j \in 1..c : Nth(S, j) = k
    <2> DEFINE j == Cardinality(Upto(k))
    <2>1. j \in 1..c
      BY <1>2
    <2>2. Nth(S, j) \in S /\ Cardinality(Upto(Nth(S, j))) = j
      BY <1>6, <2>1
    <2>3. \A m \in S : k < m \/ m < k => Cardinality(Upto(k)) # Cardinality(Upto(m))
      BY <1>2, <1>3
    <2>4. QED
      BY <1>0, <2>1, <2>2, <2>3
  <1>9. QED
    BY <1>1, <1>6, <1>7, <1>8

-----------------------------------------------------------------------------
(* e comes before f, by its number and, if both have one, by its sequence.      *)
Before(e, f) == e.id < f.id /\ (e.seq > 0 /\ f.seq > 0 => e.seq <= f.seq)
Sorted(s)    == \A j, k \in DOMAIN s : j < k => Before(s[j], s[k])

DurableEvent == {e \in Event : IsDurable(e)}

(* DurableAfter(n) is the history without what n has passed.                    *)
LEMMA PastCursor ==
  ASSUME history \in Seq(DurableEvent), NEW n \in Nat
  PROVE  /\ DurableAfter(n) \in Seq(DurableEvent)
         /\ \A j \in DOMAIN DurableAfter(n) :
              /\ DurableAfter(n)[j].seq > n
              /\ \E k \in DOMAIN history : DurableAfter(n)[j] = history[k]
         /\ Sorted(history) => Sorted(DurableAfter(n))
         /\ \A k \in DOMAIN history : history[k].seq > n =>
              \E j \in DOMAIN DurableAfter(n) : DurableAfter(n)[j] = history[k]
  <1> DEFINE past == {k \in DOMAIN history : history[k].seq > n}
             c == Cardinality(past)
             d == [j \in 1..c |-> history[Nth(past, j)]]
  <1>1. DurableAfter(n) = d
    BY DEF DurableAfter
  <1>2. Len(history) \in Nat /\ past \subseteq 1..Len(history)
    OBVIOUS
  <1>3. /\ c \in Nat
        /\ \A j \in 1..c : Nth(past, j) \in past
        /\ \A i, j \in 1..c : i < j => Nth(past, i) < Nth(past, j)
        /\ \A k \in past : \E j \in 1..c : Nth(past, j) = k
    BY <1>2, NthInOrder
  <1>4. \A k \in past : k \in DOMAIN history /\ history[k].seq > n /\ history[k] \in DurableEvent
    BY <1>2
  <1>5. \A k \in DOMAIN history : history[k].seq > n => k \in past
    OBVIOUS
  <1> HIDE DEF past, c
  <1>6. d \in Seq(DurableEvent) /\ DOMAIN d = 1..c
    BY <1>3, <1>4
  <1>7. \A j \in DOMAIN d : d[j].seq > n /\ \E k \in DOMAIN history : d[j] = history[k]
    BY <1>3, <1>4, <1>6
  <1>8. ASSUME Sorted(history) PROVE Sorted(d)
    BY <1>3, <1>4, <1>6, <1>8 DEF Sorted
  <1>9. \A k \in DOMAIN history : history[k].seq > n => \E j \in DOMAIN d : d[j] = history[k]
    BY <1>3, <1>5, <1>6
  <1>10. QED
    BY <1>1, <1>6, <1>7, <1>8, <1>9

LEMMA Appended ==
  ASSUME NEW S, NEW s \in Seq(S), NEW e \in S
  PROVE  /\ Append(s, e) \in Seq(S)
         /\ Len(Append(s, e)) = Len(s) + 1
         /\ Len(s) + 1 \in DOMAIN Append(s, e) /\ Append(s, e)[Len(s) + 1] = e
         /\ \A k \in DOMAIN s : k \in DOMAIN Append(s, e) /\ Append(s, e)[k] = s[k] /\ k < Len(s) + 1
         /\ \A k \in DOMAIN Append(s, e) : k \in DOMAIN s \/ k = Len(s) + 1
  OBVIOUS

-----------------------------------------------------------------------------
(* The inductive invariant.                                                    *)

(* What has been sent has a number and a sequence that have been given out, and *)
(* only durable events have a sequence.                                        *)
Issued(e) == e.id <= sent /\ e.seq <= seq /\ (IsDurable(e) \/ e.seq = 0)

(* Each log is in order, one entry's before the next one's, and all of them      *)
(* before what waits in the channel.                                          *)
Lined ==
    /\ Sorted(chan)
    /\ \A k \in DOMAIN chan : Issued(chan[k])
    /\ \A l \in Lives :
         /\ Sorted(log[l])
         /\ l > life => log[l] = <<>>
         /\ \A j \in DOMAIN log[l] :
              /\ Issued(log[l][j])
              /\ j <= log[l][j].id
              /\ \A k \in DOMAIN chan : Before(log[l][j], chan[k])
              /\ \A m \in Lives : l < m => \A k \in DOMAIN log[m] : log[l][j].id < log[m][k].id
    /\ emit.left > 0 => emit.seq \in {0, seq}
    /\ sent + emit.left <= MaxEvents
    /\ live => life \in Lives

(* The history holds the durable events of the live entry's log but for those    *)
(* its cap pushed out.                                                        *)
HistoryTrue ==
    /\ Sorted(history)
    /\ history # <<>> => live
    /\ live =>
         /\ \A k \in DOMAIN history : \E j \in DOMAIN log[life] : log[life][j] = history[k]
         /\ \A j \in DOMAIN log[life] :
              IsDurable(log[life][j]) =>
                 log[life][j].id \in trimmed \/ \E k \in DOMAIN history : history[k] = log[life][j]

EntryTypes ==
    /\ live \in BOOLEAN
    /\ life \in 0..MaxLives
    /\ seq \in 0..MaxEvents
    /\ sent \in 0..MaxEvents
    /\ emit \in [seq : 0..MaxEvents, left : 0..MaxBatch]
    /\ chan \in Seq(Event) /\ Len(chan) <= ChanCap
    /\ history \in Seq(DurableEvent) /\ Len(history) <= HistoryCap
    /\ log \in [Lives -> Seq(Event)]
    /\ trimmed \subseteq 1..MaxEvents

EntryInv == EntryTypes /\ Lined /\ HistoryTrue

LEMMA BuildEntry == ASSUME EntryInv, Build PROVE EntryInv'
  <1>1. ~live /\ life < MaxLives /\ live' = TRUE /\ life' = life + 1
    BY DEF Build
  <1>2. UNCHANGED <<seq, sent, emit, chan, history, log, trimmed>>
    BY DEF Build, turnVars
  <1>3. life' \in Lives /\ life' \in 0..MaxLives
    BY <1>1, CapsAssumption DEF EntryInv, EntryTypes, Lives
  <1>4. EntryTypes'
    BY <1>1, <1>2, <1>3 DEF EntryInv, EntryTypes
  <1>5. Lined'
    <2>1. \A l \in Lives : l > life' => l > life
      BY <1>1 DEF EntryInv, EntryTypes, Lives
    <2>2. QED
      BY <1>2, <1>3, <2>1 DEF EntryInv, Lined, Issued
  <1>6. HistoryTrue'
    <2>1. life' > life
      BY <1>1 DEF EntryInv, EntryTypes
    <2>2. log'[life'] = <<>> /\ history' = <<>>
      BY <1>1, <1>2, <1>3, <2>1 DEF EntryInv, Lined, HistoryTrue
    <2>3. QED
      BY <2>2 DEF HistoryTrue, Sorted
  <1>7. QED
    BY <1>4, <1>5, <1>6 DEF EntryInv

LEMMA RemoveTheEntry == ASSUME EntryInv, RemoveEntry PROVE EntryInv'
  <1>1. EntryTypes'
    <2>1. 0 \in 0..MaxEvents /\ 0 \in 0..MaxBatch /\ 0 <= ChanCap /\ 0 <= HistoryCap
      BY CapsAssumption
    <2>2. emit' \in [seq : 0..MaxEvents, left : 0..MaxBatch]
      BY <2>1 DEF RemoveEntry
    <2>3. chan' \in Seq(Event) /\ Len(chan') <= ChanCap
      BY <2>1 DEF RemoveEntry
    <2>4. history' \in Seq(DurableEvent) /\ Len(history') <= HistoryCap
      BY <2>1 DEF RemoveEntry
    <2>5. QED
      BY <2>2, <2>3, <2>4 DEF RemoveEntry, EntryInv, EntryTypes
  <1>2. Lined'
    BY DEF RemoveEntry, EntryInv, EntryTypes, Lined, Sorted, Issued
  <1>3. HistoryTrue'
    BY DEF RemoveEntry, HistoryTrue, Sorted
  <1>4. QED
    BY <1>1, <1>2, <1>3 DEF EntryInv

LEMMA Allocated == ASSUME EntryInv, Allocate \/ AllocateFails PROVE EntryInv'
  <1>1. /\ UNCHANGED <<live, life, chan, history, log, trimmed, sent>>
        /\ seq' \in 0..MaxEvents /\ seq <= seq'
        /\ emit' \in [seq : {0, seq'}, left : 0..MaxBatch]
        /\ sent + emit'.left <= MaxEvents
    <2>0. {MaxBatch, MaxEvents} \subseteq Nat \ {0}
      BY CapsAssumption
    <2>1. seq \in 0..MaxEvents /\ sent \in 0..MaxEvents
      BY DEF EntryInv, EntryTypes
    <2>2. CASE Allocate
      <3>1. PICK k \in 1..MaxBatch : sent + k <= MaxEvents /\ emit' = [seq |-> seq + 1, left |-> k]
        BY <2>2 DEF Allocate
      <3>2. seq' = seq + 1 /\ seq < MaxEvents
        BY <2>2 DEF Allocate
      <3>3. QED
        BY <2>0, <2>1, <2>2, <3>1, <3>2 DEF Allocate, entryVars
    <2>3. CASE AllocateFails
      BY <2>0, <2>1, <2>3 DEF AllocateFails, entryVars
    <2>4. QED
      BY <2>2, <2>3
  <1>2. EntryTypes'
    <2>1. emit' \in [seq : 0..MaxEvents, left : 0..MaxBatch]
      BY <1>1, CapsAssumption
    <2>2. QED
      BY <1>1, <2>1 DEF EntryInv, EntryTypes
  <1>3. \A e \in Event : Issued(e) => Issued(e)'
    BY <1>1 DEF EntryInv, EntryTypes, Event, Issued
  <1>4. (\A k \in DOMAIN chan : chan[k] \in Event) /\ (\A l \in Lives : \A j \in DOMAIN log[l] : log[l][j] \in Event)
    BY DEF EntryInv, EntryTypes
  <1>5. Lined'
    BY <1>1, <1>3, <1>4 DEF EntryInv, Lined
  <1>6. HistoryTrue'
    BY <1>1 DEF EntryInv, HistoryTrue
  <1>7. QED
    BY <1>2, <1>5, <1>6 DEF EntryInv

(* What is sent is new to the channel and the logs.                            *)
LEMMA SentOn ==
  ASSUME EntryInv, NEW e \in Event, e.id = sent + 1, e.seq \in {0, seq}, IsDurable(e) \/ e.seq = 0,
         sent' = sent + 1, sent' + emit'.left <= MaxEvents,
         emit' \in [seq : 0..MaxEvents, left : 0..MaxBatch], emit'.left > 0 => emit'.seq \in {0, seq},
         \/ chan' = Append(chan, e) /\ Len(chan) < ChanCap
         \/ chan' = chan,
         UNCHANGED <<live, life, history, log, trimmed, seq>>
  PROVE  EntryInv'
  <1>1. EntryTypes'
    <2>0. ChanCap \in Nat /\ chan \in Seq(Event) /\ Len(chan) <= ChanCap
      BY CapsAssumption DEF EntryInv, EntryTypes
    <2>1. chan' \in Seq(Event) /\ Len(chan') <= ChanCap
      BY <2>0, Appended
    <2>2. sent' \in 0..MaxEvents
      BY CapsAssumption DEF EntryInv, EntryTypes
    <2>3. QED
      BY <2>1, <2>2 DEF EntryInv, EntryTypes
  <1>2. \A f \in Event : Issued(f) => Issued(f)' /\ Before(f, e)
    BY DEF EntryInv, EntryTypes, Event, Issued, Before
  <1>3. (\A k \in DOMAIN chan : chan[k] \in Event) /\ (\A l \in Lives : \A j \in DOMAIN log[l] : log[l][j] \in Event)
    BY DEF EntryInv, EntryTypes
  <1>4. Issued(e)'
    BY DEF EntryInv, EntryTypes, Event, Issued
  <1>5. /\ Sorted(chan')
        /\ (\A k \in DOMAIN chan : Issued(chan[k]))'
        /\ \A l \in Lives : \A j \in DOMAIN log[l] : \A k \in DOMAIN chan' : Before(log[l][j], chan'[k])
    <2>1. CASE chan' = chan
      BY <1>2, <1>3, <2>1 DEF EntryInv, Lined
    <2>2. CASE chan' = Append(chan, e)
      <3>1. /\ Len(chan) \in Nat /\ DOMAIN chan = 1..Len(chan)
            /\ \A k \in DOMAIN chan' : (k \in DOMAIN chan /\ chan'[k] = chan[k]) \/ (k = Len(chan) + 1 /\ chan'[k] = e)
        BY <2>2, Appended DEF EntryInv, EntryTypes
      <3>2. Sorted(chan')
        BY <1>2, <1>3, <3>1 DEF EntryInv, Lined, Sorted
      <3>3. QED
        BY <1>2, <1>3, <1>4, <3>1, <3>2 DEF EntryInv, Lined
    <2>3. QED
      BY <2>1, <2>2
  <1>6. Lined'
    BY <1>2, <1>3, <1>5 DEF EntryInv, Lined
  <1>7. HistoryTrue'
    BY DEF EntryInv, HistoryTrue
  <1>8. QED
    BY <1>1, <1>6, <1>7 DEF EntryInv

LEMMA Sent == ASSUME EntryInv, SendDurable \/ Ephemeral PROVE EntryInv'
  <1>0. MaxEvents \in Nat /\ MaxBatch \in Nat
    BY CapsAssumption
  <1>1. CASE SendDurable
    <2> DEFINE e == [id |-> sent + 1, kind |-> "durable", seq |-> emit.seq]
    <2>1. emit.left > 0 /\ emit.left \in Nat /\ emit.seq \in 0..MaxEvents
      BY <1>1 DEF SendDurable, EntryInv, EntryTypes
    <2>2. emit' = [emit EXCEPT !.left = emit.left - 1]
      BY <1>1 DEF SendDurable
    <2>3. emit' \in [seq : 0..MaxEvents, left : 0..MaxBatch] /\ emit'.left = emit.left - 1 /\ emit'.seq = emit.seq
      BY <1>0, <2>1, <2>2 DEF EntryInv, EntryTypes
    <2>4. e \in Event /\ IsDurable(e) /\ e.id = sent + 1 /\ e.seq \in {0, seq}
      BY <1>0, <2>1 DEF EntryInv, EntryTypes, Lined, Event, Kinds, IsDurable
    <2>5. sent' = sent + 1 /\ sent' + emit'.left <= MaxEvents
      BY <1>1, <2>1, <2>3 DEF SendDurable, EntryInv, EntryTypes, Lined
    <2>6. chan' = Append(chan, e) /\ Len(chan) < ChanCap /\ UNCHANGED <<live, life, history, log, trimmed, seq>>
      BY <1>1 DEF SendDurable, clientVars
    <2>7. emit'.left > 0 => emit'.seq \in {0, seq}
      BY <2>1, <2>3 DEF EntryInv, Lined
    <2> HIDE DEF e
    <2>8. QED
      BY <2>3, <2>4, <2>5, <2>6, <2>7, SentOn
  <1>2. CASE Ephemeral
    <2>1. PICK kind \in Kinds \ {"durable"} : SendEphemeral(kind)
      BY <1>2 DEF Ephemeral
    <2> DEFINE e == [id |-> sent + 1, kind |-> kind, seq |-> 0]
    <2>2. e \in Event /\ e.id = sent + 1 /\ e.seq = 0
      BY <1>0, <2>1 DEF SendEphemeral, EntryInv, EntryTypes, Event
    <2>3. (chan' = Append(chan, e) /\ Len(chan) < ChanCap) \/ chan' = chan
      BY <2>1 DEF SendEphemeral
    <2>4. sent' = sent + 1 /\ sent' + emit'.left <= MaxEvents /\ emit' = emit
      BY <1>0, <2>1 DEF SendEphemeral, EntryInv, EntryTypes
    <2>5. UNCHANGED <<live, life, history, log, trimmed, seq>>
      BY <2>1 DEF SendEphemeral
    <2> HIDE DEF e
    <2>6. emit' \in [seq : 0..MaxEvents, left : 0..MaxBatch] /\ (emit'.left > 0 => emit'.seq \in {0, seq})
      BY <2>4 DEF EntryInv, EntryTypes, Lined
    <2>7. QED
      BY <2>2, <2>3, <2>4, <2>5, <2>6, SentOn
  <1>3. QED
    BY <1>1, <1>2

(* The first in the channel goes to the end of the log.                         *)
LEMMA RoutedLog ==
  ASSUME EntryInv, Route
  PROVE  /\ Len(chan) \in Nat /\ Head(chan) \in Event /\ Issued(Head(chan))
         /\ Tail(chan) \in Seq(Event) /\ Len(Tail(chan)) <= ChanCap
         /\ \A k \in DOMAIN Tail(chan) : k + 1 \in DOMAIN chan /\ Tail(chan)[k] = chan[k + 1] /\ Before(Head(chan), chan[k + 1])
         /\ life \in Lives /\ log[life] \in Seq(Event)
         /\ log' = [log EXCEPT ![life] = Append(log[life], Head(chan))]
         /\ \A l \in Lives : \A j \in DOMAIN log[l] : Before(log[l][j], Head(chan))
  <1>1. chan \in Seq(Event) /\ Len(chan) \in Nat /\ Len(chan) <= ChanCap /\ chan # <<>> /\ live
    BY DEF Route, EntryInv, EntryTypes
  <1>2. /\ 1 \in DOMAIN chan /\ Head(chan) = chan[1] /\ Head(chan) \in Event
        /\ Tail(chan) \in Seq(Event) /\ Len(Tail(chan)) = Len(chan) - 1
        /\ \A k \in DOMAIN Tail(chan) : k + 1 \in DOMAIN chan /\ 1 < k + 1 /\ Tail(chan)[k] = chan[k + 1]
    BY <1>1
  <1>3. Len(Tail(chan)) <= ChanCap
    BY <1>1, <1>2, CapsAssumption
  <1>4. life \in Lives /\ log[life] \in Seq(Event)
    BY <1>1 DEF EntryInv, EntryTypes, Lined
  <1>5. log' = [log EXCEPT ![life] = Append(log[life], Head(chan))]
    BY DEF Route
  <1>6. Issued(Head(chan)) /\ \A k \in DOMAIN Tail(chan) : Before(Head(chan), chan[k + 1])
    BY <1>2 DEF EntryInv, Lined, Sorted
  <1>7. \A l \in Lives : \A j \in DOMAIN log[l] : Before(log[l][j], Head(chan))
    BY <1>2 DEF EntryInv, Lined
  <1>8. QED
    BY <1>1, <1>2, <1>3, <1>4, <1>5, <1>6, <1>7

(* What the log of an entry is after a step of the router.                      *)
LEMMA RoutedTo ==
  ASSUME EntryInv, Route
  PROVE  /\ \A l \in Lives : \A j \in DOMAIN log[l] : j \in DOMAIN log'[l] /\ log'[l][j] = log[l][j]
         /\ \A l \in Lives : l # life => log'[l] = log[l]
         /\ \A j \in DOMAIN log'[life] :
              \/ j \in DOMAIN log[life] /\ log'[life][j] = log[life][j]
              \/ j = Len(log[life]) + 1 /\ log'[life][j] = Head(chan)
         /\ Len(log[life]) + 1 \in DOMAIN log'[life] /\ log'[life][Len(log[life]) + 1] = Head(chan)
         /\ log' \in [Lives -> Seq(Event)]
  <1>1. life \in Lives /\ log[life] \in Seq(Event) /\ Head(chan) \in Event
    BY RoutedLog
  <1>2. log \in [Lives -> Seq(Event)]
    BY DEF EntryInv, EntryTypes
  <1>3. log'[life] = Append(log[life], Head(chan)) /\ \A l \in Lives : l # life => log'[l] = log[l]
    BY <1>1, <1>2, RoutedLog
  <1> DEFINE s == log[life]
             t == Append(s, Head(chan))
  <1>4. t \in Seq(Event) /\ log' = [log EXCEPT ![life] = t]
    BY <1>1, RoutedLog, Appended
  <1>5. /\ Len(s) + 1 \in DOMAIN t /\ t[Len(s) + 1] = Head(chan)
        /\ \A k \in DOMAIN s : k \in DOMAIN t /\ t[k] = s[k]
        /\ \A k \in DOMAIN t : k \in DOMAIN s \/ k = Len(s) + 1
    BY <1>1, Appended
  <1> HIDE DEF t
  <1>6. log' \in [Lives -> Seq(Event)]
    BY <1>2, <1>4
  <1>7. log'[life] = t
    BY <1>1, <1>2, <1>4
  <1>8. ASSUME NEW l \in Lives, NEW j \in DOMAIN log[l]
        PROVE  j \in DOMAIN log'[l] /\ log'[l][j] = log[l][j]
    BY <1>3, <1>5, <1>7
  <1>9. ASSUME NEW j \in DOMAIN log'[life]
        PROVE  \/ j \in DOMAIN log[life] /\ log'[life][j] = log[life][j]
               \/ j = Len(log[life]) + 1 /\ log'[life][j] = Head(chan)
    BY <1>5, <1>7
  <1>10. Len(log[life]) + 1 \in DOMAIN log'[life] /\ log'[life][Len(log[life]) + 1] = Head(chan)
    BY <1>5, <1>7
  <1>11. QED
    BY <1>3, <1>6, <1>8, <1>9, <1>10

LEMMA RoutedLine == ASSUME EntryInv, Route PROVE Lined'
  <1>0. UNCHANGED <<live, life, seq, sent, emit>> /\ chan' = Tail(chan)
    BY DEF Route, turnVars
  <1> DEFINE e == Head(chan)
  <1>1. Sorted(chan') /\ (\A k \in DOMAIN chan : Issued(chan[k]))'
    <2>1. \A k \in DOMAIN chan : Issued(chan[k])
      BY DEF EntryInv, Lined
    <2>2. \A k \in DOMAIN chan' : k \in Int /\ k + 1 \in DOMAIN chan /\ chan'[k] = chan[k + 1]
      BY <1>0, RoutedLog
    <2>3. Sorted(chan)
      BY DEF EntryInv, Lined
    <2>4. QED
      BY <1>0, <2>1, <2>2, <2>3 DEF Sorted, Issued
  <1>2. ASSUME NEW l \in Lives
        PROVE  (/\ Sorted(log[l])
                /\ l > life => log[l] = <<>>
                /\ \A j \in DOMAIN log[l] :
                     /\ Issued(log[l][j])
                     /\ j <= log[l][j].id
                     /\ \A k \in DOMAIN chan : Before(log[l][j], chan[k]))'
    <2>1. \A j \in DOMAIN log[l] :
            /\ log[l][j] \in Event /\ Issued(log[l][j]) /\ j <= log[l][j].id
            /\ \A k \in DOMAIN chan : Before(log[l][j], chan[k])
      BY DEF EntryInv, EntryTypes, Lined
    <2>2. Sorted(log[l]) /\ (l > life => log[l] = <<>>)
      BY DEF EntryInv, Lined
    <2>3. \A k \in DOMAIN chan' : k + 1 \in DOMAIN chan /\ chan'[k] = chan[k + 1] /\ Before(e, chan'[k])
      BY <1>0, RoutedLog
    <2>4. CASE l # life
      BY <1>0, <2>1, <2>2, <2>3, <2>4, RoutedTo DEF Issued
    <2>5. CASE l = life
      <3>1. \A j \in DOMAIN log'[l] :
              \/ j \in DOMAIN log[l] /\ log'[l][j] = log[l][j]
              \/ j = Len(log[l]) + 1 /\ log'[l][j] = e
        BY <2>5, RoutedTo
      <3>2. /\ Issued(e) /\ e \in Event /\ Len(log[l]) \in Nat /\ DOMAIN log[l] = 1..Len(log[l])
            /\ \A j \in DOMAIN log[l] : Before(log[l][j], e)
        BY <2>5, RoutedLog
      <3>3. Len(log[l]) + 1 <= e.id
        <4>1. CASE Len(log[l]) = 0
          BY <3>2, <4>1 DEF Event
        <4>2. CASE Len(log[l]) # 0
          <5>1. Len(log[l]) \in DOMAIN log[l]
            BY <3>2, <4>2
          <5>2. Len(log[l]) <= log[l][Len(log[l])].id /\ log[l][Len(log[l])].id < e.id
            BY <2>1, <3>2, <5>1 DEF Before
          <5>3. log[l][Len(log[l])].id \in Int /\ e.id \in Int
            <6>1. log[l][Len(log[l])] \in Event
              BY <2>1, <5>1
            <6>2. QED
              BY <3>2, <6>1 DEF Event
          <5>4. QED
            BY <3>2, <5>2, <5>3
        <4>3. QED
          BY <4>1, <4>2
      <3>4. Sorted(log'[l])
        BY <2>2, <3>1, <3>2 DEF Sorted
      <3>5. ~(l > life)
        BY <2>5 DEF EntryInv, EntryTypes
      <3> HIDE DEF e
      <3>6. \A j \in DOMAIN log'[l] :
              j <= log'[l][j].id /\ Issued(log'[l][j]) /\ \A k \in DOMAIN chan' : Before(log'[l][j], chan'[k])
        BY <2>1, <2>3, <3>1, <3>2, <3>3
      <3>7. QED
        BY <1>0, <3>4, <3>5, <3>6 DEF Issued
    <2>6. QED
      BY <2>4, <2>5
  <1>3. ASSUME NEW l \in Lives, NEW m \in Lives, l < m,
               NEW j \in DOMAIN log'[l], NEW k \in DOMAIN log'[m]
        PROVE  log'[l][j].id < log'[m][k].id
    <2>1. \A i \in DOMAIN log[l], n \in DOMAIN log[m] : log[l][i].id < log[m][n].id
      BY <1>3 DEF EntryInv, Lined
    <2>2. life < m => log[m] = <<>>
      BY DEF EntryInv, EntryTypes, Lined, Lives
    <2>3. CASE m = life
      <3>1. l # life /\ log'[l] = log[l]
        BY <1>3, <2>3, RoutedTo DEF Lives
      <3>2. CASE k \in DOMAIN log[m] /\ log'[m][k] = log[m][k]
        BY <2>1, <3>1, <3>2
      <3>3. CASE log'[m][k] = Head(chan)
        BY <3>1, <3>3, RoutedLog DEF Before
      <3>4. QED
        BY <2>3, <3>2, <3>3, RoutedTo
    <2>4. CASE l = life
      <3>1. m # life /\ log'[m] = log[m] /\ log[m] = <<>>
        BY <1>3, <2>2, <2>4, RoutedTo DEF Lives
      <3>2. QED
        BY <3>1
    <2>5. CASE l # life /\ m # life
      BY <2>1, <2>5, RoutedTo
    <2>6. QED
      BY <2>3, <2>4, <2>5
  <1>4. QED
    BY <1>0, <1>1, <1>2, <1>3 DEF Lined, EntryInv

(* The history gets the event if it is durable, and gives up its first beyond    *)
(* its cap.                                                                   *)
LEMMA RoutedHistory == ASSUME EntryInv, Route PROVE EntryTypes' /\ HistoryTrue'
  <1> DEFINE e == Head(chan)
             h == IF IsDurable(e) THEN Append(history, e) ELSE history
             full == Len(h) > HistoryCap
  <1>0. UNCHANGED <<live, life, seq, sent, emit>> /\ chan' = Tail(chan) /\ live = TRUE
    BY DEF Route, turnVars, EntryInv, EntryTypes
  <1>1. /\ history' = IF full THEN Tail(h) ELSE h
        /\ trimmed' = IF full THEN trimmed \cup {Head(h).id} ELSE trimmed
    BY DEF Route
  <1>2. e \in Event /\ history \in Seq(DurableEvent) /\ Len(history) <= HistoryCap /\ HistoryCap \in Nat \ {0}
    BY RoutedLog, CapsAssumption DEF EntryInv, EntryTypes
  <1>3. \A k \in DOMAIN history : Before(history[k], e)
    <2>1. \A k \in DOMAIN history : \E j \in DOMAIN log[life] : log[life][j] = history[k]
      BY <1>0 DEF EntryInv, HistoryTrue
    <2>2. QED
      BY <2>1, RoutedLog
  <1>4. /\ h \in Seq(DurableEvent) /\ Len(h) <= HistoryCap + 1 /\ Sorted(h)
        /\ \A k \in DOMAIN h : (k \in DOMAIN history /\ h[k] = history[k]) \/ (h[k] = e /\ IsDurable(e))
        /\ \A k \in DOMAIN history : \E i \in DOMAIN h : h[i] = history[k]
        /\ IsDurable(e) => \E i \in DOMAIN h : h[i] = e
    <2>1. CASE IsDurable(e)
      <3>1. e \in DurableEvent /\ h = Append(history, e)
        BY <1>2, <2>1 DEF DurableEvent
      <3> HIDE DEF e, h
      <3>2. /\ h \in Seq(DurableEvent) /\ Len(h) = Len(history) + 1
            /\ Len(history) + 1 \in DOMAIN h /\ h[Len(history) + 1] = e
            /\ \A k \in DOMAIN history : k \in DOMAIN h /\ h[k] = history[k] /\ k < Len(history) + 1
            /\ \A k \in DOMAIN h : k \in DOMAIN history \/ k = Len(history) + 1
        BY <1>2, <3>1, Appended
      <3>3. Sorted(history)
        BY DEF EntryInv, HistoryTrue
      <3>4. Sorted(h)
        BY <1>2, <1>3, <3>2, <3>3 DEF Sorted
      <3>5. QED
        BY <1>2, <2>1, <3>2, <3>4
    <2>2. CASE ~IsDurable(e)
      <3>1. h = history /\ Sorted(history)
        BY <2>2 DEF EntryInv, HistoryTrue
      <3> HIDE DEF e, h
      <3>2. Len(h) <= HistoryCap + 1
        BY <1>2, <3>1
      <3>3. QED
        BY <1>2, <2>2, <3>1, <3>2
    <2>3. QED
      BY <2>1, <2>2
  <1> HIDE DEF h
  <1>5. /\ history' \in Seq(DurableEvent) /\ Len(history') <= HistoryCap /\ Sorted(history')
        /\ trimmed \subseteq trimmed' /\ trimmed' \subseteq 1..MaxEvents
        /\ \A k \in DOMAIN history' : \E i \in DOMAIN h : history'[k] = h[i]
        /\ \A i \in DOMAIN h : h[i].id \in trimmed' \/ \E k \in DOMAIN history' : history'[k] = h[i]
    <2>0. trimmed \subseteq 1..MaxEvents
      BY DEF EntryInv, EntryTypes
    <2>1. CASE ~full
      BY <1>1, <1>2, <1>4, <2>0, <2>1
    <2>2. CASE full
      <3>1. /\ h # <<>> /\ Len(h) \in Nat /\ 1 \in DOMAIN h /\ Head(h) = h[1]
            /\ Tail(h) \in Seq(DurableEvent) /\ Len(Tail(h)) = Len(h) - 1
            /\ \A k \in DOMAIN Tail(h) : k \in Int /\ k + 1 \in DOMAIN h /\ Tail(h)[k] = h[k + 1]
            /\ \A i \in DOMAIN h : i = 1 \/ (i - 1 \in DOMAIN Tail(h) /\ Tail(h)[i - 1] = h[i])
        BY <1>2, <1>4, <2>2
      <3>2. history' = Tail(h) /\ trimmed' = trimmed \cup {h[1].id}
        BY <1>1, <2>2, <3>1
      <3>3. h[1].id \in 1..MaxEvents
        BY <1>4, <3>1 DEF DurableEvent, Event
      <3>4. Sorted(Tail(h))
        BY <1>4, <3>1 DEF Sorted
      <3>5. Len(Tail(h)) <= HistoryCap
        BY <1>2, <1>4, <3>1
      <3>6. QED
        BY <2>0, <3>1, <3>2, <3>3, <3>4, <3>5
    <2>3. QED
      BY <2>1, <2>2
  <1>6. EntryTypes'
    BY <1>0, <1>5, RoutedLog, RoutedTo DEF EntryInv, EntryTypes
  <1>7. HistoryTrue'
    <2>1. ASSUME NEW k \in DOMAIN history' PROVE \E j \in DOMAIN log'[life] : log'[life][j] = history'[k]
      <3>1. PICK i \in DOMAIN h : history'[k] = h[i]
        BY <1>5, <2>1
      <3>2. CASE i \in DOMAIN history /\ h[i] = history[i]
        <4>1. \E j \in DOMAIN log[life] : log[life][j] = history[i]
          BY <1>0, <3>2 DEF EntryInv, HistoryTrue
        <4>2. QED
          BY <3>1, <3>2, <4>1, RoutedTo, RoutedLog
      <3>3. CASE h[i] = e
        BY <3>1, <3>3, RoutedTo
      <3>4. QED
        BY <1>4, <3>2, <3>3
    <2>2. ASSUME NEW j \in DOMAIN log'[life], IsDurable(log'[life][j])
          PROVE  log'[life][j].id \in trimmed' \/ \E k \in DOMAIN history' : history'[k] = log'[life][j]
      <3>1. CASE log'[life][j] = e
        BY <1>4, <1>5, <2>2, <3>1
      <3>2. CASE j \in DOMAIN log[life] /\ log'[life][j] = log[life][j]
        <4>1. log[life][j].id \in trimmed \/ \E k \in DOMAIN history : history[k] = log[life][j]
          BY <1>0, <2>2, <3>2 DEF EntryInv, HistoryTrue
        <4>2. CASE log[life][j].id \in trimmed
          BY <1>5, <3>2, <4>2
        <4>3. CASE \E k \in DOMAIN history : history[k] = log[life][j]
          <5>1. PICK k \in DOMAIN history : history[k] = log[life][j]
            BY <4>3
          <5>2. PICK i \in DOMAIN h : h[i] = history[k]
            BY <1>4
          <5>3. QED
            BY <1>5, <3>2, <5>1, <5>2
        <4>4. QED
          BY <4>1, <4>2, <4>3
      <3>3. QED
        BY <3>1, <3>2, RoutedTo
    <2>3. QED
      BY <1>0, <1>5, <2>1, <2>2 DEF HistoryTrue
  <1>8. QED
    BY <1>6, <1>7

LEMMA EntryStep ==
  ASSUME EntryInv, [Next]_vars
  PROVE  EntryInv'
  <1>1. CASE UNCHANGED <<entryVars, turnVars>>
    BY <1>1 DEF EntryInv, EntryTypes, Lined, HistoryTrue, Issued, entryVars, turnVars
  <1>2. CASE Route
    BY <1>2, RoutedLine, RoutedHistory DEF EntryInv
  <1>3. QED
    BY <1>1, <1>2, BuildEntry, RemoveTheEntry, Allocated, Sent
       DEF Next, vars, Subscribe, Replay, ReplayFails, Forward, Lag, Recover, Closed, SseNext, Disconnect

(* The logs only grow, and what is new on one of them is newer than all of them. *)
LEMMA LogsGrow ==
  ASSUME EntryInv, [Next]_vars
  PROVE  /\ life <= life'
         /\ \A l \in Lives : \A j \in DOMAIN log[l] : j \in DOMAIN log'[l] /\ log'[l][j] = log[l][j]
         /\ \A l \in Lives : \A j \in DOMAIN log'[l] :
              \/ j \in DOMAIN log[l] /\ log'[l][j] = log[l][j]
              \/ \A m \in Lives : \A k \in DOMAIN log[m] : Before(log[m][k], log'[l][j])
  <1>1. CASE Route
    <2>1. life' = life /\ life \in Int
      BY <1>1 DEF Route, EntryInv, EntryTypes
    <2>2. \A m \in Lives : \A k \in DOMAIN log[m] : Before(log[m][k], Head(chan))
      BY <1>1, RoutedLog
    <2>3. ASSUME NEW l \in Lives, NEW j \in DOMAIN log'[l]
          PROVE  \/ j \in DOMAIN log[l] /\ log'[l][j] = log[l][j]
                 \/ log'[l][j] = Head(chan)
      BY <1>1, RoutedTo
    <2>4. QED
      BY <1>1, <2>1, <2>2, <2>3, RoutedTo
  <1>2. CASE ~Route
    <2>1. log' = log
      BY <1>2 DEF Next, vars, entryVars, Build, RemoveEntry, Allocate, AllocateFails, SendDurable,
                  Ephemeral, SendEphemeral, Subscribe, Replay, ReplayFails, Forward, Lag, Recover,
                  Closed, SseNext, Disconnect
    <2>2. life' = life \/ life' = life + 1
      BY <1>2 DEF Next, vars, entryVars, Build, RemoveEntry, Allocate, AllocateFails, SendDurable,
                  Ephemeral, SendEphemeral, Subscribe, Replay, ReplayFails, Forward, Lag, Recover,
                  Closed, SseNext, Disconnect
    <2>3. life \in Int
      BY DEF EntryInv, EntryTypes
    <2>4. QED
      BY <2>1, <2>2, <2>3
  <1>3. QED
    BY <1>1, <1>2

(* The number of an event says where it stands in the logs.                     *)
LEMMA SameEvent ==
  ASSUME EntryInv, NEW l \in Lives, NEW m \in Lives, NEW j \in DOMAIN log[l], NEW k \in DOMAIN log[m],
         log[l][j].id = log[m][k].id
  PROVE  l = m /\ j = k
  <1>1. \A a \in DOMAIN log[l], b \in DOMAIN log[m] :
          /\ log[l][a].id \in Int /\ log[m][b].id \in Int /\ a \in Int /\ b \in Int
          /\ l < m => log[l][a].id < log[m][b].id
          /\ m < l => log[m][b].id < log[l][a].id
    <2>1. \A a \in DOMAIN log[l], b \in DOMAIN log[m] : log[l][a] \in Event /\ log[m][b] \in Event
      BY DEF EntryInv, EntryTypes
    <2>2. DOMAIN log[l] \subseteq Int /\ DOMAIN log[m] \subseteq Int
      BY DEF EntryInv, EntryTypes
    <2>3. \A a \in DOMAIN log[l], b \in DOMAIN log[m] :
            /\ l < m => log[l][a].id < log[m][b].id
            /\ m < l => log[m][b].id < log[l][a].id
      BY DEF EntryInv, Lined
    <2>4. QED
      BY <2>1, <2>2, <2>3 DEF Event
  <1>2. \A a, b \in DOMAIN log[l] : a < b => log[l][a].id < log[l][b].id
    BY DEF EntryInv, Lined, Sorted, Before
  <1>3. l = m
    BY <1>1 DEF Lives
  <1>4. QED
    BY <1>1, <1>2, <1>3

-----------------------------------------------------------------------------
(* What a client has.                                                          *)
Once(s)      == \A j, k \in DOMAIN s : s[j].id = s[k].id => j = k
Ascending(s) == \A j, k \in DOMAIN s : j < k /\ s[j].seq > 0 /\ s[k].seq > 0 => s[j].seq <= s[k].seq
Logged(e)    == \E l \in Lives : \E k \in DOMAIN log[l] : log[l][k] = e

(* The cursor its forwarder compares with: until the replay, the client's own.   *)
Cursor(c) == IF at[c] = "subscribed" THEN after[c] ELSE mark[c]

ClientTypes ==
    /\ via \in [Clients -> {"socket", "sse"}]
    /\ at \in [Clients -> {"off", "subscribed", "live", "lagged", "deaf"}]
    /\ rx \in [Clients -> 0..MaxLives]
    /\ pos \in [Clients -> Nat]
    /\ after \in [Clients -> 0..MaxEvents]
    /\ mark \in [Clients -> 0..MaxEvents]
    /\ got \in [Clients -> Seq(Event)]

(* A connection listens to an entry that was built, within its log.             *)
Followed(c) ==
    /\ rx[c] <= life
    /\ rx[c] = 0 => at[c] = "off" /\ pos[c] = 0
    /\ rx[c] # 0 => pos[c] <= Len(log[rx[c]])

(* A forwarder's client has nothing twice and nothing past the cursor; what it    *)
(* has without a sequence is older than what its receiver has ahead of it.       *)
Applied(c) ==
    /\ Once(got[c])
    /\ Ascending(got[c])
    /\ at[c] # "off" =>
         \A j \in DOMAIN got[c] :
           /\ got[c][j].seq <= Cursor(c)
           /\ got[c][j].seq = 0 =>
                \A k \in DOMAIN log[rx[c]] : k > pos[c] => got[c][j].id < log[rx[c]][k].id

ClientOK(c) ==
    /\ Followed(c)
    /\ \A j \in DOMAIN got[c] : Logged(got[c][j])
    /\ via[c] = "socket" => Applied(c)

ClientInv == ClientTypes /\ \A c \in Clients : ClientOK(c)

Same(d) ==
    /\ via'[d] = via[d] /\ at'[d] = at[d] /\ rx'[d] = rx[d] /\ pos'[d] = pos[d]
    /\ after'[d] = after[d] /\ mark'[d] = mark[d] /\ got'[d] = got[d]

(* A step that is not a client's own keeps what holds of the client.            *)
LEMMA OthersKeep ==
  ASSUME EntryInv, ClientInv, [Next]_vars, NEW d \in Clients, Same(d)
  PROVE  ClientOK(d)'
  <1>0. /\ rx[d] \in 0..MaxLives /\ pos[d] \in Nat /\ got[d] \in Seq(Event) /\ ClientOK(d)
        /\ log \in [Lives -> Seq(Event)] /\ log' \in [Lives -> Seq(Event)]
        /\ life \in Int /\ life' \in Int /\ (rx[d] # 0 => rx[d] \in Lives)
    <2>1. EntryInv'
      BY EntryStep
    <2>2. log' \in [Lives -> Seq(Event)] /\ life' \in 0..MaxLives
      BY <2>1 DEF EntryInv, EntryTypes
    <2>3. log \in [Lives -> Seq(Event)] /\ life \in 0..MaxLives
      BY DEF EntryInv, EntryTypes
    <2>4. rx[d] \in 0..MaxLives /\ pos[d] \in Nat /\ got[d] \in Seq(Event) /\ ClientOK(d)
      BY DEF ClientInv, ClientTypes
    <2>5. QED
      BY <2>2, <2>3, <2>4 DEF Lives
  <1>1. Followed(d)'
    <2>1. ASSUME rx[d] # 0 PROVE pos[d] <= Len(log'[rx[d]])
      <3>1. rx[d] \in Lives /\ pos[d] <= Len(log[rx[d]])
        BY <1>0, <2>1 DEF ClientOK, Followed
      <3>2. log[rx[d]] \in Seq(Event) /\ log'[rx[d]] \in Seq(Event)
        BY <1>0, <3>1
      <3>3. Len(log[rx[d]]) = 0 \/ Len(log[rx[d]]) \in DOMAIN log[rx[d]]
        BY <3>2
      <3>4. Len(log[rx[d]]) <= Len(log'[rx[d]])
        BY <3>1, <3>2, <3>3, LogsGrow
      <3>5. QED
        BY <1>0, <3>1, <3>2, <3>4
    <2>2. rx[d] <= life'
      BY <1>0, LogsGrow DEF ClientOK, Followed
    <2>3. QED
      BY <1>0, <2>1, <2>2 DEF ClientOK, Followed, Same
  <1>2. \A e : Logged(e) => Logged(e)'
    BY LogsGrow DEF Logged
  <1>3. ASSUME via[d] = "socket" PROVE Applied(d)'
    <2>1. Once(got[d]) /\ Ascending(got[d])
      BY <1>0, <1>3 DEF ClientOK, Applied
    <2>2. ASSUME at[d] # "off", NEW j \in DOMAIN got[d]
          PROVE  /\ got[d][j].seq <= Cursor(d)
                 /\ got[d][j].seq = 0 =>
                      \A k \in DOMAIN log'[rx[d]] : k > pos[d] => got[d][j].id < log'[rx[d]][k].id
      <3>1. rx[d] \in Lives
        BY <1>0, <2>2 DEF ClientOK, Followed
      <3>2. /\ got[d][j].seq <= Cursor(d)
            /\ got[d][j].seq = 0 => \A k \in DOMAIN log[rx[d]] : k > pos[d] => got[d][j].id < log[rx[d]][k].id
        BY <1>0, <1>3, <2>2 DEF ClientOK, Applied
      <3>3. Logged(got[d][j])
        BY <1>0, <2>2 DEF ClientOK
      <3>4. \A k \in DOMAIN log'[rx[d]] :
              \/ k \in DOMAIN log[rx[d]] /\ log'[rx[d]][k] = log[rx[d]][k]
              \/ got[d][j].id < log'[rx[d]][k].id
        BY <3>1, <3>3, LogsGrow DEF Logged, Before
      <3>5. QED
        BY <3>2, <3>4
    <2>3. QED
      BY <2>1, <2>2 DEF Applied, Cursor, Same
  <1>4. QED
    BY <1>0, <1>1, <1>2, <1>3 DEF ClientOK, Same

-----------------------------------------------------------------------------
(* What a client's step adds to what it has.                                    *)
LEMMA Extended ==
  ASSUME NEW g \in Seq(Event), NEW s \in Seq(Event),
         Once(g), Ascending(g), Sorted(s),
         \A j \in DOMAIN g, k \in DOMAIN s :
            g[j].id # s[k].id /\ (g[j].seq > 0 /\ s[k].seq > 0 => g[j].seq <= s[k].seq)
  PROVE  Once(g \o s) /\ Ascending(g \o s)
  <1>1. /\ g \o s \in Seq(Event) /\ Len(g) \in Nat /\ DOMAIN g = 1..Len(g)
        /\ \A i \in DOMAIN (g \o s) :
             \/ i \in DOMAIN g /\ (g \o s)[i] = g[i]
             \/ i > Len(g) /\ i - Len(g) \in DOMAIN s /\ (g \o s)[i] = s[i - Len(g)]
    OBVIOUS
  <1>2. \A k \in DOMAIN s : s[k].id \in Int /\ k \in Int
    <2>1. \A k \in DOMAIN s : s[k] \in Event
      OBVIOUS
    <2>2. QED
      BY <2>1 DEF Event
  <1>3. \A j, k \in DOMAIN s : s[j].id = s[k].id => j = k
    BY <1>2 DEF Sorted, Before
  <1> DEFINE t == g \o s
  <1>4. DOMAIN t \subseteq Int
    BY <1>1
  <1> HIDE DEF t
  <1>5. Once(t)
    <2> SUFFICES ASSUME NEW j \in DOMAIN t, NEW k \in DOMAIN t, t[j].id = t[k].id PROVE j = k
      BY DEF Once
    <2>1. CASE j \in DOMAIN g /\ t[j] = g[j] /\ k \in DOMAIN g /\ t[k] = g[k]
      BY <2>1 DEF Once
    <2>2. CASE j \in DOMAIN g /\ t[j] = g[j] /\ k - Len(g) \in DOMAIN s /\ t[k] = s[k - Len(g)]
      BY <2>2
    <2>3. CASE k \in DOMAIN g /\ t[k] = g[k] /\ j - Len(g) \in DOMAIN s /\ t[j] = s[j - Len(g)]
      BY <2>3
    <2>4. CASE /\ j - Len(g) \in DOMAIN s /\ t[j] = s[j - Len(g)]
               /\ k - Len(g) \in DOMAIN s /\ t[k] = s[k - Len(g)]
      <3>1. j - Len(g) = k - Len(g)
        BY <1>3, <2>4
      <3>2. QED
        BY <1>1, <1>4, <3>1
    <2>5. QED
      BY <1>1, <2>1, <2>2, <2>3, <2>4 DEF t
  <1>6. Ascending(t)
    <2> SUFFICES ASSUME NEW j \in DOMAIN t, NEW k \in DOMAIN t, j < k, t[j].seq > 0, t[k].seq > 0
                 PROVE  t[j].seq <= t[k].seq
      BY DEF Ascending
    <2>1. CASE j \in DOMAIN g /\ t[j] = g[j] /\ k \in DOMAIN g /\ t[k] = g[k]
      BY <2>1 DEF Ascending
    <2>2. CASE j \in DOMAIN g /\ t[j] = g[j] /\ k - Len(g) \in DOMAIN s /\ t[k] = s[k - Len(g)]
      BY <2>2
    <2>3. CASE k \in DOMAIN g /\ j > Len(g)
      BY <1>1, <1>4, <2>3
    <2>4. CASE /\ j - Len(g) \in DOMAIN s /\ t[j] = s[j - Len(g)]
               /\ k - Len(g) \in DOMAIN s /\ t[k] = s[k - Len(g)]
      <3>1. j - Len(g) < k - Len(g)
        BY <1>1, <1>4
      <3>2. QED
        BY <2>4, <3>1 DEF Sorted, Before
    <2>5. QED
      BY <1>1, <2>1, <2>2, <2>3, <2>4 DEF t
  <1>7. QED
    BY <1>5, <1>6 DEF t

(* What a replay past the cursor delivers is new to the client.                 *)
LEMMA PastIsNew ==
  ASSUME EntryInv, live, NEW n \in 0..MaxEvents, NEW g \in Seq(Event),
         \A j \in DOMAIN g : Logged(g[j]) /\ g[j].seq <= n
  PROVE  /\ DurableAfter(n) \in Seq(Event) /\ Sorted(DurableAfter(n))
         /\ \A k \in DOMAIN DurableAfter(n) : Logged(DurableAfter(n)[k]) /\ DurableAfter(n)[k].seq > n
         /\ \A j \in DOMAIN g, k \in DOMAIN DurableAfter(n) :
              g[j].id # DurableAfter(n)[k].id /\ g[j].seq <= DurableAfter(n)[k].seq
  <1> DEFINE s == DurableAfter(n)
  <1>0. n \in Nat
    OBVIOUS
  <1>1. history \in Seq(DurableEvent) /\ Sorted(history) /\ life \in Lives
    BY DEF EntryInv, EntryTypes, HistoryTrue, Lined
  <1>2. /\ s \in Seq(DurableEvent) /\ Sorted(s)
        /\ \A k \in DOMAIN s : s[k].seq > n /\ \E i \in DOMAIN history : s[k] = history[i]
    BY <1>0, <1>1, PastCursor
  <1>3. DurableEvent \subseteq Event
    BY DEF DurableEvent
  <1> HIDE DEF s
  <1>4. s \in Seq(Event) /\ \A k \in DOMAIN s : s[k] \in Event
    BY <1>2, <1>3
  <1>5. \A k \in DOMAIN s : Logged(s[k])
    <2>1. \A i \in DOMAIN history : \E k \in DOMAIN log[life] : log[life][k] = history[i]
      BY DEF EntryInv, HistoryTrue
    <2>2. QED
      BY <1>1, <1>2, <2>1 DEF Logged
  <1>6. ASSUME NEW j \in DOMAIN g, NEW k \in DOMAIN s
        PROVE  g[j].id # s[k].id /\ g[j].seq <= s[k].seq
    <2>1. g[j].seq <= n /\ s[k].seq > n /\ g[j].seq \in Int /\ s[k].seq \in Int
      <3>1. g[j] \in Event
        OBVIOUS
      <3>2. QED
        BY <1>2, <1>4, <3>1 DEF Event
    <2>2. PICK l \in Lives : \E a \in DOMAIN log[l] : log[l][a] = g[j]
      BY DEF Logged
    <2>3. PICK m \in Lives : \E b \in DOMAIN log[m] : log[m][b] = s[k]
      BY <1>5 DEF Logged
    <2>4. g[j].id = s[k].id => g[j] = s[k]
      BY <2>2, <2>3, SameEvent
    <2>5. QED
      BY <2>1, <2>4
  <1>7. QED
    BY <1>2, <1>4, <1>5, <1>6 DEF s

(* A client that is given the history past its cursor, or nothing, and goes on.  *)
LEMMA Replayed ==
  ASSUME EntryInv, ClientInv, NEW c \in Clients, at[c] # "off", NEW s,
         s = <<>> \/ (live /\ s = DurableAfter(Cursor(c))),
         UNCHANGED entryVars,
         via'[c] = via[c], rx'[c] = rx[c], pos'[c] = pos[c], at'[c] = "live",
         got'[c] = got[c] \o s, mark'[c] = SeqMax(Cursor(c), s)
  PROVE  s \in Seq(Event) /\ mark'[c] \in 0..MaxEvents /\ ClientOK(c)'
  <1>0. /\ got[c] \in Seq(Event) /\ Cursor(c) \in 0..MaxEvents /\ ClientOK(c)
        /\ log' = log /\ life' = life /\ rx[c] # 0
    BY DEF ClientInv, ClientTypes, ClientOK, Followed, Cursor, entryVars
  <1>1. s \in Seq(Event) /\ Sorted(s) /\ \A k \in DOMAIN s : Logged(s[k]) /\ s[k].seq > 0
    <2>1. CASE s = <<>>
      BY <2>1 DEF Sorted
    <2>2. CASE live /\ s = DurableAfter(Cursor(c))
      <3>1. <<>> \in Seq(Event) /\ \A j \in DOMAIN <<>> : Logged(<<>>[j]) /\ <<>>[j].seq <= Cursor(c)
        OBVIOUS
      <3>2. /\ s \in Seq(Event) /\ Sorted(s)
            /\ \A k \in DOMAIN s : Logged(s[k]) /\ s[k].seq > Cursor(c)
        BY <1>0, <2>2, <3>1, PastIsNew
      <3>3. \A k \in DOMAIN s : s[k].seq \in Int
        <4>1. \A k \in DOMAIN s : s[k] \in Event
          BY <3>2
        <4>2. QED
          BY <4>1 DEF Event
      <3>4. QED
        BY <1>0, <3>2, <3>3
    <2>3. QED
      BY <2>1, <2>2
  <1>2. /\ mark'[c] \in 0..MaxEvents /\ Cursor(c) <= mark'[c]
        /\ \A k \in DOMAIN s : s[k].seq <= mark'[c]
    BY <1>0, <1>1, SeqMaxOf
  <1>3. \A i \in DOMAIN (got[c] \o s) :
          \/ i \in DOMAIN got[c] /\ (got[c] \o s)[i] = got[c][i]
          \/ \E k \in DOMAIN s : (got[c] \o s)[i] = s[k]
    BY <1>0, <1>1
  <1>4. (\A j \in DOMAIN got[c] : Logged(got[c][j]))'
    <2>1. \A j \in DOMAIN got'[c] : Logged(got'[c][j])
      BY <1>0, <1>1, <1>3 DEF ClientOK
    <2>2. QED
      BY <1>0, <2>1 DEF Logged
  <1>5. Followed(c)'
    BY <1>0 DEF ClientOK, Followed
  <1>6. ASSUME via[c] = "socket" PROVE Applied(c)'
    <2>1. Applied(c)
      BY <1>0, <1>6 DEF ClientOK
    <2>2. \A j \in DOMAIN got[c] : Logged(got[c][j]) /\ got[c][j].seq <= Cursor(c)
      BY <1>0, <2>1 DEF ClientOK, Applied
    <2>3. Once(got'[c]) /\ Ascending(got'[c])
      <3>1. \A j \in DOMAIN got[c], k \in DOMAIN s : got[c][j].id # s[k].id /\ got[c][j].seq <= s[k].seq
        <4>1. CASE s = <<>>
          BY <4>1
        <4>2. CASE live /\ s = DurableAfter(Cursor(c))
          BY <1>0, <2>2, <4>2, PastIsNew
        <4>3. QED
          BY <4>1, <4>2
      <3>2. QED
        BY <1>0, <1>1, <2>1, <3>1, Extended DEF Applied
    <2>4. ASSUME NEW j \in DOMAIN got'[c]
          PROVE  /\ got'[c][j].seq <= mark'[c]
                 /\ got'[c][j].seq = 0 =>
                      \A k \in DOMAIN log[rx[c]] : k > pos[c] => got'[c][j].id < log[rx[c]][k].id
      <3>1. CASE \E k \in DOMAIN s : got'[c][j] = s[k]
        BY <1>1, <1>2, <3>1
      <3>2. CASE j \in DOMAIN got[c] /\ got'[c][j] = got[c][j]
        <4>1. /\ got[c][j].seq <= Cursor(c)
              /\ got[c][j].seq = 0 => \A k \in DOMAIN log[rx[c]] : k > pos[c] => got[c][j].id < log[rx[c]][k].id
          BY <2>1, <3>2 DEF Applied
        <4>2. got[c][j].seq \in Int
          <5>1. got[c][j] \in Event
            BY <1>0, <3>2
          <5>2. QED
            BY <5>1 DEF Event
        <4>3. QED
          BY <1>0, <1>2, <3>2, <4>1, <4>2
      <3>3. QED
        BY <1>3, <3>1, <3>2
    <2>5. (Cursor(c) = mark[c])'
      BY DEF Cursor
    <2>6. QED
      BY <1>0, <2>3, <2>4, <2>5 DEF Applied
  <1>7. QED
    BY <1>1, <1>2, <1>4, <1>5, <1>6 DEF ClientOK

(* What a receiver has ahead of it.                                            *)
LEMMA NextEvent ==
  ASSUME EntryInv, ClientInv, NEW c \in Clients, at[c] # "off", Ahead(c) > 0
  PROVE  /\ rx[c] \in Lives /\ pos[c] \in Nat /\ pos[c] + 1 \in DOMAIN log[rx[c]] /\ pos[c] + 1 <= Len(log[rx[c]])
         /\ Next1(c) = log[rx[c]][pos[c] + 1] /\ Next1(c) \in Event /\ Logged(Next1(c))
  <1>1. rx[c] \in Lives /\ pos[c] \in Nat /\ pos[c] <= Len(log[rx[c]]) /\ log[rx[c]] \in Seq(Event)
    BY DEF ClientInv, ClientTypes, ClientOK, Followed, EntryInv, EntryTypes, Lives
  <1>2. pos[c] + 1 \in DOMAIN log[rx[c]] /\ pos[c] + 1 <= Len(log[rx[c]])
    BY <1>1 DEF Ahead
  <1>3. QED
    BY <1>1, <1>2 DEF Next1, Logged

LEMMA Forwards ==
  ASSUME EntryInv, ClientInv, NEW c \in Clients, Forward(c)
  PROVE  got'[c] \in Seq(Event) /\ mark'[c] \in 0..MaxEvents /\ pos'[c] \in Nat /\ ClientOK(c)'
  <1> DEFINE e == Next1(c)
  <1>0. /\ via[c] = "socket" /\ at[c] = "live" /\ Ahead(c) > 0 /\ log' = log /\ life' = life
        /\ UNCHANGED <<via, at, rx, after>>
    BY DEF Forward, entryVars
  <1>1. /\ rx[c] \in Lives /\ pos[c] \in Nat /\ pos[c] + 1 \in DOMAIN log[rx[c]] /\ pos[c] + 1 <= Len(log[rx[c]])
        /\ e = log[rx[c]][pos[c] + 1] /\ e \in Event /\ Logged(e)
    BY <1>0, NextEvent
  <1> HIDE DEF e
  <1>2. /\ got[c] \in Seq(Event) /\ mark[c] \in 0..MaxEvents /\ ClientOK(c) /\ Applied(c) /\ Cursor(c) = mark[c]
        /\ got \in [Clients -> Seq(Event)] /\ mark \in [Clients -> 0..MaxEvents] /\ pos \in [Clients -> Nat]
    BY <1>0 DEF ClientInv, ClientTypes, ClientOK, Cursor
  <1>3. pos'[c] = pos[c] + 1
    BY <1>2 DEF Forward
  <1>4. Followed(c)'
    BY <1>0, <1>1, <1>2, <1>3 DEF ClientOK, Followed, Lives
  <1>5. e.seq \in Nat /\ e.id \in Int /\ \A j \in DOMAIN got[c] : got[c][j].seq \in Nat /\ got[c][j].id \in Int
    <2>1. \A j \in DOMAIN got[c] : got[c][j] \in Event
      BY <1>2
    <2>2. QED
      BY <1>1, <2>1 DEF Event
  <1>6. log[rx[c]] \in Seq(Event) /\ \A k \in DOMAIN log[rx[c]] : k \in Int /\ (k > pos[c] + 1 => e.id < log[rx[c]][k].id)
    <2>1. log[rx[c]] \in Seq(Event) /\ Sorted(log[rx[c]])
      BY <1>1 DEF EntryInv, EntryTypes, Lined
    <2>2. QED
      BY <1>1, <2>1 DEF Sorted, Before
  <1>7. \A j \in DOMAIN got[c] :
          /\ got[c][j].seq <= mark[c]
          /\ got[c][j].seq = 0 => \A k \in DOMAIN log[rx[c]] : k > pos[c] => got[c][j].id < log[rx[c]][k].id
    BY <1>0, <1>2 DEF Applied
  <1>8. CASE ~ShouldForward(c, e)
    <2>1. mark' = mark /\ got' = got
      BY <1>8 DEF Forward, e
    <2>2. Applied(c)'
      BY <1>0, <1>1, <1>2, <1>3, <1>6, <1>7, <2>1 DEF Applied, Cursor
    <2>3. (\A j \in DOMAIN got[c] : Logged(got[c][j]))'
      BY <1>0, <1>2, <2>1 DEF ClientOK, Logged
    <2>4. QED
      BY <1>1, <1>2, <1>3, <1>4, <2>1, <2>2, <2>3 DEF ClientOK
  <1>9. CASE ShouldForward(c, e)
    <2>1. mark' = [mark EXCEPT ![c] = SeqMax(mark[c], <<e>>)] /\ got' = [got EXCEPT ![c] = got[c] \o <<e>>]
      BY <1>9 DEF Forward, Apply, e
    <2>2. mark'[c] = SeqMax(mark[c], <<e>>) /\ got'[c] = got[c] \o <<e>>
      BY <1>2, <2>1
    <2>3. <<e>> \in Seq(Event) /\ Sorted(<<e>>) /\ DOMAIN <<e>> = {1} /\ <<e>>[1] = e
      BY <1>1 DEF Sorted
    <2>4. mark'[c] \in 0..MaxEvents /\ mark[c] <= mark'[c] /\ e.seq <= mark'[c]
      <3>1. <<e>> \in Seq(Event) /\ mark[c] \in 0..MaxEvents /\ 1 \in DOMAIN <<e>> /\ <<e>>[1] = e
        BY <1>2, <2>3
      <3>2. /\ SeqMax(mark[c], <<e>>) \in 0..MaxEvents /\ mark[c] <= SeqMax(mark[c], <<e>>)
            /\ \A k \in DOMAIN <<e>> : <<e>>[k].seq <= SeqMax(mark[c], <<e>>)
        BY <3>1, SeqMaxOf
      <3>3. <<e>>[1].seq <= SeqMax(mark[c], <<e>>)
        BY <3>1, <3>2
      <3>4. QED
        BY <2>2, <3>1, <3>2, <3>3
    <2>5. /\ got'[c] \in Seq(Event)
          /\ \A i \in DOMAIN got'[c] : (i \in DOMAIN got[c] /\ got'[c][i] = got[c][i]) \/ got'[c][i] = e
      BY <1>1, <1>2, <2>2
    <2>6. (\A j \in DOMAIN got[c] : Logged(got[c][j]))'
      <3>1. \A j \in DOMAIN got'[c] : Logged(got'[c][j])
        BY <1>1, <1>2, <2>5 DEF ClientOK
      <3>2. QED
        BY <1>0, <3>1 DEF Logged
    <2>7. Once(got'[c]) /\ Ascending(got'[c])
      <3>1. \A j \in DOMAIN got[c] : got[c][j].id # e.id /\ (got[c][j].seq > 0 /\ e.seq > 0 => got[c][j].seq <= e.seq)
        <4> TAKE j \in DOMAIN got[c]
        <4>1. Logged(got[c][j])
          BY <1>2 DEF ClientOK
        <4>2. got[c][j].id = e.id => got[c][j] = e
          BY <1>1, <4>1, SameEvent DEF Logged
        <4>3. CASE e.seq = 0
          <5>1. got[c][j].id = e.id => got[c][j].id < e.id
            BY <1>1, <1>7, <4>2, <4>3
          <5>2. QED
            BY <1>5, <4>3, <5>1
        <4>4. CASE e.seq > mark[c]
          BY <1>2, <1>5, <1>7, <4>2, <4>4
        <4>5. QED
          BY <1>9, <4>3, <4>4 DEF ShouldForward
      <3>2. Once(got[c]) /\ Ascending(got[c])
        BY <1>2 DEF Applied
      <3>3. QED
        BY <1>2, <2>2, <2>3, <3>1, <3>2, Extended
    <2>8. \A j \in DOMAIN got'[c] :
            /\ got'[c][j].seq <= mark'[c]
            /\ got'[c][j].seq = 0 => \A k \in DOMAIN log[rx[c]] : k > pos[c] + 1 => got'[c][j].id < log[rx[c]][k].id
      <3> TAKE j \in DOMAIN got'[c]
      <3>1. CASE j \in DOMAIN got[c] /\ got'[c][j] = got[c][j]
        <4>1. got[c][j].seq <= mark[c] /\ got[c][j].seq \in Nat /\ mark[c] \in Nat /\ mark'[c] \in Nat
          BY <1>2, <1>5, <1>7, <2>4, <3>1
        <4>2. \A k \in DOMAIN log[rx[c]] : k > pos[c] + 1 => k > pos[c]
          BY <1>1, <1>6
        <4>3. QED
          BY <1>7, <2>4, <3>1, <4>1, <4>2
      <3>2. CASE got'[c][j] = e
        BY <1>6, <2>4, <3>2
      <3>3. QED
        BY <2>5, <3>1, <3>2
    <2>9. (Cursor(c) = mark[c])'
      BY <1>0 DEF Cursor
    <2>10. Applied(c)'
      BY <1>0, <1>3, <2>7, <2>8, <2>9 DEF Applied
    <2>11. QED
      BY <1>1, <1>3, <1>4, <2>4, <2>5, <2>6, <2>10 DEF ClientOK
  <1>10. QED
    BY <1>8, <1>9

(* The other steps of a connection.                                           *)
LEMMA SseForwards ==
  ASSUME EntryInv, ClientInv, NEW c \in Clients, SseNext(c)
  PROVE  got'[c] \in Seq(Event) /\ pos'[c] \in Nat /\ ClientOK(c)'
  <1>0. /\ via[c] = "sse" /\ at[c] = "live" /\ Ahead(c) > 0 /\ log' = log /\ life' = life
        /\ UNCHANGED <<via, at, rx, after, mark>>
    BY DEF SseNext, entryVars
  <1>1. /\ rx[c] \in Lives /\ pos[c] \in Nat /\ pos[c] + 1 <= Len(log[rx[c]])
        /\ Next1(c) \in Event /\ Logged(Next1(c))
    BY <1>0, NextEvent
  <1> DEFINE s == IF IsSseDurable(Next1(c)) THEN <<Next1(c)>> ELSE <<>>
  <1>2. s \in Seq(Event) /\ \A k \in DOMAIN s : Logged(s[k])
    BY <1>1
  <1>3. got' = [got EXCEPT ![c] = got[c] \o s] /\ pos' = [pos EXCEPT ![c] = pos[c] + 1]
    BY DEF SseNext, Apply
  <1> HIDE DEF s
  <1>4. got'[c] = got[c] \o s /\ pos'[c] = pos[c] + 1 /\ got[c] \in Seq(Event) /\ ClientOK(c)
    BY <1>3 DEF ClientInv, ClientTypes
  <1>5. (\A j \in DOMAIN got[c] : Logged(got[c][j]))'
    <2>1. \A i \in DOMAIN (got[c] \o s) :
            \/ i \in DOMAIN got[c] /\ (got[c] \o s)[i] = got[c][i]
            \/ \E k \in DOMAIN s : (got[c] \o s)[i] = s[k]
      BY <1>2, <1>4
    <2>2. \A j \in DOMAIN got[c] : Logged(got[c][j])
      BY <1>4 DEF ClientOK
    <2>3. \A j \in DOMAIN got'[c] : Logged(got'[c][j])
      BY <1>2, <1>4, <2>1, <2>2
    <2>4. QED
      BY <1>0, <2>3 DEF Logged
  <1>6. Followed(c)'
    BY <1>0, <1>1, <1>4 DEF ClientOK, Followed
  <1>7. QED
    BY <1>0, <1>1, <1>2, <1>4, <1>5, <1>6 DEF ClientOK

LEMMA Lags ==
  ASSUME EntryInv, ClientInv, NEW c \in Clients, Lag(c)
  PROVE  pos'[c] \in Nat /\ ClientOK(c)'
  <1>0. /\ at[c] = "live" /\ Ahead(c) > RingCap /\ log' = log /\ life' = life
        /\ UNCHANGED <<via, rx, after, mark, got>> /\ RingCap \in Nat \ {0}
    BY CapsAssumption DEF Lag, entryVars
  <1>1. rx[c] \in Lives /\ pos[c] \in Nat /\ log[rx[c]] \in Seq(Event) /\ ClientOK(c)
    BY <1>0 DEF ClientInv, ClientTypes, ClientOK, Followed, EntryInv, EntryTypes, Lives
  <1>2. pos'[c] = Len(log[rx[c]]) - RingCap /\ at'[c] # "subscribed"
    BY <1>0 DEF Lag, Goto, ClientInv, ClientTypes
  <1>3. pos'[c] \in Nat /\ pos[c] < pos'[c] /\ pos'[c] <= Len(log[rx[c]])
    BY <1>0, <1>1, <1>2 DEF Ahead
  <1>4. Followed(c)'
    BY <1>0, <1>1, <1>3 DEF ClientOK, Followed, Lives
  <1>5. ASSUME via[c] = "socket" PROVE Applied(c)'
    <2>1. \A k \in DOMAIN log[rx[c]] : k > pos'[c] => k > pos[c]
      BY <1>1, <1>3
    <2>2. QED
      BY <1>0, <1>1, <1>2, <1>5, <2>1 DEF ClientOK, Applied, Cursor
  <1>6. QED
    BY <1>0, <1>1, <1>3, <1>4, <1>5 DEF ClientOK, Logged

LEMMA Subscribes ==
  ASSUME EntryInv, ClientInv, NEW c \in Clients, Subscribe(c)
  PROVE  pos'[c] \in Nat /\ after'[c] \in 0..MaxEvents /\ rx'[c] \in 0..MaxLives /\ via'[c] \in {"socket", "sse"}
         /\ got'[c] \in Seq(Event) /\ ClientOK(c)'
  <1>0. live /\ log' = log /\ life' = life /\ life \in Lives /\ log[life] \in Seq(Event) /\ life \in 0..MaxLives
    BY DEF Subscribe, entryVars, EntryInv, EntryTypes, Lined
  <1>1. ClientTypes /\ ClientOK(c) /\ got[c] \in Seq(Event) /\ at[c] = "off"
    BY DEF ClientInv, ClientTypes, Subscribe
  <1>2. at'[c] = "subscribed" /\ rx'[c] = life /\ pos'[c] = Len(log[life])
    BY <1>1 DEF Subscribe, Goto, ClientTypes
  <1>3. pos'[c] \in Nat /\ Followed(c)'
    BY <1>0, <1>2 DEF Followed, Lives
  <1>4. ~ \E k \in DOMAIN log[life] : k > pos'[c]
    BY <1>0, <1>2
  <1>5. CASE got' = [got EXCEPT ![c] = <<>>] /\ after' = [after EXCEPT ![c] = 0] /\ \E kind \in {"socket", "sse"} : via' = [via EXCEPT ![c] = kind]
    <2>1. got'[c] = <<>> /\ after'[c] = 0 /\ via'[c] \in {"socket", "sse"}
      BY <1>1, <1>5 DEF ClientTypes
    <2>2. 0 \in 0..MaxEvents
      BY CapsAssumption
    <2>3. Applied(c)'
      BY <2>1 DEF Applied, Once, Ascending
    <2>4. QED
      BY <1>0, <1>2, <1>3, <2>1, <2>2, <2>3 DEF ClientOK
  <1>6. CASE after' = [after EXCEPT ![c] = SeqMax(0, got[c])] /\ UNCHANGED <<got, via>>
    <2>1. after'[c] = SeqMax(0, got[c]) /\ got' = got /\ via' = via /\ via[c] \in {"socket", "sse"}
      BY <1>1, <1>6 DEF ClientTypes
    <2>2. 0 \in 0..MaxEvents
      BY CapsAssumption
    <2>3. after'[c] \in 0..MaxEvents /\ \A k \in DOMAIN got[c] : got[c][k].seq <= after'[c]
      BY <1>1, <2>1, <2>2, SeqMaxOf
    <2>4. (Cursor(c) = after[c])'
      BY <1>2 DEF Cursor
    <2>5. via[c] = "socket" => Applied(c)'
      BY <1>0, <1>1, <1>2, <1>4, <2>1, <2>3, <2>4 DEF ClientOK, Applied
    <2>6. (\A j \in DOMAIN got[c] : Logged(got[c][j]))'
      BY <1>0, <1>1, <2>1 DEF ClientOK, Logged
    <2>7. QED
      BY <1>0, <1>1, <1>2, <1>3, <2>1, <2>3, <2>5, <2>6 DEF ClientOK
  <1>7. QED
    BY <1>5, <1>6 DEF Subscribe

LEMMA Disconnects ==
  ASSUME EntryInv, ClientInv, NEW c \in Clients, Disconnect(c)
  PROVE  got'[c] \in Seq(Event) /\ ClientOK(c)'
  <1>0. log' = log /\ life' = life /\ UNCHANGED <<via, rx, pos, after, mark>>
    BY DEF Disconnect, entryVars
  <1>1. ClientTypes /\ ClientOK(c) /\ got[c] \in Seq(Event)
    BY DEF ClientInv, ClientTypes
  <1>2. PICK n \in 0..Len(got[c]) : got' = [got EXCEPT ![c] = SubSeq(got[c], 1, n)]
    BY DEF Disconnect
  <1>3. at'[c] = "off" /\ got'[c] = SubSeq(got[c], 1, n)
    BY <1>1, <1>2 DEF Disconnect, Goto, ClientTypes
  <1>4. got'[c] \in Seq(Event) /\ \A j \in DOMAIN got'[c] : j \in DOMAIN got[c] /\ got'[c][j] = got[c][j]
    BY <1>1, <1>3
  <1>5. Followed(c)'
    BY <1>0, <1>1, <1>3 DEF ClientOK, Followed
  <1>6. via[c] = "socket" => Applied(c)'
    BY <1>1, <1>3, <1>4 DEF ClientOK, Applied, Once, Ascending
  <1>7. (\A j \in DOMAIN got[c] : Logged(got[c][j]))'
    BY <1>0, <1>1, <1>4 DEF ClientOK, Logged
  <1>8. QED
    BY <1>0, <1>4, <1>5, <1>6, <1>7 DEF ClientOK

LEMMA ClientTypesKept ==
  ASSUME EntryInv, ClientInv, NEW c \in Clients,
         \/ Subscribe(c) \/ Replay(c) \/ ReplayFails(c) \/ Forward(c) \/ Lag(c) \/ Recover(c)
         \/ Closed(c) \/ SseNext(c) \/ Disconnect(c)
  PROVE  ClientTypes' /\ ClientOK(c)' /\ \A d \in Clients \ {c} : Same(d)
  <1>0. ClientTypes /\ ClientOK(c) /\ MaxEvents \in Nat
    BY CapsAssumption DEF ClientInv
  <1>1. CASE Subscribe(c)
    <2>1. /\ pos'[c] \in Nat /\ after'[c] \in 0..MaxEvents /\ rx'[c] \in 0..MaxLives /\ via'[c] \in {"socket", "sse"}
          /\ got'[c] \in Seq(Event) /\ ClientOK(c)'
      BY <1>1, Subscribes
    <2>2. ClientTypes' /\ \A d \in Clients \ {c} : Same(d)
      BY <1>0, <1>1, <2>1 DEF Subscribe, Goto, ClientTypes, Same
    <2>3. QED
      BY <2>1, <2>2
  <1>2. CASE Replay(c)
    <2>1. Cursor(c) = after[c] /\ live /\ at[c] # "off" /\ UNCHANGED entryVars
      BY <1>2 DEF Replay, Cursor
    <2> DEFINE s == DurableAfter(after[c])
    <2>2. UNCHANGED <<via, rx, pos, after>> /\ at'[c] = "live" /\ got'[c] = got[c] \o s /\ mark'[c] = SeqMax(after[c], s)
      BY <1>0, <1>2 DEF Replay, Goto, Apply, ClientTypes
    <2>3. s \in Seq(Event) /\ mark'[c] \in 0..MaxEvents /\ ClientOK(c)'
      BY <2>1, <2>2, Replayed
    <2> HIDE DEF s
    <2>4. got[c] \o s \in Seq(Event)
      BY <1>0, <2>3 DEF ClientTypes
    <2>5. ClientTypes' /\ \A d \in Clients \ {c} : Same(d)
      BY <1>0, <1>2, <2>2, <2>3, <2>4 DEF Replay, Goto, Apply, ClientTypes, Same
    <2>6. QED
      BY <2>3, <2>5
  <1>3. CASE ReplayFails(c)
    <2>1. UNCHANGED <<via, rx, pos, after, got>> /\ at[c] = "subscribed" /\ mark'[c] = after[c] /\ log' = log /\ life' = life
      BY <1>0, <1>3 DEF ReplayFails, ClientTypes, entryVars
    <2>2. at'[c] \in {"off", "live"}
      BY <1>0, <1>3 DEF ReplayFails, Goto, ClientTypes
    <2>3. ClientTypes' /\ \A d \in Clients \ {c} : Same(d)
      BY <1>0, <1>3 DEF ReplayFails, Goto, ClientTypes, Same
    <2>4. ClientOK(c)'
      BY <1>0, <2>1, <2>2 DEF ClientOK, Followed, Applied, Cursor, Logged
    <2>5. QED
      BY <2>3, <2>4
  <1>4. CASE Forward(c)
    <2>1. got'[c] \in Seq(Event) /\ mark'[c] \in 0..MaxEvents /\ pos'[c] \in Nat /\ ClientOK(c)'
      BY <1>4, Forwards
    <2>2. ClientTypes' /\ \A d \in Clients \ {c} : Same(d)
      BY <1>0, <1>4, <2>1 DEF Forward, Apply, ClientTypes, Same
    <2>3. QED
      BY <2>1, <2>2
  <1>5. CASE Lag(c)
    <2>1. pos'[c] \in Nat /\ ClientOK(c)'
      BY <1>5, Lags
    <2>2. ClientTypes' /\ \A d \in Clients \ {c} : Same(d)
      BY <1>0, <1>5, <2>1 DEF Lag, Goto, ClientTypes, Same
    <2>3. QED
      BY <2>1, <2>2
  <1>6. CASE Recover(c)
    <2> DEFINE s == IF live THEN DurableAfter(mark[c]) ELSE <<>>
    <2>1. Cursor(c) = mark[c] /\ at[c] # "off" /\ UNCHANGED entryVars
      BY <1>6 DEF Recover, Cursor
    <2>2. UNCHANGED <<via, rx, pos, after>> /\ at'[c] = "live" /\ got'[c] = got[c] \o s /\ mark'[c] = SeqMax(mark[c], s)
      BY <1>0, <1>6 DEF Recover, Goto, Apply, ClientTypes
    <2>3. s = <<>> \/ (live /\ s = DurableAfter(mark[c]))
      BY DEF EntryInv, EntryTypes
    <2>4. s \in Seq(Event) /\ mark'[c] \in 0..MaxEvents /\ ClientOK(c)'
      BY <2>1, <2>2, <2>3, Replayed
    <2>5. got' = [got EXCEPT ![c] = got[c] \o s] /\ mark' = [mark EXCEPT ![c] = SeqMax(mark[c], s)]
          /\ at' = [at EXCEPT ![c] = "live"]
      BY <1>6 DEF Recover, Apply, Goto
    <2> HIDE DEF s
    <2>6. got[c] \o s \in Seq(Event)
      BY <1>0, <2>4 DEF ClientTypes
    <2>7. ClientTypes' /\ \A d \in Clients \ {c} : Same(d)
      BY <1>0, <2>2, <2>4, <2>5, <2>6 DEF ClientTypes, Same
    <2>8. QED
      BY <2>4, <2>7
  <1>7. CASE Closed(c)
    <2>1. UNCHANGED <<via, rx, pos, after, got, mark>> /\ at[c] = "live" /\ log' = log /\ life' = life
      BY <1>7 DEF Closed, entryVars
    <2>2. at'[c] \in {"off", "deaf"}
      BY <1>0, <1>7 DEF Closed, Goto, ClientTypes
    <2>3. ClientTypes' /\ \A d \in Clients \ {c} : Same(d)
      BY <1>0, <1>7 DEF Closed, Goto, ClientTypes, Same
    <2>4. ClientOK(c)'
      BY <1>0, <2>1, <2>2 DEF ClientOK, Followed, Applied, Cursor, Logged
    <2>5. QED
      BY <2>3, <2>4
  <1>8. CASE SseNext(c)
    <2>1. got'[c] \in Seq(Event) /\ pos'[c] \in Nat /\ ClientOK(c)'
      BY <1>8, SseForwards
    <2>2. ClientTypes' /\ \A d \in Clients \ {c} : Same(d)
      BY <1>0, <1>8, <2>1 DEF SseNext, Apply, ClientTypes, Same
    <2>3. QED
      BY <2>1, <2>2
  <1>9. CASE Disconnect(c)
    <2>1. got'[c] \in Seq(Event) /\ ClientOK(c)'
      BY <1>9, Disconnects
    <2>2. ClientTypes' /\ \A d \in Clients \ {c} : Same(d)
      BY <1>0, <1>9, <2>1 DEF Disconnect, Goto, ClientTypes, Same
    <2>3. QED
      BY <2>1, <2>2
  <1>10. QED
    BY <1>1, <1>2, <1>3, <1>4, <1>5, <1>6, <1>7, <1>8, <1>9

LEMMA ClientStep ==
  ASSUME EntryInv, ClientInv, [Next]_vars
  PROVE  ClientInv'
  <1>1. CASE UNCHANGED clientVars
    <2>1. ClientTypes' /\ \A d \in Clients : Same(d)
      BY <1>1 DEF ClientInv, ClientTypes, Same, clientVars
    <2>2. QED
      BY <2>1, OthersKeep DEF ClientInv
  <1>2. ASSUME NEW c \in Clients,
               \/ Subscribe(c) \/ Replay(c) \/ ReplayFails(c) \/ Forward(c) \/ Lag(c) \/ Recover(c)
               \/ Closed(c) \/ SseNext(c) \/ Disconnect(c)
        PROVE  ClientInv'
    <2>1. ClientTypes' /\ ClientOK(c)' /\ \A d \in Clients \ {c} : Same(d)
      BY <1>2, ClientTypesKept
    <2>2. QED
      BY <2>1, OthersKeep DEF ClientInv
  <1>3. QED
    BY <1>1, <1>2 DEF Next, vars, turnVars, Build, RemoveEntry, Allocate, AllocateFails, SendDurable,
                      Ephemeral, SendEphemeral, Route

EventInv == EntryInv /\ ClientInv

LEMMA InitEventInv == Init => EventInv
  <1> SUFFICES ASSUME Init PROVE EventInv
    OBVIOUS
  <1>0. {RingCap, HistoryCap, ChanCap, MaxBatch, MaxEvents, MaxLives} \subseteq Nat \ {0}
    BY CapsAssumption
  <1>1. EntryTypes
    <2>1. <<>> \in Seq(Event) /\ <<>> \in Seq(DurableEvent) /\ Len(<<>>) = 0
      OBVIOUS
    <2>2. emit \in [seq : 0..MaxEvents, left : 0..MaxBatch]
      BY <1>0 DEF Init
    <2>3. chan \in Seq(Event) /\ Len(chan) <= ChanCap
      BY <1>0, <2>1 DEF Init
    <2>4. history \in Seq(DurableEvent) /\ Len(history) <= HistoryCap
      BY <1>0, <2>1 DEF Init
    <2>5. log \in [Lives -> Seq(Event)]
      BY <2>1 DEF Init
    <2>6. live \in BOOLEAN /\ life \in 0..MaxLives /\ seq \in 0..MaxEvents /\ sent \in 0..MaxEvents
      <3>1. live = FALSE /\ life = 0 /\ seq = 0 /\ sent = 0
        BY DEF Init
      <3>2. 0 \in 0..MaxLives /\ 0 \in 0..MaxEvents
        BY <1>0
      <3>3. QED
        BY <3>1, <3>2, Zenon
    <2>7. trimmed \subseteq 1..MaxEvents
      BY DEF Init
    <2>8. QED
      BY <2>2, <2>3, <2>4, <2>5, <2>6, <2>7 DEF EntryTypes
  <1>2. Lined /\ HistoryTrue
    BY <1>0 DEF Init, Lined, HistoryTrue, Sorted, Lives
  <1>3. ClientTypes
    BY <1>0 DEF Init, ClientTypes
  <1>4. ASSUME NEW c \in Clients PROVE ClientOK(c)
    BY DEF Init, ClientOK, Followed, Applied, Once, Ascending
  <1>5. QED
    BY <1>1, <1>2, <1>3, <1>4 DEF EventInv, EntryInv, ClientInv

(* A client never gets an event of a session twice, nor the durable ones out of  *)
(* the order of their sequences, whatever mix of replay, live stream, lag        *)
(* recovery, eviction and reconnection brought them.                           *)
THEOREM DeliveredOnceInOrder == Spec => []OnceInOrder
  <1>1. Init => EventInv
    BY InitEventInv
  <1>2. EventInv /\ [Next]_vars => EventInv'
    BY EntryStep, ClientStep DEF EventInv
  <1>3. EventInv => OnceInOrder
    <2> SUFFICES ASSUME EventInv PROVE OnceInOrder
      OBVIOUS
    <2>1. TypeOK
      <3>1. ASSUME NEW c \in Clients PROVE pos[c] \in 0..MaxEvents
        <4>1. rx[c] \in 0..MaxLives /\ pos[c] \in Nat /\ Followed(c) /\ MaxEvents \in Nat
          BY CapsAssumption DEF EventInv, ClientInv, ClientTypes, ClientOK
        <4>2. CASE pos[c] = 0
          BY <4>1, <4>2
        <4>3. CASE pos[c] # 0
          <5>1. rx[c] \in Lives /\ pos[c] <= Len(log[rx[c]])
            BY <4>1, <4>3 DEF Followed, Lives
          <5>2. log[rx[c]] \in Seq(Event)
            BY <5>1 DEF EventInv, EntryInv, EntryTypes
          <5>3. pos[c] \in DOMAIN log[rx[c]] /\ log[rx[c]][pos[c]] \in Event
            BY <4>1, <4>3, <5>1, <5>2
          <5>4. pos[c] <= log[rx[c]][pos[c]].id
            BY <5>1, <5>3 DEF EventInv, EntryInv, Lined
          <5>5. QED
            BY <4>1, <5>3, <5>4 DEF Event
        <4>4. QED
          BY <4>2, <4>3
      <3>2. pos \in [Clients -> 0..MaxEvents]
        BY <3>1 DEF EventInv, ClientInv, ClientTypes
      <3>3. QED
        BY <3>2 DEF TypeOK, EventInv, EntryInv, EntryTypes, ClientInv, ClientTypes, DurableEvent
    <2>2. ASSUME NEW c \in Forwarded PROVE Once(got[c]) /\ Ascending(got[c]) /\ c \in Clients
      BY DEF Forwarded, EventInv, ClientInv, ClientOK, Applied
    <2>3. ExactlyOnce
      BY <2>2 DEF ExactlyOnce, AppliedOnce, Once
    <2>4. InOrder
      BY <2>2 DEF InOrder, Ascending, Sequenced
    <2>5. QED
      BY <2>1, <2>3, <2>4 DEF OnceInOrder
  <1>4. QED
    BY <1>1, <1>2, <1>3, PTL DEF Spec

-----------------------------------------------------------------------------
(* What a client has been taken past.                                          *)
Covered(c, e) == e \in ToSet(got[c]) \/ e.id \in trimmed

(* A stream has, of the live entry's log, what lies behind its receiver; a        *)
(* forwarder what its watermark or, unless a lag is still to be recovered, its    *)
(* receiver has passed.  The watermark is the cursor or the sequence of an event  *)
(* of that log, so no event that opens a sequence is filed at or below it.       *)
Caught(c) ==
    /\ via[c] = "sse" => at[c] # "lagged"
    /\ at[c] \in {"live", "lagged"} /\ ~SenderGone(c) =>
         /\ via[c] = "sse" =>
              \A k \in DOMAIN log[life] :
                 k <= pos[c] /\ log[life][k].seq > after[c] => Covered(c, log[life][k])
         /\ via[c] = "socket" =>
              /\ \A k \in DOMAIN log[life] :
                   /\ Opens(log[life][k])
                   /\ log[life][k].seq > after[c]
                   /\ log[life][k].seq <= mark[c] \/ (at[c] = "live" /\ k <= pos[c])
                   => Covered(c, log[life][k])
              /\ mark[c] = after[c] \/ \E k \in DOMAIN log[life] : log[life][k].seq = mark[c]

LEMMA OthersCaught ==
  ASSUME EntryInv, ClientInv, [Next]_vars, NEW d \in Clients, Same(d), Caught(d)
  PROVE  Caught(d)'
  <1> SUFFICES ASSUME at[d] \in {"live", "lagged"}, ~SenderGone(d)'
               PROVE  (/\ via[d] = "sse" =>
                            \A k \in DOMAIN log[life] :
                               k <= pos[d] /\ log[life][k].seq > after[d] => Covered(d, log[life][k])
                       /\ via[d] = "socket" =>
                            /\ \A k \in DOMAIN log[life] :
                                 /\ Opens(log[life][k])
                                 /\ log[life][k].seq > after[d]
                                 /\ log[life][k].seq <= mark[d] \/ (at[d] = "live" /\ k <= pos[d])
                                 => Covered(d, log[life][k])
                            /\ mark[d] = after[d] \/ \E k \in DOMAIN log[life] : log[life][k].seq = mark[d])'
    BY DEF Caught, Same
  <1>0. /\ rx[d] = life' /\ live' /\ life \in 0..MaxLives /\ rx[d] <= life /\ mark[d] \in Nat /\ after[d] \in Nat
        /\ pos[d] \in Nat
    BY CapsAssumption DEF SenderGone, Same, EntryInv, EntryTypes, ClientInv, ClientTypes, ClientOK, Followed
  <1>1. live /\ life' = life /\ trimmed \subseteq trimmed'
    <2>1. ~Build /\ ~RemoveEntry
      BY <1>0 DEF Build, RemoveEntry
    <2>2. live' = live /\ life' = life /\ trimmed \subseteq trimmed'
      BY <2>1 DEF Next, vars, entryVars, Allocate, AllocateFails, SendDurable, Route,
                  Ephemeral, SendEphemeral, Subscribe, Replay, ReplayFails, Forward, Lag, Recover,
                  Closed, SseNext, Disconnect
    <2>3. QED
      BY <1>0, <2>2
  <1>2. ~SenderGone(d) /\ life \in Lives
    BY <1>0, <1>1 DEF SenderGone, EntryInv, Lined
  <1> DEFINE s == log[life]
             t == log'[life]
  <1>3. /\ \A j \in DOMAIN s : j \in DOMAIN t /\ t[j] = s[j]
        /\ \A j \in DOMAIN t : (j \in DOMAIN s /\ t[j] = s[j]) \/ \A k \in DOMAIN s : Before(s[k], t[j])
    BY <1>2, LogsGrow
  <1>4. s \in Seq(Event) /\ t \in Seq(Event)
    <2>1. EntryInv'
      BY EntryStep
    <2>2. QED
      BY <1>1, <1>2, <2>1 DEF EntryInv, EntryTypes
  <1>5. pos[d] <= Len(s)
    BY <1>0, <1>1, <1>2 DEF ClientInv, ClientOK, Followed, Lives
  <1>6. log'[life'] = t
    BY <1>1
  <1> DEFINE due(x, k) == /\ \A f \in ToSet(x) : f.seq = x[k].seq => x[k].id <= f.id
                          /\ x[k].seq > after[d]
                          /\ (x[k].seq <= mark[d] \/ (at[d] = "live" /\ k <= pos[d]))
  <1>7. /\ via[d] = "sse" => \A k \in DOMAIN s : k <= pos[d] /\ s[k].seq > after[d] => Covered(d, s[k])
        /\ via[d] = "socket" => \A k \in DOMAIN s : due(s, k) => Covered(d, s[k])
        /\ via[d] = "socket" => mark[d] = after[d] \/ \E k \in DOMAIN s : s[k].seq = mark[d]
    BY <1>2 DEF Caught, Opens
  <1> HIDE DEF s, t
  <1>8. DOMAIN s = 1..Len(s) /\ Len(s) \in Nat /\ DOMAIN t = 1..Len(t) /\ Len(t) \in Nat
    BY <1>4
  <1>9. \A k \in DOMAIN t : k \in Int /\ t[k].seq \in Nat /\ t[k].id \in Nat
    <2>1. \A k \in DOMAIN t : t[k] \in Event
      BY <1>4
    <2>2. QED
      BY <1>8, <2>1 DEF Event
  <1>10. ASSUME via[d] = "sse", NEW k \in DOMAIN t, k <= pos[d], t[k].seq > after[d]
         PROVE  t[k] \in ToSet(got[d]) \/ t[k].id \in trimmed'
    <2>1. k \in DOMAIN s
      BY <1>0, <1>5, <1>8, <1>10
    <2>2. Covered(d, s[k])
      BY <1>3, <1>7, <1>10, <2>1
    <2>3. QED
      BY <1>1, <1>3, <2>1, <2>2 DEF Covered
  <1>11. ASSUME via[d] = "socket", NEW k \in DOMAIN t, due(t, k)
         PROVE  t[k] \in ToSet(got[d]) \/ t[k].id \in trimmed'
    <2>1. CASE k \in DOMAIN s
      <3>1. s[k] = t[k]
        BY <1>3, <2>1
      <3>2. ToSet(s) \subseteq ToSet(t)
        BY <1>3 DEF ToSet
      <3>3. Covered(d, s[k])
        BY <1>7, <1>11, <2>1, <3>1, <3>2
      <3>4. QED
        BY <1>1, <3>1, <3>3 DEF Covered
    <2>2. CASE k \notin DOMAIN s
      <3>1. t[k].seq <= mark[d] /\ mark[d] # after[d]
        BY <1>0, <1>5, <1>8, <1>9, <1>11, <2>2
      <3>2. PICK j \in DOMAIN s : s[j].seq = mark[d]
        BY <1>7, <1>11, <3>1
      <3>3. Before(s[j], t[k]) /\ t[j] = s[j] /\ j \in DOMAIN t
        BY <1>3, <2>2
      <3>4. t[j].id < t[k].id /\ t[j].seq = t[k].seq
        BY <1>0, <1>9, <1>11, <3>1, <3>2, <3>3 DEF Before
      <3>5. t[j] \in ToSet(t)
        BY <3>3 DEF ToSet
      <3>6. t[k].id <= t[j].id
        BY <1>11, <3>4, <3>5
      <3>7. QED
        BY <1>9, <3>3, <3>4, <3>6
    <2>3. QED
      BY <2>1, <2>2
  <1>12. via[d] = "socket" => mark[d] = after[d] \/ \E k \in DOMAIN t : t[k].seq = mark[d]
    BY <1>3, <1>7
  <1>13. QED
    BY <1>6, <1>10, <1>11, <1>12 DEF Same, Covered, Opens

(* What is past a cursor is in the history, if its cap has not pushed it out.    *)
LEMMA InHistory ==
  ASSUME EntryInv, live, NEW n \in 0..MaxEvents
  PROVE  /\ life \in Lives
         /\ DurableAfter(n) \in Seq(Event)
         /\ \A k \in DOMAIN log[life] : log[life][k].seq > n =>
              log[life][k].id \in trimmed \/ log[life][k] \in ToSet(DurableAfter(n))
         /\ \A j \in DOMAIN DurableAfter(n) : \E k \in DOMAIN log[life] : log[life][k] = DurableAfter(n)[j]
  <1>0. n \in Nat /\ life \in Lives
    BY DEF EntryInv, Lined
  <1>1. history \in Seq(DurableEvent) /\ DurableEvent \subseteq Event
    BY DEF EntryInv, EntryTypes, DurableEvent
  <1>2. /\ DurableAfter(n) \in Seq(DurableEvent)
        /\ \A j \in DOMAIN DurableAfter(n) : \E k \in DOMAIN history : DurableAfter(n)[j] = history[k]
        /\ \A k \in DOMAIN history : history[k].seq > n =>
              \E j \in DOMAIN DurableAfter(n) : DurableAfter(n)[j] = history[k]
    BY <1>0, <1>1, PastCursor
  <1>3. ASSUME NEW k \in DOMAIN log[life], log[life][k].seq > n
        PROVE  log[life][k].id \in trimmed \/ log[life][k] \in ToSet(DurableAfter(n))
    <2>1. IsDurable(log[life][k])
      BY <1>0, <1>3 DEF EntryInv, Lined, Issued
    <2>2. log[life][k].id \in trimmed \/ \E i \in DOMAIN history : history[i] = log[life][k]
      BY <2>1 DEF EntryInv, HistoryTrue
    <2>3. QED
      BY <1>2, <1>3, <2>2 DEF ToSet
  <1>4. \A j \in DOMAIN DurableAfter(n) : \E k \in DOMAIN log[life] : log[life][k] = DurableAfter(n)[j]
    BY <1>2 DEF EntryInv, HistoryTrue
  <1>5. DurableAfter(n) \in Seq(Event)
    BY <1>1, <1>2
  <1>6. QED
    BY <1>0, <1>3, <1>4, <1>5

LEMMA BothDelivered ==
  ASSUME NEW g \in Seq(Event), NEW s \in Seq(Event)
  PROVE  ToSet(g) \subseteq ToSet(g \o s) /\ ToSet(s) \subseteq ToSet(g \o s)
  <1>1. \A k \in DOMAIN g : k \in DOMAIN (g \o s) /\ (g \o s)[k] = g[k]
    OBVIOUS
  <1>2. \A k \in DOMAIN s : Len(g) + k \in DOMAIN (g \o s) /\ (g \o s)[Len(g) + k] = s[k]
    OBVIOUS
  <1>3. QED
    BY <1>1, <1>2 DEF ToSet

(* Its own steps keep a client from being taken past anything.                  *)
LEMMA ReplayCatches ==
  ASSUME EntryInv, ClientInv, NEW c \in Clients, Replay(c)
  PROVE  Caught(c)'
  <1> DEFINE s == DurableAfter(after[c])
             x == log[life]
  <1>0. /\ live /\ UNCHANGED <<log, life, trimmed, via, after>> /\ after[c] \in 0..MaxEvents /\ got[c] \in Seq(Event)
        /\ at'[c] = "live" /\ got'[c] = got[c] \o s /\ mark'[c] = SeqMax(after[c], s)
    BY DEF Replay, Goto, Apply, ClientInv, ClientTypes, entryVars
  <1>1. /\ s \in Seq(Event)
        /\ \A k \in DOMAIN x : x[k].seq > after[c] => x[k].id \in trimmed \/ x[k] \in ToSet(s)
        /\ \A j \in DOMAIN s : \E k \in DOMAIN x : x[k] = s[j]
    BY <1>0, InHistory
  <1>2. mark'[c] = after[c] \/ \E k \in DOMAIN s : mark'[c] = s[k].seq
    BY <1>0, <1>1, SeqMaxOf
  <1> HIDE DEF s
  <1>3. ToSet(s) \subseteq ToSet(got'[c])
    BY <1>0, <1>1, BothDelivered
  <1>4. mark'[c] = after[c] \/ \E k \in DOMAIN x : mark'[c] = x[k].seq
    BY <1>1, <1>2
  <1>5. \A k \in DOMAIN x : x[k].seq > after[c] => x[k] \in ToSet(got'[c]) \/ x[k].id \in trimmed
    BY <1>1, <1>3
  <1>6. QED
    BY <1>0, <1>4, <1>5 DEF Caught, Covered

LEMMA RecoverCatches ==
  ASSUME EntryInv, ClientInv, NEW c \in Clients, Recover(c), Caught(c)
  PROVE  Caught(c)'
  <1> DEFINE s == DurableAfter(mark[c])
             x == log[life]
  <1>0. /\ UNCHANGED <<live, log, life, trimmed, via, after, rx, pos>>
        /\ after[c] \in 0..MaxEvents /\ mark[c] \in 0..MaxEvents /\ got[c] \in Seq(Event)
        /\ at[c] = "lagged" /\ at'[c] = "live" /\ via[c] = "socket"
    BY DEF Recover, Goto, ClientInv, ClientTypes, entryVars, Caught
  <1> SUFFICES ASSUME live, rx[c] = life PROVE Caught(c)'
    BY <1>0 DEF Caught, SenderGone
  <1>1. got'[c] = got[c] \o s /\ mark'[c] = SeqMax(mark[c], s)
    BY DEF Recover, Apply, ClientInv, ClientTypes
  <1>2. /\ s \in Seq(Event) /\ x \in Seq(Event)
        /\ \A k \in DOMAIN x : x[k].seq > mark[c] => x[k].id \in trimmed \/ x[k] \in ToSet(s)
        /\ \A j \in DOMAIN s : \E k \in DOMAIN x : x[k] = s[j]
    BY <1>0, InHistory DEF EntryInv, EntryTypes
  <1> HIDE DEF s
  <1>3. mark'[c] = mark[c] \/ \E k \in DOMAIN s : mark'[c] = s[k].seq
    <2>1. s \in Seq(Event) /\ mark[c] \in 0..MaxEvents
      BY <1>0, <1>2
    <2>2. SeqMax(mark[c], s) = mark[c] \/ \E k \in DOMAIN s : SeqMax(mark[c], s) = s[k].seq
      BY <2>1, SeqMaxOf
    <2>3. QED
      BY <1>1, <2>2
  <1>4. ToSet(s) \subseteq ToSet(got'[c]) /\ ToSet(got[c]) \subseteq ToSet(got'[c])
    BY <1>0, <1>1, <1>2, BothDelivered
  <1>5. /\ \A k \in DOMAIN x : Opens(x[k]) /\ x[k].seq > after[c] /\ x[k].seq <= mark[c] => Covered(c, x[k])
        /\ mark[c] = after[c] \/ \E k \in DOMAIN x : x[k].seq = mark[c]
    BY <1>0 DEF Caught, SenderGone
  <1>6. mark'[c] = after[c] \/ \E k \in DOMAIN x : x[k].seq = mark'[c]
    BY <1>2, <1>3, <1>5
  <1>7. ASSUME NEW k \in DOMAIN x, Opens(x[k]), x[k].seq > after[c]
        PROVE  x[k] \in ToSet(got'[c]) \/ x[k].id \in trimmed
    <2>1. x[k].seq \in Nat /\ mark[c] \in Nat
      <3>1. x[k] \in Event
        BY <1>2
      <3>2. QED
        BY <1>0, <3>1, CapsAssumption DEF Event
    <2>2. CASE x[k].seq <= mark[c]
      BY <1>4, <1>5, <1>7, <2>2 DEF Covered
    <2>3. CASE x[k].seq > mark[c]
      BY <1>2, <1>4, <2>3
    <2>4. QED
      BY <2>1, <2>2, <2>3
  <1>8. \A k \in DOMAIN x : Opens(x[k])' => Opens(x[k])
    BY <1>0 DEF Opens
  <1>9. QED
    BY <1>0, <1>6, <1>7, <1>8 DEF Caught, Covered

LEMMA ForwardCatches ==
  ASSUME EntryInv, ClientInv, NEW c \in Clients, Forward(c), Caught(c)
  PROVE  Caught(c)'
  <1> DEFINE e == Next1(c)
             x == log[life]
  <1>0. /\ UNCHANGED <<live, log, life, trimmed, via, at, after, rx>> /\ pos'[c] = pos[c] + 1
        /\ after[c] \in 0..MaxEvents /\ mark[c] \in 0..MaxEvents /\ got[c] \in Seq(Event)
        /\ at[c] = "live" /\ via[c] = "socket" /\ Ahead(c) > 0
    BY DEF Forward, ClientInv, ClientTypes, entryVars
  <1> SUFFICES ASSUME live, rx[c] = life PROVE Caught(c)'
    BY <1>0 DEF Caught, SenderGone
  <1>1. /\ life \in Lives /\ pos[c] \in Nat /\ pos[c] + 1 \in DOMAIN x /\ e = x[pos[c] + 1]
        /\ x \in Seq(Event) /\ Sorted(x)
    BY <1>0, NextEvent DEF EntryInv, EntryTypes, Lined
  <1>2. \A k \in DOMAIN x : k \in Int /\ x[k].seq \in Nat /\ x[k].id \in Nat
    <2>1. DOMAIN x \subseteq Int /\ \A k \in DOMAIN x : x[k] \in Event
      BY <1>1
    <2>2. QED
      BY <2>1 DEF Event
  <1>3. /\ \A k \in DOMAIN x :
             Opens(x[k]) /\ x[k].seq > after[c] /\ (x[k].seq <= mark[c] \/ k <= pos[c]) => Covered(c, x[k])
        /\ mark[c] = after[c] \/ \E k \in DOMAIN x : x[k].seq = mark[c]
    BY <1>0 DEF Caught, SenderGone
  <1>4. \A k \in DOMAIN x : Opens(x[k])' = Opens(x[k])
    BY <1>0 DEF Opens
  <1>5. mark[c] \in Nat /\ after[c] \in Nat
    BY <1>0, CapsAssumption
  <1>6. CASE ~ShouldForward(c, e)
    <2>1. mark' = mark /\ got' = got /\ e.seq <= mark[c]
      BY <1>1, <1>2, <1>5, <1>6 DEF Forward, ShouldForward
    <2>2. ASSUME NEW k \in DOMAIN x, Opens(x[k]), x[k].seq > after[c], x[k].seq <= mark[c] \/ k <= pos[c] + 1
          PROVE  Covered(c, x[k])
      <3>1. k <= pos[c] + 1 => k <= pos[c] \/ x[k].seq <= mark[c]
        BY <1>1, <1>2, <2>1
      <3>2. QED
        BY <1>3, <2>2, <3>1
    <2>3. \A k \in DOMAIN x : Covered(c, x[k]) => Covered(c, x[k])'
      BY <1>0, <2>1 DEF Covered
    <2> HIDE DEF x
    <2>4. QED
      BY <1>0, <1>3, <1>4, <2>1, <2>2, <2>3 DEF Caught, x
  <1>7. CASE ShouldForward(c, e)
    <2>1. got'[c] = got[c] \o <<e>> /\ mark'[c] = SeqMax(mark[c], <<e>>)
      BY <1>7 DEF Forward, Apply, ClientInv, ClientTypes
    <2>2. mark'[c] = mark[c] \/ mark'[c] = e.seq
      <3>1. <<e>> \in Seq(Event) /\ DOMAIN <<e>> = {1} /\ <<e>>[1] = e
        BY <1>1
      <3>2. mark'[c] = mark[c] \/ \E k \in DOMAIN <<e>> : mark'[c] = <<e>>[k].seq
        BY <1>0, <2>1, <3>1, SeqMaxOf
      <3>3. QED
        BY <3>1, <3>2
    <2>3. e \in ToSet(got'[c]) /\ ToSet(got[c]) \subseteq ToSet(got'[c])
      <3>1. <<e>> \in Seq(Event) /\ 1 \in DOMAIN <<e>> /\ <<e>>[1] = e
        BY <1>1
      <3>2. e \in ToSet(<<e>>)
        BY <3>1 DEF ToSet
      <3>3. QED
        BY <1>0, <2>1, <3>1, <3>2, BothDelivered
    <2>4. ASSUME NEW k \in DOMAIN x, Opens(x[k]), x[k].seq > after[c], x[k].seq <= mark'[c] \/ k <= pos[c] + 1
          PROVE  x[k] \in ToSet(got'[c]) \/ x[k].id \in trimmed
      <3>1. CASE k <= pos[c] \/ x[k].seq <= mark[c]
        BY <1>3, <2>3, <2>4, <3>1 DEF Covered
      <3>2. CASE k = pos[c] + 1
        BY <1>1, <2>3, <3>2
      <3>3. CASE k > pos[c] + 1 /\ mark'[c] = e.seq /\ ~(x[k].seq <= mark[c])
        <4>1. x[k].seq <= e.seq /\ x[k].seq > 0
          BY <1>1, <1>2, <1>5, <2>4, <3>3
        <4>2. Before(e, x[k])
          BY <1>1, <3>3 DEF Sorted
        <4>3. e.seq = x[k].seq /\ e.id < x[k].id
          BY <1>1, <1>2, <4>1, <4>2 DEF Before
        <4>4. x[k].id <= e.id
          BY <1>1, <2>4, <4>3 DEF Opens, ToSet
        <4>5. QED
          BY <1>1, <1>2, <4>3, <4>4
      <3>4. QED
        BY <1>1, <1>2, <2>2, <2>4, <3>1, <3>2, <3>3
    <2>5. mark'[c] = after[c] \/ \E k \in DOMAIN x : x[k].seq = mark'[c]
      BY <1>1, <1>3, <2>2
    <2> HIDE DEF x, e
    <2>6. QED
      BY <1>0, <1>4, <2>4, <2>5 DEF Caught, Covered, x
  <1>8. QED
    BY <1>6, <1>7

LEMMA SseCatches ==
  ASSUME EntryInv, ClientInv, NEW c \in Clients, SseNext(c), Caught(c)
  PROVE  Caught(c)'
  <1> DEFINE e == Next1(c)
             x == log[life]
  <1>0. /\ UNCHANGED <<live, log, life, trimmed, via, at, after, mark, rx>> /\ pos'[c] = pos[c] + 1
        /\ after[c] \in Nat /\ got[c] \in Seq(Event)
        /\ at[c] = "live" /\ via[c] = "sse" /\ Ahead(c) > 0
    BY CapsAssumption DEF SseNext, ClientInv, ClientTypes, entryVars
  <1> SUFFICES ASSUME live, rx[c] = life PROVE Caught(c)'
    BY <1>0 DEF Caught, SenderGone
  <1>1. /\ life \in Lives /\ pos[c] \in Nat /\ pos[c] + 1 \in DOMAIN x /\ e = x[pos[c] + 1] /\ e \in Event
        /\ x \in Seq(Event)
    BY <1>0, NextEvent DEF EntryInv, EntryTypes
  <1>2. \A k \in DOMAIN x : k <= pos[c] /\ x[k].seq > after[c] => Covered(c, x[k])
    BY <1>0 DEF Caught, SenderGone
  <1>3. e.seq > after[c] => IsSseDurable(e)
    <2>1. e.seq = 0 \/ IsDurable(e)
      BY <1>1 DEF EntryInv, Lined, Issued
    <2>2. QED
      BY <1>0, <2>1 DEF IsDurable, IsSseDurable
  <1> DEFINE s == IF IsSseDurable(e) THEN <<e>> ELSE <<>>
  <1>4. got'[c] = got[c] \o s
    BY DEF SseNext, Apply, ClientInv, ClientTypes
  <1>5. s \in Seq(Event) /\ (IsSseDurable(e) => Len(s) = 1 /\ s[1] = e)
    BY <1>1
  <1> HIDE DEF s, e
  <1>6. ToSet(got[c]) \subseteq ToSet(got'[c]) /\ (IsSseDurable(e) => e \in ToSet(got'[c]))
    <2>1. IsSseDurable(e) => e \in ToSet(s)
      BY <1>5 DEF ToSet
    <2>2. QED
      BY <1>0, <1>4, <1>5, <2>1, BothDelivered
  <1>7. ASSUME NEW k \in DOMAIN x, k <= pos[c] + 1, x[k].seq > after[c]
        PROVE  x[k] \in ToSet(got'[c]) \/ x[k].id \in trimmed
    <2>1. CASE k <= pos[c]
      BY <1>2, <1>6, <1>7, <2>1 DEF Covered
    <2>2. CASE k = pos[c] + 1
      BY <1>1, <1>3, <1>6, <1>7, <2>2
    <2>3. QED
      BY <1>1, <1>7, <2>1, <2>2
  <1> HIDE DEF x
  <1>8. QED
    BY <1>0, <1>7 DEF Caught, Covered, x

LEMMA OwnCaught ==
  ASSUME EntryInv, ClientInv, NEW c \in Clients, Caught(c),
         \/ Subscribe(c) \/ Replay(c) \/ ReplayFails(c) \/ Forward(c) \/ Lag(c) \/ Recover(c)
         \/ Closed(c) \/ SseNext(c) \/ Disconnect(c)
  PROVE  Caught(c)'
  <1>0. ClientTypes
    BY DEF ClientInv
  <1>1. CASE Subscribe(c) \/ Closed(c) \/ Disconnect(c)
    <2>1. at'[c] \in {"off", "deaf", "subscribed"}
      BY <1>0, <1>1 DEF Subscribe, Closed, Disconnect, Goto, ClientTypes
    <2>2. QED
      BY <2>1 DEF Caught
  <1>2. CASE ReplayFails(c)
    <2>1. live' = live /\ ~live /\ at'[c] \in {"off", "live"}
      BY <1>0, <1>2 DEF ReplayFails, Goto, ClientTypes, entryVars
    <2>2. QED
      BY <2>1 DEF Caught, SenderGone
  <1>3. CASE Lag(c)
    <2>1. /\ UNCHANGED <<live, log, life, trimmed, via, rx, after, mark, got>> /\ at[c] = "live"
          /\ at'[c] = IF via[c] = "sse" THEN "off" ELSE "lagged"
      BY <1>0, <1>3 DEF Lag, Goto, ClientTypes, entryVars
    <2>2. QED
      BY <2>1 DEF Caught, Covered, SenderGone, Opens
  <1>4. QED
    BY <1>1, <1>2, <1>3, ReplayCatches, RecoverCatches, ForwardCatches, SseCatches

LEMMA CaughtStep ==
  ASSUME EntryInv, ClientInv, \A c \in Clients : Caught(c), [Next]_vars
  PROVE  \A c \in Clients : Caught(c)'
  <1>1. CASE UNCHANGED clientVars
    BY <1>1, OthersCaught DEF Same, clientVars
  <1>2. ASSUME NEW c \in Clients,
               \/ Subscribe(c) \/ Replay(c) \/ ReplayFails(c) \/ Forward(c) \/ Lag(c) \/ Recover(c)
               \/ Closed(c) \/ SseNext(c) \/ Disconnect(c)
        PROVE  \A d \in Clients : Caught(d)'
    <2>1. \A d \in Clients \ {c} : Same(d)
      BY <1>2, ClientTypesKept
    <2>2. QED
      BY <1>2, <2>1, OwnCaught, OthersCaught
  <1>3. QED
    BY <1>1, <1>2 DEF Next, vars, turnVars, Build, RemoveEntry, Allocate, AllocateFails, SendDurable,
                      Ephemeral, SendEphemeral, Route

(* No client is taken past an event it should have had: what a forwarder's        *)
(* watermark or an SSE stream's receiver has passed has been delivered, unless    *)
(* the client's own cursor was later or the history's cap had dropped it.        *)
THEOREM DeliveredWithoutGap == Spec => []NoGap
  <1> DEFINE Inv == EventInv /\ \A c \in Clients : Caught(c)
  <1>1. Init => Inv
    <2>1. Init => \A c \in Clients : Caught(c)
      BY DEF Init, Caught
    <2>2. QED
      BY <2>1, InitEventInv
  <1>2. Inv /\ [Next]_vars => Inv'
    BY EntryStep, ClientStep, CaughtStep DEF EventInv
  <1>3. Inv => NoGap
    <2> SUFFICES ASSUME EventInv, \A c \in Clients : Caught(c) PROVE NoGap
      OBVIOUS
    <2>1. NothingSkipped
      <3> SUFFICES ASSUME NEW c \in Forwarded, at[c] \in {"live", "lagged"}, ~SenderGone(c),
                          NEW e \in ToSet(log[life]), Opens(e), e.seq > after[c], e.seq <= mark[c]
                   PROVE  e \in ToSet(got[c]) \/ e.id \in trimmed
        BY DEF NothingSkipped
      <3>1. c \in Clients /\ via[c] = "socket"
        BY DEF Forwarded
      <3>2. PICK k \in DOMAIN log[life] : e = log[life][k]
        BY DEF ToSet
      <3>3. QED
        BY <3>1, <3>2 DEF Caught, Covered
    <2>2. SseNoGap
      <3> SUFFICES ASSUME NEW c \in Clients \ Forwarded, at[c] = "live", ~SenderGone(c),
                          NEW k \in 1..pos[c], log[life][k].seq > after[c]
                   PROVE  log[life][k] \in ToSet(got[c]) \/ log[life][k].id \in trimmed
        BY DEF SseNoGap
      <3>1. via[c] = "sse" /\ pos[c] \in Nat /\ ClientOK(c) /\ Caught(c)
        BY DEF Forwarded, EventInv, ClientInv, ClientTypes
      <3>2. rx[c] = life /\ life \in Lives /\ log[life] \in Seq(Event)
        BY DEF SenderGone, EventInv, EntryInv, EntryTypes, Lined
      <3>3. k \in DOMAIN log[life] /\ k <= pos[c]
        BY <3>1, <3>2 DEF ClientOK, Followed, Lives
      <3>4. QED
        BY <3>1, <3>3 DEF Caught, Covered
    <2>3. QED
      BY <2>1, <2>2 DEF NoGap
  <1>4. QED
    BY <1>1, <1>2, <1>3, PTL DEF Spec
================================================================================
