--------------------------- MODULE ToolServersProofs ---------------------------
(***************************************************************************)
(* Proofs about ToolServers, for any sessions, any size of the pipes and any  *)
(* number of turns.                                                        *)
(*                                                                         *)
(* The invariant Served has a part for the table of requests (Pairing), one   *)
(* for the server's own requests that wait to be read (Honest), one for the   *)
(* registry's lock (LockInv), one for who may have a request (Owned), one for *)
(* the pipe (Piped), one that counts what turns may still do (Tally) and one  *)
(* for what the language server is told (Telling).                            *)
(***************************************************************************)
EXTENDS ToolServers, FiniteSetTheorems, SequenceTheorems, TLAPS

-----------------------------------------------------------------------------
(* Types.                                                                    *)

Entry  == [id : Nat, task : Tasks]
Answer == [id : Nat, got : {"ok", "error"}, own : BOOLEAN]
Mcp    == [next : Nat, pending : SUBSET Entry, lock : Tasks \cup {None}, pipe : Seq(Nat), torn : BOOLEAN,
           heard : SUBSET Nat, answers : Seq(Answer), asked : SUBSET Nat, alive : BOOLEAN, reading : BOOLEAN]
Req    == [step : ReqSteps, id : Nat, got : {"none", "ok", "error"}, of : Nat]
McpTypes == mcp \in Mcp /\ req \in [Tasks -> Req]

LEMMA Fields ==
  ASSUME McpTypes
  PROVE  /\ mcp.next \in Nat /\ mcp.pending \subseteq Entry /\ mcp.pipe \in Seq(Nat) /\ mcp.heard \subseteq Nat
         /\ mcp.answers \in Seq(Answer) /\ mcp.asked \subseteq Nat /\ mcp.lock \in Tasks \cup {None}
         /\ \A k \in Tasks : /\ req[k] \in Req /\ req[k].step \in ReqSteps /\ req[k].id \in Nat
                             /\ req[k].got \in {"none", "ok", "error"} /\ req[k].of \in Nat
  BY DEF McpTypes, Mcp, Req

LEMMA BoundsTypes == Room \in Nat /\ MaxPrompts \in Nat /\ Room >= 1 /\ MaxPrompts >= 1 /\ Boot \notin Turns
                     /\ None \notin Tasks /\ Turns \subseteq Tasks /\ Boot \in Tasks /\ Tasks = Turns \cup {Boot}
  BY TasksAssumption, BoundsAssumption DEF Tasks

(* A request that moves: the others stay where they are.                      *)
Asks(k, r) == req' = [req EXCEPT ![k] = r]
At(k, step) == [req[k] EXCEPT !.step = step]
Ended(k, got, of) == [req[k] EXCEPT !.step = "over", !.got = got, !.of = of]
Writes == [NoReq EXCEPT !.step = "write", !.id = mcp.next]
Begins == [NoReq EXCEPT !.step = "begin"]

LEMMA Records ==
  ASSUME McpTypes, NEW k \in Tasks
  PROVE  /\ \A step \in ReqSteps :
              /\ At(k, step) \in Req /\ At(k, step).step = step /\ At(k, step).id = req[k].id
              /\ At(k, step).got = req[k].got /\ At(k, step).of = req[k].of
         /\ Ended(k, "error", 0) \in Req /\ Ended(k, "error", 0).step = "over"
         /\ Ended(k, "error", 0).id = req[k].id /\ Ended(k, "error", 0).got = "error"
         /\ Writes \in Req /\ Writes.step = "write" /\ Writes.id = mcp.next /\ Writes.got = "none"
         /\ Begins \in Req /\ Begins.step = "begin" /\ Begins.id = 0 /\ Begins.got = "none"
         /\ NoReq \in Req /\ NoReq.step = "none" /\ NoReq.id = 0 /\ NoReq.got = "none"
  <1>1. req[k] \in Req /\ mcp.next \in Nat
    BY Fields
  <1>2. QED
    BY <1>1 DEF At, Ended, Writes, Begins, NoReq, Req, ReqSteps

LEMMA Asked ==
  ASSUME McpTypes, NEW k \in Tasks, NEW r \in Req, Asks(k, r)
  PROVE  /\ req' \in [Tasks -> Req] /\ req'[k] = r
         /\ \A l \in Tasks \ {k} : req'[l] = req[l]
  BY DEF Asks, McpTypes

LEMMA Shapes ==
  ASSUME McpTypes, NEW k \in Tasks
  PROVE  /\ \A step : Step(k, step) => Asks(k, At(k, step))
         /\ Over(k, "error", 0) => Asks(k, Ended(k, "error", 0))
         /\ Begin(k) => Asks(k, Writes)
  <1>1. \A step : Step(k, step) => Asks(k, At(k, step))
    BY DEF Step, Asks, At, McpTypes
  <1>2. Over(k, "error", 0) => Asks(k, Ended(k, "error", 0))
    BY DEF Over, Asks, Ended, McpTypes
  <1>3. Begin(k) => Asks(k, Writes)
    BY DEF Begin, Asks, Writes
  <1>4. QED
    BY <1>1, <1>2, <1>3

(* What the actions of the client, the reader and the server do to the client.    *)
LEMMA McpMoves ==
  ASSUME McpTypes
  PROVE  /\ \A k \in Tasks : Begin(k) =>
              /\ mcp' \in Mcp /\ mcp'.next = mcp.next + 1 /\ mcp'.asked = mcp.asked /\ mcp'.pipe = mcp.pipe
              /\ mcp'.pending = mcp.pending \cup {[id |-> mcp.next, task |-> k]}
         /\ \A k \in Tasks : Block(k) =>
              mcp' \in Mcp /\ mcp'.next = mcp.next /\ mcp'.asked = mcp.asked /\ mcp'.pipe = mcp.pipe /\ mcp'.pending = mcp.pending
         /\ \A k \in Tasks : Write(k) =>
              /\ mcp' \in Mcp /\ mcp'.next = mcp.next /\ mcp'.asked = mcp.asked
              /\ mcp.alive => /\ mcp'.pending = mcp.pending
                              /\ mcp'.pipe = Append(mcp.pipe, IF mcp.torn THEN Garbage ELSE req[k].id)
              /\ ~mcp.alive => mcp'.pending = mcp.pending \ Entries(k) /\ mcp'.pipe = mcp.pipe
         /\ \A k \in Tasks : TimesOut(k) =>
              /\ mcp' \in Mcp /\ mcp'.next = mcp.next /\ mcp'.asked = mcp.asked /\ mcp'.pipe = mcp.pipe
              /\ mcp'.pending = mcp.pending \ Entries(k)
  <1>1. ASSUME NEW k \in Tasks, Begin(k)
        PROVE  /\ mcp' \in Mcp /\ mcp'.next = mcp.next + 1 /\ mcp'.asked = mcp.asked /\ mcp'.pipe = mcp.pipe
               /\ mcp'.pending = mcp.pending \cup {[id |-> mcp.next, task |-> k]}
    <2>1. [id |-> mcp.next, task |-> k] \in Entry /\ mcp.next + 1 \in Nat
      BY <1>1, Fields DEF Entry
    <2>2. mcp.pending \cup {[id |-> mcp.next, task |-> k]} \in SUBSET Entry
      BY <2>1, Fields
    <2>3. mcp' = [mcp EXCEPT !.next = mcp.next + 1, !.pending = mcp.pending \cup {[id |-> mcp.next, task |-> k]}]
      BY <1>1 DEF Begin
    <2>4. QED
      BY <2>1, <2>2, <2>3 DEF McpTypes, Mcp
  <1>2. ASSUME NEW k \in Tasks, Block(k)
        PROVE  mcp' \in Mcp /\ mcp'.next = mcp.next /\ mcp'.asked = mcp.asked /\ mcp'.pipe = mcp.pipe /\ mcp'.pending = mcp.pending
    BY <1>2 DEF McpTypes, Mcp, Block
  <1>3. ASSUME NEW k \in Tasks, Write(k)
        PROVE  /\ mcp' \in Mcp /\ mcp'.next = mcp.next /\ mcp'.asked = mcp.asked
               /\ mcp.alive => /\ mcp'.pending = mcp.pending
                               /\ mcp'.pipe = Append(mcp.pipe, IF mcp.torn THEN Garbage ELSE req[k].id)
               /\ ~mcp.alive => mcp'.pending = mcp.pending \ Entries(k) /\ mcp'.pipe = mcp.pipe
    <2>1. (IF mcp.torn THEN Garbage ELSE req[k].id) \in Nat /\ mcp.pending \ Entries(k) \subseteq Entry
      BY <1>3, Fields DEF Garbage
    <2> DEFINE line == Append(mcp.pipe, IF mcp.torn THEN Garbage ELSE req[k].id)
    <2>5. line \in Seq(Nat)
      BY <2>1, Fields
    <2>2. CASE mcp.alive
      <3>1. mcp' = [mcp EXCEPT !.lock = None, !.torn = FALSE, !.pipe = line]
        BY <1>3, <2>2 DEF Write
      <3> HIDE DEF line
      <3>2. mcp' \in Mcp /\ mcp'.next = mcp.next /\ mcp'.asked = mcp.asked /\ mcp'.pending = mcp.pending /\ mcp'.pipe = line
        BY <2>5, <3>1 DEF McpTypes, Mcp
      <3>3. QED
        BY <2>2, <3>2 DEF line
    <2>3. CASE ~mcp.alive
      <3>1. mcp' = [mcp EXCEPT !.lock = None, !.pending = mcp.pending \ Entries(k)]
        BY <1>3, <2>3 DEF Write
      <3>2. mcp.pending \ Entries(k) \in SUBSET Entry
        BY <2>1
      <3>3. mcp' \in Mcp /\ mcp'.next = mcp.next /\ mcp'.asked = mcp.asked /\ mcp'.pipe = mcp.pipe /\ mcp'.pending = mcp.pending \ Entries(k)
        BY <3>1, <3>2 DEF McpTypes, Mcp
      <3>4. QED
        BY <2>3, <3>3
    <2>4. QED
      BY <2>2, <2>3
  <1>4. ASSUME NEW k \in Tasks, TimesOut(k)
        PROVE  /\ mcp' \in Mcp /\ mcp'.next = mcp.next /\ mcp'.asked = mcp.asked /\ mcp'.pipe = mcp.pipe
               /\ mcp'.pending = mcp.pending \ Entries(k)
    BY <1>4 DEF McpTypes, Mcp, TimesOut
  <1>5. QED
    BY <1>1, <1>2, <1>3, <1>4

LEMMA ReaderMoves ==
  ASSUME McpTypes
  PROVE  /\ Route => /\ mcp' \in Mcp /\ mcp'.next = mcp.next /\ mcp'.asked = mcp.asked /\ mcp'.pipe = mcp.pipe
                     /\ mcp'.pending = mcp.pending \ {e \in mcp.pending : e.id = Head(mcp.answers).id}
                     /\ Head(mcp.answers) \in Answer
         /\ Stops => mcp' \in Mcp /\ mcp'.next = mcp.next /\ mcp'.asked = mcp.asked /\ mcp'.pipe = mcp.pipe /\ mcp'.pending = {}
         /\ ServerReads => /\ mcp' \in Mcp /\ mcp'.next = mcp.next /\ mcp'.asked = mcp.asked /\ mcp'.pending = mcp.pending
                           /\ mcp'.pipe = Tail(mcp.pipe) /\ mcp.pipe # <<>>
         /\ \A id \in Ids, got \in {"ok", "error"} : ServerAnswers(id, got) =>
              mcp' \in Mcp /\ mcp'.next = mcp.next /\ mcp'.asked = mcp.asked /\ mcp'.pipe = mcp.pipe /\ mcp'.pending = mcp.pending
         /\ \A id \in OwnIds : ServerAsks(id) =>
              /\ mcp' \in Mcp /\ mcp'.next = mcp.next /\ mcp'.asked = mcp.asked \cup {id}
              /\ mcp'.pipe = mcp.pipe /\ mcp'.pending = mcp.pending
         /\ mcp' = [mcp EXCEPT !.alive = FALSE, !.pipe = <<>>, !.heard = {}] =>
              mcp' \in Mcp /\ mcp'.next = mcp.next /\ mcp'.asked = mcp.asked /\ mcp'.pipe = <<>> /\ mcp'.pending = mcp.pending
         /\ \A k \in Tasks : Dropped(k) =>
              mcp' \in Mcp /\ mcp'.next = mcp.next /\ mcp'.asked = mcp.asked /\ mcp'.pipe = mcp.pipe /\ mcp'.pending = mcp.pending
  <1>1. ASSUME Route
        PROVE  /\ mcp' \in Mcp /\ mcp'.next = mcp.next /\ mcp'.asked = mcp.asked /\ mcp'.pipe = mcp.pipe
               /\ mcp'.pending = mcp.pending \ {e \in mcp.pending : e.id = Head(mcp.answers).id}
               /\ Head(mcp.answers) \in Answer
    <2>1. mcp.answers # <<>> /\ mcp.answers \in Seq(Answer)
      BY <1>1, Fields DEF Route
    <2>2. Head(mcp.answers) \in Answer /\ Tail(mcp.answers) \in Seq(Answer)
      BY <2>1, HeadTailProperties
    <2>3. QED
      BY <1>1, <2>2 DEF McpTypes, Mcp, Route
  <1>2. ASSUME Stops
        PROVE  mcp' \in Mcp /\ mcp'.next = mcp.next /\ mcp'.asked = mcp.asked /\ mcp'.pipe = mcp.pipe /\ mcp'.pending = {}
    <2>1. <<>> \in Seq(Answer)
      OBVIOUS
    <2>2. QED
      BY <1>2, <2>1 DEF McpTypes, Mcp, Stops
  <1>3. ASSUME ServerReads
        PROVE  /\ mcp' \in Mcp /\ mcp'.next = mcp.next /\ mcp'.asked = mcp.asked /\ mcp'.pending = mcp.pending
               /\ mcp'.pipe = Tail(mcp.pipe) /\ mcp.pipe # <<>>
    <2>1. mcp.pipe # <<>> /\ mcp.pipe \in Seq(Nat) /\ mcp.heard \subseteq Nat
      BY <1>3, Fields DEF ServerReads
    <2>2. Head(mcp.pipe) \in Nat /\ Tail(mcp.pipe) \in Seq(Nat)
      BY <2>1, HeadTailProperties
    <2>3. (IF mcp.reading THEN mcp.heard \cup ({Head(mcp.pipe)} \ {Garbage}) ELSE mcp.heard) \in SUBSET Nat
      BY <2>1, <2>2
    <2>4. QED
      BY <1>3, <2>1, <2>2, <2>3 DEF McpTypes, Mcp, ServerReads
  <1>4. ASSUME NEW id \in Ids, NEW got \in {"ok", "error"}, ServerAnswers(id, got)
        PROVE  mcp' \in Mcp /\ mcp'.next = mcp.next /\ mcp'.asked = mcp.asked /\ mcp'.pipe = mcp.pipe /\ mcp'.pending = mcp.pending
    <2>1. [id |-> id, got |-> got, own |-> FALSE] \in Answer
      BY BoundsTypes DEF Ids, Answer
    <2>2. Append(mcp.answers, [id |-> id, got |-> got, own |-> FALSE]) \in Seq(Answer) /\ mcp.heard \ {id} \in SUBSET Nat
      BY <2>1, Fields
    <2>3. mcp' = [mcp EXCEPT !.heard = mcp.heard \ {id}, !.answers = Append(mcp.answers, [id |-> id, got |-> got, own |-> FALSE])]
      BY <1>4 DEF ServerAnswers
    <2>4. QED
      BY <2>2, <2>3 DEF McpTypes, Mcp
  <1>5. ASSUME mcp' = [mcp EXCEPT !.alive = FALSE, !.pipe = <<>>, !.heard = {}]
        PROVE  mcp' \in Mcp /\ mcp'.next = mcp.next /\ mcp'.asked = mcp.asked /\ mcp'.pipe = <<>> /\ mcp'.pending = mcp.pending
    <2>1. <<>> \in Seq(Nat)
      OBVIOUS
    <2>2. QED
      BY <1>5, <2>1 DEF McpTypes, Mcp
  <1>6. ASSUME NEW k \in Tasks, Dropped(k)
        PROVE  mcp' \in Mcp /\ mcp'.next = mcp.next /\ mcp'.asked = mcp.asked /\ mcp'.pipe = mcp.pipe /\ mcp'.pending = mcp.pending
    BY <1>6 DEF McpTypes, Mcp, Dropped
  <1>7. ASSUME NEW id \in OwnIds, ServerAsks(id)
        PROVE  /\ mcp' \in Mcp /\ mcp'.next = mcp.next /\ mcp'.asked = mcp.asked \cup {id}
               /\ mcp'.pipe = mcp.pipe /\ mcp'.pending = mcp.pending
    <2>1. [id |-> id, got |-> "ok", own |-> TRUE] \in Answer /\ id \in Nat
      BY OwnIdsAssumption DEF Answer
    <2>2. /\ Append(mcp.answers, [id |-> id, got |-> "ok", own |-> TRUE]) \in Seq(Answer)
          /\ mcp.asked \cup {id} \in SUBSET Nat
      BY <2>1, Fields
    <2>3. mcp' = [mcp EXCEPT !.asked = mcp.asked \cup {id},
                             !.answers = Append(mcp.answers, [id |-> id, got |-> "ok", own |-> TRUE])]
      BY <1>7 DEF ServerAsks
    <2>4. QED
      BY <2>2, <2>3 DEF McpTypes, Mcp
  <1>8. QED
    BY <1>1, <1>2, <1>3, <1>4, <1>5, <1>6, <1>7

-----------------------------------------------------------------------------
(* Requests and answers.                                                     *)

Pend(n, k) == [id |-> n, task |-> k] \in mcp.pending
Sent(k)    == req[k].step \in {"write", "wait"}

(* Identifiers are given out once.                                            *)
FreshOf(k) ==
    /\ req[k].id < mcp.next
    /\ req[k].step \in {"none", "begin"} => req[k].id = 0
    /\ req[k].step \in {"write", "wait", "over"} => req[k].id # 0
    /\ Sent(k) => req[k].id \notin dropped
Apart == \A k, l \in Tasks : k # l /\ req[k].id # 0 => req[k].id # req[l].id
Known == /\ mcp.next >= 1
         /\ \A n \in Nat, k \in Tasks : Pend(n, k) => n < mcp.next
         /\ \A n \in dropped : n \in Nat /\ n < mcp.next
Fresh == Known /\ Apart /\ \A k \in Tasks : FreshOf(k)

Right(k) == req[k].got = "ok" => req[k].of = req[k].id \/ req[k].id \in mcp.asked

(* Whoever waits has an entry, and an entry has somebody who waits or was aborted.  *)
Exact == \A n \in Nat, k \in Tasks : Pend(n, k) /\ n \notin dropped <=> Waits(k) /\ req[k].id = n

(* A request of the server's own is known as such.                               *)
Honest == \A i \in 1..Len(mcp.answers) : mcp.answers[i].own => mcp.answers[i].id \in mcp.asked

Pairing == McpTypes /\ Fresh /\ Exact /\ \A k \in Tasks : Right(k)

Takes(k, entries) == Sent(k) /\ [id |-> req[k].id, task |-> k] \in entries

LEMMA Delivered ==
  ASSUME McpTypes, NEW entries, NEW got \in {"ok", "error"}, NEW of \in Nat, Deliver(entries, got, of), NEW k \in Tasks
  PROVE  /\ req'[k] \in Req /\ req'[k].step = req[k].step /\ req'[k].id = req[k].id
         /\ Takes(k, entries) => req'[k].got = got /\ req'[k].of = of
         /\ ~Takes(k, entries) => req'[k] = req[k]
  <1> DEFINE x == [req[k] EXCEPT !.got = got, !.of = of]
  <1>1. req[k] \in Req
    BY Fields
  <1>2. x \in Req /\ x.step = req[k].step /\ x.id = req[k].id /\ x.got = got /\ x.of = of
    BY <1>1 DEF Req
  <1>3. req'[k] = IF Takes(k, entries) THEN x ELSE req[k]
    BY DEF Deliver, Sent, Takes
  <1> HIDE DEF x
  <1>4. QED
    BY <1>1, <1>2, <1>3

LEMMA DeliveredAll ==
  ASSUME McpTypes, NEW entries, NEW got \in {"ok", "error"}, NEW of \in Nat, Deliver(entries, got, of)
  PROVE  req' \in [Tasks -> Req]
  <1>1. \A k \in Tasks : req'[k] \in Req
    BY Delivered
  <1>2. DOMAIN req' = Tasks /\ req' = [k \in Tasks |-> req'[k]]
    BY DEF Deliver
  <1>3. QED
    BY <1>1, <1>2

(* A step after which a request still waits, with its entry, or does not, without.   *)
LEMMA OneRequest ==
  ASSUME Pairing, NEW k \in Tasks, NEW r \in Req, Asks(k, r), mcp' \in Mcp, mcp'.next = mcp.next /\ mcp'.asked = mcp.asked, dropped' = dropped,
         r.id = 0 \/ r.id = req[k].id,
         r.step \in {"none", "begin"} => r.id = 0,
         r.step \in {"write", "wait", "over"} => r.id # 0,
         r.step \in {"write", "wait"} => Sent(k),
         r.got = "ok" => r.of = r.id \/ r.id \in mcp.asked,
         \/ /\ r.step \in {"write", "wait"} /\ r.got = "none" <=> Waits(k)
            /\ mcp'.pending = mcp.pending
         \/ ~(r.step \in {"write", "wait"} /\ r.got = "none") /\ mcp'.pending = mcp.pending \ Entries(k)
  PROVE  Pairing'
  <1>1. /\ req' \in [Tasks -> Req] /\ req'[k] = r
        /\ \A l \in Tasks \ {k} : req'[l] = req[l]
    BY Asked DEF Pairing
  <1>2. McpTypes'
    BY <1>1 DEF McpTypes
  <1>3. /\ mcp.next \in Nat /\ mcp.pending \subseteq Entry
        /\ \A l \in Tasks : req[l].id \in Nat
    BY Fields DEF Pairing
  <1>4. \A n \in Nat, l \in Tasks : Pend(n, l)' => Pend(n, l)
    BY DEF Pend
  <1>5. Known'
    BY <1>4 DEF Known, Pairing, Fresh
  <1>6. Apart'
    BY <1>1, <1>3 DEF Apart, Pairing, Fresh
  <1>7. ASSUME NEW l \in Tasks PROVE FreshOf(l)'
    <2>1. CASE l = k
      BY <1>1, <1>3, <2>1 DEF FreshOf, Pairing, Fresh, Known, Sent
    <2>2. CASE l # k
      BY <1>1, <2>2 DEF FreshOf, Pairing, Fresh, Sent
    <2>3. QED
      BY <2>1, <2>2
  <1>8. ASSUME NEW l \in Tasks PROVE Right(l)'
    BY <1>1 DEF Right, Pairing
  <1>9. ASSUME NEW n \in Nat, NEW l \in Tasks PROVE (Pend(n, l) /\ n \notin dropped <=> Waits(l) /\ req[l].id = n)'
    <2>0. Pend(n, l) /\ n \notin dropped <=> Waits(l) /\ req[l].id = n
      BY DEF Pairing, Exact
    <2>1. CASE l # k
      <3>1. Pend(n, l)' <=> Pend(n, l)
        BY <2>1 DEF Pend, Entries
      <3>2. req'[l] = req[l]
        BY <1>1, <2>1
      <3>3. QED
        BY <2>0, <3>1, <3>2 DEF Waits
    <2>2. CASE l = k /\ mcp'.pending = mcp.pending /\ (r.step \in {"write", "wait"} /\ r.got = "none" <=> Waits(k))
      <3>1. Pend(n, l)' <=> Pend(n, l)
        BY <2>2 DEF Pend
      <3>2. Waits(l)' <=> Waits(l)
        BY <1>1, <2>2 DEF Waits
      <3>3. Waits(l) => req'[l].id = req[l].id
        BY <1>1, <2>2
      <3>4. QED
        BY <2>0, <3>1, <3>2, <3>3
    <2>3. CASE l = k /\ ~(r.step \in {"write", "wait"} /\ r.got = "none") /\ mcp'.pending = mcp.pending \ Entries(k)
      <3>1. ~Waits(l)'
        BY <1>1, <2>3 DEF Waits
      <3>2. ~(Pend(n, l)' /\ n \notin dropped')
        BY <2>0, <2>3 DEF Pend, Entries
      <3>3. QED
        BY <3>1, <3>2
    <2>4. QED
      BY <2>1, <2>2, <2>3
  <1>10. QED
    BY <1>2, <1>5, <1>6, <1>7, <1>8, <1>9 DEF Pairing, Fresh, Exact

LEMMA NoRequest ==
  ASSUME Pairing, req' = req, mcp' \in Mcp, mcp'.next = mcp.next, mcp.asked \subseteq mcp'.asked, mcp'.pending = mcp.pending, dropped' = dropped
  PROVE  Pairing'
  <1>1. McpTypes' /\ Known' /\ Apart' /\ Exact'
    BY DEF Pairing, McpTypes, Fresh, Known, Apart, Exact, Pend, Waits
  <1>2. ASSUME NEW k \in Tasks PROVE FreshOf(k)' /\ Right(k)'
    BY DEF Pairing, Fresh, FreshOf, Right, Sent
  <1>3. QED
    BY <1>1, <1>2 DEF Pairing, Fresh

-----------------------------------------------------------------------------
(* The registry's lock.                                                       *)

Holds == {"held", "ask", "run", "call", "note", "version", "send", "settle"}

InLine(k) == IF k = Boot THEN boot = "queued" ELSE turn[k] \in {"schemas", "guard"}

(* A task that asks for the lock stands in the queue, once, and who reads is a turn    *)
(* between its look-up and the end of its call.                                 *)
LockInv ==
    /\ turn \in [Turns -> TurnSteps] /\ boot \in BootSteps
    /\ queue \in Seq(Tasks)
    /\ \A i \in 1..Len(queue) : InLine(queue[i])
    /\ \A i, j \in 1..Len(queue) : i # j => queue[i] # queue[j]
    /\ readers \subseteq Turns /\ \A t \in readers : turn[t] \in Holds
    /\ writer => readers = {}

LEMMA GoesOn ==
  ASSUME LockInv, NEW t \in Turns, NEW step \in TurnSteps, Goes(t, step)
  PROVE  turn' \in [Turns -> TurnSteps] /\ turn'[t] = step /\ \A u \in Turns \ {t} : turn'[u] = turn[u]
  BY DEF LockInv, Goes

(* A turn that neither stood in the queue nor joins it.                          *)
LEMMA TurnMoves ==
  ASSUME LockInv, NEW t \in Turns, NEW step \in TurnSteps, Goes(t, step), turn[t] \notin {"schemas", "guard"},
         queue' = queue, writer' = writer, boot' = boot,
         \/ readers' = readers \ {t}
         \/ readers' = readers /\ turn[t] \in Holds /\ step \in Holds
         \/ readers' = readers /\ t \notin readers
  PROVE  LockInv'
  <1>1. turn' \in [Turns -> TurnSteps] /\ turn'[t] = step /\ \A u \in Turns \ {t} : turn'[u] = turn[u]
    BY GoesOn
  <1>2. Boot \notin Turns
    BY BoundsTypes
  <1>3. ASSUME NEW i \in 1..Len(queue) PROVE InLine(queue[i])'
    <2>1. InLine(queue[i]) /\ queue[i] \in Tasks
      BY DEF LockInv
    <2>2. queue[i] # t
      BY <1>2, <2>1 DEF InLine
    <2>3. queue[i] = Boot \/ queue[i] \in Turns \ {t}
      BY <2>1, <2>2 DEF Tasks
    <2>4. QED
      BY <1>1, <1>2, <2>1, <2>3 DEF InLine
  <1>4. readers' \subseteq Turns /\ \A u \in readers' : turn'[u] \in Holds
    BY <1>1 DEF LockInv
  <1>5. QED
    BY <1>1, <1>3, <1>4 DEF LockInv

(* A task that joins the queue.                                               *)
LEMMA Joins ==
  ASSUME LockInv, NEW k \in Tasks, ~InLine(k), InLine(k)', queue' = Append(queue, k),
         turn' \in [Turns -> TurnSteps], boot' \in BootSteps,
         \A u \in Turns \ {k} : turn'[u] = turn[u], k # Boot => boot' = boot,
         readers' = readers, k \notin readers, writer' = writer
  PROVE  LockInv'
  <1>1. queue \in Seq(Tasks) /\ queue' \in Seq(Tasks) /\ Len(queue') = Len(queue) + 1
    BY DEF LockInv
  <1>2. /\ \A i \in 1..Len(queue) : queue'[i] = queue[i] /\ queue[i] \in Tasks /\ queue[i] # k
        /\ queue'[Len(queue) + 1] = k
    BY <1>1 DEF LockInv
  <1>3. \A i \in 1..Len(queue) : InLine(queue[i])'
    <2> TAKE i \in 1..Len(queue)
    <2>1. InLine(queue[i]) /\ queue[i] \in Tasks /\ queue[i] # k
      BY <1>2 DEF LockInv
    <2>2. QED
      BY <2>1, BoundsTypes DEF InLine
  <1>4. \A i \in 1..Len(queue') : InLine(queue[i])'
    <2> TAKE i \in 1..Len(queue')
    <2>1. CASE i = Len(queue) + 1
      BY <1>2, <2>1 DEF InLine
    <2>2. CASE i # Len(queue) + 1
      <3>1. i \in 1..Len(queue)
        BY <1>1, <2>2
      <3>2. queue'[i] = queue[i] /\ InLine(queue[i])'
        BY <1>2, <1>3, <3>1
      <3>3. QED
        BY <3>2 DEF InLine
    <2>3. QED
      BY <2>1, <2>2
  <1>5. \A i, j \in 1..Len(queue') : i # j => queue'[i] # queue'[j]
    BY <1>1, <1>2 DEF LockInv
  <1>6. readers' \subseteq Turns /\ (\A u \in readers' : turn'[u] \in Holds) /\ (writer' => readers' = {})
    BY DEF LockInv
  <1>7. QED
    BY <1>1, <1>4, <1>5, <1>6 DEF LockInv

LEMMA GrantStep == ASSUME LockInv, Grant PROVE LockInv'
  <1>1. queue # <<>> /\ queue \in Seq(Tasks) /\ queue' = Tail(queue) /\ ~writer
    BY DEF Grant, LockInv
  <1>2. /\ queue' \in Seq(Tasks) /\ Len(queue') = Len(queue) - 1
        /\ \A i \in 1..Len(queue') : queue'[i] = queue[i + 1]
    BY <1>1, HeadTailProperties
  <1>3. Len(queue) \in Nat /\ Len(queue) >= 1 /\ Head(queue) = queue[1] /\ queue[1] \in Tasks
    BY <1>1
  <1>4. \A i \in 1..Len(queue') : queue[i + 1] # Head(queue) /\ InLine(queue[i + 1]) /\ queue[i + 1] \in Tasks
    <2> TAKE i \in 1..Len(queue')
    <2>1. i + 1 \in 1..Len(queue) /\ 1 \in 1..Len(queue) /\ i + 1 # 1
      BY <1>2, <1>3
    <2>2. QED
      BY <1>3, <2>1 DEF LockInv
  <1>5. \A i, j \in 1..Len(queue') : i # j => queue'[i] # queue'[j]
    <2> TAKE i, j \in 1..Len(queue')
    <2>1. i + 1 \in 1..Len(queue) /\ j + 1 \in 1..Len(queue) /\ (i # j => i + 1 # j + 1)
      BY <1>2, <1>3
    <2>2. QED
      BY <1>2, <2>1 DEF LockInv
  <1>6. InLine(Head(queue))
    BY <1>3 DEF LockInv
  <1>7. CASE Head(queue) = Boot
    <2>1. /\ readers = {} /\ writer' = TRUE /\ boot' = "lsp" /\ UNCHANGED <<readers, turn>>
      BY <1>7 DEF Grant
    <2>2. \A i \in 1..Len(queue') : InLine(queue[i])'
      BY <1>2, <1>4, <1>7, <2>1 DEF InLine
    <2>3. QED
      BY <1>2, <1>5, <2>1, <2>2 DEF LockInv, BootSteps
  <1>8. CASE Head(queue) # Boot
    <2> DEFINE t == Head(queue)
               step == IF turn[t] = "guard" THEN "held" ELSE "model"
    <2>1. t \in Turns /\ turn[t] \in {"schemas", "guard"} /\ step \in TurnSteps
      BY <1>3, <1>6, <1>8 DEF InLine, Tasks, TurnSteps
    <2>2. /\ readers' = IF turn[t] = "guard" THEN readers \cup {t} ELSE readers
          /\ Goes(t, step) /\ UNCHANGED <<writer, boot>>
      BY <1>8 DEF Grant
    <2>3. turn' \in [Turns -> TurnSteps] /\ turn'[t] = step /\ \A u \in Turns \ {t} : turn'[u] = turn[u]
      BY <2>1, <2>2, GoesOn
    <2>4. \A i \in 1..Len(queue') : InLine(queue[i])'
      <3> TAKE i \in 1..Len(queue')
      <3>1. queue'[i] # t /\ InLine(queue'[i]) /\ queue'[i] \in Tasks
        BY <1>2, <1>4
      <3>2. queue'[i] = Boot \/ queue'[i] \in Turns \ {t}
        BY <3>1 DEF Tasks
      <3>3. QED
        BY <2>2, <2>3, <3>1, <3>2 DEF InLine
    <2>5. readers' \subseteq Turns /\ \A u \in readers' : turn'[u] \in Holds
      <3>1. turn[t] = "guard" => step \in Holds
        BY DEF Holds
      <3>2. \A u \in readers : u # t
        BY <2>1 DEF LockInv, Holds
      <3> HIDE DEF t, step
      <3>3. QED
        BY <2>1, <2>2, <2>3, <3>1, <3>2 DEF LockInv
    <2>6. QED
      BY <1>1, <1>2, <1>5, <2>2, <2>3, <2>4, <2>5 DEF LockInv
  <1>9. QED
    BY <1>7, <1>8

(* Where an action leaves the line alone, only a turn that holds the lock, or has     *)
(* none, moves.                                                               *)
LEMMA LineUnmoved ==
  ASSUME LockInv, boot' \in BootSteps, boot' = boot \/ (boot # "queued" /\ boot' # "queued"),
         UNCHANGED <<queue, readers, turn>>, writer' => writer
  PROVE  LockInv'
  <1>1. \A i \in 1..Len(queue) : InLine(queue[i])'
    BY DEF LockInv, InLine
  <1>2. QED
    BY <1>1 DEF LockInv

LEMMA FinishMoves ==
  ASSUME LockInv, NEW t \in Turns, turn[t] \notin {"schemas", "guard"}, boot' = boot,
         \/ Finish(t)
         \/ \E step \in Holds : Goes(t, step) /\ UNCHANGED lockVars /\ turn[t] \in Holds
  PROVE  LockInv'
  <1>1. "idle" \in TurnSteps /\ Holds \subseteq TurnSteps
    BY DEF TurnSteps, Holds
  <1>2. CASE Finish(t)
    BY <1>1, <1>2, TurnMoves DEF Finish
  <1>3. CASE \E step \in Holds : Goes(t, step) /\ UNCHANGED lockVars /\ turn[t] \in Holds
    BY <1>1, <1>3, TurnMoves DEF lockVars
  <1>4. QED
    BY <1>2, <1>3

LEMMA LockStep == LockInv /\ [Next]_vars => LockInv'
  <1> SUFFICES ASSUME LockInv, [Next]_vars PROVE LockInv'
    OBVIOUS
  <1>1. CASE Boots
    <2>1. CASE BootAsks
      <3>1. Boot \in Tasks /\ Boot \notin readers
        BY BoundsTypes DEF LockInv
      <3>2. ~InLine(Boot) /\ InLine(Boot)' /\ boot' \in BootSteps
        BY <2>1 DEF BootAsks, InLine, BootSteps
      <3>3. turn' = turn /\ readers' = readers /\ writer' = writer /\ queue' = Append(queue, Boot)
        BY <2>1 DEF BootAsks, BootRest
      <3>4. QED
        BY <3>1, <3>2, <3>3, Joins DEF LockInv
    <2>2. CASE StartLsp
      BY <2>2, LineUnmoved DEF StartLsp, BootRest, BootSteps
    <2>3. CASE Connected
      BY <2>3, LineUnmoved DEF Connected, BootRest, BootSteps
    <2>4. CASE Listed
      BY <2>4, LineUnmoved DEF Listed, BootRest, BootSteps
    <2>5. CASE Unlock
      <3>1. /\ UNCHANGED <<queue, readers, turn>> /\ ~writer' /\ boot # "queued" /\ boot' = "slot"
        BY <2>5 DEF Unlock, BootRest
      <3>2. QED
        BY <3>1, LineUnmoved DEF BootSteps
    <2>6. CASE FillSlot
      BY <2>6, LineUnmoved DEF FillSlot, BootRest, BootSteps
    <2>7. QED
      BY <1>1, <2>1, <2>2, <2>3, <2>4, <2>5, <2>6 DEF Boots
  <1>2. ASSUME NEW t \in Turns, Prompt(t) PROVE LockInv'
    <2>1. Goes(t, "schemas") /\ "schemas" \in TurnSteps /\ turn[t] = "idle"
      BY <1>2 DEF Prompt, TurnSteps
    <2>2. turn' \in [Turns -> TurnSteps] /\ turn'[t] = "schemas" /\ \A u \in Turns \ {t} : turn'[u] = turn[u]
      BY <2>1, GoesOn
    <2>3. queue' = Append(queue, t) /\ UNCHANGED <<readers, writer, boot>>
      BY <1>2 DEF Prompt, TurnRest
    <2>4. t \in Tasks /\ t # Boot /\ t \notin readers
      BY <2>1, BoundsTypes DEF LockInv, Holds
    <2>5. ~InLine(t) /\ InLine(t)'
      BY <2>1, <2>2, <2>4 DEF InLine
    <2>6. boot' \in BootSteps
      BY <2>3 DEF LockInv
    <2>7. QED
      BY <2>2, <2>3, <2>4, <2>5, <2>6, Joins
  <1>3. ASSUME NEW t \in Turns, Model(t) PROVE LockInv'
    <2>0. turn[t] = "model" /\ boot' = boot
      BY <1>3 DEF Model, TurnRest
    <2>1. CASE Finish(t)
      BY <2>0, <2>1, FinishMoves
    <2>2. CASE Goes(t, "guard") /\ queue' = Append(queue, t) /\ UNCHANGED <<readers, writer>>
      <3>1. turn' \in [Turns -> TurnSteps] /\ turn'[t] = "guard" /\ \A u \in Turns \ {t} : turn'[u] = turn[u]
        BY <2>2, GoesOn DEF TurnSteps
      <3>2. t \in Tasks /\ t # Boot /\ t \notin readers
        BY <2>0, BoundsTypes DEF LockInv, Holds
      <3>3. ~InLine(t) /\ InLine(t)' /\ boot' \in BootSteps
        BY <2>0, <3>1, <3>2 DEF InLine, LockInv
      <3>4. QED
        BY <2>0, <2>2, <3>1, <3>2, <3>3, Joins
    <2>3. QED
      BY <1>3, <2>1, <2>2 DEF Model
  <1>4. ASSUME NEW t \in Turns, LookUp(t) \/ Reply(t) \/ AskAborted(t) PROVE LockInv'
    <2>1. turn[t] \in {"held", "ask"} /\ boot' = boot
      BY <1>4 DEF LookUp, Reply, AskAborted, TurnRest
    <2>2. Finish(t) \/ ((Goes(t, "ask") \/ Goes(t, "run")) /\ UNCHANGED lockVars)
      BY <1>4 DEF LookUp, Reply, AskAborted, OfTurn
    <2>3. QED
      BY <2>1, <2>2, FinishMoves DEF Holds
  <1>5. ASSUME NEW t \in Turns, Run(t) \/ CallAborted(t) \/ CallOver(t) PROVE LockInv'
    <2>1. turn[t] \in {"run", "call"} /\ boot' = boot
      BY <1>5 DEF Run, CallAborted, CallOver, TurnRest
    <2>2. Finish(t) \/ ((Goes(t, "note") \/ Goes(t, "call")) /\ UNCHANGED lockVars)
      BY <1>5 DEF Run, CallAborted, CallOver, OfTurn
    <2>3. QED
      BY <2>1, <2>2, FinishMoves DEF Holds
  <1>6. ASSUME NEW t \in Turns, ReadBack(t) \/ TakeVersion(t) \/ Send(t) \/ Settle(t) PROVE LockInv'
    <2>1. turn[t] \in {"note", "version", "send", "settle"} /\ boot' = boot
      BY <1>6 DEF ReadBack, TakeVersion, Send, Settle, LspRest
    <2>2. Finish(t) \/ ((Goes(t, "version") \/ Goes(t, "send") \/ Goes(t, "settle")) /\ UNCHANGED lockVars)
      BY <1>6 DEF ReadBack, TakeVersion, Send, Settle, OfTurn
    <2>3. QED
      BY <2>1, <2>2, FinishMoves DEF Holds
  <1>7. CASE UNCHANGED <<lockVars, turn, boot>>
    BY <1>7, LineUnmoved DEF LockInv, lockVars
  <1>8. ASSUME NEW k \in Tasks, Client(k) PROVE UNCHANGED <<lockVars, turn, boot>>
    BY <1>8 DEF Client, Begin, Block, Write, TimesOut, Receives, MCP
  <1>9. ASSUME Reader \/ ReaderFails \/ ServerReads \/ ServerDies \/ LspReads \/ LspDies
               \/ (\E id \in Ids, got \in {"ok", "error"} : ServerAnswers(id, got))
               \/ (\E id \in OwnIds : ServerAsks(id))
        PROVE  UNCHANGED <<lockVars, turn, boot>>
    BY <1>9 DEF Reader, Route, ReaderEnds, ReaderFails, Stops, ServerReads, ServerDies, LspReads, LspDies,
       ServerAnswers, ServerAsks, MCP, LspRest, OfTurn
  <1>10. ASSUME NEW t \in Turns, Abort(t) \/ LspBlock(t) PROVE UNCHANGED <<lockVars, turn, boot>>
    BY <1>10 DEF Abort, LspBlock, TurnRest, LspRest, OfTurn
  <1>11. CASE UNCHANGED vars
    BY <1>7, <1>11 DEF vars
  <1>12. QED
    BY <1>1, <1>2, <1>3, <1>4, <1>5, <1>6, <1>7, <1>8, <1>9, <1>10, <1>11, GrantStep DEF Next, Goes_on

-----------------------------------------------------------------------------
(* The steps that change what is waited for.                                    *)

LEMMA PairingTypes ==
  ASSUME Pairing
  PROVE  /\ McpTypes /\ mcp.next \in Nat /\ mcp.next >= 1 /\ mcp.pending \subseteq Entry /\ dropped \subseteq Nat
         /\ \A k \in Tasks : req[k] \in Req /\ req[k].id \in Nat /\ req[k].id < mcp.next
  <1>1. McpTypes /\ Known /\ \A k \in Tasks : FreshOf(k)
    BY DEF Pairing, Fresh
  <1>2. dropped \subseteq Nat
    BY <1>1 DEF Known
  <1>3. QED
    BY <1>1, <1>2, Fields DEF Known, FreshOf

LEMMA BeginPairs == ASSUME Pairing, NEW k \in Tasks, Begin(k) PROVE Pairing'
  <1>0. /\ McpTypes /\ mcp.next \in Nat /\ mcp.next >= 1 /\ mcp.pending \subseteq Entry /\ dropped \subseteq Nat
        /\ \A l \in Tasks : req[l] \in Req /\ req[l].id \in Nat /\ req[l].id < mcp.next
    BY PairingTypes
  <1>1. /\ mcp' \in Mcp /\ mcp'.next = mcp.next + 1 /\ mcp'.asked = mcp.asked
        /\ mcp'.pending = mcp.pending \cup {[id |-> mcp.next, task |-> k]}
    BY <1>0, McpMoves
  <1>2. Writes \in Req /\ Writes.step = "write" /\ Writes.id = mcp.next /\ Writes.got = "none"
    BY <1>0, Records
  <1>3. req' \in [Tasks -> Req] /\ req'[k] = Writes /\ \A l \in Tasks \ {k} : req'[l] = req[l]
    BY <1>0, <1>2, Shapes, Asked
  <1>4. dropped' = dropped /\ req[k].step = "begin"
    BY DEF Begin, MCP
  <1>5. McpTypes'
    BY <1>1, <1>3 DEF McpTypes
  <1>6. \A n \in Nat, l \in Tasks : Pend(n, l)' <=> Pend(n, l) \/ (n = mcp.next /\ l = k)
    <2> TAKE n \in Nat, l \in Tasks
    <2>1. [id |-> n, task |-> l] = [id |-> mcp.next, task |-> k] <=> n = mcp.next /\ l = k
      <3>1. ASSUME [id |-> n, task |-> l] = [id |-> mcp.next, task |-> k] PROVE n = mcp.next /\ l = k
        <4>1. [id |-> n, task |-> l].id = [id |-> mcp.next, task |-> k].id
          BY <3>1
        <4>2. [id |-> n, task |-> l].task = [id |-> mcp.next, task |-> k].task
          BY <3>1
        <4>3. QED
          BY <4>1, <4>2
      <3>2. QED
        BY <3>1
    <2>2. QED
      BY <1>1, <2>1 DEF Pend
  <1>7. Known'
    <2>1. mcp'.next = mcp.next + 1 /\ dropped' = dropped
      BY <1>1, <1>4
    <2>2. Known
      BY DEF Pairing, Fresh
    <2>3. \A n \in dropped : n \in Nat /\ n < mcp.next + 1
      BY <1>0, <2>2 DEF Known
    <2>4. \A n \in Nat, l \in Tasks : Pend(n, l)' => n < mcp.next + 1
      BY <1>0, <1>6, <2>2 DEF Known
    <2>5. QED
      BY <1>0, <2>1, <2>3, <2>4 DEF Known
  <1>8. Apart'
    BY <1>0, <1>2, <1>3 DEF Apart, Pairing, Fresh
  <1>9. ASSUME NEW l \in Tasks PROVE FreshOf(l)' /\ Right(l)'
    <2>1. CASE l = k
      BY <1>0, <1>1, <1>2, <1>3, <1>4, <2>1 DEF FreshOf, Right, Sent, Known, Pairing, Fresh
    <2>2. CASE l # k
      BY <1>0, <1>1, <1>3, <1>4, <2>2 DEF FreshOf, Right, Sent, Pairing, Fresh
    <2>3. QED
      BY <2>1, <2>2
  <1>10. ASSUME NEW n \in Nat, NEW l \in Tasks PROVE (Pend(n, l) /\ n \notin dropped <=> Waits(l) /\ req[l].id = n)'
    <2>0. Pend(n, l) /\ n \notin dropped <=> Waits(l) /\ req[l].id = n
      BY DEF Pairing, Exact
    <2>1. CASE l # k
      BY <1>3, <1>4, <1>6, <2>0, <2>1 DEF Waits
    <2>2. CASE l = k
      <3>1. Waits(l)' /\ req'[l].id = mcp.next
        BY <1>2, <1>3, <2>2 DEF Waits
      <3>2. ~Waits(l) /\ mcp.next \notin dropped
        BY <1>0, <1>4, <2>2 DEF Waits, Pairing, Fresh, Known
      <3>3. QED
        BY <1>4, <1>6, <2>0, <2>2, <3>1, <3>2
    <2>3. QED
      BY <2>1, <2>2
  <1>11. QED
    BY <1>5, <1>7, <1>8, <1>9, <1>10 DEF Pairing, Fresh, Exact

(* What is delivered leaves the table, and nobody else waits less for it.           *)
LEMMA DeliveryPairs ==
  ASSUME Pairing, NEW entries \in SUBSET mcp.pending, NEW got \in {"ok", "error"}, NEW of \in Nat,
         Deliver(entries, got, of), mcp' \in Mcp, mcp'.next = mcp.next /\ mcp'.asked = mcp.asked, mcp'.pending = mcp.pending \ entries,
         dropped' = dropped, got = "ok" => \A e \in entries : e.id = of \/ e.id \in mcp.asked
  PROVE  Pairing'
  <1>0. /\ McpTypes /\ mcp.next \in Nat /\ mcp.next >= 1 /\ mcp.pending \subseteq Entry /\ dropped \subseteq Nat
        /\ \A l \in Tasks : req[l] \in Req /\ req[l].id \in Nat /\ req[l].id < mcp.next
    BY PairingTypes
  <1>1. ASSUME NEW k \in Tasks
        PROVE  /\ req'[k] \in Req /\ req'[k].step = req[k].step /\ req'[k].id = req[k].id
               /\ Takes(k, entries) => req'[k].got = got /\ req'[k].of = of
               /\ ~Takes(k, entries) => req'[k] = req[k]
    BY <1>0, Delivered
  <1>2. McpTypes'
    BY <1>0, DeliveredAll DEF McpTypes
  <1>3. \A n \in Nat, l \in Tasks : Pend(n, l)' <=> Pend(n, l) /\ [id |-> n, task |-> l] \notin entries
    BY DEF Pend
  <1>4. Known'
    BY <1>3 DEF Known, Pairing, Fresh
  <1>5. Apart'
    <2>1. \A l \in Tasks : req'[l].id = req[l].id
      BY <1>1
    <2>2. Apart
      BY DEF Pairing, Fresh
    <2>3. QED
      BY <2>1, <2>2 DEF Apart
  <1>6. ASSUME NEW l \in Tasks PROVE FreshOf(l)' /\ Right(l)'
    <2>1. FreshOf(l)'
      <3>1. FreshOf(l) /\ req'[l].step = req[l].step /\ req'[l].id = req[l].id
        BY <1>1 DEF Pairing, Fresh
      <3>2. QED
        BY <3>1 DEF FreshOf, Sent
    <2>2. Right(l)'
      <3>1. CASE Takes(l, entries)
        <4>1. got = "ok" => req[l].id = of \/ req[l].id \in mcp.asked
          BY <3>1 DEF Takes
        <4>2. QED
          BY <1>1, <3>1, <4>1 DEF Right
      <3>2. CASE ~Takes(l, entries)
        BY <1>1, <3>2 DEF Right, Pairing
      <3>3. QED
        BY <3>1, <3>2
    <2>3. QED
      BY <2>1, <2>2
  <1>7. ASSUME NEW n \in Nat, NEW l \in Tasks PROVE (Pend(n, l) /\ n \notin dropped <=> Waits(l) /\ req[l].id = n)'
    <2>0. Pend(n, l) /\ n \notin dropped <=> Waits(l) /\ req[l].id = n
      BY DEF Pairing, Exact
    <2>1. CASE Takes(l, entries)
      <3>1. ~Waits(l)'
        BY <1>1, <2>1 DEF Waits
      <3>2. ASSUME Pend(n, l)', n \notin dropped PROVE FALSE
        <4>1. Waits(l) /\ req[l].id = n /\ [id |-> n, task |-> l] \notin entries
          BY <1>3, <2>0, <3>2
        <4>2. QED
          BY <2>1, <4>1 DEF Takes
      <3>3. QED
        BY <3>1, <3>2
    <2>2. CASE ~Takes(l, entries)
      <3>1. req'[l] = req[l] /\ (Waits(l)' <=> Waits(l)) /\ (Waits(l) => Sent(l))
        BY <1>1, <2>2 DEF Waits, Sent
      <3>2. QED
        BY <1>3, <2>0, <2>2, <3>1 DEF Takes
    <2>3. QED
      BY <2>1, <2>2
  <1>8. QED
    BY <1>2, <1>4, <1>5, <1>6, <1>7 DEF Pairing, Fresh, Exact

LEMMA RoutedIds ==
  ASSUME McpTypes, Route
  PROVE  /\ Head(mcp.answers) \in Answer /\ AnswerOf(Head(mcp.answers)) \in Nat
         /\ Head(mcp.answers).got \in {"ok", "error"} /\ Head(mcp.answers).id \in Nat
  <1>1. Head(mcp.answers) \in Answer
    BY ReaderMoves
  <1>2. QED
    BY <1>1 DEF Answer, AnswerOf

LEMMA ReaderPairs == ASSUME Pairing, Honest, Reader \/ ReaderFails PROVE Pairing'
  <1>0. McpTypes /\ dropped' = dropped
    BY PairingTypes DEF Reader, Route, ReaderEnds, ReaderFails, Stops, MCP
  <1>1. CASE Route
    <2> DEFINE a == Head(mcp.answers)
               entries == {e \in mcp.pending : e.id = a.id}
    <2>1. /\ mcp' \in Mcp /\ mcp'.next = mcp.next /\ mcp'.asked = mcp.asked /\ mcp'.pending = mcp.pending \ entries
      BY <1>0, <1>1, ReaderMoves
    <2>2. a.got \in {"ok", "error"} /\ a.id \in Nat /\ AnswerOf(a) \in Nat
      BY <1>0, <1>1, RoutedIds
    <2>3. Deliver(entries, a.got, AnswerOf(a))
      BY <1>1 DEF Route
    <2>4. entries \in SUBSET mcp.pending /\ \A e \in entries : e.id = a.id
      OBVIOUS
    <2>5. a.own => a.id \in mcp.asked
      <3>1. mcp.answers # <<>> /\ mcp.answers \in Seq(Answer)
        BY <1>0, <1>1, Fields DEF Route
      <3>2. 1 \in 1..Len(mcp.answers) /\ a = mcp.answers[1]
        BY <3>1
      <3>3. QED
        BY <3>2 DEF Honest
    <2>6. a.got = "ok" => \A e \in entries : e.id = AnswerOf(a) \/ e.id \in mcp.asked
      BY <2>4, <2>5 DEF AnswerOf
    <2> HIDE DEF a, entries
    <2>7. QED
      BY <1>0, <2>1, <2>2, <2>3, <2>4, <2>6, DeliveryPairs
  <1>2. CASE ReaderEnds \/ ReaderFails
    <2>1. Stops
      BY <1>2 DEF ReaderEnds, ReaderFails
    <2>2. mcp' \in Mcp /\ mcp'.next = mcp.next /\ mcp'.asked = mcp.asked /\ mcp'.pending = mcp.pending \ mcp.pending
      BY <1>0, <2>1, ReaderMoves
    <2>3. Deliver(mcp.pending, "error", 0)
      BY <2>1 DEF Stops
    <2>4. QED
      BY <1>0, <2>2, <2>3, DeliveryPairs
  <1>3. QED
    BY <1>1, <1>2 DEF Reader

LEMMA HonestKept ==
  ASSUME Honest, mcp'.answers = mcp.answers, mcp'.asked = mcp.asked
  PROVE  Honest'
  BY DEF Honest

LEMMA HonestStep == Pairing /\ Honest /\ [Next]_vars => Honest'
  <1> SUFFICES ASSUME Pairing, Honest, [Next]_vars PROVE Honest'
    OBVIOUS
  <1>0. McpTypes /\ mcp \in Mcp /\ mcp.answers \in Seq(Answer)
    BY PairingTypes, Fields DEF McpTypes
  <1>1. CASE Route
    <2>1. mcp.answers # <<>> /\ mcp'.answers = Tail(mcp.answers) /\ mcp'.asked = mcp.asked
      BY <1>0, <1>1 DEF Route, Mcp
    <2>2. /\ Len(mcp'.answers) = Len(mcp.answers) - 1
          /\ \A i \in 1..Len(mcp'.answers) : mcp'.answers[i] = mcp.answers[i + 1]
      BY <1>0, <2>1, HeadTailProperties
    <2>3. \A i \in 1..Len(mcp'.answers) : i + 1 \in 1..Len(mcp.answers)
      BY <1>0, <2>2
    <2>4. QED
      BY <2>1, <2>2, <2>3 DEF Honest
  <1>2. CASE ReaderEnds \/ ReaderFails
    <2>1. mcp'.answers = <<>>
      BY <1>0, <1>2 DEF ReaderEnds, ReaderFails, Stops, Mcp
    <2>2. QED
      BY <2>1 DEF Honest
  <1>3. ASSUME NEW a \in Answer, mcp'.answers = Append(mcp.answers, a), mcp.asked \subseteq mcp'.asked,
               a.own => a.id \in mcp'.asked
        PROVE  Honest'
    <2>1. /\ Len(mcp'.answers) = Len(mcp.answers) + 1 /\ mcp'.answers[Len(mcp.answers) + 1] = a
          /\ \A i \in 1..Len(mcp.answers) : mcp'.answers[i] = mcp.answers[i]
      BY <1>0, <1>3
    <2>2. \A i \in 1..Len(mcp'.answers) : i \in 1..Len(mcp.answers) \/ i = Len(mcp.answers) + 1
      BY <1>0, <2>1
    <2>3. QED
      BY <1>3, <2>1, <2>2 DEF Honest
  <1>4. ASSUME NEW id \in Ids, NEW got \in {"ok", "error"}, ServerAnswers(id, got) PROVE Honest'
    <2> DEFINE a == [id |-> id, got |-> got, own |-> FALSE]
    <2>1. a \in Answer /\ ~a.own
      BY BoundsTypes DEF Ids, Answer
    <2>2. mcp' = [mcp EXCEPT !.heard = mcp.heard \ {id}, !.answers = Append(mcp.answers, a)]
      BY <1>4 DEF ServerAnswers
    <2> HIDE DEF a
    <2>3. mcp'.answers = Append(mcp.answers, a) /\ mcp'.asked = mcp.asked
      BY <1>0, <2>2 DEF Mcp
    <2>4. QED
      BY <1>3, <2>1, <2>3
  <1>5. ASSUME NEW id \in OwnIds, ServerAsks(id) PROVE Honest'
    <2> DEFINE a == [id |-> id, got |-> "ok", own |-> TRUE]
    <2>1. a \in Answer /\ a.id = id
      BY OwnIdsAssumption DEF Answer
    <2>2. mcp' = [mcp EXCEPT !.asked = mcp.asked \cup {id}, !.answers = Append(mcp.answers, a)]
      BY <1>5 DEF ServerAsks
    <2> HIDE DEF a
    <2>3. mcp'.answers = Append(mcp.answers, a) /\ mcp'.asked = mcp.asked \cup {id}
      BY <1>0, <2>2 DEF Mcp
    <2>4. QED
      BY <1>3, <2>1, <2>3
  <1>6. CASE mcp' = mcp
    BY <1>6, HonestKept
  <1>7. ASSUME NEW k \in Tasks, Client(k) PROVE Honest'
    <2>1. mcp'.answers = mcp.answers /\ mcp'.asked = mcp.asked
      BY <1>0, <1>7 DEF Client, Begin, Block, Write, TimesOut, Receives, Mcp
    <2>2. QED
      BY <2>1, HonestKept
  <1>8. CASE ServerReads \/ ServerDies
    <2>1. mcp'.answers = mcp.answers /\ mcp'.asked = mcp.asked
      BY <1>0, <1>8 DEF ServerReads, ServerDies, Mcp
    <2>2. QED
      BY <2>1, HonestKept
  <1>9. CASE Boots
    <2>1. mcp' = mcp \/ mcp' = [mcp EXCEPT !.alive = FALSE, !.pipe = <<>>, !.heard = {}]
      BY <1>9 DEF Boots, BootAsks, StartLsp, Connected, Listed, Unlock, FillSlot, BootRest
    <2>2. mcp'.answers = mcp.answers /\ mcp'.asked = mcp.asked
      BY <1>0, <2>1 DEF Mcp
    <2>3. QED
      BY <2>2, HonestKept
  <1>10. ASSUME NEW t \in Turns, CallAborted(t) PROVE Honest'
    <2>1. mcp' = mcp \/ mcp' = [mcp EXCEPT !.lock = None, !.torn = TRUE]
      BY <1>10 DEF CallAborted, Dropped
    <2>2. mcp'.answers = mcp.answers /\ mcp'.asked = mcp.asked
      BY <1>0, <2>1 DEF Mcp
    <2>3. QED
      BY <2>2, HonestKept
  <1>11. ASSUME NEW t \in Turns, \/ Prompt(t) \/ Abort(t) \/ Model(t) \/ LookUp(t) \/ Reply(t) \/ AskAborted(t)
                                 \/ Run(t) \/ CallOver(t)
                                 \/ ReadBack(t) \/ TakeVersion(t) \/ LspBlock(t) \/ Send(t) \/ Settle(t)
         PROVE  mcp' = mcp
    BY <1>11 DEF Prompt, Abort, Model, LookUp, Reply, AskAborted, ReadBack, TakeVersion, LspBlock, Send, Settle,
       Run, CallOver, TurnRest, LspRest, Count
  <1>12. ASSUME Grant \/ LspReads \/ LspDies PROVE mcp' = mcp
    BY <1>12 DEF Grant, LspReads, LspDies, LspRest
  <1>13. CASE UNCHANGED vars
    BY <1>6, <1>13 DEF vars
  <1>14. QED
    BY <1>1, <1>2, <1>4, <1>5, <1>6, <1>7, <1>8, <1>9, <1>10, <1>11, <1>12, <1>13 DEF Next, Goes_on, Reader

LEMMA DroppedPairs == ASSUME Pairing, NEW k \in Tasks, Dropped(k) PROVE Pairing'
  <1>0. /\ McpTypes /\ mcp.next \in Nat /\ mcp.next >= 1 /\ mcp.pending \subseteq Entry /\ dropped \subseteq Nat
        /\ \A l \in Tasks : req[l] \in Req /\ req[l].id \in Nat /\ req[l].id < mcp.next
    BY PairingTypes
  <1>1. mcp' \in Mcp /\ mcp'.next = mcp.next /\ mcp'.asked = mcp.asked /\ mcp'.pending = mcp.pending
    BY <1>0, ReaderMoves
  <1>2. NoReq \in Req /\ NoReq.step = "none" /\ NoReq.id = 0 /\ NoReq.got = "none"
    BY <1>0, Records
  <1>3. req' \in [Tasks -> Req] /\ req'[k] = NoReq /\ \A l \in Tasks \ {k} : req'[l] = req[l]
    BY <1>0, <1>2, Asked DEF Dropped, Asks
  <1>4. dropped' = dropped \cup {req[k].id}
    BY DEF Dropped
  <1>5. McpTypes'
    BY <1>1, <1>3 DEF McpTypes
  <1>6. \A n \in Nat, l \in Tasks : Pend(n, l)' <=> Pend(n, l)
    BY <1>1 DEF Pend
  <1>7. Known'
    BY <1>0, <1>1, <1>4, <1>6 DEF Known, Pairing, Fresh
  <1>8. Apart'
    BY <1>0, <1>2, <1>3 DEF Apart, Pairing, Fresh
  <1>9. ASSUME NEW l \in Tasks PROVE FreshOf(l)' /\ Right(l)'
    <2>1. CASE l = k
      BY <1>0, <1>1, <1>2, <1>3, <2>1 DEF FreshOf, Right, Sent
    <2>2. CASE l # k
      <3>1. Sent(l) => req[l].id # req[k].id
        BY <2>2 DEF Pairing, Fresh, Apart, FreshOf, Sent
      <3>2. QED
        BY <1>1, <1>3, <1>4, <2>2, <3>1 DEF FreshOf, Right, Sent, Pairing, Fresh
    <2>3. QED
      BY <2>1, <2>2
  <1>10. ASSUME NEW n \in Nat, NEW l \in Tasks PROVE (Pend(n, l) /\ n \notin dropped <=> Waits(l) /\ req[l].id = n)'
    <2>0. Pend(n, l) /\ n \notin dropped <=> Waits(l) /\ req[l].id = n
      BY DEF Pairing, Exact
    <2>1. CASE l = k
      <3>1. ~Waits(l)'
        BY <1>2, <1>3, <2>1 DEF Waits
      <3>2. ~(Pend(n, l) /\ n \notin dropped')
        BY <1>4, <2>0, <2>1
      <3>3. QED
        BY <1>6, <3>1, <3>2
    <2>2. CASE l # k
      <3>1. Waits(l) => req[l].id # req[k].id
        BY <2>2 DEF Pairing, Fresh, Apart, FreshOf, Waits
      <3>2. req'[l] = req[l] /\ (Waits(l)' <=> Waits(l))
        BY <1>3, <2>2 DEF Waits
      <3>3. QED
        BY <1>4, <1>6, <2>0, <3>1, <3>2
    <2>3. QED
      BY <2>1, <2>2
  <1>11. QED
    BY <1>5, <1>7, <1>8, <1>9, <1>10 DEF Pairing, Fresh, Exact

-----------------------------------------------------------------------------
(* Who may have a request.                                                    *)

Calls(k) == IF k = Boot THEN boot \in {"init", "list"} ELSE turn[k] = "call"
Owned    == \A k \in Tasks : Calls(k) \/ req[k] = NoReq

LEMMA Asleep == ASSUME McpTypes, Owned, NEW k \in Tasks, ~Calls(k) PROVE req[k] = NoReq /\ req[k].step = "none"
  BY DEF Owned, NoReq

(* Nobody asks anew, and whoever stops to call has nothing left.                   *)
LEMMA OwnersStay ==
  ASSUME Owned, \A k \in Tasks : (req'[k] = req[k] /\ (Calls(k) => Calls(k)')) \/ req'[k] = NoReq \/ Calls(k)'
  PROVE  Owned'
  BY DEF Owned

LEMMA ClientMoves ==
  ASSUME Pairing, NEW k \in Tasks, Client(k)
  PROVE  req[k].step # "none" /\ \A l \in Tasks \ {k} : req'[l] = req[l]
  <1>0. McpTypes
    BY PairingTypes
  <1>1. req[k].step # "none"
    BY DEF Client, Begin, Block, Write, TimesOut, Receives
  <1>2. CASE Block(k)
    BY <1>2 DEF Block
  <1>3. CASE Begin(k)
    <2>1. Asks(k, Writes) /\ Writes \in Req
      BY <1>0, <1>3, Shapes, Records
    <2>2. QED
      BY <1>0, <1>1, <2>1, Asked
  <1>4. CASE Write(k) \/ TimesOut(k) \/ Receives(k)
    <2>1. Step(k, "wait") \/ Step(k, "over") \/ Over(k, "error", 0)
      BY <1>4 DEF Write, TimesOut, Receives
    <2>2. Asks(k, At(k, "wait")) \/ Asks(k, At(k, "over")) \/ Asks(k, Ended(k, "error", 0))
      BY <1>0, <2>1, Shapes
    <2>3. At(k, "wait") \in Req /\ At(k, "over") \in Req /\ Ended(k, "error", 0) \in Req
      BY <1>0, Records DEF ReqSteps
    <2>4. ASSUME NEW r \in Req, Asks(k, r) PROVE \A l \in Tasks \ {k} : req'[l] = req[l]
      BY <1>0, <2>4, Asked
    <2>5. QED
      BY <1>1, <2>2, <2>3, <2>4
  <1>5. QED
    BY <1>1, <1>2, <1>3, <1>4 DEF Client

LEMMA ReaderKeeps ==
  ASSUME Pairing, Reader \/ ReaderFails, NEW k \in Tasks, req[k].step = "none"
  PROVE  req'[k] = req[k]
  <1>0. McpTypes /\ ~Sent(k)
    BY PairingTypes DEF Sent
  <1>1. CASE Route
    <2> DEFINE a == Head(mcp.answers)
               entries == {e \in mcp.pending : e.id = a.id}
    <2>1. a.got \in {"ok", "error"} /\ AnswerOf(a) \in Nat
      BY <1>0, <1>1, RoutedIds
    <2>2. Deliver(entries, a.got, AnswerOf(a))
      BY <1>1 DEF Route
    <2> HIDE DEF a, entries
    <2>3. QED
      BY <1>0, <2>1, <2>2, Delivered DEF Takes
  <1>2. CASE ReaderEnds \/ ReaderFails
    <2>1. Deliver(mcp.pending, "error", 0)
      BY <1>2 DEF ReaderEnds, ReaderFails, Stops
    <2>2. QED
      BY <1>0, <2>1, Delivered DEF Takes
  <1>3. QED
    BY <1>1, <1>2 DEF Reader

LEMMA OwnedStep == Pairing /\ LockInv /\ Owned /\ [Next]_vars => Owned'
  <1> SUFFICES ASSUME Pairing, LockInv, Owned, [Next]_vars PROVE Owned'
    OBVIOUS
  <1>0. McpTypes /\ Boot \notin Turns /\ Tasks = Turns \cup {Boot} /\ Boot \in Tasks
    BY PairingTypes, BoundsTypes
  <1>1. ASSUME NEW k \in Tasks, Client(k) PROVE Owned'
    <2>1. UNCHANGED <<turn, boot>>
      BY <1>1 DEF Client, Begin, Block, Write, TimesOut, Receives, MCP
    <2>2. req[k].step # "none" /\ \A l \in Tasks \ {k} : req'[l] = req[l]
      BY <1>1, ClientMoves
    <2>3. Calls(k)
      BY <1>0, <2>2, Asleep
    <2>4. \A l \in Tasks : Calls(l)' <=> Calls(l)
      BY <2>1 DEF Calls
    <2>5. QED
      BY <2>2, <2>3, <2>4 DEF Owned
  <1>2. CASE Reader \/ ReaderFails
    <2>1. UNCHANGED <<turn, boot>>
      BY <1>2 DEF Reader, Route, ReaderEnds, ReaderFails, Stops, MCP
    <2>2. \A l \in Tasks : Calls(l)' <=> Calls(l)
      BY <2>1 DEF Calls
    <2>3. \A l \in Tasks : ~Calls(l) => req'[l] = req[l]
      BY <1>0, <1>2, Asleep, ReaderKeeps
    <2>4. QED
      BY <2>2, <2>3 DEF Owned
  <1>3. CASE Boots
    <2>1. turn' = turn
      BY <1>3 DEF Boots, BootAsks, StartLsp, Connected, Listed, Unlock, FillSlot, BootRest
    <2>2. \A l \in Turns : req'[l] = req[l]
      <3>1. CASE UNCHANGED req
        BY <3>1
      <3>2. CASE StartLsp
        BY <1>0, <3>2 DEF StartLsp, Step, McpTypes
      <3>3. CASE Connected \/ Listed
        BY <1>0, <3>3 DEF Connected, Listed, McpTypes
      <3>4. QED
        BY <1>3, <3>1, <3>2, <3>3 DEF Boots, BootAsks, Unlock, FillSlot
    <2>3. Calls(Boot)' \/ req'[Boot] = NoReq
      <3>1. CASE BootAsks \/ Unlock \/ FillSlot
        BY <1>0, <3>1, Asleep DEF BootAsks, Unlock, FillSlot, Calls
      <3>2. CASE StartLsp
        BY <3>2 DEF StartLsp, Calls
      <3>3. CASE Connected \/ Listed
        BY <1>0, <3>3 DEF Connected, Listed, McpTypes, Calls
      <3>4. QED
        BY <1>3, <3>1, <3>2, <3>3 DEF Boots
    <2>4. \A l \in Turns : Calls(l)' <=> Calls(l)
      BY <1>0, <2>1 DEF Calls
    <2>5. QED
      BY <1>0, <2>2, <2>3, <2>4 DEF Owned
  <1>4. CASE Grant
    <2>1. req' = req
      BY <1>4 DEF Grant
    <2>2. queue # <<>> /\ queue \in Seq(Tasks) /\ InLine(Head(queue)) /\ Head(queue) \in Tasks
      <3>1. queue # <<>> /\ queue \in Seq(Tasks)
        BY <1>4 DEF Grant, LockInv
      <3>2. 1 \in 1..Len(queue) /\ Head(queue) = queue[1]
        BY <3>1
      <3>3. QED
        BY <3>1, <3>2 DEF LockInv
    <2>3. CASE Head(queue) = Boot
      <3>1. turn' = turn /\ boot = "queued" /\ boot' = "lsp"
        BY <1>4, <2>2, <2>3 DEF Grant, InLine
      <3>2. QED
        BY <2>1, <3>1 DEF Owned, Calls
    <2>4. CASE Head(queue) # Boot
      <3>1. /\ Head(queue) \in Turns /\ turn[Head(queue)] # "call" /\ boot' = boot
            /\ \A u \in Turns \ {Head(queue)} : turn'[u] = turn[u]
        BY <1>0, <1>4, <2>2, <2>4 DEF Grant, InLine, Goes, LockInv
      <3>2. \A l \in Tasks : Calls(l) => Calls(l)'
        BY <1>0, <3>1 DEF Calls
      <3>3. QED
        BY <2>1, <3>2, OwnersStay
    <2>5. QED
      BY <2>3, <2>4
  <1>5. ASSUME NEW t \in Turns, Run(t) PROVE Owned'
    <2>1. turn[t] = "run" /\ boot' = boot
      BY <1>5 DEF Run, TurnRest
    <2>2. \A u \in Turns \ {t} : turn'[u] = turn[u] /\ req'[u] = req[u]
      BY <1>0, <1>5 DEF Run, Finish, Goes, Step, McpTypes, LockInv
    <2>3. req'[Boot] = req[Boot]
      BY <1>0, <1>5 DEF Run, Step, McpTypes
    <2>4. Calls(t)' \/ req'[t] = req[t]
      BY <1>0, <1>5 DEF Run, Goes, Calls, LockInv
    <2>5. req[t] = NoReq
      BY <1>0, <2>1, Asleep DEF Calls
    <2>6. \A l \in Tasks \ {t} : Calls(l)' <=> Calls(l)
      BY <1>0, <2>1, <2>2 DEF Calls
    <2>7. QED
      BY <1>0, <2>2, <2>3, <2>4, <2>5, <2>6 DEF Owned
  <1>6. ASSUME NEW t \in Turns, CallAborted(t) \/ CallOver(t) PROVE Owned'
    <2>1. boot' = boot /\ req' = [req EXCEPT ![t] = NoReq] /\ Goes(t, "idle")
      BY <1>6 DEF CallAborted, CallOver, Dropped, Finish, TurnRest
    <2>2. req'[t] = NoReq /\ \A l \in Tasks \ {t} : req'[l] = req[l]
      BY <1>0, <2>1 DEF McpTypes
    <2>3. \A l \in Tasks \ {t} : Calls(l)' <=> Calls(l)
      BY <1>0, <2>1 DEF Calls, Goes, LockInv
    <2>4. QED
      BY <2>2, <2>3 DEF Owned
  <1>7. ASSUME NEW t \in Turns, turn[t] # "call", req' = req, boot' = boot, \E step : Goes(t, step) PROVE Owned'
    <2>1. \A u \in Turns \ {t} : turn'[u] = turn[u]
      BY <1>7 DEF Goes, LockInv
    <2>2. \A l \in Tasks : Calls(l) => Calls(l)'
      BY <1>0, <1>7, <2>1 DEF Calls
    <2>3. QED
      BY <1>7, <2>2, OwnersStay
  <1>8. ASSUME NEW t \in Turns, \/ Prompt(t) \/ Model(t) \/ LookUp(t) \/ Reply(t) \/ AskAborted(t)
                                \/ ReadBack(t) \/ TakeVersion(t) \/ Send(t) \/ Settle(t)
        PROVE  Owned'
    <2>1. turn[t] # "call" /\ req' = req /\ boot' = boot
      BY <1>8 DEF Prompt, Model, LookUp, Reply, AskAborted, ReadBack, TakeVersion, Send, Settle, TurnRest, LspRest
    <2>2. \/ UNCHANGED turn
          \/ \E step : Goes(t, step)
      BY <1>8 DEF Prompt, Model, LookUp, Reply, AskAborted, ReadBack, TakeVersion, Send, Settle, Finish
    <2>3. CASE UNCHANGED turn
      BY <2>1, <2>3 DEF Owned, Calls
    <2>4. QED
      BY <1>7, <2>1, <2>2, <2>3
  <1>9. CASE UNCHANGED <<req, turn, boot>>
    BY <1>9 DEF Owned, Calls
  <1>10. ASSUME NEW t \in Turns, Abort(t) \/ LspBlock(t) PROVE UNCHANGED <<req, turn, boot>>
    BY <1>10 DEF Abort, LspBlock, TurnRest, LspRest, OfTurn
  <1>11. ASSUME ServerReads \/ ServerDies \/ LspReads \/ LspDies
                \/ (\E id \in Ids, got \in {"ok", "error"} : ServerAnswers(id, got))
                \/ (\E id \in OwnIds : ServerAsks(id))
         PROVE  UNCHANGED <<req, turn, boot>>
    BY <1>11 DEF ServerReads, ServerDies, LspReads, LspDies, ServerAnswers, ServerAsks, MCP, LspRest, OfTurn
  <1>12. CASE UNCHANGED vars
    BY <1>9, <1>12 DEF vars
  <1>13. QED
    BY <1>1, <1>2, <1>3, <1>4, <1>5, <1>6, <1>8, <1>9, <1>10, <1>11, <1>12 DEF Next, Goes_on

LEMMA Tableless ==
  ASSUME Pairing, NEW k \in Tasks, ~Waits(k), Asks(k, Begins) \/ Asks(k, NoReq), dropped' = dropped,
         mcp' = mcp \/ mcp' = [mcp EXCEPT !.alive = FALSE, !.pipe = <<>>, !.heard = {}]
  PROVE  Pairing'
  <1>0. McpTypes
    BY PairingTypes
  <1>1. mcp' \in Mcp /\ mcp'.next = mcp.next /\ mcp'.asked = mcp.asked /\ mcp'.pending = mcp.pending
    BY <1>0, ReaderMoves DEF McpTypes
  <1>2. /\ Begins \in Req /\ Begins.step = "begin" /\ Begins.id = 0 /\ Begins.got = "none"
        /\ NoReq \in Req /\ NoReq.step = "none" /\ NoReq.id = 0 /\ NoReq.got = "none"
    BY <1>0, Records
  <1>3. CASE Asks(k, Begins)
    <2>1. ~(Begins.step \in {"write", "wait"}) /\ ~(Begins.step \in {"write", "wait", "over"})
          /\ Begins.step \in {"none", "begin"} /\ ~(Begins.got = "ok")
      BY <1>2
    <2>2. QED
      BY <1>1, <1>2, <1>3, <2>1, OneRequest
  <1>4. CASE Asks(k, NoReq)
    <2>1. ~(NoReq.step \in {"write", "wait"}) /\ ~(NoReq.step \in {"write", "wait", "over"})
          /\ NoReq.step \in {"none", "begin"} /\ ~(NoReq.got = "ok")
      BY <1>2
    <2>2. QED
      BY <1>1, <1>2, <1>4, <2>1, OneRequest
  <1>5. QED
    BY <1>3, <1>4

LEMMA ClientPairs == ASSUME Pairing, NEW k \in Tasks, Client(k) PROVE Pairing'
  <1>0. McpTypes
    BY PairingTypes
  <1>1. CASE Block(k)
    <2>1. req' = req /\ dropped' = dropped
      BY <1>1 DEF Block, MCP
    <2>2. mcp' \in Mcp /\ mcp'.next = mcp.next /\ mcp'.asked = mcp.asked /\ mcp'.pending = mcp.pending
      BY <1>0, <1>1, McpMoves
    <2>3. QED
      BY <2>1, <2>2, NoRequest
  <1> DEFINE w == At(k, "wait")
             v == At(k, "over")
             e == Ended(k, "error", 0)
  <1>2. /\ w \in Req /\ w.step = "wait" /\ w.id = req[k].id /\ w.got = req[k].got /\ w.of = req[k].of
        /\ v \in Req /\ v.step = "over" /\ v.id = req[k].id /\ v.got = req[k].got /\ v.of = req[k].of
        /\ e \in Req /\ e.step = "over" /\ e.id = req[k].id /\ e.got = "error"
    BY <1>0, Records DEF ReqSteps
  <1>3. /\ Step(k, "wait") => Asks(k, w)
        /\ Step(k, "over") => Asks(k, v)
        /\ Over(k, "error", 0) => Asks(k, e)
    BY <1>0, Shapes
  <1>4. FreshOf(k) /\ Right(k) /\ req[k].id \in Nat
    BY PairingTypes DEF Pairing, Fresh
  <1> HIDE DEF w, v, e
  <1>5. CASE Write(k)
    <2>1. /\ mcp' \in Mcp /\ mcp'.next = mcp.next /\ mcp'.asked = mcp.asked /\ dropped' = dropped /\ req[k].step = "write"
          /\ mcp.alive => mcp'.pending = mcp.pending
          /\ ~mcp.alive => mcp'.pending = mcp.pending \ Entries(k)
      BY <1>0, <1>5, McpMoves DEF Write, MCP
    <2>2. Sent(k) /\ req[k].id # 0 /\ (Waits(k) <=> req[k].got = "none")
      BY <1>4, <2>1 DEF Sent, FreshOf, Waits
    <2>3. CASE mcp.alive
      <3>1. Asks(k, w) /\ mcp'.pending = mcp.pending
        BY <1>3, <1>5, <2>1, <2>3 DEF Write
      <3>2. w.step \in {"write", "wait"} /\ w.got = "none" <=> Waits(k)
        BY <1>2, <2>2
      <3>3. w.got = "ok" => w.of = w.id \/ w.id \in mcp.asked
        BY <1>2, <1>4 DEF Right
      <3>4. QED
        BY <1>2, <2>1, <2>2, <3>1, <3>2, <3>3, OneRequest
    <2>4. CASE ~mcp.alive
      <3>1. Asks(k, e) /\ mcp'.pending = mcp.pending \ Entries(k)
        BY <1>3, <1>5, <2>1, <2>4 DEF Write
      <3>2. ~(e.step \in {"write", "wait"}) /\ ~(e.got = "ok")
        BY <1>2
      <3>3. QED
        BY <1>2, <2>1, <2>2, <3>1, <3>2, OneRequest
    <2>5. QED
      BY <2>3, <2>4
  <1>6. CASE TimesOut(k)
    <2>1. /\ mcp' \in Mcp /\ mcp'.next = mcp.next /\ mcp'.asked = mcp.asked /\ dropped' = dropped /\ req[k].step = "wait"
          /\ mcp'.pending = mcp.pending \ Entries(k)
      BY <1>0, <1>6, McpMoves DEF TimesOut, MCP
    <2>2. Sent(k) /\ req[k].id # 0
      BY <1>4, <2>1 DEF Sent, FreshOf
    <2>3. Asks(k, e)
      BY <1>3, <1>6 DEF TimesOut
    <2>4. ~(e.step \in {"write", "wait"}) /\ ~(e.got = "ok")
      BY <1>2
    <2>5. QED
      BY <1>2, <2>1, <2>2, <2>3, <2>4, OneRequest
  <1>7. CASE Receives(k)
    <2>1. /\ mcp' = mcp /\ dropped' = dropped /\ req[k].step = "wait" /\ req[k].got # "none"
          /\ Asks(k, v)
      BY <1>3, <1>7 DEF Receives, MCP
    <2>2. mcp' \in Mcp /\ mcp'.next = mcp.next /\ mcp'.asked = mcp.asked /\ mcp'.pending = mcp.pending
      BY <1>0, <2>1 DEF McpTypes
    <2>3. req[k].id # 0 /\ ~Waits(k)
      BY <1>4, <2>1 DEF FreshOf, Waits
    <2>4. v.step \in {"write", "wait"} /\ v.got = "none" <=> Waits(k)
      BY <1>2, <2>3
    <2>5. v.got = "ok" => v.of = v.id \/ v.id \in mcp.asked
      BY <1>2, <1>4 DEF Right
    <2>6. ~(v.step \in {"none", "begin"}) /\ ~(v.step \in {"write", "wait"})
      BY <1>2
    <2>7. QED
      BY <1>2, <2>1, <2>2, <2>3, <2>4, <2>5, <2>6, OneRequest
  <1>8. QED
    BY <1>1, <1>5, <1>6, <1>7, BeginPairs DEF Client

LEMMA PairingStep == Pairing /\ Honest /\ LockInv /\ Owned /\ [Next]_vars => Pairing'
  <1> SUFFICES ASSUME Pairing, Honest, LockInv, Owned, [Next]_vars PROVE Pairing'
    OBVIOUS
  <1>0. McpTypes /\ Boot \notin Turns /\ Tasks = Turns \cup {Boot} /\ Boot \in Tasks /\ mcp \in Mcp
    BY PairingTypes, BoundsTypes DEF McpTypes
  <1>1. CASE Boots
    <2>1. CASE StartLsp
      <3>1. req[Boot] = NoReq
        BY <1>0, <2>1, Asleep DEF StartLsp, Calls
      <3>2. ~Waits(Boot)
        BY <3>1 DEF Waits, NoReq
      <3>3. Asks(Boot, Begins)
        BY <1>0, <2>1, <3>1 DEF StartLsp, Step, Asks, Begins, McpTypes
      <3>4. QED
        BY <1>0, <2>1, <3>2, <3>3, Tableless DEF StartLsp, BootRest
    <2>2. CASE Connected \/ Listed
      <3>1. Asks(Boot, Begins) \/ Asks(Boot, NoReq)
        BY <2>2 DEF Connected, Listed, Asks, Begins
      <3>2. ~Waits(Boot)
        BY <2>2 DEF Connected, Listed, Waits
      <3>3. mcp' = mcp \/ mcp' = [mcp EXCEPT !.alive = FALSE, !.pipe = <<>>, !.heard = {}]
        BY <2>2 DEF Connected, Listed
      <3>4. QED
        BY <1>0, <2>2, <3>1, <3>2, <3>3, Tableless DEF Connected, Listed, BootRest
    <2>3. CASE BootAsks \/ Unlock \/ FillSlot
      BY <1>0, <2>3, NoRequest DEF BootAsks, Unlock, FillSlot, BootRest
    <2>4. QED
      BY <1>1, <2>1, <2>2, <2>3 DEF Boots
  <1>2. ASSUME NEW t \in Turns, Run(t) PROVE Pairing'
    <2>1. mcp' = mcp /\ dropped' = dropped /\ turn[t] = "run"
      BY <1>2 DEF Run, Count
    <2>2. req[t] = NoReq
      BY <1>0, <2>1, Asleep DEF Calls
    <2>3. req' = req \/ Asks(t, Begins)
      BY <1>0, <1>2, <2>2 DEF Run, Step, Asks, Begins, McpTypes
    <2>4. ~Waits(t)
      BY <2>2 DEF Waits, NoReq
    <2>5. QED
      BY <1>0, <2>1, <2>3, <2>4, NoRequest, Tableless
  <1>3. ASSUME NEW t \in Turns, CallAborted(t) PROVE Pairing'
    BY <1>0, <1>3, DroppedPairs DEF CallAborted
  <1>4. ASSUME NEW t \in Turns, CallOver(t) PROVE Pairing'
    <2>1. ~Waits(t) /\ Asks(t, NoReq) /\ mcp' = mcp /\ dropped' = dropped
      BY <1>4 DEF CallOver, Waits, Asks, Count
    <2>2. QED
      BY <1>0, <2>1, Tableless
  <1>5. CASE ServerReads \/ ServerDies \/ (\E id \in Ids, got \in {"ok", "error"} : ServerAnswers(id, got))
    <2>1. mcp' \in Mcp /\ mcp'.next = mcp.next /\ mcp'.asked = mcp.asked /\ mcp'.pending = mcp.pending
      BY <1>0, <1>5, ReaderMoves DEF ServerDies
    <2>2. req' = req /\ dropped' = dropped
      BY <1>5 DEF ServerReads, ServerDies, ServerAnswers, MCP
    <2>3. QED
      BY <2>1, <2>2, NoRequest
  <1>11. ASSUME NEW id \in OwnIds, ServerAsks(id) PROVE Pairing'
    <2>1. /\ mcp' \in Mcp /\ mcp'.next = mcp.next /\ mcp'.pending = mcp.pending
          /\ mcp.asked \subseteq mcp'.asked
      BY <1>0, <1>11, ReaderMoves
    <2>2. req' = req /\ dropped' = dropped
      BY <1>11 DEF ServerAsks, MCP
    <2>3. QED
      BY <2>1, <2>2, NoRequest
  <1>6. CASE UNCHANGED <<mcp, req, dropped>>
    BY <1>0, <1>6, NoRequest
  <1>7. ASSUME NEW t \in Turns, \/ Prompt(t) \/ Abort(t) \/ Model(t) \/ LookUp(t) \/ Reply(t) \/ AskAborted(t)
                                \/ ReadBack(t) \/ TakeVersion(t) \/ LspBlock(t) \/ Send(t) \/ Settle(t)
        PROVE  UNCHANGED <<mcp, req, dropped>>
    BY <1>7 DEF Prompt, Abort, Model, LookUp, Reply, AskAborted, ReadBack, TakeVersion, LspBlock, Send, Settle,
       TurnRest, LspRest, Count
  <1>8. ASSUME Grant \/ LspReads \/ LspDies PROVE UNCHANGED <<mcp, req, dropped>>
    BY <1>8 DEF Grant, LspReads, LspDies, LspRest
  <1>9. CASE UNCHANGED vars
    BY <1>6, <1>9 DEF vars
  <1>10. QED
    BY <1>1, <1>2, <1>3, <1>4, <1>5, <1>6, <1>7, <1>8, <1>9, <1>11, <1>0, ClientPairs, ReaderPairs DEF Next, Goes_on

-----------------------------------------------------------------------------
(* What is in the pipe to the server.                                          *)

Piped == Len(mcp.pipe) <= Room /\ \A i \in 1..Len(mcp.pipe) : mcp.pipe[i] < mcp.next

LEMMA PipeKept ==
  ASSUME Pairing, Piped, mcp' \in Mcp, mcp'.next >= mcp.next, mcp'.pipe = mcp.pipe \/ mcp'.pipe = <<>>
  PROVE  Piped'
  <1>1. mcp.pipe \in Seq(Nat) /\ mcp.next \in Nat /\ mcp'.next \in Nat /\ Room \in Nat
    BY PairingTypes, Fields, BoundsTypes DEF Mcp
  <1>2. CASE mcp'.pipe = mcp.pipe
    <2>1. \A i \in 1..Len(mcp.pipe) : mcp.pipe[i] \in Nat /\ mcp.pipe[i] < mcp'.next
      BY <1>1 DEF Piped
    <2>2. QED
      BY <1>2, <2>1 DEF Piped
  <1>3. CASE mcp'.pipe = <<>>
    BY <1>1, <1>3 DEF Piped
  <1>4. QED
    BY <1>2, <1>3

LEMMA PipeStep == Pairing /\ Piped /\ [Next]_vars => Piped'
  <1> SUFFICES ASSUME Pairing, Piped, [Next]_vars PROVE Piped'
    OBVIOUS
  <1>0. /\ McpTypes /\ mcp \in Mcp /\ mcp.next \in Nat /\ mcp.pipe \in Seq(Nat) /\ Room \in Nat
        /\ mcp.next >= 1 /\ \A k \in Tasks : req[k].id \in Nat /\ req[k].id < mcp.next
    BY PairingTypes, Fields, BoundsTypes DEF McpTypes
  <1>1. ASSUME NEW k \in Tasks, Begin(k) PROVE Piped'
    <2>1. mcp' \in Mcp /\ mcp'.next = mcp.next + 1 /\ mcp'.pipe = mcp.pipe
      BY <1>0, <1>1, McpMoves
    <2>2. QED
      BY <1>0, <2>1, PipeKept
  <1>2. ASSUME NEW k \in Tasks, Block(k) \/ TimesOut(k) \/ Receives(k) PROVE Piped'
    <2>1. mcp' \in Mcp /\ mcp'.next = mcp.next /\ mcp'.pipe = mcp.pipe
      BY <1>0, <1>2, McpMoves DEF Receives
    <2>2. QED
      BY <1>0, <2>1, PipeKept
  <1>3. ASSUME NEW k \in Tasks, Write(k) PROVE Piped'
    <2>1. mcp' \in Mcp /\ mcp'.next = mcp.next
      BY <1>0, <1>3, McpMoves
    <2>2. CASE ~mcp.alive
      BY <1>0, <1>3, <2>1, <2>2, McpMoves, PipeKept
    <2>3. CASE mcp.alive
      <3> DEFINE x == IF mcp.torn THEN Garbage ELSE req[k].id
      <3>1. mcp'.pipe = Append(mcp.pipe, x) /\ Len(mcp.pipe) < Room
        <4>1. mcp'.pipe = Append(mcp.pipe, x)
          BY <1>0, <1>3, <2>3, McpMoves
        <4>2. ~Full(mcp.pipe) /\ Len(mcp.pipe) \in Nat
          BY <1>0, <1>3, <2>3 DEF Write
        <4>3. QED
          BY <1>0, <4>1, <4>2 DEF Full
      <3>2. x \in Nat /\ x < mcp.next
        BY <1>0 DEF Garbage
      <3> HIDE DEF x
      <3>3. /\ Len(mcp'.pipe) = Len(mcp.pipe) + 1 /\ mcp'.pipe[Len(mcp.pipe) + 1] = x
            /\ \A i \in 1..Len(mcp.pipe) : mcp'.pipe[i] = mcp.pipe[i]
        BY <1>0, <3>1, <3>2
      <3>4. ASSUME NEW i \in 1..Len(mcp'.pipe) PROVE mcp'.pipe[i] < mcp'.next
        <4>1. i \in 1..Len(mcp.pipe) \/ i = Len(mcp.pipe) + 1
          BY <1>0, <3>3
        <4>2. QED
          BY <2>1, <3>2, <3>3, <4>1 DEF Piped
      <3>5. QED
        BY <1>0, <3>1, <3>3, <3>4 DEF Piped
    <2>4. QED
      BY <2>2, <2>3
  <1>4. CASE \/ Reader \/ ReaderFails \/ ServerDies
             \/ (\E id \in Ids, got \in {"ok", "error"} : ServerAnswers(id, got))
             \/ \E id \in OwnIds : ServerAsks(id)
    <2>1. mcp' \in Mcp /\ mcp'.next = mcp.next /\ (mcp'.pipe = mcp.pipe \/ mcp'.pipe = <<>>)
      BY <1>0, <1>4, ReaderMoves DEF Reader, ReaderEnds, ReaderFails, ServerDies
    <2>2. QED
      BY <1>0, <2>1, PipeKept
  <1>5. CASE ServerReads
    <2>1. mcp' \in Mcp /\ mcp'.next = mcp.next /\ mcp'.pipe = Tail(mcp.pipe) /\ mcp.pipe # <<>>
      BY <1>0, <1>5, ReaderMoves
    <2>2. /\ Len(mcp'.pipe) = Len(mcp.pipe) - 1
          /\ \A i \in 1..Len(mcp'.pipe) : mcp'.pipe[i] = mcp.pipe[i + 1]
      BY <1>0, <2>1, HeadTailProperties
    <2>3. \A i \in 1..Len(mcp'.pipe) : i + 1 \in 1..Len(mcp.pipe)
      BY <1>0, <2>2
    <2>4. QED
      BY <1>0, <2>1, <2>2, <2>3 DEF Piped
  <1>6. CASE Boots
    <2>1. mcp' = mcp \/ mcp' = [mcp EXCEPT !.alive = FALSE, !.pipe = <<>>, !.heard = {}]
      BY <1>6 DEF Boots, BootAsks, StartLsp, Connected, Listed, Unlock, FillSlot, BootRest
    <2>2. mcp' \in Mcp /\ mcp'.next = mcp.next /\ (mcp'.pipe = mcp.pipe \/ mcp'.pipe = <<>>)
      BY <1>0, <2>1, ReaderMoves
    <2>3. QED
      BY <1>0, <2>2, PipeKept
  <1>7. ASSUME NEW t \in Turns, CallAborted(t) PROVE Piped'
    <2>1. mcp' \in Mcp /\ mcp'.next = mcp.next /\ mcp'.pipe = mcp.pipe
      BY <1>0, <1>7, BoundsTypes, ReaderMoves DEF CallAborted
    <2>2. QED
      BY <1>0, <2>1, PipeKept
  <1>8. CASE mcp' = mcp
    BY <1>0, <1>8, PipeKept
  <1>9. ASSUME NEW t \in Turns, \/ Prompt(t) \/ Abort(t) \/ Model(t) \/ LookUp(t) \/ Reply(t) \/ AskAborted(t)
                                \/ Run(t) \/ CallOver(t)
                                \/ ReadBack(t) \/ TakeVersion(t) \/ LspBlock(t) \/ Send(t) \/ Settle(t)
        PROVE  mcp' = mcp
    BY <1>9 DEF Prompt, Abort, Model, LookUp, Reply, AskAborted, ReadBack, TakeVersion, LspBlock, Send, Settle,
       Run, CallOver, TurnRest, LspRest, Count
  <1>10. ASSUME Grant \/ LspReads \/ LspDies PROVE mcp' = mcp
    BY <1>10 DEF Grant, LspReads, LspDies, LspRest
  <1>11. CASE UNCHANGED vars
    BY <1>8, <1>11 DEF vars
  <1>12. QED
    BY <1>1, <1>2, <1>3, <1>4, <1>5, <1>6, <1>7, <1>8, <1>9, <1>10, <1>11 DEF Next, Goes_on, Client

-----------------------------------------------------------------------------
(* How many requests and texts there can be.                                    *)

(* The turns that may yet make a request or write the file.                       *)
Ahead   == {"schemas", "model", "guard", "held", "ask", "run"}
Due(t)  == turn[t] \in Ahead \/ req[t].step = "begin"
Asking  == {t \in Turns : Due(t)}
Booting == (IF boot \in {"start", "queued", "lsp"} THEN 2 ELSE IF boot = "init" THEN 1 ELSE 0)
           + (IF req[Boot].step = "begin" THEN 1 ELSE 0)

Tally ==
    /\ IsFiniteSet(Asking) /\ file \in Nat /\ prompts \in Nat /\ prompts <= MaxPrompts
    /\ file + Cardinality(Asking) <= prompts
    /\ mcp.next + Cardinality(Asking) + Booting <= prompts + 3

LEMMA NoneMore ==
  ASSUME Pairing, Tally, \A t \in Turns : Due(t)' => Due(t), Booting' <= Booting,
         mcp'.next = mcp.next, file' = file, prompts' = prompts
  PROVE  Tally'
  <1>1. Asking' \in SUBSET Asking
    BY DEF Asking
  <1>2. IsFiniteSet(Asking') /\ Cardinality(Asking') <= Cardinality(Asking)
    BY <1>1, FS_Subset DEF Tally
  <1>3. Cardinality(Asking) \in Nat /\ Cardinality(Asking') \in Nat
    BY <1>2, FS_CardinalityType DEF Tally
  <1>4. Booting \in Nat /\ Booting' \in Nat /\ mcp.next \in Nat /\ MaxPrompts \in Nat
    BY PairingTypes, BoundsTypes DEF Booting
  <1>5. QED
    BY <1>2, <1>3, <1>4 DEF Tally

LEMMA OneLess ==
  ASSUME Pairing, Tally, NEW t \in Turns, Due(t), ~Due(t)', \A u \in Turns \ {t} : Due(u)' => Due(u),
         Booting' = Booting, mcp'.next \in Nat, mcp'.next <= mcp.next + 1, file' \in Nat, file' <= file + 1,
         prompts' = prompts
  PROVE  Tally'
  <1>1. Asking' \in SUBSET (Asking \ {t}) /\ t \in Asking
    BY DEF Asking
  <1>2. IsFiniteSet(Asking \ {t}) /\ Cardinality(Asking \ {t}) = Cardinality(Asking) - 1
    BY <1>1, FS_RemoveElement DEF Tally
  <1>3. IsFiniteSet(Asking') /\ Cardinality(Asking') <= Cardinality(Asking) - 1
    BY <1>1, <1>2, FS_Subset
  <1>4. Cardinality(Asking) \in Nat /\ Cardinality(Asking') \in Nat
    BY <1>3, FS_CardinalityType DEF Tally
  <1>5. Booting \in Nat /\ mcp.next \in Nat /\ MaxPrompts \in Nat
    BY PairingTypes, BoundsTypes DEF Booting
  <1>6. QED
    BY <1>3, <1>4, <1>5 DEF Tally

LEMMA OneMore ==
  ASSUME Pairing, Tally, NEW t \in Turns, \A u \in Turns \ {t} : Due(u)' => Due(u),
         Booting' = Booting, mcp'.next = mcp.next, file' = file, prompts' = prompts + 1, prompts < MaxPrompts
  PROVE  Tally'
  <1>1. Asking' \in SUBSET (Asking \cup {t})
    BY DEF Asking
  <1>2. IsFiniteSet(Asking \cup {t}) /\ Cardinality(Asking) \in Nat
        /\ Cardinality(Asking \cup {t}) <= Cardinality(Asking) + 1
    <2>1. IsFiniteSet(Asking)
      BY DEF Tally
    <2>2. Cardinality(Asking) \in Nat
      BY <2>1, FS_CardinalityType
    <2>3. /\ IsFiniteSet(Asking \cup {t})
          /\ Cardinality(Asking \cup {t}) = IF t \in Asking THEN Cardinality(Asking) ELSE Cardinality(Asking) + 1
      BY <2>1, FS_AddElement
    <2>4. QED
      BY <2>2, <2>3
  <1>3. IsFiniteSet(Asking') /\ Cardinality(Asking') <= Cardinality(Asking \cup {t})
    BY <1>1, <1>2, FS_Subset
  <1>4. Cardinality(Asking') \in Nat /\ Cardinality(Asking \cup {t}) \in Nat
    BY <1>2, <1>3, FS_CardinalityType
  <1>5. Booting \in Nat /\ mcp.next \in Nat /\ MaxPrompts \in Nat
    BY PairingTypes, BoundsTypes DEF Booting
  <1>6. QED
    BY <1>2, <1>3, <1>4, <1>5 DEF Tally

(* Beyond the start, a request of the client's own only leaves "begin".              *)
LEMMA ClientSteps ==
  ASSUME Pairing, NEW k \in Tasks, Client(k)
  PROVE  /\ req'[k].step # "begin" \/ req'[k].step = req[k].step
         /\ Begin(k) => req[k].step = "begin" /\ req'[k].step # "begin"
         /\ ~Begin(k) => mcp'.next = mcp.next
  <1>0. McpTypes
    BY PairingTypes
  <1>1. CASE Block(k)
    BY <1>0, <1>1, McpMoves DEF Block, Begin
  <1>2. CASE Begin(k)
    <2>1. Asks(k, Writes) /\ Writes \in Req /\ Writes.step = "write"
      BY <1>0, <1>2, Shapes, Records
    <2>2. req'[k] = Writes
      BY <1>0, <2>1, Asked
    <2>3. QED
      BY <1>2, <2>1, <2>2 DEF Begin
  <1>3. CASE Write(k) \/ TimesOut(k) \/ Receives(k)
    <2>1. Step(k, "wait") \/ Step(k, "over") \/ Over(k, "error", 0)
      BY <1>3 DEF Write, TimesOut, Receives
    <2>2. Asks(k, At(k, "wait")) \/ Asks(k, At(k, "over")) \/ Asks(k, Ended(k, "error", 0))
      BY <1>0, <2>1, Shapes
    <2>3. /\ At(k, "wait") \in Req /\ At(k, "over") \in Req /\ Ended(k, "error", 0) \in Req
          /\ At(k, "wait").step = "wait" /\ At(k, "over").step = "over" /\ Ended(k, "error", 0).step = "over"
      BY <1>0, Records DEF ReqSteps
    <2>4. ASSUME NEW r \in Req, Asks(k, r) PROVE req'[k] = r
      BY <1>0, <2>4, Asked
    <2>5. req'[k].step # "begin"
      BY <2>2, <2>3, <2>4
    <2>6. mcp'.next = mcp.next
      BY <1>0, <1>3, McpMoves DEF Receives
    <2>7. ~Begin(k)
      BY <1>3 DEF Begin, Write, TimesOut, Receives
    <2>8. QED
      BY <2>5, <2>6, <2>7
  <1>4. QED
    BY <1>1, <1>2, <1>3 DEF Client

LEMMA ReaderSteps ==
  ASSUME Pairing, Reader \/ ReaderFails
  PROVE  mcp'.next = mcp.next /\ \A k \in Tasks : req'[k].step = req[k].step
  <1>0. McpTypes
    BY PairingTypes
  <1>1. CASE Route
    <2> DEFINE a == Head(mcp.answers)
               entries == {e \in mcp.pending : e.id = a.id}
    <2>1. a.got \in {"ok", "error"} /\ AnswerOf(a) \in Nat /\ mcp'.next = mcp.next
      BY <1>0, <1>1, RoutedIds, ReaderMoves
    <2>2. Deliver(entries, a.got, AnswerOf(a))
      BY <1>1 DEF Route
    <2> HIDE DEF a, entries
    <2>3. QED
      BY <1>0, <2>1, <2>2, Delivered
  <1>2. CASE ReaderEnds \/ ReaderFails
    <2>1. Stops
      BY <1>2 DEF ReaderEnds, ReaderFails
    <2>2. Deliver(mcp.pending, "error", 0) /\ mcp'.next = mcp.next
      BY <1>0, <2>1, ReaderMoves DEF Stops
    <2>3. QED
      BY <1>0, <2>2, Delivered
  <1>3. QED
    BY <1>1, <1>2 DEF Reader

LEMMA TallyStep == Pairing /\ LockInv /\ Owned /\ Tally /\ [Next]_vars => Tally'
  <1> SUFFICES ASSUME Pairing, LockInv, Owned, Tally, [Next]_vars PROVE Tally'
    OBVIOUS
  <1>0. /\ McpTypes /\ Boot \notin Turns /\ Tasks = Turns \cup {Boot} /\ Boot \in Tasks /\ mcp \in Mcp
        /\ mcp.next \in Nat /\ turn \in [Turns -> TurnSteps] /\ boot \in BootSteps
        /\ file \in Nat /\ prompts \in Nat
    BY PairingTypes, BoundsTypes DEF McpTypes, LockInv, Tally
  <1>1. ASSUME NEW k \in Tasks, Client(k) PROVE Tally'
    <2>0. UNCHANGED <<turn, boot, file, prompts>>
      BY <1>1 DEF Client, Begin, Block, Write, TimesOut, Receives, MCP
    <2>1. /\ \A l \in Tasks \ {k} : req'[l] = req[l]
          /\ req'[k].step # "begin" \/ req'[k].step = req[k].step
          /\ Begin(k) => req[k].step = "begin" /\ req'[k].step # "begin"
          /\ ~Begin(k) => mcp'.next = mcp.next
      BY <1>1, ClientMoves, ClientSteps
    <2>2. CASE ~Begin(k)
      <3>1. \A t \in Turns : Due(t)' => Due(t)
        BY <1>0, <2>0, <2>1 DEF Due
      <3>2. Booting' <= Booting
        BY <1>0, <2>0, <2>1 DEF Booting
      <3>3. QED
        BY <2>0, <2>1, <2>2, <3>1, <3>2, NoneMore
    <2>3. CASE Begin(k)
      <3>0. mcp'.next = mcp.next + 1 /\ req[k].step = "begin" /\ req'[k].step # "begin"
        BY <1>0, <2>1, <2>3, McpMoves
      <3>1. CASE k \in Turns
        <4>1. turn[k] = "call"
          BY <1>0, <3>0, <3>1, Asleep DEF Calls
        <4>2. Due(k) /\ ~Due(k)' /\ \A u \in Turns \ {k} : Due(u)' => Due(u)
          BY <1>0, <2>0, <2>1, <3>0, <3>1, <4>1 DEF Due, Ahead
        <4>3. Booting' = Booting
          BY <1>0, <2>0, <2>1, <3>1 DEF Booting
        <4>4. QED
          BY <1>0, <2>0, <3>0, <3>1, <4>2, <4>3, OneLess
      <3>2. CASE k = Boot
        <4>1. \A t \in Turns : Due(t)' <=> Due(t)
          BY <1>0, <2>0, <2>1, <3>2 DEF Due
        <4>2. Asking' = Asking
          BY <4>1 DEF Asking
        <4>3. Booting \in Nat /\ Booting' = Booting - 1
          BY <1>0, <2>0, <3>0, <3>2 DEF Booting
        <4>4. Cardinality(Asking) \in Nat
          BY FS_CardinalityType DEF Tally
        <4>5. QED
          BY <1>0, <2>0, <3>0, <4>2, <4>3, <4>4 DEF Tally
      <3>3. QED
        BY <1>0, <3>1, <3>2
    <2>4. QED
      BY <2>2, <2>3
  <1>2. CASE Reader \/ ReaderFails
    <2>1. UNCHANGED <<turn, boot, file, prompts>>
      BY <1>2 DEF Reader, Route, ReaderEnds, ReaderFails, Stops, MCP
    <2>2. mcp'.next = mcp.next /\ \A k \in Tasks : req'[k].step = req[k].step
      BY <1>2, ReaderSteps
    <2>3. (\A t \in Turns : Due(t)' => Due(t)) /\ Booting' <= Booting
      BY <1>0, <2>1, <2>2 DEF Due, Booting
    <2>4. QED
      BY <2>1, <2>2, <2>3, NoneMore
  <1>3. CASE Boots
    <2>1. UNCHANGED <<turn, file, prompts>>
      BY <1>3 DEF Boots, BootAsks, StartLsp, Connected, Listed, Unlock, FillSlot, BootRest
    <2>2. mcp'.next = mcp.next
      <3>1. mcp' = mcp \/ mcp' = [mcp EXCEPT !.alive = FALSE, !.pipe = <<>>, !.heard = {}]
        BY <1>3 DEF Boots, BootAsks, StartLsp, Connected, Listed, Unlock, FillSlot, BootRest
      <3>2. QED
        BY <1>0, <3>1, ReaderMoves
    <2>3. (\A t \in Turns : req'[t] = req[t]) /\ Booting' <= Booting
      <3>0. /\ Begins \in Req /\ Begins.step = "begin" /\ NoReq \in Req /\ NoReq.step = "none"
        BY <1>0, Records
      <3>1. CASE BootAsks \/ Unlock \/ FillSlot
        BY <1>0, <3>1 DEF BootAsks, Unlock, FillSlot, Booting
      <3>2. CASE StartLsp
        <4>1. req[Boot].step = "none"
          BY <1>0, <3>2, Asleep DEF StartLsp, Calls
        <4>2. boot = "lsp" /\ boot' = "init" /\ \A t \in Turns : req'[t] = req[t]
          BY <1>0, <3>2 DEF StartLsp, Step, McpTypes
        <4>3. QED
          BY <1>0, <4>1, <4>2 DEF Booting
      <3>3. CASE Connected
        <4>1. /\ boot = "init" /\ req[Boot].step = "over" /\ \A t \in Turns : req'[t] = req[t]
              /\ boot' \in {"list", "unlock"}
          BY <1>0, <3>3 DEF Connected, McpTypes
        <4>2. QED
          BY <1>0, <4>1 DEF Booting
      <3>4. CASE Listed
        <4>1. /\ boot = "list" /\ req[Boot].step = "over" /\ (\A t \in Turns : req'[t] = req[t])
              /\ boot' = "unlock" /\ req'[Boot] = NoReq
          BY <1>0, <3>4 DEF Listed, McpTypes
        <4>2. QED
          BY <1>0, <3>0, <4>1 DEF Booting
      <3>5. QED
        BY <1>3, <3>1, <3>2, <3>3, <3>4 DEF Boots
    <2>4. \A t \in Turns : Due(t)' => Due(t)
      BY <2>1, <2>3 DEF Due
    <2>5. QED
      BY <2>1, <2>2, <2>3, <2>4, NoneMore
  <1>4. CASE Grant
    <2>1. UNCHANGED <<req, mcp, file, prompts>>
      BY <1>4 DEF Grant
    <2>2. queue # <<>> /\ InLine(Head(queue)) /\ Head(queue) \in Tasks
      <3>1. queue # <<>> /\ queue \in Seq(Tasks)
        BY <1>4 DEF Grant, LockInv
      <3>2. 1 \in 1..Len(queue) /\ Head(queue) = queue[1]
        BY <3>1
      <3>3. QED
        BY <3>1, <3>2 DEF LockInv
    <2>3. (\A t \in Turns : Due(t)' => Due(t)) /\ Booting' <= Booting
      <3>1. CASE Head(queue) = Boot
        <4>1. turn' = turn /\ boot = "queued" /\ boot' = "lsp"
          BY <1>4, <2>2, <3>1 DEF Grant, InLine
        <4>2. QED
          BY <2>1, <4>1 DEF Due, Booting
      <3>2. CASE Head(queue) # Boot
        <4>1. /\ Head(queue) \in Turns /\ turn[Head(queue)] \in {"schemas", "guard"} /\ boot' = boot
              /\ \A u \in Turns \ {Head(queue)} : turn'[u] = turn[u]
          BY <1>0, <1>4, <2>2, <3>2 DEF Grant, InLine, Goes, LockInv
        <4>2. QED
          BY <2>1, <4>1 DEF Due, Ahead, Booting
      <3>3. QED
        BY <3>1, <3>2
    <2>4. QED
      BY <2>1, <2>3, NoneMore
  <1>5. ASSUME NEW t \in Turns, Prompt(t) PROVE Tally'
    <2>1. UNCHANGED <<req, mcp, file, boot>> /\ prompts < MaxPrompts /\ prompts' = prompts + 1
      BY <1>5 DEF Prompt, TurnRest
    <2>2. \A u \in Turns \ {t} : turn'[u] = turn[u]
      BY <1>0, <1>5 DEF Prompt, Goes
    <2>3. (\A u \in Turns \ {t} : Due(u)' => Due(u)) /\ Booting' = Booting
      BY <2>1, <2>2 DEF Due, Booting
    <2>4. QED
      BY <2>1, <2>3, OneMore
  <1>6. ASSUME NEW t \in Turns, Run(t) PROVE Tally'
    <2>0. UNCHANGED <<mcp, boot, prompts>> /\ turn[t] = "run"
      BY <1>6 DEF Run, TurnRest, Count
    <2>1. req[t] = NoReq /\ req[t].step = "none" /\ Due(t)
      BY <1>0, <2>0, Asleep DEF Calls, Due, Ahead
    <2>2. (\A u \in Turns \ {t} : turn'[u] = turn[u] /\ req'[u] = req[u]) /\ req'[Boot] = req[Boot]
      BY <1>0, <1>6 DEF Run, Finish, Goes, Step, McpTypes
    <2>3. (\A u \in Turns \ {t} : Due(u)' => Due(u)) /\ Booting' = Booting
      BY <2>0, <2>2 DEF Due, Booting
    <2>4. CASE file' = file
      <3>1. \A u \in Turns : Due(u)' => Due(u)
        BY <2>1, <2>3
      <3>2. Booting' <= Booting
        BY <1>0, <2>3 DEF Booting
      <3>3. QED
        BY <2>0, <2>4, <3>1, <3>2, NoneMore
    <2>5. CASE file' = file + 1 /\ Goes(t, "note") /\ req' = req
      <3>1. turn'[t] = "note" /\ ~Due(t)'
        BY <1>0, <2>1, <2>5 DEF Goes, Due, Ahead
      <3>2. QED
        BY <1>0, <2>0, <2>1, <2>3, <2>5, <3>1, OneLess
    <2>6. QED
      BY <1>6, <2>4, <2>5 DEF Run
  <1>7. ASSUME NEW t \in Turns, CallAborted(t) \/ CallOver(t) PROVE Tally'
    <2>1. req' = [req EXCEPT ![t] = NoReq] /\ Goes(t, "idle") /\ UNCHANGED <<boot, file, prompts>>
      BY <1>7 DEF CallAborted, CallOver, Dropped, Finish, TurnRest, Count
    <2>2. mcp'.next = mcp.next
      BY <1>0, <1>7, ReaderMoves DEF CallAborted, CallOver
    <2>3. /\ NoReq.step = "none" /\ req'[t] = NoReq /\ turn'[t] = "idle" /\ req'[Boot] = req[Boot]
          /\ \A u \in Turns \ {t} : turn'[u] = turn[u] /\ req'[u] = req[u]
      BY <1>0, <2>1 DEF NoReq, Goes, McpTypes
    <2>4. \A u \in Turns : Due(u)' => Due(u)
      BY <2>3 DEF Due, Ahead
    <2>5. Booting' <= Booting
      BY <1>0, <2>1, <2>3 DEF Booting
    <2>6. QED
      BY <2>1, <2>2, <2>4, <2>5, NoneMore
  <1>8. ASSUME NEW t \in Turns, UNCHANGED <<req, mcp, boot, file, prompts>>,
               \/ turn[t] \in Ahead /\ \E step : Goes(t, step)
               \/ \E step : Goes(t, step) /\ step \notin Ahead
        PROVE  Tally'
    <2>1. \A u \in Turns \ {t} : turn'[u] = turn[u]
      BY <1>0, <1>8 DEF Goes
    <2>2. turn[t] \in Ahead \/ turn'[t] \notin Ahead
      BY <1>0, <1>8 DEF Goes
    <2>3. \A u \in Turns : Due(u)' => Due(u)
      BY <1>8, <2>1, <2>2 DEF Due
    <2>4. Booting' <= Booting
      BY <1>0, <1>8 DEF Booting
    <2>5. QED
      BY <1>8, <2>3, <2>4, NoneMore
  <1>9. ASSUME NEW t \in Turns, Model(t) \/ LookUp(t) \/ Reply(t) \/ AskAborted(t) PROVE Tally'
    <2>1. UNCHANGED <<req, mcp, boot, file, prompts>> /\ turn[t] \in {"model", "held", "ask"}
      BY <1>9 DEF Model, LookUp, Reply, AskAborted, TurnRest, Count
    <2>2. \E step : Goes(t, step)
      BY <1>9 DEF Model, LookUp, Reply, AskAborted, Finish
    <2>3. QED
      BY <1>8, <2>1, <2>2 DEF Ahead
  <1>10. ASSUME NEW t \in Turns, ReadBack(t) \/ TakeVersion(t) \/ Send(t) \/ Settle(t) PROVE Tally'
    <2>1. UNCHANGED <<req, mcp, boot, file, prompts>>
      BY <1>10 DEF ReadBack, TakeVersion, Send, Settle, LspRest
    <2>2. Goes(t, "idle") \/ Goes(t, "version") \/ Goes(t, "send") \/ Goes(t, "settle")
      BY <1>10 DEF ReadBack, TakeVersion, Send, Settle, Finish
    <2>3. \E step : Goes(t, step) /\ step \notin Ahead
      BY <2>2 DEF Ahead
    <2>4. QED
      BY <1>8, <2>1, <2>3
  <1>11. CASE UNCHANGED <<req, turn, boot, file, prompts>> /\ mcp'.next = mcp.next
    <2>1. \A u \in Turns : Due(u)' => Due(u)
      BY <1>11 DEF Due
    <2>2. Booting' <= Booting
      BY <1>0, <1>11 DEF Booting
    <2>3. QED
      BY <1>11, <2>1, <2>2, NoneMore
  <1>12. ASSUME NEW t \in Turns, Abort(t) \/ LspBlock(t)
         PROVE  UNCHANGED <<req, turn, boot, file, prompts>> /\ mcp'.next = mcp.next
    BY <1>12 DEF Abort, LspBlock, TurnRest, LspRest, Count
  <1>13. ASSUME \/ ServerReads \/ ServerDies \/ LspReads \/ LspDies
                \/ (\E id \in Ids, got \in {"ok", "error"} : ServerAnswers(id, got))
                \/ (\E id \in OwnIds : ServerAsks(id))
         PROVE  UNCHANGED <<req, turn, boot, file, prompts>> /\ mcp'.next = mcp.next
    BY <1>0, <1>13, ReaderMoves DEF ServerReads, ServerDies, LspReads, LspDies, ServerAnswers, ServerAsks, MCP, LspRest
  <1>14. CASE UNCHANGED vars
    BY <1>11, <1>14 DEF vars
  <1>15. QED
    BY <1>1, <1>2, <1>3, <1>4, <1>5, <1>6, <1>7, <1>9, <1>10, <1>11, <1>12, <1>13, <1>14 DEF Next, Goes_on

-----------------------------------------------------------------------------
(* What the language server is told.                                           *)

Note     == [version : Nat, text : Nat]
Lsp      == [known : BOOLEAN, up : BOOLEAN, version : Nat, lock : Turns \cup {None}, pipe : Seq(Note), told : Seq(Note)]
LspTypes == /\ lsp \in Lsp /\ note \in [Turns -> Note] /\ Len(lsp.pipe) <= Room
Notes    == lsp.told \o lsp.pipe

LEMMA LspFields ==
  ASSUME LspTypes
  PROVE  /\ lsp.version \in Nat /\ lsp.pipe \in Seq(Note) /\ lsp.told \in Seq(Note) /\ Notes \in Seq(Note)
         /\ Len(lsp.pipe) \in Nat
         /\ \A t \in Turns : note[t] \in Note /\ note[t].version \in Nat /\ note[t].text \in Nat
         /\ \A i \in 1..Len(Notes) : Notes[i] \in Note /\ Notes[i].version \in Nat /\ Notes[i].text \in Nat
  <1>1. lsp.version \in Nat /\ lsp.pipe \in Seq(Note) /\ lsp.told \in Seq(Note)
    BY DEF LspTypes, Lsp
  <1>2. Notes \in Seq(Note)
    BY <1>1, ConcatProperties DEF Notes
  <1>3. \A t \in Turns : note[t] \in Note
    BY DEF LspTypes
  <1>4. \A n \in Note : n.version \in Nat /\ n.text \in Nat
    BY DEF Note
  <1>5. \A i \in 1..Len(Notes) : Notes[i] \in Note
    BY <1>2, ElementOfSeq
  <1>6. QED
    BY <1>1, <1>2, <1>3, <1>4, <1>5

LEMMA Appended ==
  ASSUME NEW S, NEW s \in Seq(S), NEW p \in Seq(S), NEW x \in S
  PROVE  s \o Append(p, x) = Append(s \o p, x)
  <1>1. Append(p, x) \in Seq(S) /\ s \o p \in Seq(S) /\ Append(s \o p, x) \in Seq(S) /\ s \o Append(p, x) \in Seq(S)
    BY ConcatProperties
  <1>2. Len(s \o Append(p, x)) = Len(s) + Len(p) + 1 /\ Len(Append(s \o p, x)) = Len(s) + Len(p) + 1
    BY <1>1, ConcatProperties
  <1>3. \A i \in 1..Len(s \o Append(p, x)) : (s \o Append(p, x))[i] = Append(s \o p, x)[i]
    <2> TAKE i \in 1..Len(s \o Append(p, x))
    <2>1. (s \o Append(p, x))[i] = IF i <= Len(s) THEN s[i] ELSE Append(p, x)[i - Len(s)]
      <3>1. /\ Len(s \o Append(p, x)) = Len(s) + Len(Append(p, x))
            /\ \A j \in 1..Len(s) + Len(Append(p, x)) :
                 (s \o Append(p, x))[j] = IF j <= Len(s) THEN s[j] ELSE Append(p, x)[j - Len(s)]
        BY <1>1, ConcatProperties
      <3>2. QED
        BY <3>1
    <2>2. i <= Len(s) + Len(p) => (s \o p)[i] = IF i <= Len(s) THEN s[i] ELSE p[i - Len(s)]
      BY <1>2, ConcatProperties
    <2>3. Append(s \o p, x)[i] = IF i <= Len(s) + Len(p) THEN (s \o p)[i] ELSE x
      BY <1>1, <1>2
    <2>4. QED
      BY <1>2, <2>1, <2>2, <2>3
  <1>4. QED
    BY <1>1, <1>2, <1>3, SeqEqual

LEMMA Wider == \A m, n \in Nat : \A i \in 1..m : i \in 1..m + n /\ i <= m
  OBVIOUS

LEMMA NotesAppended == \A s, p \in Seq(Note) : \A x \in Note : s \o Append(p, x) = Append(s \o p, x)
  BY Appended

LEMMA Shifted ==
  ASSUME NEW S, NEW s \in Seq(S), NEW p \in Seq(S), p # <<>>
  PROVE  Append(s, Head(p)) \o Tail(p) = s \o p
  <1>1. /\ Head(p) \in S /\ Tail(p) \in Seq(S) /\ Len(Tail(p)) = Len(p) - 1 /\ Head(p) = p[1]
        /\ \A i \in 1..Len(Tail(p)) : Tail(p)[i] = p[i + 1]
    BY HeadTailProperties
  <1>2. Append(s, Head(p)) \in Seq(S) /\ Len(Append(s, Head(p))) = Len(s) + 1 /\ Len(p) \in Nat /\ Len(s) \in Nat
    BY <1>1
  <1>3. /\ s \o p \in Seq(S) /\ Append(s, Head(p)) \o Tail(p) \in Seq(S)
        /\ Len(s \o p) = Len(s) + Len(p) /\ Len(Append(s, Head(p)) \o Tail(p)) = Len(s) + Len(p)
    BY <1>1, <1>2, ConcatProperties
  <1>4. \A i \in 1..Len(s \o p) : (Append(s, Head(p)) \o Tail(p))[i] = (s \o p)[i]
    <2> TAKE i \in 1..Len(s \o p)
    <2>1. (s \o p)[i] = IF i <= Len(s) THEN s[i] ELSE p[i - Len(s)]
      BY <1>3, ConcatProperties
    <2>2. (Append(s, Head(p)) \o Tail(p))[i]
             = IF i <= Len(s) + 1 THEN Append(s, Head(p))[i] ELSE Tail(p)[i - (Len(s) + 1)]
      BY <1>1, <1>2, <1>3, ConcatProperties
    <2>3. i <= Len(s) + 1 => Append(s, Head(p))[i] = IF i <= Len(s) THEN s[i] ELSE p[1]
      BY <1>1, <1>3
    <2>4. i > Len(s) + 1 => Tail(p)[i - (Len(s) + 1)] = p[i - Len(s)]
      BY <1>1, <1>2, <1>3
    <2>5. QED
      BY <1>2, <1>3, <2>1, <2>2, <2>3, <2>4
  <1>5. QED
    BY <1>3, <1>4, SeqEqual

(* Before the ecosystem is up nobody tells the server anything.                    *)
Started ==
    /\ eco => boot = "done"
    /\ \A t \in Turns : turn[t] \in {"version", "send"} => eco
    /\ ~eco => lsp.version = 0 /\ lsp.told = <<>> /\ lsp.pipe = <<>>

InVersionOrder == \A i \in 1..Len(Notes) : Notes[i].version = i /\ Notes[i].text <= file
InTextOrder    == \A i, j \in 1..Len(Notes) : i < j => Notes[i].text <= Notes[j].text

(* A turn that is about to tell it of a text has a text no older than those told.     *)
Newest(t) ==
    turn[t] \in {"version", "send"} =>
        note[t].text <= file /\ \A i \in 1..Len(Notes) : Notes[i].text <= note[t].text

(* One at a time has a version, and those behind it have no older text.              *)
Alone(t) ==
    turn[t] = "send" =>
        /\ note[t].version = lsp.version
        /\ lsp.up => lsp.version = Len(Notes) + 1
        /\ \A u \in Turns \ {t} : turn[u] # "send" /\ (turn[u] = "version" => note[t].text <= note[u].text)

Silent == lsp.up /\ (\A t \in Turns : turn[t] # "send") => lsp.version = Len(Notes)

Ordered == ~overlap => /\ InVersionOrder /\ InTextOrder /\ Silent
                       /\ \A t \in Turns : Newest(t) /\ Alone(t)

Telling == LspTypes /\ Started /\ Ordered

(* Nothing is told, and no turn begins to or has done so.                          *)
LEMMA NothingTold ==
  ASSUME Telling, lsp' \in Lsp, lsp'.version = lsp.version, lsp'.told = lsp.told, lsp'.pipe = lsp.pipe,
         lsp'.up => lsp.up \/ ~eco, note' = note, overlap' = overlap, eco => eco', eco' => boot' = "done",
         file \in Nat, file' \in Nat, file' >= file,
         \A t \in Turns : \/ turn'[t] = turn[t]
                          \/ turn[t] \notin {"version", "send"} /\ turn'[t] \notin {"version", "send"}
  PROVE  Telling'
  <1>0. LspTypes /\ Notes' = Notes /\ Len(Notes) \in Nat
        /\ (\A i \in 1..Len(Notes) : Notes[i].text \in Nat)
        /\ \A t \in Turns : note[t].text \in Nat /\ note[t].version \in Nat
    <2>1. LspTypes /\ Notes' = Notes
      BY DEF Telling, Notes
    <2>2. Notes \in Seq(Note)
      BY <2>1, LspFields
    <2>3. Len(Notes) \in Nat
      BY <2>2
    <2>4. QED
      BY <2>1, <2>3, LspFields
  <1>1. LspTypes'
    BY <1>0 DEF LspTypes
  <1>2. Started'
    BY DEF Telling, Started
  <1>3. ~eco => \A t \in Turns : turn[t] \notin {"version", "send"}
    BY DEF Telling, Started
  <1>4. ASSUME ~overlap PROVE InVersionOrder' /\ InTextOrder' /\ Silent'
    <2>1. InVersionOrder /\ InTextOrder /\ Silent
      BY <1>4 DEF Telling, Ordered
    <2>2. InVersionOrder'
      BY <1>0, <2>1 DEF InVersionOrder
    <2>3. InTextOrder'
      BY <1>0, <2>1 DEF InTextOrder
    <2>4. ~eco => lsp.version = Len(Notes)
      <3>1. ~eco => lsp.told = <<>> /\ lsp.pipe = <<>> /\ lsp.version = 0
        BY DEF Telling, Started
      <3>2. <<>> \o <<>> = <<>> /\ Len(<<>>) = 0
        OBVIOUS
      <3>3. QED
        BY <3>1, <3>2 DEF Notes
    <2>5. (\A t \in Turns : turn'[t] # "send") => \A t \in Turns : turn[t] # "send"
      OBVIOUS
    <2>6. Silent'
      BY <1>0, <2>1, <2>4, <2>5 DEF Silent
    <2>7. QED
      BY <2>2, <2>3, <2>6
  <1>5. ASSUME ~overlap, NEW t \in Turns PROVE Newest(t)' /\ Alone(t)'
    <2>1. Newest(t) /\ Alone(t)
      BY <1>5 DEF Telling, Ordered
    <2>2. Newest(t)'
      BY <1>0, <2>1 DEF Newest
    <2>3. Alone(t)'
      BY <1>0, <1>3, <2>1 DEF Alone
    <2>4. QED
      BY <2>2, <2>3
  <1>6. QED
    BY <1>1, <1>2, <1>4, <1>5 DEF Telling, Ordered

LEMMA ReadBackTells ==
  ASSUME Telling, LockInv, file \in Nat, NEW t \in Turns, ReadBack(t)
  PROVE  Telling'
  <1>0. /\ LspTypes /\ UNCHANGED <<lsp, overlap, eco, boot, file>> /\ turn[t] = "note"
        /\ (\A i \in 1..Len(Notes) : Notes[i].text \in Nat)
        /\ \A u \in Turns : note[u].text \in Nat
    BY LspFields DEF Telling, ReadBack, LspRest
  <1>1. CASE ~Resolved
    <2>1. note' = note /\ Goes(t, "idle")
      BY <1>0, <1>1 DEF ReadBack, Finish
    <2>2. \A u \in Turns : turn'[u] = turn[u] \/ (turn[u] \notin {"version", "send"} /\ turn'[u] \notin {"version", "send"})
      BY <1>0, <2>1 DEF Goes, LockInv
    <2>3. lsp' \in Lsp /\ (eco' => boot' = "done") /\ file' >= file
      BY <1>0 DEF LspTypes, Telling, Started
    <2>4. QED
      BY <1>0, <2>1, <2>2, <2>3, NothingTold
  <1>2. CASE Resolved
    <2>1. /\ eco /\ note' = [note EXCEPT ![t].text = file] /\ Goes(t, "version")
      BY <1>0, <1>2 DEF ReadBack, Resolved
    <2>2. /\ turn'[t] = "version" /\ \A u \in Turns \ {t} : turn'[u] = turn[u] /\ note'[u] = note[u]
      BY <2>1 DEF Goes, LockInv, LspTypes, Telling
    <2>3. note' \in [Turns -> Note] /\ note'[t].text = file
      BY <1>0, <2>1 DEF LspTypes, Note
    <2>4. Notes' = Notes
      BY <1>0 DEF Notes
    <2>5. LspTypes' /\ Started'
      BY <1>0, <2>1, <2>3 DEF LspTypes, Started, Telling
    <2>6. ASSUME ~overlap PROVE InVersionOrder' /\ InTextOrder' /\ Silent'
      <3>1. InVersionOrder /\ InTextOrder /\ Silent
        BY <2>6 DEF Telling, Ordered
      <3>2. (\A u \in Turns : turn'[u] # "send") => \A u \in Turns : turn[u] # "send"
        BY <1>0, <2>2
      <3>3. QED
        BY <1>0, <2>4, <3>1, <3>2 DEF InVersionOrder, InTextOrder, Silent
    <2>7. ASSUME ~overlap, NEW u \in Turns PROVE Newest(u)' /\ Alone(u)'
      <3>1. InVersionOrder /\ Newest(u) /\ Alone(u)
        BY <2>7 DEF Telling, Ordered
      <3>2. CASE u = t
        BY <1>0, <2>2, <2>3, <2>4, <3>1, <3>2 DEF Newest, Alone, InVersionOrder
      <3>3. CASE u # t
        <4>1. Newest(u)'
          BY <1>0, <2>2, <2>4, <3>1, <3>3 DEF Newest
        <4>2. turn[u] = "send" => note[u].text <= file
          BY <3>1 DEF Newest
        <4>3. Alone(u)'
          BY <1>0, <2>2, <2>3, <2>4, <3>1, <3>3, <4>2 DEF Alone
        <4>4. QED
          BY <4>1, <4>3
      <3>4. QED
        BY <3>2, <3>3
    <2>8. QED
      BY <1>0, <2>5, <2>6, <2>7 DEF Telling, Ordered
  <1>3. QED
    BY <1>1, <1>2

LEMMA TakeVersionTells ==
  ASSUME Telling, LockInv, file \in Nat, NEW t \in Turns, TakeVersion(t)
  PROVE  Telling'
  <1>0. /\ LspTypes /\ UNCHANGED <<eco, boot, file>> /\ turn[t] = "version" /\ lsp.version \in Nat
        /\ (\A i \in 1..Len(Notes) : Notes[i].text \in Nat) /\ Len(Notes) \in Nat
        /\ \A u \in Turns : note[u].text \in Nat
    BY LspFields DEF Telling, TakeVersion, LspRest
  <1>1. /\ lsp' = [lsp EXCEPT !.version = lsp.version + 1]
        /\ note' = [note EXCEPT ![t].version = lsp.version + 1] /\ Goes(t, "send")
        /\ ~overlap' => ~overlap /\ \A u \in Turns \ {t} : turn[u] \notin {"version", "send"}
    BY DEF TakeVersion
  <1>2. /\ lsp' \in Lsp /\ lsp'.version = lsp.version + 1 /\ lsp'.told = lsp.told /\ lsp'.pipe = lsp.pipe
        /\ (lsp'.up <=> lsp.up)
    BY <1>0, <1>1 DEF LspTypes, Lsp
  <1>3. turn'[t] = "send" /\ \A u \in Turns \ {t} : turn'[u] = turn[u] /\ note'[u] = note[u]
    BY <1>0, <1>1 DEF Goes, LockInv, LspTypes
  <1>4. note' \in [Turns -> Note] /\ note'[t].text = note[t].text /\ note'[t].version = lsp.version + 1
    BY <1>0, <1>1 DEF LspTypes, Note
  <1>5. Notes' = Notes
    BY <1>2 DEF Notes
  <1>6. eco
    BY <1>0 DEF Telling, Started
  <1>7. LspTypes' /\ Started'
    BY <1>0, <1>2, <1>4, <1>6 DEF LspTypes, Started, Telling
  <1>8. ASSUME ~overlap' PROVE InVersionOrder' /\ InTextOrder' /\ Silent' /\ \A u \in Turns : Newest(u)' /\ Alone(u)'
    <2>1. ~overlap /\ \A u \in Turns \ {t} : turn[u] \notin {"version", "send"}
      BY <1>1, <1>8
    <2>2. InVersionOrder /\ InTextOrder /\ Silent /\ Newest(t)
      BY <2>1 DEF Telling, Ordered
    <2>3. InVersionOrder' /\ InTextOrder'
      BY <1>0, <1>5, <2>2 DEF InVersionOrder, InTextOrder
    <2>4. Silent'
      BY <1>3 DEF Silent
    <2>5. lsp.up => lsp.version = Len(Notes)
      BY <1>0, <2>1, <2>2 DEF Silent
    <2>6. Newest(t)'
      BY <1>0, <1>4, <1>5, <2>2 DEF Newest
    <2>7. Alone(t)'
      BY <1>0, <1>2, <1>3, <1>4, <1>5, <2>1, <2>5 DEF Alone
    <2>8. ASSUME NEW u \in Turns \ {t} PROVE Newest(u)' /\ Alone(u)'
      BY <1>3, <2>1, <2>8 DEF Newest, Alone
    <2>9. QED
      BY <2>3, <2>4, <2>6, <2>7, <2>8
  <1>9. QED
    BY <1>7, <1>8 DEF Telling, Ordered

LEMMA SendTells ==
  ASSUME Telling, LockInv, file \in Nat, NEW t \in Turns, Send(t)
  PROVE  Telling'
  <1>0. /\ LspTypes /\ UNCHANGED <<overlap, eco, boot, file>> /\ turn[t] = "send" /\ lsp.version \in Nat
        /\ lsp.told \in Seq(Note) /\ lsp.pipe \in Seq(Note) /\ Notes \in Seq(Note) /\ Room \in Nat
        /\ (\A i \in 1..Len(Notes) : Notes[i].text \in Nat) /\ Len(Notes) \in Nat /\ Len(lsp.pipe) \in Nat
        /\ \A u \in Turns : note[u] \in Note /\ note[u].text \in Nat
    BY LspFields, BoundsTypes DEF Telling, Send, LspRest
  <1>1. NoNote \in Note /\ note' = [note EXCEPT ![t] = NoNote]
    BY DEF NoNote, Note, Send
  <1>2. /\ turn'[t] \notin {"version", "send"} /\ \A u \in Turns \ {t} : turn'[u] = turn[u] /\ note'[u] = note[u]
    BY <1>0, <1>1 DEF Send, Finish, Goes, LockInv, LspTypes
  <1>3. note' \in [Turns -> Note] /\ eco
    BY <1>0, <1>1 DEF LspTypes, Telling, Started
  <1>4. CASE lsp.up
    <2>1. /\ lsp' = [lsp EXCEPT !.lock = None, !.pipe = Append(lsp.pipe, note[t])] /\ Len(lsp.pipe) < Room
      BY <1>0, <1>4 DEF Send, Full
    <2>2. Append(lsp.pipe, note[t]) \in Seq(Note) /\ Len(Append(lsp.pipe, note[t])) = Len(lsp.pipe) + 1
      BY <1>0
    <2> DEFINE p == Append(lsp.pipe, note[t])
    <2> HIDE DEF p
    <2>3. /\ lsp' \in Lsp /\ lsp'.version = lsp.version /\ lsp'.told = lsp.told /\ lsp'.pipe = p
      BY <1>0, <2>1, <2>2 DEF LspTypes, Lsp, p
    <2>4. Notes' = Append(Notes, note[t])
      <3>1. Notes' = lsp.told \o Append(lsp.pipe, note[t])
        BY <2>3 DEF Notes, p
      <3>2. lsp.told \o Append(lsp.pipe, note[t]) = Append(lsp.told \o lsp.pipe, note[t])
        <4>1. lsp.told \in Seq(Note) /\ lsp.pipe \in Seq(Note) /\ note[t] \in Note
          BY <1>0
        <4>2. QED
          BY <4>1, NotesAppended
      <3>3. QED
        BY <3>1, <3>2 DEF Notes
    <2>5. /\ Len(Notes') = Len(Notes) + 1 /\ Notes'[Len(Notes) + 1] = note[t]
          /\ \A i \in 1..Len(Notes) : Notes'[i] = Notes[i]
      BY <1>0, <2>4
    <2>6. LspTypes' /\ Started'
      BY <1>0, <1>3, <2>1, <2>2, <2>3, <1>2 DEF LspTypes, Started, Telling, p
    <2>7. ASSUME ~overlap PROVE InVersionOrder' /\ InTextOrder' /\ Silent' /\ \A u \in Turns : Newest(u)' /\ Alone(u)'
      <3>1. /\ InVersionOrder /\ InTextOrder /\ Newest(t) /\ Alone(t)
            /\ \A u \in Turns : Newest(u)
        BY <2>7 DEF Telling, Ordered
      <3>2. /\ note[t].version = lsp.version /\ lsp.version = Len(Notes) + 1 /\ note[t].text <= file
            /\ (\A i \in 1..Len(Notes) : Notes[i].text <= note[t].text)
            /\ \A u \in Turns \ {t} : turn[u] # "send" /\ (turn[u] = "version" => note[t].text <= note[u].text)
        BY <1>0, <1>4, <3>1 DEF Newest, Alone
      <3>3. \A i \in 1..Len(Notes') : i \in 1..Len(Notes) \/ i = Len(Notes) + 1
        BY <1>0, <2>5
      <3>4. InVersionOrder'
        BY <1>0, <2>5, <3>1, <3>2, <3>3 DEF InVersionOrder
      <3>5. InTextOrder'
        <4> SUFFICES ASSUME NEW i \in 1..Len(Notes'), NEW j \in 1..Len(Notes'), i < j
                     PROVE  Notes'[i].text <= Notes'[j].text
          BY DEF InTextOrder
        <4>1. i \in 1..Len(Notes)
          BY <1>0, <2>5
        <4>2. CASE j \in 1..Len(Notes)
          BY <2>5, <3>1, <4>1, <4>2 DEF InTextOrder
        <4>3. CASE j = Len(Notes) + 1
          BY <2>5, <3>2, <4>1, <4>3
        <4>4. QED
          BY <3>3, <4>2, <4>3
      <3>6. Silent'
        BY <1>0, <2>3, <2>5, <3>2 DEF Silent
      <3>7. ASSUME NEW u \in Turns PROVE Newest(u)' /\ Alone(u)'
        <4>1. turn'[u] # "send"
          BY <1>2, <3>2
        <4>2. turn'[u] = "version" => u # t /\ turn[u] = "version" /\ note'[u] = note[u]
          BY <1>2
        <4>3. Newest(u)'
          BY <1>0, <2>5, <3>1, <3>2, <3>3, <4>1, <4>2 DEF Newest
        <4>4. QED
          BY <4>1, <4>3 DEF Alone
      <3>8. QED
        BY <3>4, <3>5, <3>6, <3>7
    <2>8. QED
      BY <1>0, <2>6, <2>7 DEF Telling, Ordered
  <1>5. CASE ~lsp.up
    <2>1. lsp' = [lsp EXCEPT !.lock = None]
      BY <1>5 DEF Send
    <2>2. /\ lsp' \in Lsp /\ lsp'.version = lsp.version /\ lsp'.told = lsp.told /\ lsp'.pipe = lsp.pipe /\ ~lsp'.up
      BY <1>0, <1>5, <2>1 DEF LspTypes, Lsp
    <2>3. Notes' = Notes
      BY <2>2 DEF Notes
    <2>4. LspTypes' /\ Started'
      BY <1>0, <1>2, <1>3, <2>2 DEF LspTypes, Started, Telling
    <2>5. ASSUME ~overlap PROVE InVersionOrder' /\ InTextOrder' /\ Silent' /\ \A u \in Turns : Newest(u)' /\ Alone(u)'
      <3>1. InVersionOrder /\ InTextOrder /\ Alone(t) /\ \A u \in Turns : Newest(u)
        BY <2>5 DEF Telling, Ordered
      <3>2. InVersionOrder' /\ InTextOrder' /\ Silent'
        BY <1>0, <2>2, <2>3, <3>1 DEF InVersionOrder, InTextOrder, Silent
      <3>3. ASSUME NEW u \in Turns PROVE Newest(u)' /\ Alone(u)'
        <4>1. turn'[u] # "send"
          BY <1>0, <1>2, <3>1 DEF Alone
        <4>2. Newest(u)'
          BY <1>0, <1>2, <2>3, <3>1, <4>1 DEF Newest
        <4>3. QED
          BY <4>1, <4>2 DEF Alone
      <3>4. QED
        BY <3>2, <3>3
    <2>6. QED
      BY <1>0, <2>4, <2>5 DEF Telling, Ordered
  <1>6. QED
    BY <1>4, <1>5

(* What the server had not read when it died is lost.                              *)
LEMMA DiesTells == ASSUME Telling, file \in Nat, LspDies PROVE Telling'
  <1>0. /\ LspTypes /\ UNCHANGED <<turn, note, overlap, eco, boot, file>>
        /\ lsp' = [lsp EXCEPT !.up = FALSE, !.pipe = <<>>]
        /\ lsp.told \in Seq(Note) /\ lsp.pipe \in Seq(Note) /\ Room \in Nat
    BY LspFields, BoundsTypes DEF Telling, LspDies, LspRest, lockVars
  <1>1. <<>> \in Seq(Note) /\ Len(<<>>) = 0
    OBVIOUS
  <1>2. lsp' \in Lsp /\ lsp'.version = lsp.version /\ lsp'.told = lsp.told /\ lsp'.pipe = <<>> /\ ~lsp'.up
    BY <1>0, <1>1 DEF LspTypes, Lsp
  <1>3. Notes' = lsp.told
    BY <1>0, <1>2, ConcatEmptySeq DEF Notes
  <1>4. Len(lsp.told) \in Nat /\ Len(lsp.pipe) \in Nat /\ Len(Notes) = Len(lsp.told) + Len(lsp.pipe)
        /\ \A i \in 1..Len(lsp.told) : Notes[i] = lsp.told[i]
    <2>1. Len(lsp.told) \in Nat /\ Len(lsp.pipe) \in Nat /\ Len(Notes) = Len(lsp.told) + Len(lsp.pipe)
      BY <1>0, ConcatProperties DEF Notes
    <2>2. \A i \in 1..Len(lsp.told) + Len(lsp.pipe) :
             Notes[i] = IF i <= Len(lsp.told) THEN lsp.told[i] ELSE lsp.pipe[i - Len(lsp.told)]
      BY <1>0, ConcatProperties DEF Notes
    <2>3. ASSUME NEW i \in 1..Len(lsp.told) PROVE Notes[i] = lsp.told[i]
      <3>1. i \in 1..Len(lsp.told) + Len(lsp.pipe) /\ i <= Len(lsp.told)
        BY <2>1, <2>3, Wider
      <3>2. QED
        BY <2>2, <3>1
    <2>4. QED
      BY <2>1, <2>3
  <1>5. \A i \in 1..Len(Notes') : i \in 1..Len(Notes) /\ Notes'[i] = Notes[i]
    <2>1. ASSUME NEW i \in 1..Len(lsp.told) PROVE i \in 1..Len(Notes)
      <3>1. Len(lsp.told) \in Nat /\ Len(lsp.pipe) \in Nat /\ Len(Notes) = Len(lsp.told) + Len(lsp.pipe)
        BY <1>4
      <3>2. QED
        BY <2>1, <3>1, Wider
    <2>2. QED
      BY <1>3, <1>4, <2>1
  <1>6. LspTypes' /\ Started'
    BY <1>0, <1>1, <1>2 DEF LspTypes, Started, Telling
  <1>7. ASSUME ~overlap PROVE InVersionOrder' /\ InTextOrder' /\ Silent' /\ \A u \in Turns : Newest(u)' /\ Alone(u)'
    <2>1. InVersionOrder /\ InTextOrder /\ \A u \in Turns : Newest(u) /\ Alone(u)
      BY <1>7 DEF Telling, Ordered
    <2>2. InVersionOrder' /\ InTextOrder' /\ Silent'
      BY <1>0, <1>2, <1>5, <2>1 DEF InVersionOrder, InTextOrder, Silent
    <2>3. ASSUME NEW u \in Turns PROVE Newest(u)' /\ Alone(u)'
      BY <1>0, <1>2, <1>5, <2>1 DEF Newest, Alone
    <2>4. QED
      BY <2>2, <2>3
  <1>8. QED
    BY <1>0, <1>6, <1>7 DEF Telling, Ordered

LEMMA ReadsTells == ASSUME Telling, file \in Nat, LspReads PROVE Telling'
  <1>0. /\ LspTypes /\ UNCHANGED <<turn, note, overlap, eco, boot, file>>
        /\ lsp.pipe # <<>> /\ lsp.up
        /\ lsp' = [lsp EXCEPT !.pipe = Tail(lsp.pipe), !.told = Append(lsp.told, Head(lsp.pipe))]
        /\ lsp.told \in Seq(Note) /\ lsp.pipe \in Seq(Note) /\ Room \in Nat /\ Len(lsp.pipe) \in Nat
    BY LspFields, BoundsTypes DEF Telling, LspReads, LspRest, lockVars
  <1>1. Head(lsp.pipe) \in Note /\ Tail(lsp.pipe) \in Seq(Note) /\ Len(Tail(lsp.pipe)) = Len(lsp.pipe) - 1
    BY <1>0, HeadTailProperties
  <1>2. Append(lsp.told, Head(lsp.pipe)) \in Seq(Note)
    BY <1>0, <1>1
  <1> DEFINE p == Tail(lsp.pipe)
             s == Append(lsp.told, Head(lsp.pipe))
  <1> HIDE DEF p, s
  <1>3. lsp' \in Lsp /\ lsp'.version = lsp.version /\ lsp'.told = s /\ lsp'.pipe = p /\ (lsp'.up <=> lsp.up)
    BY <1>0, <1>1, <1>2 DEF LspTypes, Lsp, p, s
  <1>4. Notes' = Notes
    <2>1. Notes' = Append(lsp.told, Head(lsp.pipe)) \o Tail(lsp.pipe)
      BY <1>3 DEF Notes, p, s
    <2>2. Append(lsp.told, Head(lsp.pipe)) \o Tail(lsp.pipe) = lsp.told \o lsp.pipe
      BY <1>0, Shifted
    <2>3. QED
      BY <2>1, <2>2 DEF Notes
  <1>5. LspTypes'
    BY <1>0, <1>1, <1>3 DEF LspTypes, p
  <1>6. eco
    BY <1>0 DEF Telling, Started
  <1>7. Started'
    BY <1>0, <1>6 DEF Telling, Started
  <1>8. ASSUME ~overlap PROVE InVersionOrder' /\ InTextOrder' /\ Silent' /\ \A u \in Turns : Newest(u)' /\ Alone(u)'
    <2>1. InVersionOrder /\ InTextOrder /\ Silent /\ \A u \in Turns : Newest(u) /\ Alone(u)
      BY <1>8 DEF Telling, Ordered
    <2>2. InVersionOrder' /\ InTextOrder' /\ Silent'
      BY <1>0, <1>3, <1>4, <2>1 DEF InVersionOrder, InTextOrder, Silent
    <2>3. ASSUME NEW u \in Turns PROVE Newest(u)' /\ Alone(u)'
      BY <1>0, <1>3, <1>4, <2>1 DEF Newest, Alone
    <2>4. QED
      BY <2>2, <2>3
  <1>9. QED
    BY <1>0, <1>5, <1>7, <1>8 DEF Telling, Ordered

LEMMA TellingStep == Telling /\ LockInv /\ file \in Nat /\ [Next]_vars => Telling'
  <1> SUFFICES ASSUME Telling, LockInv, file \in Nat, [Next]_vars PROVE Telling'
    OBVIOUS
  <1>0. lsp \in Lsp /\ turn \in [Turns -> TurnSteps] /\ (eco => boot = "done") /\ file >= file
    BY DEF Telling, LspTypes, LockInv, Started
  <1>1. ASSUME UNCHANGED <<lsp, note, overlap, eco, boot>>, file' = file \/ file' = file + 1,
               \A t \in Turns : \/ turn'[t] = turn[t]
                                \/ turn[t] \notin {"version", "send"} /\ turn'[t] \notin {"version", "send"}
        PROVE  Telling'
    <2>1. file' \in Nat /\ file' >= file
      BY <1>1
    <2>2. QED
      BY <1>0, <1>1, <2>1, NothingTold
  <1>2. CASE Boots
    <2>1. UNCHANGED <<turn, note, overlap, file>>
      BY <1>2 DEF Boots, BootAsks, StartLsp, Connected, Listed, Unlock, FillSlot, BootRest
    <2>2. CASE StartLsp
      <3>1. PICK found \in BOOLEAN, started \in BOOLEAN : 
                   lsp' = [lsp EXCEPT !.known = found /\ started, !.up = found /\ started]
        BY <2>2 DEF StartLsp, Discovered, Spawned
      <3>2. /\ lsp' \in Lsp /\ lsp'.version = lsp.version /\ lsp'.told = lsp.told /\ lsp'.pipe = lsp.pipe
        BY <1>0, <3>1 DEF Lsp
      <3>3. ~eco /\ ~eco'
        BY <1>0, <2>2 DEF StartLsp, BootRest
      <3>4. QED
        BY <1>0, <2>1, <3>2, <3>3, NothingTold
    <2>3. CASE FillSlot
      <3>1. UNCHANGED lsp /\ eco' /\ boot' = "done"
        BY <2>3 DEF FillSlot, BootRest
      <3>2. QED
        BY <1>0, <2>1, <3>1, NothingTold
    <2>4. CASE BootAsks \/ Connected \/ Listed \/ Unlock
      <3>1. UNCHANGED <<lsp, eco>> /\ boot # "done"
        BY <2>4 DEF BootAsks, Connected, Listed, Unlock, BootRest
      <3>2. ~eco
        BY <1>0, <3>1
      <3>3. QED
        BY <1>0, <2>1, <3>1, <3>2, NothingTold
    <2>5. QED
      BY <1>2, <2>2, <2>3, <2>4 DEF Boots
  <1>3. CASE Grant
    <2>1. UNCHANGED <<note, overlap, eco, file>> /\ lsp' = lsp
      BY <1>3 DEF Grant
    <2>2. queue # <<>> /\ InLine(Head(queue)) /\ Head(queue) \in Tasks
      <3>1. queue # <<>> /\ queue \in Seq(Tasks)
        BY <1>3 DEF Grant, LockInv
      <3>2. 1 \in 1..Len(queue) /\ Head(queue) = queue[1]
        BY <3>1
      <3>3. QED
        BY <3>1, <3>2 DEF LockInv
    <2>3. CASE Head(queue) = Boot
      <3>1. turn' = turn /\ boot = "queued"
        BY <1>3, <2>2, <2>3 DEF Grant, InLine
      <3>2. ~eco
        BY <1>0, <3>1
      <3>3. QED
        BY <1>0, <2>1, <3>1, <3>2, NothingTold
    <2>4. CASE Head(queue) # Boot
      <3>1. /\ Head(queue) \in Turns /\ turn[Head(queue)] \in {"schemas", "guard"} /\ boot' = boot
            /\ turn'[Head(queue)] \in {"held", "model"}
            /\ \A u \in Turns \ {Head(queue)} : turn'[u] = turn[u]
        BY <1>0, <1>3, <2>2, <2>4 DEF Grant, InLine, Goes, Tasks
      <3>2. \A u \in Turns : turn'[u] = turn[u] \/ (turn[u] \notin {"version", "send"} /\ turn'[u] \notin {"version", "send"})
        BY <3>1
      <3>3. QED
        BY <1>1, <2>1, <3>1, <3>2
    <2>5. QED
      BY <2>3, <2>4
  <1>4. ASSUME NEW t \in Turns, UNCHANGED <<lsp, note, overlap, eco, boot>>, file' = file \/ file' = file + 1,
               turn[t] \notin {"version", "send"}, \E step : Goes(t, step) /\ step \notin {"version", "send"}
        PROVE  Telling'
    <2>1. \A u \in Turns : turn'[u] = turn[u] \/ (turn[u] \notin {"version", "send"} /\ turn'[u] \notin {"version", "send"})
      BY <1>0, <1>4 DEF Goes
    <2>2. QED
      BY <1>1, <1>4, <2>1
  <1>5. ASSUME NEW t \in Turns, Prompt(t) \/ Model(t) \/ LookUp(t) \/ Reply(t) \/ AskAborted(t) PROVE Telling'
    <2>1. UNCHANGED <<lsp, note, overlap, eco, boot, file>> /\ turn[t] \in {"idle", "model", "held", "ask"}
      BY <1>5 DEF Prompt, Model, LookUp, Reply, AskAborted, TurnRest
    <2>2. Goes(t, "idle") \/ Goes(t, "schemas") \/ Goes(t, "guard") \/ Goes(t, "ask") \/ Goes(t, "run")
      BY <1>5 DEF Prompt, Model, LookUp, Reply, AskAborted, Finish
    <2>3. QED
      BY <1>4, <2>1, <2>2
  <1>6. ASSUME NEW t \in Turns, Run(t) \/ CallAborted(t) \/ CallOver(t) \/ Settle(t) PROVE Telling'
    <2>1. UNCHANGED <<lsp, note, overlap, eco, boot>> /\ turn[t] \in {"run", "call", "settle"}
          /\ (file' = file \/ file' = file + 1)
      BY <1>6 DEF Run, CallAborted, CallOver, Settle, TurnRest, LspRest
    <2>2. Goes(t, "idle") \/ Goes(t, "note") \/ Goes(t, "call")
      BY <1>6 DEF Run, CallAborted, CallOver, Settle, Finish
    <2>3. QED
      BY <1>4, <2>1, <2>2
  <1>7. ASSUME NEW t \in Turns, LspBlock(t) PROVE Telling'
    <2>1. UNCHANGED <<turn, note, overlap, eco, boot, file>> /\ lsp' = [lsp EXCEPT !.lock = t]
      BY <1>7 DEF LspBlock, LspRest
    <2>2. lsp' \in Lsp /\ lsp'.version = lsp.version /\ lsp'.told = lsp.told /\ lsp'.pipe = lsp.pipe /\ (lsp'.up <=> lsp.up)
      BY <1>0, <2>1 DEF Lsp
    <2>3. QED
      BY <1>0, <2>1, <2>2, NothingTold
  <1>8. CASE UNCHANGED <<lsp, turn, note, overlap, eco, boot, file>>
    BY <1>1, <1>8
  <1>9. ASSUME NEW k \in Tasks, Client(k) PROVE UNCHANGED <<lsp, turn, note, overlap, eco, boot, file>>
    BY <1>9 DEF Client, Begin, Block, Write, TimesOut, Receives, MCP
  <1>10. ASSUME \/ Reader \/ ReaderFails \/ ServerReads \/ ServerDies
                \/ (\E id \in Ids, got \in {"ok", "error"} : ServerAnswers(id, got))
                \/ (\E id \in OwnIds : ServerAsks(id))
         PROVE  UNCHANGED <<lsp, turn, note, overlap, eco, boot, file>>
    BY <1>10 DEF Reader, Route, ReaderEnds, ReaderFails, Stops, ServerReads, ServerDies, ServerAnswers, ServerAsks, MCP
  <1>11. ASSUME NEW t \in Turns, Abort(t) PROVE UNCHANGED <<lsp, turn, note, overlap, eco, boot, file>>
    BY <1>11 DEF Abort, TurnRest
  <1>12. CASE UNCHANGED vars
    BY <1>8, <1>12 DEF vars
  <1>13. QED
    BY <1>2, <1>3, <1>5, <1>6, <1>7, <1>8, <1>9, <1>10, <1>11, <1>12,
       ReadBackTells, TakeVersionTells, SendTells, DiesTells, ReadsTells DEF Next, Goes_on

-----------------------------------------------------------------------------
(* The theorems.                                                              *)

Served == Pairing /\ Honest /\ LockInv /\ Owned /\ Piped /\ Tally /\ Telling

LEMMA ServedInit == Init => Served
  <1> SUFFICES ASSUME Init PROVE Served
    OBVIOUS
  <1>0. /\ Tasks = Turns \cup {Boot} /\ Room \in Nat /\ MaxPrompts \in Nat /\ NoReq \in Req /\ NoReq.step = "none"
        /\ NoReq.id = 0 /\ NoReq.got = "none"
    BY BoundsTypes DEF NoReq, Req, ReqSteps
  <1>1. /\ mcp = [next |-> 1, pending |-> {}, lock |-> None, pipe |-> <<>>, torn |-> FALSE,
                  heard |-> {}, answers |-> <<>>, asked |-> {}, alive |-> TRUE, reading |-> TRUE]
        /\ req = [k \in Tasks |-> NoReq] /\ dropped = {}
    BY DEF Init
  <1>2. mcp \in Mcp /\ mcp.next = 1 /\ mcp.pending = {} /\ mcp.pipe = <<>>
    <2>1. <<>> \in Seq(Nat) /\ <<>> \in Seq(Answer)
      OBVIOUS
    <2>2. QED
      BY <1>1, <2>1 DEF Mcp
  <1>3. \A k \in Tasks : req[k] = NoReq
    BY <1>1
  <1>4. Pairing
    <2>1. McpTypes
      BY <1>0, <1>1, <1>2 DEF McpTypes
    <2>2. Known /\ Apart /\ \A k \in Tasks : FreshOf(k) /\ Right(k)
      BY <1>0, <1>1, <1>2, <1>3 DEF Known, Apart, FreshOf, Right, Pend, Sent
    <2>3. Exact
      BY <1>0, <1>2, <1>3 DEF Exact, Pend, Waits
    <2>4. QED
      BY <2>1, <2>2, <2>3 DEF Pairing, Fresh
  <1>5. LockInv
    <2>1. turn \in [Turns -> TurnSteps] /\ boot \in BootSteps
      BY DEF Init, TurnSteps, BootSteps
    <2>2. queue = <<>> /\ readers = {} /\ queue \in Seq(Tasks) /\ Len(queue) = 0
      BY DEF Init
    <2>3. QED
      BY <2>1, <2>2 DEF LockInv
  <1>6. Owned
    BY <1>3 DEF Owned
  <1>7. Piped
    BY <1>0, <1>2 DEF Piped
  <1>8. Tally
    <2>1. Asking = {}
      BY <1>0, <1>3 DEF Init, Asking, Due, Ahead
    <2>2. Booting = 2
      BY <1>0, <1>3, BoundsTypes DEF Init, Booting
    <2>3. IsFiniteSet(Asking) /\ Cardinality(Asking) = 0
      BY <2>1, FS_EmptySet
    <2>4. file = 0 /\ prompts = 0
      BY DEF Init
    <2>5. QED
      BY <1>0, <1>2, <2>2, <2>3, <2>4 DEF Tally
  <1>9. Telling
    <2>1. lsp = [known |-> FALSE, up |-> FALSE, version |-> 0, lock |-> None, pipe |-> <<>>, told |-> <<>>]
      BY DEF Init
    <2>2. <<>> \in Seq(Note) /\ Len(<<>>) = 0 /\ <<>> \o <<>> = <<>>
      OBVIOUS
    <2>3. lsp \in Lsp /\ ~lsp.up /\ lsp.version = 0 /\ lsp.pipe = <<>> /\ lsp.told = <<>> /\ Notes = <<>>
      BY <2>1, <2>2 DEF Lsp, Notes
    <2>4. note \in [Turns -> Note]
      BY DEF Init, NoNote, Note
    <2>5. ~eco /\ \A t \in Turns : turn[t] = "idle"
      BY DEF Init
    <2>6. LspTypes /\ Started
      BY <1>0, <2>2, <2>3, <2>4, <2>5 DEF LspTypes, Started
    <2>7. Ordered
      BY <2>2, <2>3, <2>5 DEF Ordered, InVersionOrder, InTextOrder, Silent, Newest, Alone
    <2>8. QED
      BY <2>6, <2>7 DEF Telling
  <1>10. Honest
    BY <1>1 DEF Honest
  <1>11. QED
    BY <1>4, <1>5, <1>6, <1>7, <1>8, <1>9, <1>10 DEF Served

LEMMA ServedAlways == Spec => []Served
  <1>1. Served /\ [Next]_vars => Served'
    <2> SUFFICES ASSUME Served, [Next]_vars PROVE Served'
      OBVIOUS
    <2>1. Pairing /\ Honest /\ LockInv /\ Owned /\ Piped /\ Tally /\ Telling /\ file \in Nat
      BY DEF Served, Tally
    <2>2. QED
      BY <2>1, PairingStep, HonestStep, LockStep, OwnedStep, PipeStep, TallyStep, TellingStep DEF Served
  <1>2. QED
    BY <1>1, ServedInit, PTL DEF Spec

LEMMA ServedTypes == Served => TypeOK
  <1> SUFFICES ASSUME Served PROVE TypeOK
    OBVIOUS
  <1>0. Pairing /\ LockInv /\ Piped /\ Tally /\ Telling
    BY DEF Served
  <1>1. /\ McpTypes /\ mcp.next \in Nat /\ mcp.pipe \in Seq(Nat) /\ MaxPrompts \in Nat /\ Turns \subseteq Tasks
        /\ \A k \in Tasks : req[k].id \in Nat /\ req[k].id < mcp.next /\ req[k].step \in ReqSteps
    BY <1>0, PairingTypes, Fields, BoundsTypes
  <1>2. mcp.next <= MaxPrompts + 3 /\ file \in 0..MaxPrompts
    <2>1. /\ Cardinality(Asking) \in Nat /\ Booting \in Nat /\ file \in Nat /\ prompts \in Nat
          /\ prompts <= MaxPrompts /\ file + Cardinality(Asking) <= prompts
          /\ mcp.next + Cardinality(Asking) + Booting <= prompts + 3
      BY <1>0, FS_CardinalityType DEF Tally, Booting
    <2>2. QED
      BY <1>1, <2>1
  <1>3. \A n \in Nat : n < mcp.next => n \in Ids \cup {0}
    BY <1>1, <1>2 DEF Ids
  <1>4. ToSet(mcp.pipe) \subseteq Ids \cup {Garbage}
    <2>1. \A i \in DOMAIN mcp.pipe : i \in 1..Len(mcp.pipe) /\ mcp.pipe[i] \in Nat
      BY <1>1
    <2>2. QED
      BY <1>0, <1>3, <2>1 DEF Piped, ToSet, Garbage
  <1>5. ToSet(queue) \cup readers \subseteq Tasks
    BY <1>0, <1>1 DEF LockInv, ToSet
  <1>6. writer => readers = {}
    BY <1>0 DEF LockInv
  <1>7. \A t \in readers : turn[t] \notin {"idle", "schemas", "model", "guard"}
    BY <1>0 DEF LockInv, Holds
  <1>8. QED
    BY <1>0, <1>1, <1>2, <1>3, <1>4, <1>5, <1>6, <1>7 DEF TypeOK, LockInv, Piped, Telling, LspTypes

(* Every request that succeeds has its own answer, unless the server has used its id   *)
(* for a request of its own; and the router knows the requests somebody waits for and,  *)
(* beyond them, those whose calls were aborted, wherever the reader ended (client.rs,   *)
(* spawn_reader and request).                                                 *)
THEOREM RequestsMatched == Spec => []Matched
  <1>1. Served => RightAnswer /\ PendingExact
    <2> SUFFICES ASSUME Served PROVE RightAnswer /\ PendingExact
      OBVIOUS
    <2>0. Pairing
      BY DEF Served
    <2>1. RightAnswer
      BY <2>0 DEF RightAnswer, Pairing, Right
    <2>2. mcp.pending \subseteq Entry /\ \A k \in Tasks : req[k].id \in Nat
      BY <2>0, PairingTypes
    <2>3. ASSUME NEW e \in mcp.pending, e.id \notin dropped
          PROVE  \E k \in {t \in Tasks : Waits(t)} : e = [id |-> req[k].id, task |-> k]
      <3>1. e.id \in Nat /\ e.task \in Tasks /\ e = [id |-> e.id, task |-> e.task]
        BY <2>2 DEF Entry
      <3>2. Pend(e.id, e.task)
        BY <3>1 DEF Pend
      <3>3. Waits(e.task) /\ req[e.task].id = e.id
        BY <2>0, <2>3, <3>1, <3>2 DEF Pairing, Exact
      <3>4. QED
        BY <3>1, <3>3
    <2>4. ASSUME NEW k \in Tasks, Waits(k)
          PROVE  [id |-> req[k].id, task |-> k] \in mcp.pending /\ req[k].id \notin dropped
      BY <2>0, <2>2, <2>4 DEF Pairing, Exact, Pend
    <2>5. PendingExact
      BY <2>3, <2>4 DEF PendingExact
    <2>6. QED
      BY <2>1, <2>5
  <1>2. QED
    BY <1>1, ServedAlways, ServedTypes, PTL DEF Matched

(* The language server is told of the texts in the order they were written, unless two *)
(* turns wrote the file at the same time.                                      *)
THEOREM LspToldInOrder == Spec => []LspInOrder
  <1>1. Served => LspInOrder
    <2> SUFFICES ASSUME Served, ~overlap PROVE Ascending(Notes) /\ (Notes # <<>> => Head(Notes).version = 1)
      BY DEF LspInOrder, Notes
    <2>1. InVersionOrder /\ InTextOrder /\ Notes \in Seq(Note)
      BY LspFields DEF Served, Telling, Ordered
    <2>2. DOMAIN Notes = 1..Len(Notes) /\ Len(Notes) \in Nat
      BY <2>1
    <2>3. Ascending(Notes)
      BY <2>1, <2>2 DEF Ascending, InVersionOrder, InTextOrder
    <2>4. Notes # <<>> => Head(Notes).version = 1
      <3> SUFFICES ASSUME Notes # <<>> PROVE Head(Notes).version = 1
        OBVIOUS
      <3>1. 1 \in 1..Len(Notes) /\ Head(Notes) = Notes[1]
        BY <2>1
      <3>2. QED
        BY <2>1, <3>1 DEF InVersionOrder
    <2>5. QED
      BY <2>3, <2>4
  <1>2. QED
    BY <1>1, ServedAlways, PTL
================================================================================
