-------------------------- MODULE ListenerClaimProofs --------------------------
(***************************************************************************)
(* For any chain, chunk sizes and number of failures and crashes: a claim  *)
(* is begun once, and once more per failure or crash at most, and a        *)
(* succeeded one never again while its record stands; the checkpoint stays *)
(* within the chain and no loop awaits work that nobody does.              *)
(*                                                                         *)
(* The argument is that a claim is in the lane or under way once (Single), *)
(* and that it is never there after it has succeeded and never with its    *)
(* budget of beginnings spent (Paid).                                      *)
(*                                                                         *)
(* The two backfill loops, as long as they alone move the checkpoint, skip *)
(* no event: what is behind the checkpoint, or behind the place of a loop, *)
(* has been looked at or waits in a fetched chunk (Swept).                 *)
(***************************************************************************)
EXTENDS ListenerClaim, QueueLemmas, FiniteSetTheorems, TLAPS

\* The events a chain of h blocks has shown.
Known(h) == {e \in Event : block[e] <= h}

LoopState(h) == [on : BOOLEAN, next : Nat, to : 0 .. h, chunkEnd : 0 .. h,
                 todo : Seq(Known(h)), wait : Event \cup {NoEvent}]
Opened(l) == l.on <=> l.next # 0

Types ==
  /\ head \in 0 .. MaxBlock /\ checkpoint \in Unset .. head /\ target \in 0 .. head
  /\ status \in [Event -> {"none", "ignored", "running", "succeeded", "failed"}]
  /\ up \in BOOLEAN /\ boot \in {"asked", "done", "failed"}
  /\ sub \in {"off", "installing", "on", "gone"} /\ liveFrom \in 0 .. head + 1
  /\ prior \in Unset .. checkpoint
  /\ rebuildDue \in BOOLEAN /\ rebuilding \in BOOLEAN /\ ticking \in BOOLEAN
  /\ running \in Event \cup {NoEvent} /\ seen \subseteq Event
  /\ delivered \in Seq(Known(head))
  /\ begun \in [Event -> Nat] /\ faults \in Nat
  /\ bf \in [Loop -> LoopState(head)] /\ \A x \in Loop : Opened(bf[x])

\* An event is in the lane or under way once.
Single == Distinct(lane, Event) /\ running \notin Range(lane)

\* A loop awaits what is in the lane or under way.
Waiting == \A x \in Loop : bf[x].wait \in Range(lane) \cup {running, NoEvent}

\* A claim: beginnings are paid for, except the one under way or succeeded.
Paid ==
  \A e \in Event : kind[e] = "claim" =>
    /\ begun[e] <= 1 + faults
    /\ running # e /\ status[e] # "succeeded" => begun[e] <= faults
    /\ running = e => status[e] = "running"
    /\ status[e] = "succeeded" => e \notin Range(lane)

IInv == Types /\ Single /\ Waiting /\ Paid

------------------------------------------------------------------------------
(* Helpers.                                                                *)

LEMMA InFlightIs ==
  ASSUME Single, NEW e
  PROVE  InFlight(e) <=> e \in Range(lane) \/ running = e
<1>1. lane \in Seq(Event) /\ DOMAIN lane = 1 .. Len(lane) BY DEF Single, Distinct
<1>2. Contains(lane, e) <=> e \in Range(lane) BY <1>1 DEF Contains, Range
<1> QED BY <1>2 DEF InFlight

LEMMA SeqWiden ==
  ASSUME NEW S, NEW T, S \subseteq T, NEW s \in Seq(S)
  PROVE  s \in Seq(T)
<1>1. s \in [1 .. Len(s) -> T] /\ Len(s) \in Nat OBVIOUS
<1> QED BY <1>1

\* The logs of a range of blocks are events of blocks up to its end.
LEMMA LogsKnown ==
  ASSUME NEW from \in Nat \ {0}, NEW to \in Nat
  PROVE  LogsOf(from, to) \in Seq(Known(to))
<1> DEFINE Up(b) == {i \in DOMAIN Log : block[Log[i]] <= b}
<1>1. /\ Log \in Seq(Event) /\ Len(Log) \in Nat /\ DOMAIN Log = 1 .. Len(Log)
      /\ \A i \in DOMAIN Log : Log[i] \in Event /\ block[Log[i]] \in Nat
  BY ListenerAssumption
<1>2. ASSUME NEW b
      PROVE  IsFiniteSet(Up(b)) /\ Cardinality(Up(b)) \in Nat /\ Cardinality(Up(b)) <= Len(Log)
  <2>1. IsFiniteSet(1 .. Len(Log)) /\ Cardinality(1 .. Len(Log)) = Len(Log)
    BY <1>1, FS_Interval
  <2>2. Up(b) \in SUBSET (1 .. Len(Log)) BY <1>1
  <2> QED BY <2>1, <2>2, FS_Subset, FS_CardinalityType
<1>3. PICK m \in Nat : m = Cardinality(Up(from - 1)) BY <1>2
<1>4. PICK n \in Nat : n = Cardinality(Up(to)) BY <1>2
<1>5. n <= Len(Log) BY <1>2, <1>4
<1>6. ASSUME NEW i \in m + 1 .. n PROVE Log[i] \in Known(to)
  <2>1. i \in DOMAIN Log /\ i \in Nat BY <1>1, <1>5
  <2>2. CASE block[Log[i]] <= to BY <1>1, <2>1, <2>2 DEF Known
  <2>3. CASE ~(block[Log[i]] <= to)
    <3>1. Up(to) \in SUBSET (1 .. i - 1)
      <4> SUFFICES ASSUME NEW j \in DOMAIN Log, block[Log[j]] <= to PROVE j \in 1 .. i - 1
        OBVIOUS
      <4>1. ~(i < j) /\ i # j
        <5>1. i < j => block[Log[i]] <= block[Log[j]] BY <2>1, ListenerAssumption
        <5> QED BY <1>1, <2>1, <2>3, <5>1
      <4> QED BY <1>1, <2>1, <4>1
    <3>2. IsFiniteSet(1 .. i - 1) /\ Cardinality(1 .. i - 1) = i - 1
      <4>1. PICK k \in Nat : k = i - 1 BY <1>1, <2>1
      <4>2. IsFiniteSet(1 .. k) /\ Cardinality(1 .. k) = k BY FS_Interval
      <4> QED BY <4>1, <4>2
    <3>3. Cardinality(Up(to)) <= i - 1 BY <3>1, <3>2, FS_Subset
    <3> QED BY <1>4, <2>1, <3>3
  <2> QED BY <2>2, <2>3
<1>7. SubSeq(Log, m + 1, n) \in Seq(Known(to)) BY <1>6, SubSeqProperties
<1>8. LogsOf(from, to) = SubSeq(Log, Cardinality(Up(from - 1)) + 1, Cardinality(Up(to)))
  BY DEF LogsOf
<1> QED BY <1>3, <1>4, <1>7, <1>8

LEMMA LoopStates ==
  ASSUME NEW h \in Nat
  PROVE  /\ Off \in LoopState(h) /\ Opened(Off) /\ Off.wait = NoEvent
         /\ \A from \in Nat \ {0}, to \in 0 .. h :
              /\ Over(from, to) \in LoopState(h) /\ Opened(Over(from, to))
              /\ Over(from, to).wait = NoEvent
<1>1. <<>> \in Seq(Known(h)) /\ 0 \in 0 .. h OBVIOUS
<1>2. Off \in LoopState(h) /\ Opened(Off) /\ Off.wait = NoEvent
  BY <1>1 DEF Off, LoopState, Opened
<1>3. ASSUME NEW from \in Nat \ {0}, NEW to \in 0 .. h, from <= to
      PROVE  /\ Over(from, to) \in LoopState(h) /\ Opened(Over(from, to))
             /\ Over(from, to).wait = NoEvent
  <2>1. Over(from, to) = [on |-> TRUE, next |-> from, to |-> to, chunkEnd |-> 0, todo |-> <<>>,
                          wait |-> NoEvent]
    BY <1>3 DEF Over, Off
  <2> QED BY <1>1, <2>1 DEF LoopState, Opened
<1>4. ASSUME NEW from, NEW to, ~(from <= to) PROVE Over(from, to) = Off BY <1>4 DEF Over
<1> QED BY <1>2, <1>3, <1>4

LEMMA TypesGiveTypeOK == IInv => TypeOK
<1> SUFFICES ASSUME IInv PROVE TypeOK OBVIOUS
<1>1. Types /\ Single /\ Waiting BY DEF IInv
<1>2. Known(head) \subseteq Event BY DEF Known
<1>3. delivered \in Seq(Event) BY <1>1, <1>2, SeqWiden DEF Types
<1>4. lane \in Seq(Event) BY <1>1 DEF Single, Distinct
<1>5. ASSUME NEW x \in Loop
      PROVE  /\ bf[x].on = (bf[x].next # 0)
             /\ bf[x].wait = NoEvent \/ InFlight(bf[x].wait)
  <2>1. bf[x].on = (bf[x].next # 0) BY <1>1 DEF Types, LoopState, Opened
  <2>2. bf[x].wait \in Range(lane) \cup {running, NoEvent} BY <1>1 DEF Waiting
  <2> QED BY <1>1, <2>1, <2>2, InFlightIs
<1> QED BY <1>1, <1>3, <1>4, <1>5 DEF Types, TypeOK

\* What leaves lane, record and beginnings alone keeps the budget.
LEMMA PaidStays ==
  ASSUME Single, Paid, UNCHANGED <<lane, running, begun, status, faults>>
  PROVE  Single' /\ Paid'
BY DEF Single, Paid

\* ... and waits, if a loop at most stops waiting.
LEMMA WaitStays ==
  ASSUME Waiting, UNCHANGED <<lane, running>>,
         \A x \in Loop : bf'[x].wait \in {bf[x].wait, NoEvent}
  PROVE  Waiting'
BY DEF Waiting

------------------------------------------------------------------------------
(* Events.                                                                 *)

\* A handler moves the checkpoint forward within the chain, and takes on only what
\* is not in flight and, of claims, what has not succeeded.
LEMMA HandleStep ==
  ASSUME IInv, NEW e \in Known(head), NEW taken \in BOOLEAN, Handle(e, taken), faults' = faults
  PROVE  /\ Single' /\ Paid' /\ checkpoint' \in checkpoint .. head
         /\ status' \in [Event -> {"none", "ignored", "running", "succeeded", "failed"}]
         /\ seen' \subseteq Event /\ UNCHANGED <<running, begun>>
         /\ Range(lane) \subseteq Range(lane') /\ (taken => e \in Range(lane'))
<1>1. /\ Types /\ Single /\ Paid /\ e \in Event /\ block[e] <= head /\ block[e] \in Nat
      /\ checkpoint \in Unset .. head /\ head \in Nat
  BY ListenerAssumption DEF IInv, Known, Types
<1>2. /\ taken => MustWork(e)
      /\ checkpoint' = MaxOf(checkpoint, block[e]) /\ seen' = seen \cup {e}
      /\ status' = IF kind[e] = "foreign" THEN [status EXCEPT ![e] = "ignored"] ELSE status
      /\ lane' = IF taken THEN Append(lane, e) ELSE lane
      /\ UNCHANGED <<running, begun>>
  BY DEF Handle, Note
<1>3. checkpoint' \in checkpoint .. head BY <1>1, <1>2 DEF MaxOf, Unset
<1>4. /\ status' \in [Event -> {"none", "ignored", "running", "succeeded", "failed"}]
      /\ \A d \in Event : kind[d] = "claim" => status'[d] = status[d]
  BY <1>1, <1>2 DEF Types
<1>5. CASE ~taken
  <2>1. lane' = lane BY <1>2, <1>5
  <2> QED BY <1>1, <1>2, <1>3, <1>4, <1>5, <2>1 DEF Types, Single, Paid
<1>6. CASE taken
  <2>1. e \notin Range(lane) /\ running # e BY <1>1, <1>2, <1>6, InFlightIs DEF MustWork
  <2>2. kind[e] = "claim" => status[e] # "succeeded" BY <1>2, <1>6 DEF MustWork
  <2>3. Distinct(lane', Event) /\ Range(lane') = Range(lane) \cup {e}
    BY <1>1, <1>2, <1>6, <2>1, PushDistinct DEF Single
  <2>4. Single' BY <1>1, <1>2, <2>1, <2>3 DEF Single
  <2>5. Paid' BY <1>1, <1>2, <1>4, <2>2, <2>3 DEF Paid
  <2> QED BY <1>1, <1>2, <1>3, <1>4, <2>3, <2>4, <2>5 DEF Types
<1> QED BY <1>5, <1>6

LEMMA LiveStep == ASSUME IInv, LiveEvent PROVE IInv'
<1>1. /\ Types /\ Single /\ Waiting /\ Paid /\ delivered # <<>> /\ delivered' = Tail(delivered)
      /\ UNCHANGED <<head, target, up, boot, sub, liveFrom, rebuildDue, rebuilding, prior,
                     ticking, bf, faults, errors>>
  BY DEF IInv, LiveEvent
<1>2. /\ delivered \in Seq(Known(head)) /\ Head(delivered) \in Known(head)
      /\ Tail(delivered) \in Seq(Known(head))
  BY <1>1 DEF Types
<1>3. PICK e \in Known(head) : e = Head(delivered) BY <1>2
<1>4. CASE UNCHANGED <<checkpoint, status, workVars, liveNoted>>
  <2>1. Types' BY <1>1, <1>2, <1>4 DEF Types, workVars
  <2>2. Single' /\ Paid' BY <1>1, <1>4, PaidStays DEF workVars
  <2>3. Waiting' BY <1>1, <1>4 DEF Waiting, workVars
  <2> QED BY <2>1, <2>2, <2>3 DEF IInv
<1>5. ASSUME NEW taken \in BOOLEAN, Handle(e, taken) PROVE IInv'
  <2>1. /\ Single' /\ Paid' /\ checkpoint' \in checkpoint .. head
        /\ status' \in [Event -> {"none", "ignored", "running", "succeeded", "failed"}]
        /\ seen' \subseteq Event /\ UNCHANGED <<running, begun>>
        /\ Range(lane) \subseteq Range(lane')
    BY <1>1, <1>5, HandleStep
  <2>2. Types' BY <1>1, <1>2, <2>1 DEF Types, Unset
  <2>3. Waiting' BY <1>1, <2>1 DEF Waiting
  <2> QED BY <2>1, <2>2, <2>3 DEF IInv
<1> QED BY <1>3, <1>4, <1>5 DEF LiveEvent

LEMMA DispatchStep == ASSUME IInv, NEW x \in Loop, Dispatch(x) PROVE IInv'
<1>1. /\ Types /\ Single /\ Waiting /\ Paid /\ bf[x].todo # <<>>
      /\ UNCHANGED <<head, target, up, boot, sub, liveFrom, delivered, rebuildDue, rebuilding,
                     prior, ticking, faults>>
  BY DEF IInv, Dispatch, subVars, countVars
<1>2. /\ bf[x] \in LoopState(head) /\ bf[x].todo \in Seq(Known(head))
      /\ Head(bf[x].todo) \in Known(head) /\ Tail(bf[x].todo) \in Seq(Known(head))
  BY <1>1 DEF Types, LoopState
<1>3. PICK e \in Known(head) : e = Head(bf[x].todo) BY <1>2
<1>4. PICK taken \in BOOLEAN :
        /\ Handle(e, taken)
        /\ bf' = [bf EXCEPT ![x].todo = Tail(@), ![x].wait = IF taken THEN e ELSE NoEvent]
  BY <1>3 DEF Dispatch
<1>5. /\ Single' /\ Paid' /\ checkpoint' \in checkpoint .. head
      /\ status' \in [Event -> {"none", "ignored", "running", "succeeded", "failed"}]
      /\ seen' \subseteq Event /\ UNCHANGED <<running, begun>>
      /\ Range(lane) \subseteq Range(lane') /\ (taken => e \in Range(lane'))
  BY <1>1, <1>4, HandleStep
<1>6. PICK w : w = IF taken THEN e ELSE NoEvent OBVIOUS
<1>7. w \in Event \cup {NoEvent} BY <1>6 DEF Known
<1>8. /\ bf' = [y \in Loop |-> bf'[y]] /\ \A y \in Loop : y # x => bf'[y] = bf[y]
      /\ bf'[x] = [bf[x] EXCEPT !.todo = Tail(@), !.wait = IF taken THEN e ELSE NoEvent]
  BY <1>1, <1>2, <1>4 DEF Types, LoopState
<1>9. bf'[x] = [bf[x] EXCEPT !.todo = Tail(@), !.wait = w] BY <1>6, <1>8
<1>10. /\ bf'[x] \in LoopState(head) /\ Opened(bf'[x]) /\ bf'[x].wait = w
  BY <1>1, <1>2, <1>7, <1>9 DEF Types, LoopState, Opened
<1>11. bf' \in [Loop -> LoopState(head)] /\ \A y \in Loop : Opened(bf'[y])
  BY <1>1, <1>8, <1>10 DEF Types
<1>12. Types' BY <1>1, <1>5, <1>11 DEF Types, Unset
<1>13. Waiting'
  <2>1. w \in Range(lane') \cup {NoEvent} BY <1>5, <1>6
  <2> QED BY <1>1, <1>5, <1>8, <1>10, <2>1 DEF Waiting
<1> QED BY <1>5, <1>12, <1>13 DEF IInv

------------------------------------------------------------------------------
(* The lane.                                                               *)

LEMMA BeginStep == ASSUME IInv, BeginWork PROVE IInv'
<1>1. /\ Types /\ Single /\ Waiting /\ Paid /\ running = NoEvent /\ lane # <<>>
      /\ UNCHANGED <<head, checkpoint, target, up, boot, sub, liveFrom, delivered, rebuildDue,
                     rebuilding, prior, ticking, bf, seen, faults>>
  BY DEF IInv, BeginWork, subVars, countVars
<1>2. PICK e : e = Head(lane) OBVIOUS
<1>3. /\ Distinct(Tail(lane), Event) /\ e \in Range(lane) /\ e \in Event
      /\ Range(Tail(lane)) = Range(lane) \ {e}
  <2>1. lane \in Seq(Event) BY <1>1 DEF Single, Distinct
  <2>2. Head(lane) \in Event BY <1>1, <2>1
  <2> QED BY <1>1, <1>2, <2>2, ShiftDistinct DEF Single
<1>4. /\ running' = e /\ lane' = Tail(lane) /\ begun' = [begun EXCEPT ![e] = @ + 1]
      /\ status' = IF kind[e] = "claim" THEN [status EXCEPT ![e] = "running"] ELSE status
  BY <1>2 DEF BeginWork, Record
<1>5. /\ begun' \in [Event -> Nat] /\ begun'[e] = begun[e] + 1
      /\ \A d \in Event : d # e => begun'[d] = begun[d] /\ status'[d] = status[d]
      /\ status' \in [Event -> {"none", "ignored", "running", "succeeded", "failed"}]
      /\ kind[e] = "claim" => status'[e] = "running"
  BY <1>1, <1>3, <1>4 DEF Types
<1>6. Types' BY <1>1, <1>3, <1>4, <1>5 DEF Types
<1>7. Single' BY <1>3, <1>4 DEF Single
<1>8. Waiting' BY <1>1, <1>3, <1>4 DEF Waiting
<1>9. Paid'
  <2>1. ASSUME NEW d \in Event, kind[d] = "claim"
        PROVE  /\ begun'[d] <= 1 + faults
               /\ running' # d /\ status'[d] # "succeeded" => begun'[d] <= faults
               /\ running' = d => status'[d] = "running"
               /\ status'[d] = "succeeded" => d \notin Range(lane')
    <3>1. CASE d = e
      <4>1. begun[e] <= faults /\ begun[e] \in Nat /\ faults \in Nat
        BY <1>1, <1>3, <2>1, <3>1, ListenerAssumption DEF Paid, Types
      <4> QED BY <1>4, <1>5, <2>1, <3>1, <4>1
    <3>2. CASE d # e
      <4>1. running # d BY <1>1, ListenerAssumption
      <4> QED BY <1>1, <1>3, <1>4, <1>5, <2>1, <3>2, <4>1 DEF Paid
    <3> QED BY <3>1, <3>2
  <2> QED BY <1>1, <2>1 DEF Paid
<1> QED BY <1>6, <1>7, <1>8, <1>9 DEF IInv

\* The loops that awaited finished work go on or end.
LEMMA Released ==
  ASSUME IInv, bf' = Woken(running) \/ bf' = Ended(running), UNCHANGED <<head, lane>>,
         running # NoEvent, running' = NoEvent
  PROVE  /\ Waiting' /\ bf' \in [Loop -> LoopState(head)]
         /\ \A x \in Loop : Opened(bf'[x])
<1>1. Types /\ Waiting /\ head \in Nat BY ListenerAssumption DEF IInv, Types
<1>2. ASSUME NEW x \in Loop
      PROVE  /\ bf'[x] \in LoopState(head) /\ Opened(bf'[x])
             /\ bf'[x].wait \in Range(lane) \cup {NoEvent}
  <2>1. /\ bf[x] \in LoopState(head) /\ Opened(bf[x])
        /\ bf[x].wait \in Range(lane) \cup {running, NoEvent}
    BY <1>1 DEF Types, Waiting
  <2>2. CASE bf[x].wait # running
    <3>1. bf'[x] = bf[x] BY <2>2 DEF Woken, Ended
    <3> QED BY <2>1, <2>2, <3>1
  <2>3. CASE bf[x].wait = running
    <3>1. bf'[x] = [bf[x] EXCEPT !.wait = NoEvent] \/ bf'[x] = Off BY <2>3 DEF Woken, Ended
    <3>2. [bf[x] EXCEPT !.wait = NoEvent] \in LoopState(head)
          /\ Opened([bf[x] EXCEPT !.wait = NoEvent])
          /\ [bf[x] EXCEPT !.wait = NoEvent].wait = NoEvent
      BY <2>1 DEF LoopState, Opened
    <3> QED BY <1>1, <3>1, <3>2, LoopStates
  <2> QED BY <2>2, <2>3
<1>3. bf' \in [Loop -> LoopState(head)]
  <2>1. bf' = [x \in Loop |-> bf'[x]] BY DEF Woken, Ended
  <2> QED BY <1>2, <2>1
<1> QED BY <1>2, <1>3 DEF Waiting

LEMMA DoneStep == ASSUME IInv, WorkDone \/ WorkFails PROVE IInv'
<1>1. /\ Types /\ Single /\ Waiting /\ Paid /\ running # NoEvent /\ running' = NoEvent
      /\ UNCHANGED <<head, checkpoint, target, up, boot, sub, liveFrom, delivered, rebuildDue,
                     rebuilding, prior, lane, begun, seen>>
      /\ ticking' \in BOOLEAN
  BY DEF IInv, WorkDone, WorkFails, subVars, Types
<1>2. PICK e \in Event : e = running BY <1>1 DEF Types
<1>3. PICK s \in {"succeeded", "failed"} :
        /\ status' = IF kind[e] = "claim" THEN [status EXCEPT ![e] = s] ELSE status
        /\ faults' = IF s = "failed" THEN faults + 1 ELSE faults
  BY <1>2 DEF WorkDone, WorkFails, Record, countVars
<1>4. /\ status' \in [Event -> {"none", "ignored", "running", "succeeded", "failed"}]
      /\ kind[e] = "claim" => status'[e] = s
      /\ \A d \in Event : d # e => status'[d] = status[d]
      /\ faults \in Nat /\ faults' \in Nat
  BY <1>1, <1>2, <1>3 DEF Types
<1>5. /\ Waiting' /\ bf' \in [Loop -> LoopState(head)]
      /\ \A x \in Loop : Opened(bf'[x])
  BY <1>1, Released DEF WorkDone, WorkFails
<1>6. Types' BY <1>1, <1>4, <1>5 DEF Types
<1>7. Single'
  <2>1. Range(lane) \subseteq Event BY <1>1 DEF Single, Distinct, Range
  <2> QED BY <1>1, <2>1, ListenerAssumption DEF Single
<1>8. Paid'
  <2>1. ASSUME NEW d \in Event, kind[d] = "claim"
        PROVE  /\ begun'[d] <= 1 + faults'
               /\ running' # d /\ status'[d] # "succeeded" => begun'[d] <= faults'
               /\ running' = d => status'[d] = "running"
               /\ status'[d] = "succeeded" => d \notin Range(lane')
    <3>1. running' # d /\ begun[d] \in Nat BY <1>1, ListenerAssumption DEF Types
    <3>2. CASE d = e
      <4>1. begun[e] <= 1 + faults BY <1>1, <2>1, <3>2 DEF Paid
      <4>2. e \notin Range(lane) BY <1>1, <1>2 DEF Single
      <4> QED BY <1>1, <1>3, <1>4, <2>1, <3>1, <3>2, <4>1, <4>2
    <3>3. CASE d # e
      BY <1>1, <1>2, <1>3, <1>4, <2>1, <3>1, <3>3 DEF Paid
    <3> QED BY <3>2, <3>3
  <2> QED BY <2>1 DEF Paid
<1> QED BY <1>5, <1>6, <1>7, <1>8 DEF IInv

------------------------------------------------------------------------------
(* The loops and the subscription.                                         *)

\* Steps that leave lane and records alone.
LEMMA Aside ==
  ASSUME IInv, Types', UNCHANGED <<lane, running, begun, status, faults>>,
         \A x \in Loop : bf'[x].wait \in {bf[x].wait, NoEvent}
  PROVE  IInv'
BY PaidStays, WaitStays DEF IInv

LEMMA SetLoop ==
  ASSUME Types, NEW x \in Loop, NEW l \in LoopState(head), Opened(l),
         l.wait \in {bf[x].wait, NoEvent}, bf' = [bf EXCEPT ![x] = l]
  PROVE  /\ bf' \in [Loop -> LoopState(head)] /\ \A y \in Loop : Opened(bf'[y])
         /\ \A y \in Loop : bf'[y].wait \in {bf[y].wait, NoEvent}
BY DEF Types

LEMMA ChunkEndType ==
  ASSUME Types, NEW x \in Loop
  PROVE  ChunkEnd(x) \in Nat /\ (bf[x].next # 0 => ChunkEnd(x) \in 0 .. head)
<1>1. bf[x].to \in 0 .. head /\ bf[x].next \in Nat /\ head \in Nat BY DEF Types, LoopState
<1>2. Chunk \in Nat \ {0} BY ListenerAssumption
<1> QED BY <1>1, <1>2 DEF ChunkEnd, MinOf

LEMMA FetchStep == ASSUME IInv, NEW x \in Loop, Fetch(x) PROVE IInv'
<1>1. /\ Types /\ bf[x].on
      /\ UNCHANGED <<head, checkpoint, target, status, up, boot, sub, liveFrom, delivered, rebuildDue,
                     rebuilding, prior, ticking, lane, running, begun, seen, faults>>
  BY DEF IInv, Fetch, MayFetch, fileVars, subVars, workVars, countVars
<1>2. /\ bf[x] \in LoopState(head) /\ Opened(bf[x]) /\ bf[x].next \in Nat \ {0} /\ head \in Nat
  BY <1>1 DEF Types, LoopState, Opened
<1>3. PICK c \in 0 .. head : c = ChunkEnd(x) BY <1>1, <1>2, ChunkEndType
<1>4. LogsOf(bf[x].next, c) \in Seq(Known(head))
  <2>1. Known(c) \subseteq Known(head) BY <1>2, ListenerAssumption DEF Known
  <2>2. PICK n \in Nat \ {0} : n = bf[x].next BY <1>2
  <2>3. c \in Nat BY <1>2
  <2>4. LogsOf(n, c) \in Seq(Known(c)) BY <2>3, LogsKnown
  <2> QED BY <2>1, <2>2, <2>4, SeqWiden
<1>5. PICK q \in Seq(Known(head)) : q = LogsOf(bf[x].next, c) BY <1>4
<1>6. /\ bf' = [y \in Loop |-> bf'[y]] /\ \A y \in Loop : y # x => bf'[y] = bf[y]
      /\ bf'[x] = [bf[x] EXCEPT !.chunkEnd = c, !.todo = q]
  BY <1>1, <1>2, <1>3, <1>5 DEF Fetch, Types, LoopState
<1>7. bf'[x] \in LoopState(head) /\ Opened(bf'[x]) /\ bf'[x].wait = bf[x].wait
  BY <1>2, <1>6 DEF LoopState, Opened
<1>8. bf' \in [Loop -> LoopState(head)] /\ \A y \in Loop : Opened(bf'[y])
  BY <1>1, <1>6, <1>7 DEF Types
<1>9. Types' BY <1>1, <1>8 DEF Types
<1> QED BY <1>1, <1>6, <1>7, <1>9, Aside

LEMMA FetchFailsStep == ASSUME IInv, NEW x \in Loop, FetchFails(x) PROVE IInv'
<1>1. /\ Types /\ bf' = [bf EXCEPT ![x] = Off] /\ ticking' \in BOOLEAN /\ head \in Nat
      /\ UNCHANGED <<head, checkpoint, target, status, up, boot, sub, liveFrom, delivered, rebuildDue,
                     rebuilding, prior, lane, running, begun, seen, faults>>
  BY ListenerAssumption DEF IInv, FetchFails, fileVars, subVars, workVars, Types
<1>2. Off \in LoopState(head) /\ Opened(Off) /\ Off.wait = NoEvent BY <1>1, LoopStates
<1>3. /\ bf' \in [Loop -> LoopState(head)] /\ \A y \in Loop : Opened(bf'[y])
      /\ \A y \in Loop : bf'[y].wait \in {bf[y].wait, NoEvent}
  BY <1>1, <1>2, SetLoop
<1>4. Types' BY <1>1, <1>3 DEF Types
<1> QED BY <1>1, <1>3, <1>4, Aside

LEMMA ChunkDoneStep == ASSUME IInv, NEW x \in Loop, ChunkDone(x) PROVE IInv'
<1>1. /\ Types /\ head \in Nat
      /\ bf' = [bf EXCEPT ![x] = Over(bf[x].chunkEnd + 1, bf[x].to)]
      /\ checkpoint' = MaxOf(checkpoint, bf[x].chunkEnd)
      /\ ticking' \in BOOLEAN /\ rebuildDue' \in BOOLEAN
      /\ UNCHANGED <<head, target, status, up, boot, sub, liveFrom, delivered, rebuilding, prior,
                     lane, running, begun, seen, faults>>
  BY ListenerAssumption DEF IInv, ChunkDone, Note, workVars, countVars, Types
<1>2. bf[x].chunkEnd \in 0 .. head /\ bf[x].to \in 0 .. head BY <1>1 DEF Types, LoopState
<1>3. PICK l : l = Over(bf[x].chunkEnd + 1, bf[x].to) OBVIOUS
<1>4. l \in LoopState(head) /\ Opened(l) /\ l.wait = NoEvent
  <2>1. bf[x].chunkEnd + 1 \in Nat \ {0} BY <1>1, <1>2
  <2> QED BY <1>1, <1>2, <1>3, <2>1, LoopStates
<1>5. /\ bf' \in [Loop -> LoopState(head)] /\ \A y \in Loop : Opened(bf'[y])
      /\ \A y \in Loop : bf'[y].wait \in {bf[y].wait, NoEvent}
  BY <1>1, <1>3, <1>4, SetLoop
<1>6. checkpoint' \in Unset .. head /\ prior \in Unset .. checkpoint'
  BY <1>1, <1>2 DEF Types, MaxOf, Unset
<1>7. Types' BY <1>1, <1>5, <1>6 DEF Types
<1> QED BY <1>1, <1>5, <1>7, Aside

LEMMA TickBegins ==
  ASSUME Types, NEW t \in 0 .. head, BeginTick(t)
  PROVE  /\ bf' \in [Loop -> LoopState(head)] /\ \A y \in Loop : Opened(bf'[y])
         /\ \A y \in Loop : bf'[y].wait \in {bf[y].wait, NoEvent}
<1>1. head \in Nat /\ checkpoint \in Nat /\ TickBlocks \in Nat
  BY ListenerAssumption DEF Types, BeginTick, Unset
<1>2. MinOf(checkpoint + TickBlocks, t) \in 0 .. head /\ checkpoint + 1 \in Nat \ {0}
  BY <1>1 DEF MinOf
<1>3. PICK l : l = Over(checkpoint + 1, MinOf(checkpoint + TickBlocks, t)) OBVIOUS
<1>4. l \in LoopState(head) /\ Opened(l) /\ l.wait = NoEvent
  BY <1>1, <1>2, <1>3, LoopStates
<1> QED BY <1>3, <1>4, SetLoop DEF BeginTick, Loop

LEMMA TickStep == ASSUME IInv, PeriodicTick \/ FilterNotFound \/ RebuildEnds PROVE IInv'
<1>1. Types /\ head \in Nat BY ListenerAssumption DEF IInv, Types
<1>2. /\ TickTarget \in 0 .. head /\ head \in 0 .. head BY <1>1 DEF TickTarget, Types
<1>3. /\ \/ bf' = bf
         \/ BeginTick(TickTarget)
         \/ BeginTick(head)
      /\ target' \in {target, TickTarget, head}
      /\ sub' \in {"off", "installing", "on", "gone"} /\ liveFrom' \in {liveFrom, head + 1}
      /\ rebuildDue' \in BOOLEAN /\ rebuilding' \in BOOLEAN
      /\ UNCHANGED <<head, checkpoint, status, up, boot, delivered, prior, ticking, lane, running,
                     begun, seen, faults>>
  BY <1>1 DEF PeriodicTick, FilterNotFound, RebuildEnds, MayAlert, workVars, countVars, Types
<1>4. /\ bf' \in [Loop -> LoopState(head)] /\ \A y \in Loop : Opened(bf'[y])
      /\ \A y \in Loop : bf'[y].wait \in {bf[y].wait, NoEvent}
  <2>1. CASE bf' = bf BY <1>1, <2>1 DEF Types
  <2>2. CASE BeginTick(TickTarget) \/ BeginTick(head) BY <1>1, <1>2, <2>2, TickBegins
  <2> QED BY <1>3, <2>1, <2>2
<1>5. Types' BY <1>1, <1>2, <1>3, <1>4 DEF Types
<1> QED BY <1>3, <1>4, <1>5, Aside

LEMMA BoundaryStep == ASSUME IInv, Boundary PROVE IInv'
<1>1. /\ Types /\ head \in Nat /\ (BootFrom # Unset => BootFrom \in Nat \ {0})
      /\ head \in 0 .. head
      /\ bf' = [bf EXCEPT !["boot"] = IF BootFrom = Unset THEN Off ELSE Over(BootFrom, head)]
      /\ target' \in {target, head} /\ liveFrom' = head + 1 /\ ticking' \in BOOLEAN
      /\ boot' = "done"
      /\ UNCHANGED <<head, checkpoint, status, up, sub, delivered, rebuildDue, rebuilding, prior,
                     lane, running, begun, seen, faults>>
  BY ListenerAssumption DEF IInv, Boundary, BootFrom, Unset, workVars, countVars, Types
<1>2. PICK l : l = IF BootFrom = Unset THEN Off ELSE Over(BootFrom, head) OBVIOUS
<1>3. l \in LoopState(head) /\ Opened(l) /\ l.wait = NoEvent BY <1>1, <1>2, LoopStates
<1>4. /\ bf' \in [Loop -> LoopState(head)] /\ \A y \in Loop : Opened(bf'[y])
      /\ \A y \in Loop : bf'[y].wait \in {bf[y].wait, NoEvent}
  BY <1>1, <1>2, <1>3, SetLoop DEF Loop
<1>5. Types' BY <1>1, <1>4 DEF Types
<1> QED BY <1>1, <1>4, <1>5, Aside

\* With a block the chain, and what it has shown, grows.
LEMMA MineStep == ASSUME IInv, MineBlock PROVE IInv'
<1>1. /\ Types /\ head < MaxBlock /\ head' = head + 1 /\ head \in Nat /\ head' \in Nat
      /\ delivered' = delivered \/ delivered' = delivered \o LogsOf(head + 1, head + 1)
      /\ UNCHANGED <<checkpoint, target, status, up, boot, sub, liveFrom, rebuildDue, rebuilding,
                     prior, ticking, bf, lane, running, begun, seen, faults>>
  BY ListenerAssumption DEF IInv, MineBlock, fileVars, workVars, countVars, Types
<1>2. Known(head) \subseteq Known(head') BY <1>1, ListenerAssumption DEF Known
<1>3. delivered' \in Seq(Known(head'))
  <2>1. delivered \in Seq(Known(head')) BY <1>1, <1>2, SeqWiden DEF Types
  <2>2. LogsOf(head + 1, head + 1) \in Seq(Known(head'))
    <3>1. head + 1 \in Nat \ {0} /\ head + 1 \in Nat BY <1>1
    <3> QED BY <1>1, <3>1, LogsKnown
  <2>3. PICK K : K = Known(head') OBVIOUS
  <2>4. PICK q \in Seq(K) : q = LogsOf(head + 1, head + 1) BY <2>2, <2>3
  <2>5. PICK d \in Seq(K) : d = delivered BY <2>1, <2>3
  <2>6. d \o q \in Seq(K) OBVIOUS
  <2> QED BY <1>1, <2>3, <2>4, <2>5, <2>6
<1>4. LoopState(head) \subseteq LoopState(head')
  <2> SUFFICES ASSUME NEW l \in LoopState(head) PROVE l \in LoopState(head') OBVIOUS
  <2>1. l.todo \in Seq(Known(head')) BY <1>2, SeqWiden DEF LoopState
  <2>2. l.to \in 0 .. head' /\ l.chunkEnd \in 0 .. head' BY <1>1 DEF LoopState
  <2> QED BY <2>1, <2>2 DEF LoopState
<1>5. bf' \in [Loop -> LoopState(head')] BY <1>1, <1>4 DEF Types
<1>6. Types' BY <1>1, <1>3, <1>5, ListenerAssumption DEF Types
<1> QED BY <1>1, <1>6, Aside

LEMMA OtherStep ==
  ASSUME IInv,
         Installed \/ LoseFilter \/ RebuildBegins \/ RebuildFails \/ Start \/ BoundaryFails
           \/ UNCHANGED vars
  PROVE  IInv'
<1>1. Types BY DEF IInv
<1>2. UNCHANGED <<lane, running, begun, status, faults, bf>>
  BY DEF Installed, LoseFilter, RebuildBegins, RebuildFails, Start, BoundaryFails, vars, fileVars,
         workVars, countVars
<1>3. UNCHANGED <<head, checkpoint, target, liveFrom, delivered, ticking, seen>>
  BY DEF Installed, LoseFilter, RebuildBegins, RebuildFails, Start, BoundaryFails, vars, fileVars,
         subVars, workVars, countVars
<1>4. /\ up' \in BOOLEAN /\ rebuildDue' \in BOOLEAN /\ rebuilding' \in BOOLEAN
      /\ boot' \in {"asked", "done", "failed"} /\ sub' \in {"off", "installing", "on", "gone"}
      /\ prior' \in {prior, checkpoint}
  BY <1>1 DEF Installed, LoseFilter, RebuildBegins, RebuildFails, Start, BoundaryFails, vars,
              subVars, Types
<1>5. Types'
  <2>1. prior' \in Unset .. checkpoint BY <1>1, <1>4, ListenerAssumption DEF Types, Unset
  <2> QED BY <1>1, <1>2, <1>3, <1>4, <2>1 DEF Types
<1> QED BY <1>2, <1>5, Aside

\* A crash empties the lane; what was under way is paid for by the crash.
LEMMA CrashStep == ASSUME IInv, Crash PROVE IInv'
<1>1. /\ Types /\ Paid /\ head \in Nat
      /\ faults' = faults + 1 /\ faults \in Nat
      /\ up' = FALSE /\ boot' = "asked" /\ sub' = "off" /\ liveFrom' = 0 /\ delivered' = <<>>
      /\ rebuildDue' = FALSE /\ rebuilding' = FALSE /\ ticking' = FALSE
      /\ bf' = [x \in Loop |-> Off] /\ lane' = <<>> /\ running' = NoEvent
      /\ checkpoint' \in {checkpoint, Unset} /\ target' \in {target, 0} /\ prior' = Unset
      /\ status' \in {status, NoRecords}
      /\ UNCHANGED <<head, begun, seen>>
  BY ListenerAssumption DEF IInv, Crash, Types
<1>2. Off \in LoopState(head) /\ Opened(Off) /\ Off.wait = NoEvent BY <1>1, LoopStates
<1>3. bf' \in [Loop -> LoopState(head)] /\ \A y \in Loop : Opened(bf'[y]) BY <1>1, <1>2
<1>4. <<>> \in Seq(Known(head)) /\ <<>> \in Seq(Event) /\ Range(<<>>) = {} /\ IsInjective(<<>>)
  BY DEF Range, IsInjective
<1>5. Types'
  <2>1. /\ liveFrom' \in 0 .. head' + 1 /\ faults' \in Nat
        /\ checkpoint' \in Unset .. head' /\ target' \in 0 .. head' /\ prior' \in Unset .. checkpoint'
    BY <1>1 DEF Types, Unset
  <2>2. delivered' \in Seq(Known(head')) BY <1>1, <1>4
  <2>3. bf' \in [Loop -> LoopState(head')] BY <1>1, <1>3
  <2>4. up' \in BOOLEAN /\ rebuildDue' \in BOOLEAN /\ rebuilding' \in BOOLEAN /\ ticking' \in BOOLEAN
    BY <1>1
  <2>5. status' \in [Event -> {"none", "ignored", "running", "succeeded", "failed"}]
    BY <1>1 DEF Types, NoRecords
  <2> QED BY <1>1, <1>3, <2>1, <2>2, <2>3, <2>4, <2>5 DEF Types
<1>6. Single' /\ Waiting' BY <1>1, <1>2, <1>4 DEF Single, Distinct, Waiting
<1>7. Paid'
  <2>1. \A e \in Event : NoEvent # e /\ begun[e] \in Nat BY <1>1, ListenerAssumption DEF Types
  <2> QED BY <1>1, <1>4, <2>1 DEF Paid
<1> QED BY <1>5, <1>6, <1>7 DEF IInv

------------------------------------------------------------------------------
(* The invariant and what follows from it.                                 *)

LEMMA InitIInv == Init => IInv
<1> SUFFICES ASSUME Init PROVE IInv OBVIOUS
<1>1. Off \in LoopState(0) /\ Opened(Off) /\ Off.wait = NoEvent BY LoopStates
<1>2. <<>> \in Seq(Known(0)) /\ <<>> \in Seq(Event) /\ Range(<<>>) = {} /\ IsInjective(<<>>)
  BY DEF Range, IsInjective
<1>3. Types
  <2>1. /\ head \in 0 .. MaxBlock /\ checkpoint \in Unset .. head /\ target \in 0 .. head
        /\ liveFrom \in 0 .. head + 1 /\ prior \in Unset .. checkpoint
    BY ListenerAssumption DEF Init, Unset
  <2>2. delivered \in Seq(Known(head)) BY <1>2 DEF Init
  <2>3. bf \in [Loop -> LoopState(head)] /\ \A x \in Loop : Opened(bf[x]) BY <1>1 DEF Init
  <2>4. up \in BOOLEAN /\ rebuildDue \in BOOLEAN /\ rebuilding \in BOOLEAN /\ ticking \in BOOLEAN
    BY DEF Init
  <2>5. /\ status \in [Event -> {"none", "ignored", "running", "succeeded", "failed"}]
        /\ begun \in [Event -> Nat] /\ faults \in Nat /\ seen \subseteq Event
        /\ running \in Event \cup {NoEvent}
    BY DEF Init, NoRecords
  <2> QED BY <2>1, <2>2, <2>3, <2>4, <2>5 DEF Init, Types
<1>4. Single /\ Waiting BY <1>1, <1>2 DEF Init, Single, Distinct, Waiting
<1>5. Paid BY ListenerAssumption DEF Init, NoRecords, Paid
<1> QED BY <1>3, <1>4, <1>5 DEF IInv

LEMMA StepIInv == IInv /\ [Next]_vars => IInv'
<1> SUFFICES ASSUME IInv, [Next]_vars PROVE IInv' OBVIOUS
<1>1. ASSUME NEW x \in Loop, Backfill(x) PROVE IInv'
  BY <1>1, FetchStep, FetchFailsStep, DispatchStep, ChunkDoneStep DEF Backfill
<1>2. CASE LiveEvent BY <1>2, LiveStep
<1>3. CASE BeginWork BY <1>3, BeginStep
<1>4. CASE WorkDone \/ WorkFails BY <1>4, DoneStep
<1>5. CASE PeriodicTick \/ FilterNotFound \/ RebuildEnds BY <1>5, TickStep
<1>6. CASE MineBlock BY <1>6, MineStep
<1>7. CASE Boundary BY <1>7, BoundaryStep
<1>8. CASE Crash BY <1>8, CrashStep
<1>9. CASE \/ Installed \/ LoseFilter \/ RebuildBegins \/ RebuildFails \/ Start \/ BoundaryFails
           \/ UNCHANGED vars
  BY <1>9, OtherStep
<1> QED BY <1>1, <1>2, <1>3, <1>4, <1>5, <1>6, <1>7, <1>8, <1>9 DEF Next

\* A claim is in the lane or under way once, and its beginnings are paid for.
THEOREM Invariance == Spec => []IInv
<1>1. Spec => Init /\ [][Next]_vars BY PTL DEF Spec
<1> QED BY <1>1, InitIInv, StepIInv, PTL

\* The checkpoint and all targets lie within the chain, and no loop awaits an event
\* whose work is neither queued nor under way.
THEOREM NobodyWaitsInVain == Spec => []TypeOK
<1> QED BY Invariance, TypesGiveTypeOK, PTL

\* A claim is begun once, and once more for each failure or crash at most, however
\* often the subscription and the backfills hand it in.
THEOREM ClaimsAreBounded == Spec => []ClaimedOnce
<1>1. IInv => ClaimedOnce BY DEF IInv, Paid, ClaimedOnce
<1> QED BY <1>1, Invariance, PTL

\* Succeeded work is not begun again while its record stands, and only a crash that
\* tears the file takes the record away.
THEOREM SuccessIsFinal == Spec => SucceededIsFinal
<1> DEFINE Stays == \A e \in Event : kind[e] = "claim" /\ status[e] = "succeeded"
                      => /\ begun'[e] = begun[e]
                         /\ \/ status'[e] = "succeeded"
                            \/ up /\ ~up' /\ status' = NoRecords
<1>1. IInv /\ [Next]_vars => [Stays]_vars
  <2> SUFFICES ASSUME IInv, [Next]_vars, NEW e \in Event, kind[e] = "claim", status[e] = "succeeded"
               PROVE  /\ begun'[e] = begun[e]
                      /\ \/ status'[e] = "succeeded"
                         \/ up /\ ~up' /\ status' = NoRecords
    OBVIOUS
  <2>1. /\ Types /\ e \notin Range(lane) /\ running # e BY DEF IInv, Paid
  <2>2. CASE UNCHANGED <<status, begun>> BY <2>2
  <2>3. ASSUME NEW d \in Known(head), NEW taken \in BOOLEAN, Handle(d, taken)
        PROVE  status'[e] = "succeeded" /\ begun'[e] = begun[e]
    BY <2>1, <2>3 DEF Handle, Types
  <2>4. CASE LiveEvent
    <3>1. Head(delivered) \in Known(head) BY <2>1, <2>4 DEF LiveEvent, Types
    <3> QED BY <2>2, <2>3, <2>4, <3>1 DEF LiveEvent, workVars
  <2>5. ASSUME NEW x \in Loop, Dispatch(x)
        PROVE  status'[e] = "succeeded" /\ begun'[e] = begun[e]
    <3>1. Head(bf[x].todo) \in Known(head) BY <2>1, <2>5 DEF Dispatch, Types, LoopState
    <3> QED BY <2>3, <2>5, <3>1 DEF Dispatch
  <2>6. CASE BeginWork
    <3>1. Head(lane) \in Range(lane) BY <2>6, ShiftDistinct DEF IInv, Single, BeginWork
    <3> QED BY <2>1, <2>6, <3>1 DEF BeginWork, Record, Types
  <2>7. CASE WorkDone \/ WorkFails BY <2>1, <2>7 DEF WorkDone, WorkFails, Record, Types
  <2>8. CASE Crash BY <2>8 DEF Crash
  <2> QED BY <2>2, <2>4, <2>5, <2>6, <2>7, <2>8
          DEF Next, Backfill, Fetch, FetchFails, ChunkDone, PeriodicTick, MineBlock, Installed,
              LoseFilter, FilterNotFound, RebuildBegins, RebuildEnds, RebuildFails, Start, Boundary,
              BoundaryFails, vars, fileVars, workVars
<1> QED BY <1>1, Invariance, PTL DEF Spec, SucceededIsFinal

------------------------------------------------------------------------------
(* What the backfills alone forget: nothing.                               *)
(*                                                                         *)
(* Up to the checkpoint, up to where a loop goes on and up to the end of   *)
(* the chunk it has fetched, every event has been looked at or is among    *)
(* the logs some loop still has to dispatch -- of the events owed, by the  *)
(* checkpoint p the start has found.                                       *)

OwedBy(p, e) == p # Unset \/ FromBlock \in 1 .. block[e]

CoveredIn(p, b, s, f) ==
  \A e \in Event :
    OwedBy(p, e) /\ block[e] <= b => e \in s \/ \E x \in Loop : e \in Range(f[x].todo)

SweptIn(p, c, s, f) ==
  /\ CoveredIn(p, c, s, f)
  /\ \A x \in Loop :
       f[x].on => CoveredIn(p, f[x].next - 1, s, f) /\ CoveredIn(p, f[x].chunkEnd, s, f)

Swept == ~liveNoted /\ faults = 0 => SweptIn(prior, checkpoint, seen, bf)

\* A loop that is off has no chunk, and a chunk no logs beyond its end.
LoopShape(l) == (l.chunkEnd # 0 => l.on) /\ \A e \in Range(l.todo) : block[e] <= l.chunkEnd

Shape == /\ boot = "asked" => ~bf["boot"].on
         /\ \A x \in Loop : LoopShape(bf[x])

\* Before the first start nothing has moved.
Fresh == ~up /\ faults = 0 => checkpoint <= 0 /\ sub = "off" /\ \A x \in Loop : ~bf[x].on

SInv == IInv /\ Shape /\ Swept /\ Fresh

\* A chunk's logs are all the events of its blocks, and no later ones.
LEMMA LogsComplete ==
  ASSUME NEW from \in Nat \ {0}, NEW to \in Nat, NEW e \in Event,
         from <= block[e], block[e] <= to
  PROVE  e \in Range(LogsOf(from, to))
<1> DEFINE Up(b) == {i \in DOMAIN Log : block[Log[i]] <= b}
<1>1. /\ Log \in Seq(Event) /\ Len(Log) \in Nat /\ DOMAIN Log = 1 .. Len(Log)
      /\ \A i \in DOMAIN Log : Log[i] \in Event /\ block[Log[i]] \in Nat
      /\ block[e] \in Nat
  BY ListenerAssumption
<1>2. ASSUME NEW b
      PROVE  IsFiniteSet(Up(b)) /\ Cardinality(Up(b)) \in Nat /\ Cardinality(Up(b)) <= Len(Log)
  <2>1. IsFiniteSet(1 .. Len(Log)) /\ Cardinality(1 .. Len(Log)) = Len(Log)
    <3>1. PICK k \in Nat : k = Len(Log) BY <1>1
    <3>2. IsFiniteSet(1 .. k) /\ Cardinality(1 .. k) = k BY FS_Interval
    <3> QED BY <3>1, <3>2
  <2>2. Up(b) \in SUBSET (1 .. Len(Log)) BY <1>1
  <2> QED BY <2>1, <2>2, FS_Subset, FS_CardinalityType
<1>3. PICK m \in Nat : m = Cardinality(Up(from - 1)) BY <1>2
<1>4. PICK n \in Nat : n = Cardinality(Up(to)) /\ n <= Len(Log) BY <1>2
<1>5. PICK i \in 1 .. Len(Log) : Log[i] = e
  <2>1. Contains(Log, e) BY ListenerAssumption
  <2> QED BY <1>1, <2>1 DEF Contains
<1>6. \A k \in Nat : IsFiniteSet(1 .. k) /\ Cardinality(1 .. k) = k
  <2> TAKE k \in Nat
  <2> QED BY FS_Interval
<1>7. m < i
  <2>1. Up(from - 1) \in SUBSET (1 .. i - 1)
    <3> SUFFICES ASSUME NEW j \in DOMAIN Log, block[Log[j]] <= from - 1 PROVE j \in 1 .. i - 1
      OBVIOUS
    <3>1. i < j => block[Log[i]] <= block[Log[j]] BY <1>1, <1>5, ListenerAssumption
    <3>2. ~(i < j) /\ i # j BY <1>1, <1>5, <3>1
    <3> QED BY <1>1, <1>5, <3>2
  <2>2. PICK k \in Nat : k = i - 1 BY <1>5
  <2>3. Cardinality(Up(from - 1)) <= k BY <1>6, <2>1, <2>2, FS_Subset
  <2> QED BY <1>3, <1>5, <2>2, <2>3
<1>8. i <= n
  <2>1. 1 .. i \in SUBSET Up(to)
    <3> SUFFICES ASSUME NEW j \in 1 .. i PROVE j \in DOMAIN Log /\ block[Log[j]] <= to
      OBVIOUS
    <3>1. i \in DOMAIN Log /\ j \in DOMAIN Log /\ i \in Nat /\ j \in Nat BY <1>1, <1>5
    <3>2. j < i => block[Log[j]] <= block[Log[i]] BY <3>1, ListenerAssumption
    <3>3. block[Log[j]] \in Nat /\ block[Log[i]] = block[e] BY <1>1, <1>5, <3>1
    <3>4. CASE j = i BY <3>1, <3>3, <3>4
    <3>5. CASE j < i BY <1>1, <3>1, <3>2, <3>3, <3>5
    <3> QED BY <1>5, <3>1, <3>4, <3>5
  <2>2. i \in Nat BY <1>5
  <2>3. Cardinality(1 .. i) <= Cardinality(Up(to)) BY <1>2, <2>1, FS_Subset
  <2> QED BY <1>4, <1>6, <2>2, <2>3
<1>9. LogsOf(from, to) = SubSeq(Log, m + 1, n) BY <1>3, <1>4 DEF LogsOf
<1>10. PICK k \in Nat : k = i - m BY <1>5, <1>7
<1>11. k \in 1 .. n - m /\ k + m = i BY <1>5, <1>7, <1>8, <1>10
<1>12. k \in DOMAIN SubSeq(Log, m + 1, n) /\ SubSeq(Log, m + 1, n)[k] = Log[i]
  <2>1. \A j \in m + 1 .. n : Log[j] \in Event BY <1>1, <1>4
  <2>2. m + 1 \in Int /\ n \in Int OBVIOUS
  <2>3. /\ SubSeq(Log, m + 1, n) \in Seq(Event)
        /\ Len(SubSeq(Log, m + 1, n)) = IF m + 1 <= n THEN n - (m + 1) + 1 ELSE 0
        /\ \A j \in 1 .. n - (m + 1) + 1 : SubSeq(Log, m + 1, n)[j] = Log[(m + 1) + j - 1]
    BY <2>1, <2>2, SubSeqProperties
  <2>4. DOMAIN SubSeq(Log, m + 1, n) = 1 .. Len(SubSeq(Log, m + 1, n)) BY <2>3, LenProperties
  <2>5. /\ n - (m + 1) + 1 = n - m /\ (m + 1) + k - 1 = i /\ m + 1 <= n
    BY <1>4, <1>5, <1>7, <1>8, <1>11
  <2> QED BY <1>11, <2>3, <2>4, <2>5
<1> QED BY <1>5, <1>9, <1>11, <1>12 DEF Range

\* An event is in no block below the first.
LEMMA NothingBelow == ASSUME NEW p, NEW s, NEW f PROVE CoveredIn(p, 0, s, f)
BY ListenerAssumption DEF CoveredIn

LEMMA Lower ==
  ASSUME NEW p, NEW s, NEW f, NEW b \in Nat, CoveredIn(p, b, s, f), NEW c \in Nat, c <= b
  PROVE  CoveredIn(p, c, s, f)
BY ListenerAssumption DEF CoveredIn

LEMMA NoLogs == Range(<<>>) = {}
BY DEF Range

\* A loop without a chunk has no logs.
LEMMA Idle ==
  ASSUME Types, Shape, NEW x \in Loop, bf[x].chunkEnd = 0
  PROVE  Range(bf[x].todo) = {}
<1>1. \A e \in Range(bf[x].todo) : e \in Event
  BY DEF Types, LoopState, Known, Range
<1> QED BY <1>1, ListenerAssumption DEF Shape, LoopShape

\* A loop whose logs are dispatched begins anew, from a block up to which all is covered.
LEMMA Anew ==
  ASSUME IInv, Shape, Swept, NEW x \in Loop, Range(bf[x].todo) = {},
         NEW from \in Nat \ {0}, NEW l,
         l = Off \/ \E to : l = Over(from, to),
         bf' = [bf EXCEPT ![x] = l], seen' = seen, prior' = prior,
         liveNoted' = liveNoted, faults' = faults,
         ~liveNoted /\ faults = 0 =>
           CoveredIn(prior, from - 1, seen, bf) /\ CoveredIn(prior, checkpoint', seen, bf)
  PROVE  Swept' /\ (\A y \in Loop : LoopShape(bf'[y])) /\ \A y \in Loop : y # x => bf'[y] = bf[y]
<1>1. l.chunkEnd = 0 /\ l.todo = <<>> /\ (l.on => l.next = from)
  <2>1. /\ Off.chunkEnd = 0 /\ Off.todo = <<>> /\ ~Off.on BY DEF Off
  <2>2. ASSUME NEW to, from <= to
        PROVE  Over(from, to).chunkEnd = 0 /\ Over(from, to).todo = <<>> /\ Over(from, to).next = from
    BY <2>2 DEF Over, Off
  <2>3. ASSUME NEW to, ~(from <= to) PROVE Over(from, to) = Off BY <2>3 DEF Over
  <2> QED BY <2>1, <2>2, <2>3
<1>2. bf'[x] = l /\ \A y \in Loop : y # x => bf'[y] = bf[y] BY DEF IInv, Types
<1>3. \A y \in Loop : LoopShape(bf'[y]) BY <1>1, <1>2, NoLogs DEF Shape, LoopShape
<1>4. ASSUME ~liveNoted, faults = 0 PROVE SweptIn(prior, checkpoint', seen', bf')
  <2>1. /\ seen \subseteq seen'
        /\ \A y \in Loop : \A e \in Range(bf[y].todo) :
             e \in seen' \/ \E z \in Loop : e \in Range(bf'[z].todo)
    BY <1>2
  <2>2. ASSUME NEW b, CoveredIn(prior, b, seen, bf) PROVE CoveredIn(prior, b, seen', bf')
    BY <2>1, <2>2 DEF CoveredIn
  <2>3. ASSUME NEW y \in Loop, bf'[y].on
        PROVE  /\ CoveredIn(prior, bf'[y].next - 1, seen', bf')
               /\ CoveredIn(prior, bf'[y].chunkEnd, seen', bf')
    <3>1. CASE y = x BY <1>1, <1>2, <1>4, <2>2, <2>3, <3>1, NothingBelow
    <3>2. CASE y # x
      <4>1. bf'[y] = bf[y] BY <1>2, <3>2
      <4>2. CoveredIn(prior, bf[y].next - 1, seen, bf) /\ CoveredIn(prior, bf[y].chunkEnd, seen, bf)
        BY <1>4, <2>3, <4>1 DEF Swept, SweptIn
      <4> QED BY <2>2, <4>1, <4>2
    <3> QED BY <3>1, <3>2
  <2> QED BY <1>4, <2>2, <2>3 DEF SweptIn
<1> QED BY <1>2, <1>3, <1>4 DEF Swept

LEMMA SweepFetch == ASSUME SInv, NEW x \in Loop, Fetch(x) PROVE Shape' /\ Swept'
<1>1. /\ IInv /\ Types /\ Shape /\ Swept /\ bf[x].on /\ bf[x].chunkEnd = 0
      /\ UNCHANGED <<boot, checkpoint, seen, prior, liveNoted, faults>>
  BY DEF SInv, IInv, Fetch, MayFetch, fileVars, workVars, countVars
<1>2. bf[x] \in LoopState(head) /\ bf[x].next \in Nat \ {0} /\ head \in Nat
  BY <1>1 DEF Types, LoopState, Opened
<1>3. PICK c \in 0 .. head : c = ChunkEnd(x) BY <1>1, <1>2, ChunkEndType
<1>4. PICK n \in Nat \ {0} : n = bf[x].next BY <1>2
<1>5. PICK q : q = LogsOf(n, c) OBVIOUS
<1>6. /\ \A y \in Loop : y # x => bf'[y] = bf[y]
      /\ bf'[x].on = bf[x].on /\ bf'[x].next = n /\ bf'[x].chunkEnd = c /\ bf'[x].todo = q
  BY <1>1, <1>2, <1>3, <1>4, <1>5 DEF Fetch, Types, LoopState
<1>7. \A e \in Range(q) : e \in Event /\ block[e] <= c
  <2>1. q \in Seq(Known(c)) BY <1>2, <1>5, LogsKnown
  <2> QED BY <2>1 DEF Range, Known
<1>8. Shape'
  <2>1. \A y \in Loop : LoopShape(bf'[y])
    <3>1. LoopShape(bf'[x]) BY <1>1, <1>6, <1>7 DEF LoopShape
    <3> QED BY <1>1, <1>6, <3>1 DEF Shape
  <2>2. boot' = "asked" => ~bf'["boot"].on BY <1>1, <1>6 DEF Shape, Loop
  <2> QED BY <2>1, <2>2 DEF Shape
<1>9. ASSUME ~liveNoted, faults = 0 PROVE SweptIn(prior, checkpoint', seen', bf')
  <2>1. Range(bf[x].todo) = {} BY <1>1, Idle
  <2>2. \A y \in Loop : \A e \in Range(bf[y].todo) : \E z \in Loop : e \in Range(bf'[z].todo)
    BY <1>6, <2>1
  <2>3. ASSUME NEW b, CoveredIn(prior, b, seen, bf) PROVE CoveredIn(prior, b, seen', bf')
    BY <1>1, <2>2, <2>3 DEF CoveredIn
  <2>4. SweptIn(prior, checkpoint, seen, bf) BY <1>1, <1>9 DEF Swept
  <2>5. CoveredIn(prior, n - 1, seen', bf') BY <1>1, <1>4, <2>3, <2>4 DEF SweptIn
  <2>6. CoveredIn(prior, c, seen', bf')
    <3> SUFFICES ASSUME NEW e \in Event, OwedBy(prior, e), block[e] <= c
                 PROVE  e \in seen' \/ \E y \in Loop : e \in Range(bf'[y].todo)
      BY DEF CoveredIn
    <3>1. block[e] \in Nat BY ListenerAssumption
    <3>2. CASE block[e] <= n - 1 BY <2>5, <3>2 DEF CoveredIn
    <3>3. CASE n <= block[e]
      <4>1. e \in Range(q) BY <1>2, <1>5, <3>3, LogsComplete
      <4> QED BY <1>6, <4>1
    <3> QED BY <3>1, <3>2, <3>3
  <2> QED BY <1>1, <1>6, <2>3, <2>4, <2>5, <2>6 DEF SweptIn
<1> QED BY <1>1, <1>8, <1>9 DEF Swept

LEMMA SweepDispatch == ASSUME SInv, NEW x \in Loop, Dispatch(x) PROVE Shape' /\ Swept'
<1>1. /\ IInv /\ Types /\ Shape /\ Swept /\ bf[x].on /\ bf[x].todo # <<>>
      /\ UNCHANGED <<boot, prior, liveNoted, faults>>
  BY DEF SInv, IInv, Dispatch, countVars
<1>2. /\ bf[x] \in LoopState(head) /\ bf[x].todo \in Seq(Known(head))
      /\ Head(bf[x].todo) \in Known(head)
  BY <1>1 DEF Types, LoopState
<1>3. PICK e \in Event : e = Head(bf[x].todo) BY <1>2 DEF Known
<1>4. /\ Range(bf[x].todo) = Range(Tail(bf[x].todo)) \cup {e}
  <2>1. PICK K : K = Known(head) OBVIOUS
  <2>2. PICK s \in Seq(K) : s = bf[x].todo BY <1>2, <2>1
  <2>3. /\ s # <<>> /\ Len(s) \in Nat /\ DOMAIN s = 1 .. Len(s) /\ Head(s) = s[1] /\ Len(s) # 0
        /\ DOMAIN Tail(s) = 1 .. Len(s) - 1 /\ \A i \in 1 .. Len(s) - 1 : Tail(s)[i] = s[i + 1]
    BY <1>1, <2>2
  <2>4. Range(Tail(s)) \cup {Head(s)} \subseteq Range(s) BY <2>3 DEF Range
  <2>5. ASSUME NEW i \in 1 .. Len(s) PROVE s[i] \in Range(Tail(s)) \cup {Head(s)}
    <3>1. CASE i = 1 BY <2>3, <3>1
    <3>2. CASE i # 1
      <4>1. i - 1 \in 1 .. Len(s) - 1 /\ s[i] = Tail(s)[i - 1] BY <2>3, <3>2
      <4> QED BY <2>3, <4>1 DEF Range
    <3> QED BY <3>1, <3>2
  <2>6. Range(s) \subseteq Range(Tail(s)) \cup {Head(s)} BY <2>3, <2>5 DEF Range
  <2> QED BY <1>3, <2>2, <2>4, <2>6
<1>5. PICK taken \in BOOLEAN :
        /\ Handle(e, taken)
        /\ bf' = [bf EXCEPT ![x].todo = Tail(@), ![x].wait = IF taken THEN e ELSE NoEvent]
  BY <1>3 DEF Dispatch
<1>6. checkpoint' = MaxOf(checkpoint, block[e]) /\ seen' = seen \cup {e}
  BY <1>5 DEF Handle, Note
<1>7. /\ \A y \in Loop : y # x => bf'[y] = bf[y]
      /\ bf'[x].on = bf[x].on /\ bf'[x].next = bf[x].next /\ bf'[x].chunkEnd = bf[x].chunkEnd
      /\ bf'[x].todo = Tail(bf[x].todo)
  BY <1>1, <1>2, <1>5 DEF Types, LoopState
<1>8. Shape'
  <2>1. \A y \in Loop : LoopShape(bf'[y])
    <3>1. LoopShape(bf[x]) BY <1>1 DEF Shape
    <3>2. LoopShape(bf'[x]) BY <1>4, <1>7, <3>1 DEF LoopShape
    <3> QED BY <1>1, <1>7, <3>2 DEF Shape
  <2>2. boot' = "asked" => ~bf'["boot"].on BY <1>1, <1>7 DEF Shape, Loop
  <2> QED BY <2>1, <2>2 DEF Shape
<1>9. ASSUME ~liveNoted, faults = 0 PROVE SweptIn(prior, checkpoint', seen', bf')
  <2>1. \A y \in Loop : \A d \in Range(bf[y].todo) :
          d \in seen' \/ \E z \in Loop : d \in Range(bf'[z].todo)
    BY <1>4, <1>6, <1>7
  <2>2. ASSUME NEW b, CoveredIn(prior, b, seen, bf) PROVE CoveredIn(prior, b, seen', bf')
    BY <1>6, <2>1, <2>2 DEF CoveredIn
  <2>3. SweptIn(prior, checkpoint, seen, bf) BY <1>1, <1>9 DEF Swept
  <2>4. CoveredIn(prior, checkpoint', seen', bf')
    <3>1. e \in Range(bf[x].todo) BY <1>4
    <3>2. block[e] <= bf[x].chunkEnd BY <1>1, <3>1 DEF Shape, LoopShape
    <3>3. CoveredIn(prior, bf[x].chunkEnd, seen, bf) BY <1>1, <2>3 DEF SweptIn
    <3>4. bf[x].chunkEnd \in Nat /\ block[e] \in Nat
      BY <1>2, ListenerAssumption DEF LoopState
    <3>5. CoveredIn(prior, block[e], seen, bf) BY <3>2, <3>3, <3>4, Lower
    <3>6. checkpoint' \in {checkpoint, block[e]} BY <1>6 DEF MaxOf
    <3> QED BY <2>2, <2>3, <3>5, <3>6 DEF SweptIn
  <2>5. \A y \in Loop : /\ bf'[y].on = bf[y].on /\ bf'[y].next = bf[y].next
                        /\ bf'[y].chunkEnd = bf[y].chunkEnd
    BY <1>7
  <2> QED BY <2>2, <2>3, <2>4, <2>5 DEF SweptIn
<1> QED BY <1>1, <1>8, <1>9 DEF Swept

LEMMA SweepChunkDone == ASSUME SInv, NEW x \in Loop, ChunkDone(x) PROVE Shape' /\ Swept'
<1>1. /\ IInv /\ Types /\ Shape /\ Swept /\ bf[x].chunkEnd # 0 /\ bf[x].todo = <<>>
      /\ checkpoint' = MaxOf(checkpoint, bf[x].chunkEnd)
      /\ bf' = [bf EXCEPT ![x] = Over(bf[x].chunkEnd + 1, bf[x].to)]
      /\ UNCHANGED <<boot, seen, prior, liveNoted, faults>>
  BY DEF SInv, IInv, ChunkDone, Note, workVars, countVars
<1>2. PICK c \in Nat : c = bf[x].chunkEnd BY <1>1, ListenerAssumption DEF Types, LoopState
<1>3. PICK l : l = Over(c + 1, bf[x].to) OBVIOUS
<1>4. bf[x].on BY <1>1 DEF Shape, LoopShape
<1>5. ASSUME ~liveNoted, faults = 0
      PROVE  CoveredIn(prior, (c + 1) - 1, seen, bf) /\ CoveredIn(prior, checkpoint', seen, bf)
  <2>1. SweptIn(prior, checkpoint, seen, bf) BY <1>1, <1>5 DEF Swept
  <2>2. (c + 1) - 1 = c /\ checkpoint' \in {checkpoint, c} BY <1>1, <1>2 DEF MaxOf
  <2> QED BY <1>2, <1>4, <2>1, <2>2 DEF SweptIn
<1>6. /\ Swept' /\ \A y \in Loop : LoopShape(bf'[y]) /\ (y # x => bf'[y] = bf[y])
  <2>1. Range(bf[x].todo) = {} BY <1>1, NoLogs
  <2>2. c + 1 \in Nat \ {0} /\ \E to : l = Over(c + 1, to) BY <1>2, <1>3
  <2> QED BY <1>1, <1>2, <1>3, <1>5, <2>1, <2>2, Anew
<1>7. boot' = "asked" => ~bf'["boot"].on BY <1>1, <1>4, <1>6 DEF Shape, Loop
<1> QED BY <1>6, <1>7 DEF Shape

LEMMA SweepFetchFails == ASSUME SInv, NEW x \in Loop, FetchFails(x) PROVE Shape' /\ Swept'
<1>1. /\ IInv /\ Types /\ Shape /\ Swept /\ bf[x].chunkEnd = 0 /\ bf' = [bf EXCEPT ![x] = Off]
      /\ UNCHANGED <<boot, checkpoint, seen, prior, liveNoted, faults>>
  BY DEF SInv, IInv, FetchFails, MayFetch, fileVars, workVars
<1>2. PICK one \in Nat \ {0} : one = 1 OBVIOUS
<1>3. ASSUME ~liveNoted, faults = 0
      PROVE  CoveredIn(prior, one - 1, seen, bf) /\ CoveredIn(prior, checkpoint', seen, bf)
  BY <1>1, <1>2, <1>3, NothingBelow DEF Swept, SweptIn
<1>4. Swept' /\ \A y \in Loop : LoopShape(bf'[y]) /\ (y # x => bf'[y] = bf[y])
  <2>1. Range(bf[x].todo) = {} BY <1>1, Idle
  <2> QED BY <1>1, <1>3, <2>1, Anew
<1>5. ~bf'[x].on BY <1>1 DEF Off, Types
<1> QED BY <1>1, <1>4, <1>5 DEF Shape, Loop

\* A loop begins where everything owed below is covered.
LEMMA SweepBegins ==
  ASSUME SInv, NEW x \in Loop, NEW from \in Nat \ {0}, NEW l,
         l = Off \/ \E to : l = Over(from, to),
         ~liveNoted /\ faults = 0 => CoveredIn(prior, from - 1, seen, bf),
         ~bf[x].on, bf' = [bf EXCEPT ![x] = l],
         UNCHANGED <<checkpoint, seen, prior, liveNoted, faults>>
  PROVE  /\ Swept' /\ \A y \in Loop : LoopShape(bf'[y]) /\ (y # x => bf'[y] = bf[y])
<1>1. IInv /\ Types /\ Shape /\ Swept BY DEF SInv, IInv
<1>2. bf[x].chunkEnd = 0 BY <1>1 DEF Shape, LoopShape
<1>3. Range(bf[x].todo) = {} BY <1>1, <1>2, Idle
<1>4. ASSUME ~liveNoted, faults = 0
      PROVE  CoveredIn(prior, from - 1, seen, bf) /\ CoveredIn(prior, checkpoint', seen, bf)
  BY <1>1, <1>4 DEF Swept, SweptIn
<1> QED BY <1>1, <1>3, <1>4, Anew

\* A tick begins behind the checkpoint.
LEMMA SweepTick ==
  ASSUME SInv, PeriodicTick \/ FilterNotFound \/ RebuildEnds
  PROVE  Shape' /\ Swept'
<1>1. /\ bf' = bf \/ BeginTick(TickTarget) \/ BeginTick(head)
      /\ UNCHANGED <<boot, checkpoint, seen, prior, liveNoted, faults>>
  BY DEF PeriodicTick, FilterNotFound, RebuildEnds, workVars, countVars
<1>2. Shape /\ Swept BY DEF SInv
<1>3. CASE bf' = bf BY <1>1, <1>2, <1>3 DEF Shape, Swept
<1>4. ASSUME NEW t, BeginTick(t) PROVE Shape' /\ Swept'
  <2>1. PICK x \in Loop : x = "tick" BY DEF Loop
  <2>2. checkpoint \in Nat
    BY <1>4, ListenerAssumption DEF SInv, IInv, Types, BeginTick, Unset
  <2>3. PICK from \in Nat \ {0} : from = checkpoint + 1 BY <2>2
  <2>4. PICK l : l = Over(from, MinOf(checkpoint + TickBlocks, t)) OBVIOUS
  <2>5. ~bf[x].on /\ bf' = [bf EXCEPT ![x] = l] BY <1>4, <2>1, <2>3, <2>4 DEF BeginTick
  <2>6. ~liveNoted /\ faults = 0 => CoveredIn(prior, from - 1, seen, bf)
    <3>1. from - 1 = checkpoint BY <2>2, <2>3
    <3> QED BY <1>2, <3>1 DEF Swept, SweptIn
  <2>7. Swept' /\ \A y \in Loop : LoopShape(bf'[y]) /\ (y # x => bf'[y] = bf[y])
    <3>1. l = Off \/ \E to : l = Over(from, to) BY <2>4
    <3> QED BY <1>1, <2>5, <2>6, <3>1, SweepBegins
  <2> QED BY <1>1, <1>2, <2>1, <2>7 DEF Shape, Loop
<1> QED BY <1>1, <1>3, <1>4

\* The boot backfill begins behind an earlier checkpoint, or where the debt begins.
LEMMA SweepBoundary == ASSUME SInv, Boundary PROVE Shape' /\ Swept'
<1> DEFINE l == IF BootFrom = Unset THEN Off ELSE Over(BootFrom, head)
<1>1. /\ Shape /\ Swept /\ bf' = [bf EXCEPT !["boot"] = l]
      /\ boot = "asked" /\ boot' = "done" /\ prior \in Unset .. checkpoint
      /\ checkpoint \in Unset .. head /\ head \in Nat
      /\ UNCHANGED <<checkpoint, seen, prior, liveNoted, faults>>
  BY ListenerAssumption DEF SInv, IInv, Types, Boundary, workVars, countVars
<1>2. ~bf["boot"].on BY <1>1 DEF Shape
<1>3. PICK from \in Nat \ {0} :
        /\ from = IF BootFrom = Unset THEN 1 ELSE BootFrom
        /\ l = Off \/ \E to : l = Over(from, to)
  <2>1. BootFrom = Unset \/ BootFrom \in Nat \ {0}
    BY <1>1, ListenerAssumption DEF BootFrom, Unset
  <2> QED BY <2>1
<1>4. ASSUME ~liveNoted, faults = 0 PROVE CoveredIn(prior, from - 1, seen, bf)
  <2>1. CoveredIn(prior, checkpoint, seen, bf) BY <1>1, <1>4 DEF Swept, SweptIn
  <2>2. CASE BootFrom = Unset
    <3>1. from - 1 = 0 BY <1>3, <2>2
    <3> QED BY <3>1, NothingBelow
  <2>3. CASE BootFrom # Unset /\ prior # Unset
    <3>1. from - 1 = prior /\ prior \in Nat /\ checkpoint \in Nat /\ prior <= checkpoint
      BY <1>1, <1>3, <2>3 DEF BootFrom, Unset
    <3> QED BY <2>1, <3>1, Lower
  <2>4. CASE BootFrom # Unset /\ prior = Unset
    <3>1. from = FromBlock BY <1>3, <2>4 DEF BootFrom
    <3> QED BY <1>3, <2>4, <3>1, ListenerAssumption DEF CoveredIn, OwedBy
  <2> QED BY <2>2, <2>3, <2>4
<1>5. Swept' /\ \A y \in Loop : LoopShape(bf'[y])
  <2>1. "boot" \in Loop BY DEF Loop
  <2>2. ~liveNoted /\ faults = 0 => CoveredIn(prior, from - 1, seen, bf) BY <1>4
  <2>3. l = Off \/ \E to : l = Over(from, to) BY <1>3
  <2> HIDE DEF l
  <2> QED BY <1>1, <1>2, <2>1, <2>2, <2>3, SweepBegins
<1> QED BY <1>1, <1>5 DEF Shape

\* The first start finds that nothing has moved.
LEMMA SweepStart == ASSUME SInv, Start PROVE Shape' /\ Swept'
<1>1. /\ Types /\ Shape /\ Fresh /\ ~up /\ prior' = checkpoint
      /\ UNCHANGED <<boot, bf, checkpoint, seen, liveNoted, faults>>
  BY DEF SInv, IInv, Start, fileVars, workVars, countVars
<1>2. Shape' BY <1>1 DEF Shape, LoopShape
<1>3. ASSUME faults = 0 PROVE SweptIn(prior', checkpoint', seen', bf')
  <2>1. checkpoint <= 0 /\ \A x \in Loop : ~bf[x].on BY <1>1, <1>3 DEF Fresh
  <2>2. CoveredIn(prior', checkpoint', seen', bf')
    BY <1>1, <2>1, ListenerAssumption DEF CoveredIn, Types, Unset
  <2> QED BY <1>1, <2>1, <2>2 DEF SweptIn
<1> QED BY <1>1, <1>2, <1>3 DEF Swept

\* A live event that moves the checkpoint, a failure and a crash end the claim; the
\* rest leaves the checkpoint, the logs and what has been looked at alone.
LEMMA SweepElse ==
  ASSUME SInv,
         \/ LiveEvent \/ BeginWork \/ WorkDone \/ MineBlock \/ Installed \/ LoseFilter
         \/ RebuildBegins \/ RebuildFails \/ BoundaryFails \/ UNCHANGED vars
  PROVE  Shape' /\ Swept'
<1>1. Types /\ Shape /\ Swept BY DEF SInv, IInv
<1>2. /\ liveNoted' \/ UNCHANGED <<checkpoint, seen, prior, liveNoted, faults>>
      /\ boot' = "asked" => boot = "asked"
      /\ bf' = bf \/ bf' = Woken(running)
  BY DEF LiveEvent, BeginWork, WorkDone, MineBlock, Installed, LoseFilter, RebuildBegins,
         RebuildFails, BoundaryFails, vars, fileVars, subVars, workVars, countVars
<1>3. \A x \in Loop : /\ bf'[x].on = bf[x].on /\ bf'[x].next = bf[x].next
                      /\ bf'[x].chunkEnd = bf[x].chunkEnd /\ bf'[x].todo = bf[x].todo
  <2> TAKE x \in Loop
  <2>1. bf[x] \in LoopState(head) BY <1>1 DEF Types
  <2>2. bf'[x] \in {bf[x], [bf[x] EXCEPT !.wait = NoEvent]} BY <1>2 DEF Woken
  <2> QED BY <2>1, <2>2 DEF LoopState
<1>4. Shape' BY <1>1, <1>2, <1>3 DEF Shape, LoopShape, Loop
<1>5. \A b : CoveredIn(prior, b, seen, bf) => CoveredIn(prior, b, seen, bf') BY <1>3 DEF CoveredIn
<1>6. Swept' BY <1>1, <1>2, <1>3, <1>5 DEF Swept, SweptIn
<1> QED BY <1>4, <1>6

LEMMA SweepFaults == ASSUME SInv, WorkFails \/ Crash PROVE Shape' /\ Swept'
<1>1. Types /\ Shape /\ faults' = faults + 1 /\ faults \in Nat
  BY DEF SInv, IInv, Types, WorkFails, Crash
<1>2. Swept' BY <1>1 DEF Swept
<1>3. LoopShape(Off) /\ ~Off.on BY NoLogs DEF LoopShape, Off
<1>4. CASE Crash BY <1>2, <1>3, <1>4 DEF Crash, Shape, Loop
<1>5. CASE WorkFails
  <2>1. boot' = boot /\ (bf' = Woken(running) \/ bf' = Ended(running))
    BY <1>5 DEF WorkFails
  <2>2. \A x \in Loop : bf'[x] \in {bf[x], [bf[x] EXCEPT !.wait = NoEvent], Off}
    BY <2>1 DEF Woken, Ended
  <2>3. \A x \in Loop : \/ bf'[x] = Off
                        \/ /\ bf'[x].on = bf[x].on /\ bf'[x].chunkEnd = bf[x].chunkEnd
                           /\ bf'[x].todo = bf[x].todo
    BY <1>1, <2>2 DEF Types, LoopState
  <2>4. Shape' BY <1>1, <1>3, <2>1, <2>3 DEF Shape, LoopShape, Loop
  <2> QED BY <1>2, <2>4
<1> QED BY <1>4, <1>5

\* Nothing moves before the first start.
LEMMA FreshStays == ASSUME SInv, [Next]_vars PROVE Fresh'
<1> SUFFICES ASSUME ~up', faults' = 0 PROVE Fresh' BY DEF Fresh
<1>1. Types /\ Fresh /\ faults \in Nat BY DEF SInv, IInv, Types
<1>2. (up' = up /\ faults' = faults) \/ up' = TRUE \/ faults' = faults + 1
  BY DEF Next, LiveEvent, BeginWork, WorkDone, WorkFails, Backfill, Fetch, FetchFails, Dispatch,
         ChunkDone, PeriodicTick, MineBlock, Installed, LoseFilter, FilterNotFound, RebuildBegins,
         RebuildEnds, RebuildFails, Start, Boundary, BoundaryFails, Crash, vars, countVars
<1>3. ~up /\ faults = 0 BY <1>1, <1>2
<1>4. checkpoint <= 0 /\ sub = "off" /\ \A x \in Loop : ~bf[x].on BY <1>1, <1>3 DEF Fresh
<1>5. UNCHANGED <<checkpoint, sub, bf>>
  BY <1>3, <1>4
     DEF Next, LiveEvent, BeginWork, WorkDone, WorkFails, Backfill, Fetch, MayFetch, FetchFails,
         Dispatch, ChunkDone, PeriodicTick, MineBlock, Installed, LoseFilter, FilterNotFound,
         RebuildBegins, RebuildEnds, RebuildFails, Start, Boundary, BoundaryFails, Crash, vars,
         fileVars, subVars
<1> QED BY <1>4, <1>5 DEF Fresh

LEMMA StepSInv == SInv /\ [Next]_vars => SInv'
<1> SUFFICES ASSUME SInv, [Next]_vars PROVE SInv' OBVIOUS
<1>1. IInv' /\ Fresh' BY StepIInv, FreshStays DEF SInv
<1>2. ASSUME NEW x \in Loop, Backfill(x) PROVE Shape' /\ Swept'
  BY <1>2, SweepFetch, SweepFetchFails, SweepDispatch, SweepChunkDone DEF Backfill
<1>3. CASE PeriodicTick \/ FilterNotFound \/ RebuildEnds BY <1>1, <1>3, SweepTick DEF SInv
<1>4. CASE Boundary BY <1>1, <1>4, SweepBoundary DEF SInv
<1>5. CASE WorkFails \/ Crash BY <1>1, <1>5, SweepFaults DEF SInv
<1>6. CASE \/ LiveEvent \/ BeginWork \/ WorkDone \/ MineBlock \/ Installed \/ LoseFilter
           \/ RebuildBegins \/ RebuildFails \/ BoundaryFails \/ UNCHANGED vars
  BY <1>1, <1>6, SweepElse DEF SInv
<1>7. CASE Start BY <1>1, <1>7, SweepStart DEF SInv
<1> QED BY <1>1, <1>2, <1>3, <1>4, <1>5, <1>6, <1>7 DEF Next, SInv

\* As long as no live event has moved the checkpoint and nothing has failed but reads,
\* every event owed up to the checkpoint has been looked at or is still ahead.
THEOREM BackfillsAreComplete == Spec => []BackfillForgetsNothing
<1>1. Init => SInv
  <2> SUFFICES ASSUME Init PROVE SInv OBVIOUS
  <2>1. IInv BY InitIInv
  <2>2. ~Off.on /\ LoopShape(Off) BY NoLogs DEF LoopShape, Off
  <2>3. Shape BY <2>2 DEF Init, Shape, Loop
  <2>4. checkpoint <= 0 BY DEF Init, Unset
  <2>5. Swept
    <3>1. CoveredIn(prior, checkpoint, seen, bf)
      BY <2>4, ListenerAssumption DEF Init, CoveredIn, Unset
    <3> QED BY <2>2, <3>1 DEF Init, Swept, SweptIn
  <2>6. Fresh BY <2>2, <2>4 DEF Init, Fresh
  <2> QED BY <2>1, <2>3, <2>5, <2>6 DEF SInv
<1>2. SInv => BackfillForgetsNothing
  <2> SUFFICES ASSUME SInv, ~liveNoted, faults = 0, NEW e \in Event,
                      Owed(e), block[e] <= checkpoint, e \notin seen
               PROVE  Ahead(e)
    BY DEF BackfillForgetsNothing, Forgotten
  <2>1. PICK x \in Loop : e \in Range(bf[x].todo)
    BY DEF SInv, Swept, SweptIn, CoveredIn, Owed, OwedBy
  <2>2. bf[x].todo \in Seq(Known(head)) /\ bf[x].chunkEnd \in Nat
    BY ListenerAssumption DEF SInv, IInv, Types, LoopState
  <2>3. bf[x].chunkEnd # 0 BY <2>1, <2>2, ListenerAssumption DEF SInv, Shape, LoopShape
  <2>4. bf[x].on BY <2>3 DEF SInv, Shape, LoopShape
  <2>5. Contains(bf[x].todo, e) BY <2>1, <2>2 DEF Contains, Range
  <2> QED BY <2>4, <2>5 DEF Ahead
<1>3. Spec => Init /\ [][Next]_vars BY PTL DEF Spec
<1> QED BY <1>1, <1>2, <1>3, StepSInv, PTL
==============================================================================
