-------------------------- MODULE OnchainLaneProofs --------------------------
(***************************************************************************)
(* Proofs about OnchainLane, for any tasks, lanes they name and shutdown:  *)
(* a lane runs one task at a time, in the order of enqueueing, and no task *)
(* waits on a lane without a loop.  The induction needs what the code of   *)
(* drain relies on without saying: the in-flight flag is set exactly while *)
(* a task is awaited, and a lane whose flag is down has nothing queued.    *)
(* The shutdown then waits for all that was ever enqueued, because what    *)
(* has not settled is queued or awaited.                                   *)
(***************************************************************************)
EXTENDS OnchainLane, QueueLemmas

\* The lane of a task is one of the three.
LEMMA LaneOfType == \A t \in Task : LaneOf(t) \in Lane
BY DEF LaneOf, Lane

LEMMA AppendOfConcat ==
  \A a, q \in Seq(Task), x \in Task : Append(a \o q, x) = a \o Append(q, x)
OBVIOUS

\* Nothing runs and nothing is queued at the start.
LEMMA InitIInv == Init => IInv
<1> SUFFICES ASSUME Init PROVE IInv OBVIOUS
<1>1. Len(WaitList) \in Nat /\ 0 \in 0 .. MaxWait BY WaitAssumption
<1>2. TypeOK
  <2>1. <<>> \in Seq(Task) /\ stopping \in 0 .. Len(WaitList) + 1
        /\ elapsed \in 0 .. MaxWait
    BY <1>1 DEF Init
  <2>2. /\ queue \in [Lane -> Seq(Task)]
        /\ enqueued \in [Lane -> Seq(Task)]
        /\ started \in [Lane -> Seq(Task)]
    BY <2>1 DEF Init
  <2> QED BY <2>1, <2>2 DEF Init, TypeOK, Outcome
<1>3. FifoPerLane BY DEF Init, FifoPerLane
<1> QED BY <1>2, <1>3 DEF Init, IInv, OneAtATime

LEMMA EnqueueIInv ==
  ASSUME IInv, NEW t \in Task, enqueueOnchainTxWork(t)
  PROVE  IInv'
<1> DEFINE l == LaneOf(t)
<1>0. l \in Lane BY LaneOfType
<1> HIDE DEF l
<1>1. /\ enqueued' = [enqueued EXCEPT ![l] = Append(@, t)]
      /\ \A k \in Lane : enqueued[k] = started[k] \o queue[k]
      /\ \A k \in Lane : queue[k] \in Seq(Task) /\ started[k] \in Seq(Task)
      /\ TypeOK /\ open' = open \cup {l} /\ UNCHANGED <<stopping, elapsed, exited>>
  BY DEF IInv, enqueueOnchainTxWork, FifoPerLane, TypeOK, l
<1>2. CASE inFlight[l]
  <2>1. /\ queue' = [queue EXCEPT ![l] = Append(@, t)]
        /\ outcome' = [outcome EXCEPT ![t] = "queued"]
        /\ UNCHANGED <<inFlight, current, started>>
    BY <1>2 DEF enqueueOnchainTxWork, l
  <2>2. TypeOK' BY <1>0, <1>1, <2>1 DEF TypeOK, Outcome
  <2>3. FifoPerLane'
    <3>1. started[l] \in Seq(Task) /\ queue[l] \in Seq(Task) BY <1>0, <1>1
    <3>2. Append(started[l] \o queue[l], t) = started[l] \o Append(queue[l], t)
      BY <3>1, AppendOfConcat, Zenon
    <3> QED BY <1>0, <1>1, <2>1, <3>2 DEF FifoPerLane, TypeOK
  <2>4. OneAtATime' BY <2>1 DEF IInv, OneAtATime
  <2> QED BY <1>2, <2>1, <2>2, <2>3, <2>4 DEF IInv, TypeOK
<1>3. CASE ~inFlight[l]
  <2>1. /\ inFlight' = [inFlight EXCEPT ![l] = TRUE]
        /\ current' = [current EXCEPT ![l] = {t}]
        /\ started' = [started EXCEPT ![l] = Append(@, t)]
        /\ outcome' = [outcome EXCEPT ![t] = "running"]
        /\ UNCHANGED queue
    BY <1>3 DEF enqueueOnchainTxWork, l
  <2>2. TypeOK' BY <1>0, <1>1, <2>1 DEF TypeOK, Outcome
  <2>3. queue[l] = <<>> BY <1>0, <1>3 DEF IInv
  <2>4. FifoPerLane'
    <3>1. started[l] \in Seq(Task) /\ Append(started[l], t) \in Seq(Task) BY <1>0, <1>1
    <3>2. started[l] \o <<>> = started[l] BY <3>1
    <3>3. Append(started[l], t) \o <<>> = Append(started[l], t) BY <3>1
    <3>4. enqueued'[l] = started'[l] \o queue'[l]
      BY <1>0, <1>1, <2>1, <2>3, <3>2, <3>3 DEF TypeOK
    <3> QED BY <1>0, <1>1, <2>1, <3>4 DEF FifoPerLane, TypeOK
  <2>5. OneAtATime' BY <1>0, <2>1 DEF IInv, OneAtATime, TypeOK
  <2> QED BY <1>0, <2>1, <2>2, <2>4, <2>5 DEF IInv, TypeOK
<1> QED BY <1>2, <1>3

LEMMA DrainIInv ==
  ASSUME IInv, NEW t \in Task, NEW result \in Settled, drain(t, result)
  PROVE  IInv'
<1> DEFINE l == LaneOf(t)
<1>0. l \in Lane BY LaneOfType
<1> HIDE DEF l
<1>1. t \in current[l] BY DEF drain, l
<1>2. current[l] = {t} /\ inFlight[l] BY <1>0, <1>1 DEF IInv, OneAtATime
<1>3. /\ \A k \in Lane : enqueued[k] = started[k] \o queue[k]
      /\ \A k \in Lane : queue[k] \in Seq(Task) /\ started[k] \in Seq(Task)
      /\ TypeOK /\ UNCHANGED <<open, enqueued, stopping, elapsed, exited>>
  BY DEF IInv, drain, FifoPerLane, TypeOK
<1>4. CASE queue[l] # <<>>
  <2> DEFINE h == Head(queue[l])
  <2>1. /\ queue' = [queue EXCEPT ![l] = Tail(@)]
        /\ current' = [current EXCEPT ![l] = (@ \ {t}) \cup {h}]
        /\ started' = [started EXCEPT ![l] = Append(@, h)]
        /\ outcome' = [outcome EXCEPT ![t] = result, ![h] = "running"]
        /\ UNCHANGED inFlight
    BY <1>4 DEF drain, l
  <2>2. h \in Task /\ Tail(queue[l]) \in Seq(Task)
    BY <1>0, <1>1, <1>2, <1>3, <1>4, HeadThenTail
  <2>3. Append(started[l], h) \o Tail(queue[l]) = started[l] \o queue[l]
    BY <1>0, <1>1, <1>2, <1>3, <1>4, AppendAssoc
  <2>4. Append(started[l], h) \in Seq(Task) BY <1>0, <1>1, <1>2, <1>3, <2>2
  <2> HIDE DEF h
  <2>5. current'[l] = {h} /\ \A k \in Lane \ {l} : current'[k] = current[k]
    BY <1>0, <1>1, <1>2, <1>3, <2>1 DEF TypeOK
  <2>6. TypeOK' BY <1>0, <1>1, <1>2, <1>3, <2>1, <2>2, <2>4 DEF TypeOK, Outcome
  <2>7. FifoPerLane' BY <1>0, <1>1, <1>2, <1>3, <2>1, <2>3 DEF FifoPerLane, TypeOK
  <2>8. OneAtATime' BY <2>5 DEF IInv, OneAtATime
  <2> QED BY <1>0, <1>1, <1>2, <1>3, <2>1, <2>5, <2>6, <2>7, <2>8 DEF IInv, TypeOK
<1>5. CASE queue[l] = <<>>
  <2>1. /\ inFlight' = [inFlight EXCEPT ![l] = FALSE]
        /\ current' = [current EXCEPT ![l] = @ \ {t}]
        /\ outcome' = [outcome EXCEPT ![t] = result]
        /\ UNCHANGED <<queue, started>>
    BY <1>5 DEF drain, l
  <2>2. TypeOK' BY <1>0, <1>1, <1>2, <1>3, <2>1 DEF TypeOK, Outcome
  <2>3. current'[l] = {} BY <1>0, <1>1, <1>2, <1>3, <2>1 DEF TypeOK
  <2>4. FifoPerLane' BY <1>1, <1>2, <1>3, <2>1 DEF FifoPerLane
  <2>5. OneAtATime' BY <1>0, <2>1 DEF IInv, OneAtATime, TypeOK
  <2> QED BY <1>0, <1>5, <2>1, <2>2, <2>3, <2>4, <2>5 DEF IInv, TypeOK
<1> QED BY <1>4, <1>5

\* The steps of handlers and of the shutdown leave the lanes alone.
LEMMA LanesUntouched ==
  ASSUME IInv, UNCHANGED laneVars, TypeOK'
  PROVE  IInv'
BY DEF IInv, laneVars, OneAtATime, FifoPerLane

LEMMA StepIInv == IInv /\ [Next]_vars => IInv'
<1> SUFFICES ASSUME IInv, [Next]_vars PROVE IInv' OBVIOUS
<1>0. TypeOK /\ Len(WaitList) \in Nat /\ MaxWait \in Nat BY WaitAssumption DEF IInv
<1>1. ASSUME NEW t \in Task, BeginHandler(t) PROVE IInv'
  <2>1. TypeOK' BY <1>0, <1>1 DEF BeginHandler, TypeOK, laneVars, Outcome
  <2> QED BY <1>1, <2>1, LanesUntouched DEF BeginHandler
<1>2. CASE Signal
  <2>1. TypeOK' BY <1>0, <1>2 DEF Signal, TypeOK, laneVars
  <2> QED BY <1>2, <2>1, LanesUntouched DEF Signal
<1>3. CASE waitIdle
  <2>1. TypeOK' BY <1>0, <1>3 DEF waitIdle, Polling, TypeOK, laneVars
  <2> QED BY <1>3, <2>1, LanesUntouched DEF waitIdle
<1>4. CASE Exit
  <2>1. TypeOK' BY <1>0, <1>4 DEF Exit, TypeOK, laneVars
  <2> QED BY <1>4, <2>1, LanesUntouched DEF Exit
<1>5. CASE UNCHANGED vars
  <2>1. TypeOK' BY <1>0, <1>5 DEF vars, TypeOK, laneVars
  <2> QED BY <1>5, <2>1, LanesUntouched DEF vars
<1> QED BY <1>1, <1>2, <1>3, <1>4, <1>5, EnqueueIInv, DrainIInv DEF Next

\* The inductive invariant holds in every reachable state.
THEOREM Invariance == Spec => []IInv
BY InitIInv, StepIInv, PTL DEF Spec

\* A lane never awaits two tasks at once, however enqueues, settlements and the
\* shutdown interleave: one nonce sequence, one transaction.
THEOREM LaneIsSerial == Spec => []OneAtATime
<1>1. IInv => OneAtATime BY DEF IInv
<1> QED BY <1>1, Invariance, PTL

\* A lane begins its tasks in the order they were enqueued and skips none.
THEOREM LaneIsFifo == Spec => []FifoPerLane
<1>1. IInv => FifoPerLane BY DEF IInv
<1> QED BY <1>1, Invariance, PTL

\* Wherever tasks wait, a drain loop is running and awaiting a task.
THEOREM LaneNeverStalls == Spec => []NoTaskStranded
<1>1. IInv => NoTaskStranded BY DEF IInv, NoTaskStranded
<1> QED BY <1>1, Invariance, PTL

------------------------------------------------------------------------------
(* The shutdown.  What was ever enqueued on a lane has settled, waits in   *)
(* the lane's queue or is awaited by its loop, and outcome tells which.    *)

Located(l) ==
  /\ Distinct(queue[l], Task)
  /\ \A t \in Range(queue[l]) : LaneOf(t) = l /\ outcome[t] = "queued"
  /\ \A t \in current[l] : LaneOf(t) = l /\ outcome[t] = "running"
  /\ l \notin open => enqueued[l] = <<>>
  /\ \A t \in Range(enqueued[l]) :
       outcome[t] \in Settled \/ t \in Range(queue[l]) \/ t \in current[l]

AllLocated == \A l \in Lane : Located(l)

\* The entries of a queue are those pushed before, and the last.
LEMMA AppendRange ==
  ASSUME NEW S, NEW q \in Seq(S), NEW x \in S
  PROVE  Range(Append(q, x)) = Range(q) \cup {x}
<1>1. /\ Len(q) \in Nat /\ DOMAIN q = 1 .. Len(q) /\ DOMAIN Append(q, x) = 1 .. Len(q) + 1
      /\ \A i \in 1 .. Len(q) : Append(q, x)[i] = q[i]
      /\ Append(q, x)[Len(q) + 1] = x
  OBVIOUS
<1>2. \A i \in 1 .. Len(q) + 1 : i \in 1 .. Len(q) \/ i = Len(q) + 1 BY <1>1
<1>3. Len(q) + 1 \in 1 .. Len(q) + 1 /\ \A i \in 1 .. Len(q) : i \in 1 .. Len(q) + 1 BY <1>1
<1> QED BY <1>1, <1>2, <1>3 DEF Range

LEMMA InitLocated == Init => AllLocated
<1>1. <<>> \in Seq(Task) /\ DOMAIN <<>> = {} OBVIOUS
<1>2. Distinct(<<>>, Task) /\ Range(<<>>) = {} BY <1>1 DEF Distinct, IsInjective, Range
<1> QED BY <1>2 DEF Init, AllLocated, Located

\* A lane is not disturbed by what becomes of tasks that are none of its own.
LEMMA OtherLane ==
  ASSUME NEW k \in Lane, Located(k), TypeOK,
         queue'[k] = queue[k], current'[k] = current[k], enqueued'[k] = enqueued[k],
         k \in open' <=> k \in open,
         \A t \in Task : \/ outcome'[t] = outcome[t] \/ outcome'[t] \in Settled
                        \/ outcome[t] \in {"new", "handling", "queued"},
         \A t \in Task : \/ outcome'[t] = outcome[t] \/ LaneOf(t) # k
                        \/ outcome[t] \in {"new", "handling"}
  PROVE  Located(k)'
<1>0. /\ Range(queue[k]) \subseteq Task /\ current[k] \subseteq Task
      /\ Range(enqueued[k]) \subseteq Task
  BY DEF TypeOK, Range
<1>1. \A t : outcome[t] \in {"new", "handling"} =>
              t \notin Range(queue[k]) /\ t \notin current[k] /\ t \notin Range(enqueued[k])
  BY DEF Located, Settled
<1>2. \A t \in Range(queue[k]) \cup current[k] : outcome'[t] = outcome[t]
  BY <1>0, <1>1 DEF Located
<1>3. \A t \in Range(enqueued[k]) : outcome[t] \in Settled => outcome'[t] \in Settled
  BY <1>0 DEF Settled
<1>4. UNCHANGED <<Range(queue[k]), Range(enqueued[k])>> BY DEF Range
<1> QED BY <1>1, <1>2, <1>3, <1>4 DEF Located

LEMMA EnqueueLocated ==
  ASSUME IInv, AllLocated, NEW t \in Task, enqueueOnchainTxWork(t)
  PROVE  AllLocated'
<1> DEFINE l == LaneOf(t)
<1>0. l \in Lane BY LaneOfType
<1> HIDE DEF l
<1>1. /\ outcome[t] = "handling" /\ open' = open \cup {l} /\ LaneOf(t) = l
      /\ enqueued' = [enqueued EXCEPT ![l] = Append(@, t)]
  BY DEF enqueueOnchainTxWork, l
<1>2. /\ TypeOK /\ Located(l) /\ Range(queue[l]) \subseteq Task
      /\ Range(enqueued[l]) \subseteq Task /\ current[l] \subseteq Task
  BY <1>0 DEF IInv, AllLocated, TypeOK, Range
<1>3. /\ enqueued'[l] = Append(enqueued[l], t)
      /\ Range(enqueued'[l]) = Range(enqueued[l]) \cup {t}
  BY <1>0, <1>1, <1>2, AppendRange DEF TypeOK
<1>4. t \notin Range(queue[l]) /\ t \notin current[l]
  BY <1>1, <1>2 DEF Located
<1>5. /\ \A k \in Lane \ {l} : /\ queue'[k] = queue[k] /\ current'[k] = current[k]
                               /\ enqueued'[k] = enqueued[k]
                               /\ k \in open' <=> k \in open
      /\ \A u \in Task : u # t => outcome'[u] = outcome[u]
  BY <1>0, <1>1, <1>2 DEF enqueueOnchainTxWork, TypeOK, l
<1>6. ASSUME NEW k \in Lane \ {l} PROVE Located(k)'
  <2>1. Located(k) /\ k \in Lane BY <1>6 DEF AllLocated
  <2>2. \A u \in Task : u = t \/ outcome'[u] = outcome[u] BY <1>5
  <2>3. k \in open' <=> k \in open BY <1>5, <1>6
  <2> QED BY <1>1, <1>2, <1>5, <1>6, <2>1, <2>2, <2>3, OtherLane
<1>7. Located(l)'
  <2>1. CASE inFlight[l]
    <3>1. /\ queue'[l] = Append(queue[l], t) /\ outcome'[t] = "queued"
          /\ current'[l] = current[l]
      BY <1>0, <1>2, <2>1 DEF enqueueOnchainTxWork, TypeOK, l
    <3>2. Distinct(queue'[l], Task) /\ Range(queue'[l]) = Range(queue[l]) \cup {t}
      BY <1>2, <1>4, <3>1, PushDistinct DEF Located
    <3> QED BY <1>1, <1>2, <1>3, <1>4, <1>5, <3>1, <3>2 DEF Located
  <2>2. CASE ~inFlight[l]
    <3>1. /\ queue'[l] = queue[l] /\ outcome'[t] = "running" /\ current'[l] = {t}
          /\ current[l] = {}
      BY <1>0, <1>2, <2>2 DEF enqueueOnchainTxWork, TypeOK, IInv, l
    <3> QED BY <1>1, <1>2, <1>3, <1>4, <1>5, <3>1 DEF Located, Range
  <2> QED BY <2>1, <2>2
<1> QED BY <1>6, <1>7 DEF AllLocated

LEMMA DrainLocated ==
  ASSUME IInv, AllLocated, NEW t \in Task, NEW result \in Settled, drain(t, result)
  PROVE  AllLocated'
<1> DEFINE l == LaneOf(t)
<1>0. l \in Lane BY LaneOfType
<1> HIDE DEF l
<1>1. /\ t \in current[l] /\ LaneOf(t) = l
      /\ UNCHANGED <<open, enqueued>>
  BY DEF drain, l
<1>2. /\ TypeOK /\ Located(l) /\ current[l] = {t} /\ outcome[t] = "running"
      /\ Range(queue[l]) \subseteq Task /\ Range(enqueued[l]) \subseteq Task
  <2>1. TypeOK /\ Located(l) BY <1>0 DEF IInv, AllLocated
  <2>2. current[l] = {t} BY <1>0, <1>1 DEF IInv, OneAtATime
  <2>3. outcome[t] = "running" BY <1>1, <2>1 DEF Located
  <2>4. Range(queue[l]) \subseteq Task /\ Range(enqueued[l]) \subseteq Task
    BY <1>0, <2>1 DEF TypeOK, Range
  <2> QED BY <2>1, <2>2, <2>3, <2>4
<1>3. CASE queue[l] # <<>>
  <2> DEFINE h == Head(queue[l])
  <2>1. /\ queue' = [queue EXCEPT ![l] = Tail(@)]
        /\ current' = [current EXCEPT ![l] = (@ \ {t}) \cup {h}]
        /\ outcome' = [outcome EXCEPT ![t] = result, ![h] = "running"]
    BY <1>3 DEF drain, l
  <2>2. /\ Distinct(Tail(queue[l]), Task) /\ h \in Range(queue[l])
        /\ Range(Tail(queue[l])) = Range(queue[l]) \ {h}
    BY <1>2, <1>3, ShiftDistinct DEF Located
  <2> HIDE DEF h
  <2>3. /\ queue'[l] = Tail(queue[l]) /\ current'[l] = {h}
        /\ \A k \in Lane \ {l} : queue'[k] = queue[k] /\ current'[k] = current[k]
    BY <1>0, <1>2, <2>1 DEF TypeOK
  <2>4. outcome[h] = "queued" /\ LaneOf(h) = l /\ h # t BY <1>2, <2>2 DEF Located
  <2>5. h \in Task BY <1>0, <1>2, <2>2 DEF TypeOK, Range
  <2>6. /\ outcome'[t] = result /\ outcome'[h] = "running"
        /\ \A u \in Task : u # t /\ u # h => outcome'[u] = outcome[u]
    BY <1>2, <2>1, <2>4, <2>5 DEF TypeOK
  <2>7. ASSUME NEW k \in Lane \ {l} PROVE Located(k)'
    <3>1. Located(k) /\ k \in Lane BY <2>7 DEF AllLocated
    <3>2. enqueued'[k] = enqueued[k] /\ (k \in open' <=> k \in open) BY <1>1
    <3> QED BY <1>1, <1>2, <2>3, <2>4, <2>6, <2>7, <3>1, <3>2, OtherLane
  <2>8. Located(l)'
    BY <1>1, <1>2, <2>2, <2>3, <2>4, <2>6 DEF Located, Settled
  <2> QED BY <2>7, <2>8 DEF AllLocated
<1>4. CASE queue[l] = <<>>
  <2>1. /\ queue' = queue /\ current'[l] = {}
        /\ \A k \in Lane \ {l} : current'[k] = current[k]
        /\ outcome'[t] = result /\ \A u \in Task : u # t => outcome'[u] = outcome[u]
    BY <1>0, <1>2, <1>4 DEF drain, TypeOK, l
  <2>2. ASSUME NEW k \in Lane \ {l} PROVE Located(k)'
    <3>1. Located(k) /\ k \in Lane BY <2>2 DEF AllLocated
    <3>2. enqueued'[k] = enqueued[k] /\ (k \in open' <=> k \in open) BY <1>1
    <3> QED BY <1>1, <1>2, <2>1, <2>2, <3>1, <3>2, OtherLane
  <2>3. Located(l)' BY <1>1, <1>2, <2>1 DEF Located, Settled
  <2> QED BY <2>2, <2>3 DEF AllLocated
<1> QED BY <1>3, <1>4

LEMMA StepLocated == IInv /\ AllLocated /\ [Next]_vars => AllLocated'
<1> SUFFICES ASSUME IInv, AllLocated, [Next]_vars PROVE AllLocated' OBVIOUS
<1>1. ASSUME NEW t \in Task, BeginHandler(t) PROVE AllLocated'
  <2>1. /\ UNCHANGED laneVars /\ outcome[t] = "new" /\ outcome'[t] = "handling"
        /\ \A u \in Task : u # t => outcome'[u] = outcome[u]
    BY <1>1 DEF BeginHandler, IInv, TypeOK
  <2>2. ASSUME NEW k \in Lane PROVE Located(k)'
    <3>1. Located(k) /\ k \in Lane /\ TypeOK BY <2>2 DEF AllLocated, IInv
    <3>2. /\ queue'[k] = queue[k] /\ current'[k] = current[k] /\ enqueued'[k] = enqueued[k]
          /\ (k \in open' <=> k \in open)
      BY <2>1 DEF laneVars
    <3> QED BY <2>1, <3>1, <3>2, OtherLane
  <2> QED BY <2>2 DEF AllLocated
<1>2. CASE Signal \/ waitIdle \/ Exit \/ UNCHANGED vars
  BY <1>2 DEF Signal, waitIdle, Exit, vars, laneVars, AllLocated, Located
<1> QED BY <1>1, <1>2, EnqueueLocated, DrainLocated DEF Next

\* The shutdown leaves a lane behind only when everything ever enqueued on it,
\* the task taken off the queue included, has settled, or after the whole limit
\* spent on that lane, however long the limit.
THEOREM ShutdownIsPatient == Spec => ShutdownWaits
<1>1. ASSUME IInv, AllLocated, [Next]_vars,
             NEW k \in 1 .. Len(WaitList), stopping = k, stopping' = k + 1,
             elapsed # MaxWait,
             NEW i \in DOMAIN enqueued[WaitList[k]]
      PROVE  outcome[enqueued[WaitList[k]][i]] \in Settled
  <2> DEFINE l == WaitList[k]
  <2>1. l \in Lane /\ k \in Nat BY WaitAssumption
  <2>2. waitIdle
    BY <1>1, <2>1 DEF Next, BeginHandler, enqueueOnchainTxWork, drain, Signal, Exit, vars
  <2>3. ~Busy(l) BY <1>1, <2>1, <2>2 DEF waitIdle
  <2>4. CASE l \in open
    <3>1. ~(depth(l) > 0) BY <2>3, <2>4 DEF Busy
    <3>2. Len(queue[l]) \in Nat BY <1>1, <2>1 DEF IInv, TypeOK
    <3> HIDE DEF l
    <3>3. ~inFlight[l] /\ Len(queue[l]) = 0
      <4>1. CASE inFlight[l] BY <3>1, <3>2, <4>1 DEF depth
      <4>2. CASE ~inFlight[l] BY <3>1, <3>2, <4>2 DEF depth
      <4> QED BY <4>1, <4>2
    <3>4. current[l] = {} /\ queue[l] = <<>> BY <1>1, <2>1, <3>3 DEF IInv
    <3>5. Range(queue[l]) = {} BY <3>4 DEF Range
    <3> QED BY <1>1, <2>1, <3>4, <3>5 DEF AllLocated, Located, Range, l
  <2>5. CASE l \notin open
    BY <1>1, <2>1, <2>5 DEF AllLocated, Located
  <2> QED BY <2>4, <2>5
<1>2. IInv /\ AllLocated /\ [Next]_vars =>
        [\A k \in 1 .. Len(WaitList) : (stopping = k /\ stopping' = k + 1) =>
           \/ elapsed = MaxWait
           \/ \A i \in DOMAIN enqueued[WaitList[k]] :
                outcome[enqueued[WaitList[k]][i]] \in Settled]_vars
  BY <1>1
<1> QED BY <1>2, InitIInv, StepIInv, InitLocated, StepLocated, PTL DEF Spec, ShutdownWaits
==============================================================================
