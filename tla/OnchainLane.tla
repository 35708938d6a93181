------------------------------ MODULE OnchainLane ------------------------------
(***************************************************************************)
(* The serial transaction lanes of onchainTxSerialQueue.ts, and the        *)
(* shutdown of the validator daemons that drain them.                      *)
(*                                                                         *)
(* A lane runs its tasks one at a time in the order they were enqueued; a  *)
(* task is a promise somebody awaits.  A chain listener's handler enqueues *)
(* one task; a payout flush enqueues a batch and, once that one settled,   *)
(* the next.  On SIGTERM a daemon stops its timers and subscriptions,      *)
(* waits for its lanes by polling them one after the other, and exits;     *)
(* what was already under way goes on meanwhile.                           *)
(***************************************************************************)
EXTENDS Naturals, Sequences, SequencesExt, FiniteSets

CONSTANTS Task,      \* pieces of on-chain work
          work,      \* work[t]: what t does, one of Work
          after,     \* after[t]: the batch of the same flush that precedes t, or NoTask
          NoTask,
          WaitList,  \* the lanes the daemon's shutdown waits for, in order
          MaxWait    \* how long it waits for one lane (maxWaitMs), in sleeps of 250 ms

Work == {"claim", "feerecipient", "fullexit", "skim", "labskim"}
Lane == {"node", "cl-payout", "eoa"}

ASSUME TaskAssumption == /\ NoTask \notin Task
                         /\ work \in [Task -> Work]
                         /\ after \in [Task -> Task \cup {NoTask}]
ASSUME WaitAssumption == WaitList \in Seq(Lane) /\ MaxWait \in Nat \ {0}

\* The lane each caller names: the listener's enqueueListenerOnchainWork and the
\* CL payout both use CONET_VALIDATOR_NODE_ONCHAIN_LANE, the lab payout the lane
\* of its signer.
LaneOf(t) == IF work[t] = "labskim" THEN "eoa" ELSE "node"

VARIABLES
  open,       \* the lanes Map's keys: lanes somebody has enqueued on
  queue,      \* queue[l]: tasks waiting
  inFlight,   \* inFlight[l]: a drain loop is running
  current,    \* current[l]: the tasks awaited by a drain loop
  outcome,    \* outcome[t]: how far t is
  enqueued,   \* enqueued[l]: history of tasks pushed
  started,    \* started[l]: history of tasks begun
  stopping,   \* 0 while up, k while the shutdown polls WaitList[k]
  elapsed,    \* how long the shutdown has waited for that lane
  exited      \* process.exit was called

laneVars == <<open, queue, inFlight, current, enqueued, started>>
vars == <<laneVars, outcome, stopping, elapsed, exited>>

Init ==
  /\ open = {}
  /\ queue = [l \in Lane |-> <<>>]
  /\ inFlight = [l \in Lane |-> FALSE]
  /\ current = [l \in Lane |-> {}]
  /\ outcome = [t \in Task |-> "new"]
  /\ enqueued = [l \in Lane |-> <<>>]
  /\ started = [l \in Lane |-> <<>>]
  /\ stopping = 0 /\ elapsed = 0
  /\ exited = FALSE

Settled == {"resolved", "rejected"}

------------------------------------------------------------------------------
\* A handler or a flush gets to work: an event or a timer before the stop, the
\* next batch of a flush whenever the previous one has settled.
BeginHandler(t) ==
  /\ ~exited
  /\ outcome[t] = "new"
  /\ IF after[t] = NoTask THEN stopping = 0 ELSE outcome[after[t]] \in Settled
  /\ outcome' = [outcome EXCEPT ![t] = "handling"]
  /\ UNCHANGED <<laneVars, stopping, elapsed, exited>>

\* Mutant: drain starts a loop without looking at inFlight.
enqueueOnchainTxWork_AlwaysDrains(t) ==
  LET l == LaneOf(t)
      q == Append(queue[l], t)
  IN  /\ ~exited
      /\ outcome[t] = "handling"
      /\ open' = open \cup {l}
      /\ enqueued' = [enqueued EXCEPT ![l] = Append(@, t)]
      /\ queue' = [queue EXCEPT ![l] = Tail(q)]
      /\ inFlight' = [inFlight EXCEPT ![l] = TRUE]
      /\ current' = [current EXCEPT ![l] = @ \cup {Head(q)}]
      /\ started' = [started EXCEPT ![l] = Append(@, Head(q))]
      /\ outcome' = [outcome EXCEPT ![t] = "queued", ![Head(q)] = "running"]
      /\ UNCHANGED <<stopping, elapsed, exited>>

\* Push the task on its lane, opened if need be; an idle lane begins at once.
enqueueOnchainTxWork(t) ==
  LET l == LaneOf(t)
  IN  /\ ~exited
      /\ outcome[t] = "handling"
      /\ open' = open \cup {l}
      /\ enqueued' = [enqueued EXCEPT ![l] = Append(@, t)]
      /\ \/ /\ inFlight[l]
            /\ queue' = [queue EXCEPT ![l] = Append(@, t)]
            /\ outcome' = [outcome EXCEPT ![t] = "queued"]
            /\ UNCHANGED <<inFlight, current, started>>
         \/ /\ ~inFlight[l]
            /\ inFlight' = [inFlight EXCEPT ![l] = TRUE]
            /\ current' = [current EXCEPT ![l] = {t}]
            /\ started' = [started EXCEPT ![l] = Append(@, t)]
            /\ outcome' = [outcome EXCEPT ![t] = "running"]
            /\ UNCHANGED queue
      /\ UNCHANGED <<stopping, elapsed, exited>>

\* Mutant: the loop ends after an error, with tasks still queued.
drain_StopsOnError(t, result) ==
  LET l == LaneOf(t)
  IN  /\ ~exited /\ t \in current[l]
      /\ IF queue[l] # <<>> /\ result = "resolved"
         THEN /\ queue' = [queue EXCEPT ![l] = Tail(@)]
              /\ current' = [current EXCEPT ![l] = (@ \ {t}) \cup {Head(queue[l])}]
              /\ started' = [started EXCEPT ![l] = Append(@, Head(queue[l]))]
              /\ outcome' = [outcome EXCEPT ![t] = result, ![Head(queue[l])] = "running"]
              /\ UNCHANGED inFlight
         ELSE /\ inFlight' = [inFlight EXCEPT ![l] = FALSE]
              /\ current' = [current EXCEPT ![l] = @ \ {t}]
              /\ outcome' = [outcome EXCEPT ![t] = result]
              /\ UNCHANGED <<queue, started>>
      /\ UNCHANGED <<open, enqueued, stopping, elapsed, exited>>

\* Mutant: the newest task is taken first (pop instead of shift).
drain_Pops(t, result) ==
  LET l == LaneOf(t)
  IN  /\ ~exited /\ t \in current[l]
      /\ IF queue[l] # <<>>
         THEN /\ queue' = [queue EXCEPT ![l] = Front(@)]
              /\ current' = [current EXCEPT ![l] = (@ \ {t}) \cup {Last(queue[l])}]
              /\ started' = [started EXCEPT ![l] = Append(@, Last(queue[l]))]
              /\ outcome' = [outcome EXCEPT ![t] = result, ![Last(queue[l])] = "running"]
              /\ UNCHANGED inFlight
         ELSE /\ inFlight' = [inFlight EXCEPT ![l] = FALSE]
              /\ current' = [current EXCEPT ![l] = @ \ {t}]
              /\ outcome' = [outcome EXCEPT ![t] = result]
              /\ UNCHANGED <<queue, started>>
      /\ UNCHANGED <<open, enqueued, stopping, elapsed, exited>>

\* The awaited task settles, whatever its result; in the same turn the loop
\* begins the next one or ends.
drain(t, result) ==
  LET l == LaneOf(t)
  IN  /\ ~exited /\ t \in current[l]
      /\ \/ /\ queue[l] # <<>>
            /\ queue' = [queue EXCEPT ![l] = Tail(@)]
            /\ current' = [current EXCEPT ![l] = (@ \ {t}) \cup {Head(queue[l])}]
            /\ started' = [started EXCEPT ![l] = Append(@, Head(queue[l]))]
            /\ outcome' = [outcome EXCEPT ![t] = result, ![Head(queue[l])] = "running"]
            /\ UNCHANGED inFlight
         \/ /\ queue[l] = <<>>
            /\ inFlight' = [inFlight EXCEPT ![l] = FALSE]
            /\ current' = [current EXCEPT ![l] = @ \ {t}]
            /\ outcome' = [outcome EXCEPT ![t] = result]
            /\ UNCHANGED <<queue, started>>
      /\ UNCHANGED <<open, enqueued, stopping, elapsed, exited>>

------------------------------------------------------------------------------
(* Shutdown of the daemon.                                                 *)

\* SIGINT or SIGTERM, once.
Signal ==
  /\ stopping = 0 /\ ~exited
  /\ stopping' = 1
  /\ UNCHANGED <<laneVars, outcome, elapsed, exited>>

\* Mutant: depth counts the waiting tasks only.
depth_QueueOnly(l) == Len(queue[l])

depth(l) == Len(queue[l]) + (IF inFlight[l] THEN 1 ELSE 0)

Polling == stopping \in 1 .. Len(WaitList) /\ ~exited
Busy(l) == l \in open /\ depth(l) > 0

\* A poll of the lane: idle or never opened, or waited for long enough, it is
\* left for the next one; otherwise the shutdown sleeps, for 250 ms at least.
waitIdle ==
  /\ Polling
  /\ \/ /\ Busy(WaitList[stopping]) => elapsed = MaxWait
        /\ stopping' = stopping + 1
        /\ elapsed' = 0
     \/ /\ Busy(WaitList[stopping]) /\ elapsed < MaxWait
        /\ elapsed' \in elapsed + 1 .. MaxWait
        /\ UNCHANGED stopping
  /\ UNCHANGED <<laneVars, outcome, exited>>

Exit ==
  /\ stopping = Len(WaitList) + 1 /\ ~exited
  /\ exited' = TRUE
  /\ UNCHANGED <<laneVars, outcome, stopping, elapsed>>

Next ==
  \/ \E t \in Task : BeginHandler(t) \/ enqueueOnchainTxWork(t)
  \/ \E t \in Task, result \in Settled : drain(t, result)
  \/ Signal \/ waitIdle \/ Exit

\* Awaited RPC calls settle, handlers go on after them, the shutdown polls;
\* nothing makes an event arrive, a signal come, or a flush begin.
Fairness ==
  /\ \A t \in Task : WF_vars(enqueueOnchainTxWork(t))
  /\ \A t \in Task : WF_vars(\E result \in Settled : drain(t, result))
  /\ WF_vars(waitIdle) /\ WF_vars(Exit)

Spec == Init /\ [][Next]_vars /\ Fairness

------------------------------------------------------------------------------
(* Properties.                                                             *)

Outcome == {"new", "handling", "queued", "running"} \cup Settled

TypeOK ==
  /\ open \in SUBSET Lane
  /\ queue \in [Lane -> Seq(Task)]
  /\ inFlight \in [Lane -> BOOLEAN]
  /\ current \in [Lane -> SUBSET Task]
  /\ outcome \in [Task -> Outcome]
  /\ enqueued \in [Lane -> Seq(Task)]
  /\ started \in [Lane -> Seq(Task)]
  /\ stopping \in 0 .. Len(WaitList) + 1
  /\ elapsed \in 0 .. MaxWait
  /\ exited \in BOOLEAN

\* onchainTxSerialQueue.ts:111 "tasks run FIFO, one at a time per lane": two
\* drain loops of one lane would send two transactions with one nonce.
OneAtATime == \A l \in Lane : \A t, u \in current[l] : t = u

\* ... and they begin in the order they were enqueued, none left out.
FifoPerLane == \A l \in Lane : enqueued[l] = started[l] \o queue[l]

\* A waiting task has a drain loop that will reach it: the loop cannot end, on
\* an error either, between a push that saw it running and the next turn.
NoTaskStranded == \A l \in Lane : queue[l] # <<>> => inFlight[l] /\ current[l] # {}

\* The inductive invariant of the proofs.
IInv ==
  /\ TypeOK
  /\ OneAtATime
  /\ FifoPerLane
  /\ \A l \in Lane : inFlight[l] <=> current[l] # {}
  /\ \A l \in Lane : ~inFlight[l] => queue[l] = <<>>

\* What was enqueued is settled, unless the process exits before.
EveryTaskSettles ==
  \A t \in Task : outcome[t] = "queued" ~> (outcome[t] \in Settled \/ exited)

\* validatorDepositRedeem.ts:3177 "Wait until the serial on-chain queue is idle
\* (for graceful SIGTERM)": the shutdown leaves a lane behind only when all that
\* was ever enqueued on it has settled, the task taken off the queue included,
\* or when it has waited the whole of maxWaitMs for this very lane, whatever it
\* waited for the lanes before (onchainTxSerialQueue.ts:82-88).
ShutdownWaits ==
  [][\A k \in 1 .. Len(WaitList) : (stopping = k /\ stopping' = k + 1) =>
       \/ elapsed = MaxWait
       \/ \A i \in DOMAIN enqueued[WaitList[k]] :
            outcome[enqueued[WaitList[k]][i]] \in Settled]_vars
=============================================================================
