------------------------------- MODULE PoolPress -------------------------------
(***************************************************************************)
(* The "press" every write job of MemberCard.ts goes through, composed     *)
(* with the key pool.  An HTTP handler pushes a job on its worker's queue  *)
(* and calls the worker; the worker shifts the head job and a key, or puts *)
(* the job back at the head and sets a 3 s timer; the job's finally block  *)
(* returns the key and sets the worker's next timer.                       *)
(*                                                                         *)
(* Jobs differ in the chains they occupy and in how their worker re-arms:   *)
(*   "conet"   removePOSProcess, registerPOSProcess and most others        *)
(*   "base"    purchaseBUnitFromBaseProcess                                *)
(*   "both"    AAtoEOAProcess with relayChain base: the transfer on Base,  *)
(*             then on CoNET a fee that nobody awaits                      *)
(*   "relay"   AAtoEOAProcess for CoNET, same queue, transfer and fee there *)
(*   "redeem"  cardRedeemPoolPress: occupies CoNET, first creates the      *)
(*             user's account through the Base factory with the same key,  *)
(*             and re-arms only for a non-empty queue                      *)
(* A job awaits RPC replies; a reply may be an error at any point, and a   *)
(* wait that fails leaves its transaction out.                             *)
(***************************************************************************)
EXTENDS SettlePool

\* The clients of the pool are the requests the server receives.
CONSTANTS Worker,    \* the job queues with their worker functions
          Mixes,     \* the mixes of requests: a queue and a kind for each
          MaxUnseen  \* bound on the waits that fail with a transaction out

Kind == {"conet", "base", "both", "relay", "redeem"}
Relayed == {"both", "relay"}

\* A queue that gets redeems gets nothing else (cardRedeemPool).
ASSUME PressAssumption ==
  /\ MaxUnseen \in Nat
  /\ Mixes \subseteq [worker : [Client -> Worker], kind : [Client -> Kind]]
  /\ \A m \in Mixes : \A i, j \in Client :
       m.worker[i] = m.worker[j] /\ m.kind[i] = "redeem" => m.kind[j] = "redeem"

VARIABLES
  mix,        \* the requests of this behaviour, one of Mixes
  queue,      \* queue[w]: the worker's job array
  timers,     \* timers[w]: timers that will call the worker
  stage,      \* stage[j]: where the request is
  sending,    \* sending[j]: the slots on which a transaction of j is out, not mined
  unseen,     \* history: requests that ended on a wait that failed
  arrived,    \* arrived[w]: history of requests pushed on the queue
  started     \* started[w]: history of requests a worker began to execute

stepVars == <<vars, queue, timers, stage, sending, unseen, arrived, started>>
pressVars == <<mix, stepVars>>

worker == mix.worker   \* worker[j]: the queue request j belongs to
kind == mix.kind       \* kind[j]: one of those above

Stage == {"new", "queued", "running", "deploying", "writing", "answered"}

ChainsOf(j) == CASE kind[j] = "base" -> {"base"}
                 [] kind[j] = "both" -> {"base", "conet"}
                 [] OTHER            -> {"conet"}

PressInit ==
  /\ mix \in Mixes
  /\ Init
  /\ queue = [w \in Worker |-> <<>>]
  /\ timers = [w \in Worker |-> 0]
  /\ stage = [j \in Client |-> "new"]
  /\ sending = [j \in Client |-> {}] /\ unseen = {}
  /\ arrived = [w \in Worker |-> <<>>]
  /\ started = [w \in Worker |-> <<>>]

------------------------------------------------------------------------------
(* One synchronous call of a worker on the queue q, with t other timers    *)
(* set.  Nobody else runs between the shift of the job and of the key.     *)

SlotIdle(j) ==
  IF kind[j] = "both"
  THEN \E m \in DOMAIN pool["base"], n \in DOMAIN pool["conet"] : IdleOnBoth(m, n)
  ELSE \A ch \in ChainsOf(j) : pool[ch] # <<>>

ShiftSlot(j) ==
  CASE kind[j] = "base" -> shiftSettleBase(j)
    [] kind[j] = "both" -> shiftSettleBoth(j)
    [] OTHER            -> shiftSettleConet(j)

UnshiftSlot(j) ==
  CASE kind[j] = "base" -> unshiftSettleBase(j)
    [] kind[j] = "both" -> unshiftSettleBoth(j)
    [] OTHER            -> unshiftSettleConet(j)

\* Mutant: a job that finds no idle key is put back behind the others.
Process_RequeueBehind(w, q, t) ==
  \/ /\ q = <<>>
     /\ timers' = [timers EXCEPT ![w] = t]
     /\ UNCHANGED <<vars, started>>
     /\ queue' = [queue EXCEPT ![w] = q]
  \/ /\ q # <<>> /\ ~SlotIdle(Head(q))
     /\ queue' = [queue EXCEPT ![w] = Append(Tail(q), Head(q))]
     /\ timers' = [timers EXCEPT ![w] = t + 1]
     /\ UNCHANGED <<vars, started>>
  \/ /\ q # <<>> /\ SlotIdle(Head(q))
     /\ ShiftSlot(Head(q))
     /\ queue' = [queue EXCEPT ![w] = Tail(q)]
     /\ timers' = [timers EXCEPT ![w] = t]
     /\ started' = [started EXCEPT ![w] = Append(@, Head(q))]

\* Mutant: no timer is set for a job that was put back.
Process_NoTimer(w, q, t) ==
  \/ /\ ~(q # <<>> /\ SlotIdle(Head(q)))
     /\ queue' = [queue EXCEPT ![w] = q]
     /\ timers' = [timers EXCEPT ![w] = t]
     /\ UNCHANGED <<vars, started>>
  \/ /\ q # <<>> /\ SlotIdle(Head(q))
     /\ ShiftSlot(Head(q))
     /\ queue' = [queue EXCEPT ![w] = Tail(q)]
     /\ timers' = [timers EXCEPT ![w] = t]
     /\ started' = [started EXCEPT ![w] = Append(@, Head(q))]

Process(w, q, t) ==
  \/ /\ q = <<>>                                      \* the chain of calls ends
     /\ queue' = [queue EXCEPT ![w] = q]
     /\ timers' = [timers EXCEPT ![w] = t]
     /\ UNCHANGED <<vars, started>>
  \/ /\ q # <<>> /\ ~SlotIdle(Head(q))          \* put back, retry in 3 s
     /\ queue' = [queue EXCEPT ![w] = q]
     /\ timers' = [timers EXCEPT ![w] = t + 1]
     /\ UNCHANGED <<vars, started>>
  \/ /\ q # <<>> /\ SlotIdle(Head(q))           \* the head job runs
     /\ ShiftSlot(Head(q))
     /\ queue' = [queue EXCEPT ![w] = Tail(q)]
     /\ timers' = [timers EXCEPT ![w] = t]
     /\ started' = [started EXCEPT ![w] = Append(@, Head(q))]

\* The stage of the job such a call started, if it started one.
Started(w, st) ==
  stage' = IF started'[w] = started[w] THEN st
           ELSE [st EXCEPT ![Last(started'[w])] = "running"]

------------------------------------------------------------------------------
(* MemberCard.ts fills the pools when it is loaded, before any request;    *)
(* a worker that ran earlier would simply find them empty.                 *)
FillPools ==
  /\ initSettleContractPool
  /\ UNCHANGED <<queue, timers, stage, sending, unseen, arrived, started>>

\* The HTTP handler: push the job and call the worker.
Submit(j) ==
  LET w == worker[j]
  IN  /\ stage[j] = "new"
      /\ arrived' = [arrived EXCEPT ![w] = Append(@, j)]
      /\ Process(w, Append(queue[w], j), timers[w])
      /\ Started(w, [stage EXCEPT ![j] = "queued"])
      /\ UNCHANGED <<sending, unseen>>

\* A timer calls the worker.
Fire(w) ==
  /\ timers[w] > 0
  /\ Process(w, queue[w], timers[w] - 1)
  /\ Started(w, stage)
  /\ UNCHANGED <<sending, unseen, arrived>>

\* cardRedeemPoolPress: the user has no account yet, so createAccountFor is
\* sent on Base with the held key's Base wallet.
DeployAccount(j) ==
  /\ kind[j] = "redeem" /\ stage[j] = "running"
  /\ stage' = [stage EXCEPT ![j] = "deploying"]
  /\ sending' = [sending EXCEPT ![j] = {<<"base", s[2]>> : s \in held[j]}]
  /\ UNCHANGED <<vars, queue, timers, unseen, arrived, started>>

\* Mutant: the key is returned when the transaction is sent, not when it is mined.
Write_ReturnsKeyAtOnce(j) ==
  /\ stage[j] \in {"running", "deploying"}
  /\ stage' = [stage EXCEPT ![j] = "writing"]
  /\ sending' = [sending EXCEPT ![j] = held[j]]
  /\ UnshiftSlot(j)
  /\ UNCHANGED <<queue, timers, unseen, arrived, started>>

\* The job's own transaction is sent (the account deployment, if any, is mined
\* by then): for "both" on Base, for the others where they hold the key.
Write(j) ==
  /\ stage[j] \in {"running", "deploying"}
  /\ stage' = [stage EXCEPT ![j] = "writing"]
  /\ sending' = [sending EXCEPT ![j] =
                   {s \in held[j] : kind[j] = "both" => s[1] = "base"}]
  /\ UNCHANGED <<vars, queue, timers, unseen, arrived, started>>

\* What is out when a job's finally block runs.
LeavesOut(j) ==
  \/ /\ sending' = [sending EXCEPT ![j] = {}]  \* nothing was sent, or all is mined
     /\ UNCHANGED unseen
  \/ /\ sending[j] # {}                        \* a wait failed
     /\ Cardinality(unseen) < MaxUnseen
     /\ unseen' = unseen \cup {j}
     /\ UNCHANGED sending
  \/ /\ kind[j] \in Relayed /\ stage[j] = "writing"   \* the fee is on its way
     /\ sending' = [sending EXCEPT ![j] = {s \in held[j] : s[1] = "conet"}]
     /\ UNCHANGED unseen

\* The job is answered, 200 after its transaction or 400 after an error at any
\* await; the finally block returns the key and sets a timer.
Finish(j) ==
  /\ kind[j] # "redeem"
  /\ stage[j] \in {"running", "deploying", "writing"}
  /\ stage' = [stage EXCEPT ![j] = "answered"]
  /\ LeavesOut(j)
  /\ UnshiftSlot(j)
  /\ timers' = [timers EXCEPT ![worker[j]] = @ + 1]
  /\ UNCHANGED <<queue, arrived, started>>

\* The redeem worker's finally block: the returned key is idle, so for a
\* non-empty queue the next job runs at once, with that very key.
FinishRedeem(j) ==
  LET w == worker[j]
      st == [stage EXCEPT ![j] = "answered"]
  IN  /\ kind[j] = "redeem"
      /\ stage[j] \in {"running", "deploying", "writing"}
      /\ LeavesOut(j)
      /\ \/ /\ queue[w] = <<>>
            /\ UnshiftSlot(j)
            /\ stage' = st
            /\ UNCHANGED <<queue, started>>
         \/ /\ queue[w] # <<>>
            /\ LET n == Head(queue[w])
               IN  /\ held' = [held EXCEPT ![j] = {}, ![n] = held[j]]
                   /\ pc' = [pc EXCEPT ![j] = "idle", ![n] = "holding"]
                   /\ stage' = [st EXCEPT ![n] = "running"]
                   /\ started' = [started EXCEPT ![w] = Append(@, n)]
            /\ queue' = [queue EXCEPT ![w] = Tail(@)]
            /\ UNCHANGED <<poolInitialized, pool, tried>>
      /\ UNCHANGED <<timers, arrived>>

\* What an ended job left out is mined.
MinedLate(j) ==
  /\ stage[j] = "answered" /\ sending[j] # {}
  /\ sending' = [sending EXCEPT ![j] = {}]
  /\ UNCHANGED <<vars, queue, timers, stage, unseen, arrived, started>>

Step ==
  \/ FillPools
  \/ \E w \in Worker : Fire(w)
  \/ \E j \in Client : \/ Submit(j) \/ DeployAccount(j) \/ Write(j)
                       \/ Finish(j) \/ FinishRedeem(j) \/ MinedLate(j)

PressNext == Step /\ UNCHANGED mix

\* Timers fire and RPC calls settle, with a result or an error; nothing makes
\* a client send a request.
PressFairness ==
  /\ WF_stepVars(FillPools)
  /\ \A w \in Worker : WF_stepVars(Fire(w))
  /\ \A j \in Client : WF_stepVars(Write(j) \/ Finish(j) \/ FinishRedeem(j))

PressSpec == PressInit /\ [][PressNext]_pressVars /\ PressFairness

------------------------------------------------------------------------------
(* Properties.                                                             *)

\* Putting a job back at the head keeps the order of arrival: requests of one
\* worker begin in the order they were received, however many timers run.
StartedInOrder == \A w \in Worker : IsPrefix(started[w], arrived[w])

\* The slots on which a job may have a transaction out after its answer: any, if
\* one of its waits failed; the CoNET one for the fee of AAtoEOAProcess.
LeftBehind(j) ==
  IF j \in unseen THEN Slot
  ELSE IF kind[j] \in Relayed THEN {"conet"} \X Admin ELSE {}

\* MemberCard.ts:4123 "jobs may occupy different wallets in parallel, each with
\* its own nonce", and 1719-1720 for every chain write: however workers, timers
\* and pool queues interleave, two jobs have a transaction out on one nonce
\* sequence of a chain in three cases only, which contradict these comments
\* (README, "Disagreements without a run").  A redeem deploys an account on Base
\* with a wallet it holds no Base slot of, which a Base request may be using; a
\* job whose wait failed gave its key back with the transaction out (7106-7120);
\* so did an AAtoEOA with its fee (11848, 11907-11911).
NonceExclusive ==
  \A i, j \in Client : \A s \in sending[i] \cap sending[j] :
    \/ i = j
    \/ {kind[i], kind[j]} = {"redeem", "base"}
    \/ \E k \in {i, j} : stage[k] = "answered" /\ s \in LeftBehind(k)

\* Every accepted request is answered.
EveryRequestAnswered ==
  \A j \in Client : stage[j] = "queued" ~> stage[j] = "answered"

------------------------------------------------------------------------------
(* The inductive invariant of the proofs, in parts; those that a worker's  *)
(* call breaks halfway take the queues q and the stages st as parameters.  *)

Active == {"running", "deploying", "writing"}

PressTypeOK ==
  /\ mix \in Mixes
  /\ queue \in [Worker -> Seq(Client)]
  /\ timers \in [Worker -> Nat]
  /\ stage \in [Client -> Stage]
  /\ sending \in [Client -> SUBSET Slot]
  /\ unseen \in SUBSET Client
  /\ arrived \in [Worker -> Seq(Client)]
  /\ started \in [Worker -> Seq(Client)]

\* What arrived has begun, or waits behind what has.
Lined(arr, q) == \A w \in Worker : arr[w] = started[w] \o q[w]

\* A request arrives once, at its own worker.
ArrivedOnce == \A w \in Worker : /\ IsInjective(arrived[w])
                                 /\ \A j \in Range(arrived[w]) : worker[j] = w /\ stage[j] # "new"

\* The queued requests are those in the queues, each in its worker's, once.
Waiting(q, st) ==
  /\ \A w \in Worker : /\ IsInjective(q[w])
                        /\ \A j \in Range(q[w]) : worker[j] = w /\ st[j] = "queued"
  /\ \A j \in Client : st[j] = "queued" => j \in Range(q[worker[j]])

\* A request at work holds one key on the chains of its kind, and sends from no
\* other wallet.  Any other holds nothing, and has only left out what it may.
AtWork(j) ==
  /\ pc[j] = "holding"
  /\ \E a \in Admin :
       /\ held[j] = ChainsOf(j) \X {a}
       /\ sending[j] \subseteq (IF kind[j] = "redeem" THEN Chain ELSE ChainsOf(j)) \X {a}

AtRest(j, st) ==
  /\ pc[j] = "idle" /\ held[j] = {}
  /\ sending[j] \subseteq (IF st[j] = "answered" THEN LeftBehind(j) ELSE {})

Working(st) == \A j \in Client : IF st[j] \in Active THEN AtWork(j) ELSE AtRest(j, st)

\* Somebody will call the worker of a queue with requests in it: a timer, or a
\* run's finally block.  The safety half of EveryRequestAnswered.
Watched(w, q, tm, st) ==
  q[w] # <<>> => tm[w] > 0 \/ \E j \in Client : worker[j] = w /\ st[j] \in Active

QueuesWatched == \A w \in Worker : Watched(w, queue, timers, stage)

PressIInv ==
  /\ PressTypeOK
  /\ IInv
  /\ Lined(arrived, queue)
  /\ ArrivedOnce
  /\ Waiting(queue, stage)
  /\ Working(stage)
  /\ QueuesWatched

=============================================================================
