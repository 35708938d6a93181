------------------------------ MODULE UsdcFulfill ------------------------------
(***************************************************************************)
(* What Master does for a USDC payment that has been settled to the bridge *)
(* initiator: the four fulfil workers of validatorDepositRedeem.ts (seat,  *)
(* wallet deposit), treasuryBridgeFulfill.ts and fuelPackFulfill.ts.       *)
(*                                                                         *)
(* A worker shifts a request, looks its USDC_tx up in the worker's file of *)
(* fulfilled payments, and runs the transactions of its kind under the     *)
(* keys they need; only then, or for a treasury bridge also after the lock *)
(* mint, it writes the file.  Requests for one USDC_tx may come more than  *)
(* once; any transaction may fail, be mined unseen, or be cut off by a     *)
(* restart of Master, which keeps nothing but the files.                   *)
(*                                                                         *)
(* The pool of keys is SettlePool's, the timers of a worker PoolPress's:   *)
(* here a worker whose key is idle may begin at any time.                  *)
(***************************************************************************)
EXTENDS Integers, Sequences, FiniteSets

CONSTANTS Payment,     \* USDC_tx values
          kind,        \* kind[p]: the workflow p was paid for
          Request,     \* POSTs to Master's fulfil routes
          Key,         \* settle keys with a CoNET slot
          Initiator,   \* GENESIS_NODE_BRIDGE_INITIATOR
          NoKey,
          Mixes,       \* the ways in which requests may belong to payments
          Amount,      \* USDC of a payment, and of the lock mint it is for
          Fee,         \* destinationFeeBps of an amount, taken beside it
          Reserve,     \* USDC the initiator may hold beside these payments' deposits
          MaxFaults    \* bound: failing steps and restarts

Kind == {"seat", "wallet", "bridge", "fuel"}

ASSUME FulfillAssumption ==
  /\ kind \in [Payment -> Kind]
  /\ Mixes \subseteq [Request -> Payment]
  /\ Initiator \in Key /\ NoKey \notin Key
  /\ Amount \in Nat \ {0} /\ Fee \in Nat /\ Reserve \subseteq Nat
  /\ MaxFaults \in Nat /\ IsFiniteSet(Request)

\* The transactions of the four workflows.  Those OnBase are sent with the
\* initiator's Base slot held, a seat's with its CoNET slot as well.
OnBase == {"bind", "lock"}
Tx == OnBase \cup {"create", "claim", "stage", "points", "fee", "paid", "free", "ket"}

VARIABLES
  paid,        \* payments settled on Base
  usdc,        \* balance of the initiator's Base wallet
  queue,       \* queue[w]: waiting requests of worker w
  payment,     \* payment[r]: the USDC_tx r is posted for, one of Mixes
  step,        \* step[r]: what r awaits
  key,         \* key[r]: the CoNET slot r holds
  nonceRead,   \* nonceRead[r]: the admin nonce r signed its createRedeemFor with
  adminNonce,  \* redeemAdminNonces[admin] on chain
  record,      \* record[p]: what the worker's file says of p
  count,       \* count[p][t]: transactions t mined for p
  orphans,     \* <<r, t>>: sent, no longer awaited, perhaps to be mined
  answer,      \* answer[r]: the HTTP answer
  faults

requestVars == <<queue, payment, step, key, nonceRead, answer>>
chainVars == <<paid, usdc, adminNonce, count, orphans>>
vars == <<requestVars, chainVars, record, faults>>

Init ==
  /\ paid = {} /\ usdc \in Reserve /\ adminNonce = 0 /\ orphans = {} /\ faults = 0
  /\ queue = [w \in Kind |-> <<>>]
  /\ payment \in Mixes
  /\ step = [r \in Request |-> "unsent"]
  /\ key = [r \in Request |-> NoKey]
  /\ nonceRead = [r \in Request |-> 0]
  /\ record = [p \in Payment |-> "none"]
  /\ count = [p \in Payment |-> [t \in Tx |-> 0]]
  /\ answer = [r \in Request |-> "none"]

BaseIdle == \A r \in Request : step[r] \notin OnBase
IdleConet == Key \ {key[r] : r \in Request}
BothIdle == BaseIdle /\ Initiator \in IdleConet

------------------------------------------------------------------------------
(* Cluster: settle, answer the customer, post once to Master.              *)

Settle(p) ==
  /\ p \notin paid /\ \E r \in Request : payment[r] = p
  /\ paid' = paid \cup {p}
  /\ usdc' = usdc + Amount
  /\ UNCHANGED <<requestVars, adminNonce, count, orphans, record, faults>>

Post(r) ==
  /\ step[r] = "unsent" /\ payment[r] \in paid
  /\ step' = [step EXCEPT ![r] = "queued"]
  /\ queue' = [queue EXCEPT ![kind[payment[r]]] = Append(@, r)]
  /\ UNCHANGED <<payment, key, nonceRead, answer, chainVars, record, faults>>

------------------------------------------------------------------------------
(* Beginning a request.                                                    *)

\* Mutant: the bridge looks only for the complete record.
Resumes_Never(p) == FALSE

\* A bridge whose lock mint is on file goes on behind it.
Resumes(p) == record[p] = "locked"

\* One synchronous stretch: shift the request, find the key idle, look the
\* payment up, shift the key.  A seat sold in test mode asks the vault first.
Process(w) ==
  /\ queue[w] # <<>>
  /\ CASE w = "seat" -> BothIdle
       [] w = "fuel" -> IdleConet # {}
       [] OTHER      -> BaseIdle
  /\ queue' = [queue EXCEPT ![w] = Tail(@)]
  /\ LET r == Head(queue[w])  p == payment[r]
     IN  \/ /\ record[p] = "full"
            /\ step' = [step EXCEPT ![r] = "done"]
            /\ answer' = [answer EXCEPT ![r] = "ok"]
            /\ UNCHANGED key
         \/ /\ record[p] # "full" /\ Resumes(p)
            /\ step' = [step EXCEPT ![r] = "stage"]
            /\ UNCHANGED <<key, answer>>
         \/ /\ record[p] # "full" /\ ~Resumes(p)
            /\ \/ /\ w \in {"wallet", "bridge"}
                  /\ step' = [step EXCEPT ![r] = "lock"]
                  /\ UNCHANGED key
               \/ /\ w = "seat"
                  /\ step' = [step EXCEPT ![r] = "bind"]
                  /\ key' = [key EXCEPT ![r] = Initiator]
               \/ /\ w = "seat"
                  /\ step' = [step EXCEPT ![r] = "vault"]
                  /\ UNCHANGED key
               \/ /\ w = "fuel"
                  /\ step' = [step EXCEPT ![r] = "paid"]
                  /\ \E k \in IdleConet : key' = [key EXCEPT ![r] = k]
            /\ UNCHANGED answer
  /\ UNCHANGED <<payment, nonceRead, chainVars, record, faults>>

\* Mutant: a busy initiator after the vault's answer drops the request.
VaultAnswers_Drops(r) ==
  /\ step[r] = "vault"
  /\ \/ /\ BothIdle
        /\ step' = [step EXCEPT ![r] = "bind"]
        /\ key' = [key EXCEPT ![r] = Initiator]
     \/ /\ ~BothIdle
        /\ step' = [step EXCEPT ![r] = "queued"]
        /\ UNCHANGED key
  /\ UNCHANGED <<queue, payment, nonceRead, answer, chainVars, record, faults>>

\* By the time the vault has answered the initiator may be busy again: the
\* request goes back to the head.
VaultAnswers(r) ==
  /\ step[r] = "vault"
  /\ \/ /\ BothIdle
        /\ step' = [step EXCEPT ![r] = "bind"]
        /\ key' = [key EXCEPT ![r] = Initiator]
        /\ UNCHANGED queue
     \/ /\ ~BothIdle
        /\ step' = [step EXCEPT ![r] = "queued"]
        /\ queue' = [queue EXCEPT !["seat"] = <<r>> \o @]
        /\ UNCHANGED key
  /\ UNCHANGED <<payment, nonceRead, answer, chainVars, record, faults>>

------------------------------------------------------------------------------
(* Transactions.                                                           *)

\* r has sent the transaction it awaits, or is about to.
Sending(r) == step[r] \in Tx /\ (step[r] \in OnBase \/ key[r] # NoKey)

\* Mutant: the balance check is off by one.
CanMine_KeepsOne(r, t) ==
  /\ t = "lock" => usdc > Amount + Fee
  /\ t = "create" => nonceRead[r] = adminNonce

\* The lock mint needs the amount and the treasury's fee in the wallet; the create
\* carries the admin's next nonce.  Nothing in the code makes the contracts refuse
\* a second transaction for one USDC_tx: the operationId contains a random nonce.
CanMine(r, t) ==
  /\ t = "lock" => usdc >= Amount + Fee
  /\ t = "create" => nonceRead[r] = adminNonce

Mine(r, t) ==
  /\ count' = [count EXCEPT ![payment[r]][t] = @ + 1]
  /\ usdc' = IF t = "lock" THEN usdc - (Amount + Fee) ELSE usdc
  /\ adminNonce' = IF t = "create" THEN adminNonce + 1 ELSE adminNonce

NextStep(r) ==
  CASE step[r] = "bind"   -> "lock"
    [] step[r] = "lock"   -> CASE kind[payment[r]] = "seat"   -> "nonce"
                               [] kind[payment[r]] = "bridge" -> "stage"
                               [] OTHER                       -> "done"
    [] step[r] = "create" -> "claim"
    [] step[r] = "stage"  -> "points"
    [] step[r] = "points" -> "fee"
    [] step[r] = "paid"   -> "free"
    [] step[r] = "free"   -> "ket"
    [] OTHER              -> "done"

\* The steps that leave the slot to the step after them.
KeepsKey == {"bind", "stage", "paid", "free"}

\* Mutant: the seat is recorded as soon as its redeem exists.
Records_SeatAtCreate(r) ==
  CASE step[r] = "lock" /\ kind[payment[r]] = "wallet" -> "full"
    [] step[r] = "lock" /\ kind[payment[r]] = "bridge" -> "locked"
    [] step[r] \in {"create", "points", "ket"}         -> "full"
    [] OTHER                                           -> record[payment[r]]

\* What the file says of the payment after the step.
Records(r) ==
  CASE step[r] = "lock" /\ kind[payment[r]] = "wallet" -> "full"
    [] step[r] = "lock" /\ kind[payment[r]] = "bridge" -> "locked"
    [] step[r] \in {"claim", "points", "ket"}          -> "full"
    [] OTHER                                           -> record[payment[r]]

\* The awaited step is over: give the slot back unless the next step needs it,
\* write the file, answer.
Advance(r) ==
  /\ step' = [step EXCEPT ![r] = NextStep(r)]
  /\ key' = [key EXCEPT ![r] = IF step[r] \in KeepsKey THEN @ ELSE NoKey]
  /\ record' = [record EXCEPT ![payment[r]] = Records(r)]
  /\ answer' = [answer EXCEPT ![r] =
       IF @ = "none" /\ Records(r) = "full" THEN "ok" ELSE @]

Mined(r) ==
  /\ Sending(r) /\ CanMine(r, step[r])
  /\ Mine(r, step[r])
  /\ Advance(r)
  /\ UNCHANGED <<queue, payment, nonceRead, paid, orphans, faults>>

\* No membership to stage, no bonus, a Ket already held or not part of the pack.
Skipped(r) ==
  /\ Sending(r) /\ step[r] \in {"stage", "free", "ket"}
  /\ Advance(r)
  /\ UNCHANGED <<queue, payment, nonceRead, chainVars, faults>>

\* An error of the bonus mint is swallowed.
BonusFails(r) ==
  /\ Sending(r) /\ step[r] = "free" /\ faults < MaxFaults
  /\ faults' = faults + 1
  /\ Advance(r)
  /\ \E O \in SUBSET {<<r, "free">>} : orphans' = orphans \cup O
  /\ UNCHANGED <<queue, payment, nonceRead, paid, usdc, adminNonce, count>>

ReadNonce(r) ==
  /\ step[r] = "nonce"
  /\ nonceRead' = [nonceRead EXCEPT ![r] = adminNonce]
  /\ step' = [step EXCEPT ![r] = "create"]
  /\ UNCHANGED <<queue, payment, key, answer, chainVars, record, faults>>

\* The steps behind the lock mint take a CoNET slot of their own.
Keyless(r) == step[r] \in {"create", "claim", "stage", "fee"} /\ key[r] = NoKey

TakeKey(r) ==
  /\ Keyless(r)
  /\ \E k \in IdleConet : key' = [key EXCEPT ![r] = k]
  /\ UNCHANGED <<queue, payment, step, nonceRead, answer, chainVars, record, faults>>

\* The catch and finally blocks: give the slots back, answer 400.
Abort(r) ==
  /\ step' = [step EXCEPT ![r] = "done"]
  /\ key' = [key EXCEPT ![r] = NoKey]
  /\ answer' = [answer EXCEPT ![r] = IF @ = "none" THEN "error" ELSE @]
  /\ UNCHANGED <<queue, payment, nonceRead, record>>

\* A seat fails at once when no slot is idle, a bridge after two minutes.
NoIdleKey(r) ==
  /\ Keyless(r) /\ IdleConet = {}
  /\ Abort(r)
  /\ UNCHANGED <<chainVars, faults>>

\* Too little USDC, or the nonce was used by another seat in the meantime.
Refused(r) ==
  /\ Sending(r) /\ ~CanMine(r, step[r])
  /\ Abort(r)
  /\ UNCHANGED <<chainVars, faults>>

\* A read, the sending or the waiting fails; what was sent may still be mined.
StepFails(r) ==
  /\ step[r] \in {"vault", "nonce"} \/ Sending(r) \/ Keyless(r)
  /\ step[r] # "free" /\ faults < MaxFaults
  /\ faults' = faults + 1
  /\ Abort(r)
  /\ \E O \in SUBSET {<<r, step[r]>>} :
       (O # {} => Sending(r)) /\ orphans' = orphans \cup O
  /\ UNCHANGED <<paid, usdc, adminNonce, count>>

MinedLate(r, t) ==
  /\ <<r, t>> \in orphans /\ CanMine(r, t)
  /\ Mine(r, t)
  /\ orphans' = orphans \ {<<r, t>>}
  /\ UNCHANGED <<requestVars, paid, record, faults>>

------------------------------------------------------------------------------
(* Restart of Master.                                                      *)

\* Everything in memory is gone; of the transactions sent, those of S may still
\* be mined.
Forget(S) ==
  /\ faults < MaxFaults /\ faults' = faults + 1
  /\ queue' = [w \in Kind |-> <<>>]
  /\ step' = [r \in Request |->
                IF step[r] \in {"unsent", "done"} THEN step[r] ELSE "lost"]
  /\ key' = [r \in Request |-> NoKey]
  /\ orphans' = orphans \cup {<<r, step[r]>> : r \in S}
  /\ UNCHANGED <<payment, nonceRead, answer, paid>>

Senders == {r \in Request : Sending(r)}

Restart ==
  /\ \E S \in SUBSET Senders : Forget(S)
  /\ UNCHANGED <<usdc, adminNonce, count, record>>

\* ... in the middle of r's writeFileSync: the file does not parse and counts
\* as empty from then on.
RestartInWrite(r) ==
  /\ Sending(r) /\ CanMine(r, step[r]) /\ Records(r) # record[payment[r]]
  /\ \E S \in SUBSET (Senders \ {r}) : Forget(S)
  /\ Mine(r, step[r])
  /\ record' = [p \in Payment |->
                  IF kind[p] = kind[payment[r]] THEN "none" ELSE record[p]]

Worker(r) ==
  \/ VaultAnswers(r) \/ Mined(r) \/ Skipped(r) \/ BonusFails(r) \/ ReadNonce(r)
  \/ TakeKey(r) \/ NoIdleKey(r) \/ Refused(r) \/ StepFails(r)

Next ==
  \/ \E p \in Payment : Settle(p)
  \/ \E r \in Request : Post(r)
  \/ \E w \in Kind : Process(w)
  \/ \E r \in Request : Worker(r)
  \/ \E r \in Request, t \in Tx : MinedLate(r, t)
  \/ Restart
  \/ \E r \in Request : RestartInWrite(r)

\* A worker with an idle key and a request begins, an awaited call returns;
\* nobody has to pay or to post, and no orphan has to be mined.
Fairness ==
  /\ \A w \in Kind : WF_vars(Process(w))
  /\ \A r \in Request : WF_vars(Worker(r))

Spec == Init /\ [][Next]_vars /\ Fairness
------------------------------------------------------------------------------
(* Properties.                                                             *)

TypeOK ==
  /\ paid \in SUBSET Payment /\ usdc \in Nat /\ adminNonce \in Nat
  /\ queue \in [Kind -> Seq(Request)]
  /\ payment \in [Request -> Payment]
  /\ step \in [Request -> Tx \cup {"unsent", "queued", "vault", "nonce", "done", "lost"}]
  /\ key \in [Request -> Key \cup {NoKey}]
  /\ nonceRead \in [Request -> Nat]
  /\ record \in [Payment -> {"none", "locked", "full"}]
  /\ count \in [Payment -> [Tx -> Nat]]
  /\ orphans \in SUBSET (Request \X Tx)
  /\ answer \in [Request -> {"none", "ok", "error"}]
  /\ faults \in 0 .. MaxFaults

Locks(p) == count[p]["lock"]

\* The transactions a customer has paid for.
Owed == [seat   |-> {"bind", "lock", "create", "claim"},
         wallet |-> {"lock"},
         bridge |-> {"lock", "points"},
         fuel   |-> {"paid"}]

Delivered(p) == \A t \in Owed[kind[p]] : count[p][t] > 0

\* The worker's file, and the answer "success" that may come from it alone
\* (validatorDepositRedeem.ts:3800), are never ahead of the chain, whatever fails
\* and whenever Master restarts; "locked" stands for the lock mint.
FulfilledIsDelivered ==
  /\ \A p \in Payment : record[p] = "full" => Delivered(p)
  /\ \A p \in Payment : record[p] = "locked" => Locks(p) > 0
  /\ \A r \in Request : answer[r] = "ok" => Delivered(payment[r])

\* However many requests come for a wallet deposit or a treasury bridge, its
\* USDC is locked once, and once more at most for every error or restart: a lock
\* mint on file is never repeated, and no request passes the lookup while
\* another one locks.  (Idempotence on USDC_tx, as far as the code provides it.)
LockedOnce ==
  \A p \in Payment : kind[p] \in {"wallet", "bridge"} => Locks(p) <= 1 + faults

\* A request that Master has accepted is answered, unless a restart forgets it:
\* going back to the head of a queue while the initiator is busy must not
\* strand it.
EveryRequestAnswered ==
  \A r \in Request : step[r] = "queued" ~> (answer[r] # "none" \/ step[r] = "lost")

\* The customers' deposits do not pay the treasury's fees: the initiator has begun
\* with a fee for every payment that is to be locked.
FeesCovered ==
  usdc >= Fee * Cardinality({p \in Payment : kind[p] # "fuel" /\ \E r \in Request : payment[r] = p})

\* A wallet deposit that Master has heard of reaches the customer although all
\* workflows lock out of one balance, if that balance covered the fees, unless
\* something fails, or the initiator's USDC has gone into a second lock mint.
DepositArrives ==
  FeesCovered =>
    \A p \in Payment : kind[p] = "wallet" =>
      ((\E r \in Request : payment[r] = p /\ step[r] = "queued")
         ~> (Locks(p) > 0 \/ faults > 0 \/ \E q \in Payment : Locks(q) > 1))

\* validatorDepositRedeem.ts:3766, of the seat worker too: "Idempotent on
\* USDC_tx".
IdempotentOnUsdcTx == faults = 0 => \A p \in Payment : Locks(p) <= 1
==============================================================================
