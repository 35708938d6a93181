# x402sdk: TLA+ models, checks and proofs

This directory is a verification development of the payment service in `src/`. It holds TLA+
modules translated from the source, TLC configurations that check them on small instances, and
TLAPS proofs of the properties that matter most. File names without a directory below are in
`src/src/`, so `MemberCard.ts:347` is line 347 of `src/src/MemberCard.ts`; `beamioServer.ts`,
`beamioMaster.ts`, `usdcChargeOrchestrator.ts`, `treasuryBridgeFulfill.ts`, `fuelPackFulfill.ts`,
`validatorDepositRedeem.ts` and the validator reporters and daemons are in `src/src/endpoint/`.

Contents

1. The system and its parts
2. What is hard here
3. How the modules are divided, and their order
4. The modules, one by one
5. The runs
6. Fairness
7. What is proved
8. What is only model-checked
9. Where the code does not do what its comments say
10. What is not modelled, and why
11. The plan from here

Run a check with `tlc -config SettlePool.cfg MCSettlePool`, a proof with
`tlapm SettlePoolProofs.tla`. `PROJECT.json` lists the runs, the mutations each property must
detect, the source lines of every definition, the hazards and the theorems.

## 1. The system and its parts

The service moves money on two chains (Base and CoNET) for card programs, shops and validator
nodes. It runs as a **Cluster** of stateless API processes (`beamioServer.ts`), one **Master**
process that alone sends transactions (`beamioMaster.ts`, `MemberCard.ts`), and, on validator
machines, **daemons** that follow the contract's events and pay rewards out. Everything is
single-threaded JavaScript: a piece of code between two `await`s runs alone, and everything else
may run at an `await`.

| Component | State it keeps | Operations | Correct when |
| --- | --- | --- | --- |
| Settle-admin key pool (`settleContractPool.ts`, pollers and gas picker in `MemberCard.ts:347-405`) | two arrays of idle keys, one per chain; a flag | init, shift/unshift of Base, CoNET or both, the genesis-initiator variants, polls with deadline, gas picker | one job per nonce sequence, no key lost |
| Write-job presses (`MemberCard.ts`, about 40 `*Process` functions) | an array of jobs per worker, timers | push from HTTP, worker call, put-back with 3 s timer, finally block | no request stranded, order kept, keys come back, timers do not multiply, every request answered |
| Serial lanes (`onchainTxSerialQueue.ts`) | a Map of lanes: queue, flag, running task | enqueue, drain, waitIdle; SIGTERM of the daemons | one transaction at a time, in order, none stranded, shutdown waits |
| CL reward payout reporter (`validatorClRewardPayoutReporter.ts`) | state file (checkpoint, ceiling, pool, gas window) | tick: ceiling, chunked scan, lookups, pool, gas wait, batches with bisection | no withdrawal forgotten, none dropped unpaid, no stop |
| USDC charge (`usdcChargeOrchestrator.ts`, `beamioServer.ts`, `beamioMaster.ts`) | session store of Master (patches, signature), orchestrator per payment | settle, leg 1 (points to a temporary wallet), sign on the POS, leg 2 (container transfer), patches | success means charged; points only on the payment's signature; every run ends |
| USDC fulfilment (`validatorDepositRedeem.ts`, `treasuryBridgeFulfill.ts`, `fuelPackFulfill.ts`) | a record file per workflow, queues, the initiator's USDC | seat, wallet deposit, treasury bridge, fuel pack | record and answer never ahead of the chain; USDC locked once |
| Validator claim listener (`validatorDepositRedeem.ts`) | checkpoint file, state file, subscription, two loops | live events, boot and incremental backfill, rebuild, claim and admin work | a claim is worked on once; no event is passed over |
| Card workers (`MemberCard.ts`) | chain state through contracts, database | purchase, redeem, coupons, POS, admin and owner calls, B-Units | each request has its effect once or an error answer |
| Account creation (`MemberCard.ts:1559-2000`, `createCCSA.ts`) | chain | create if absent | at most one account per owner |
| Container transfers (`MemberCard.ts:11430-13435`) | chain, relay nonces | AAtoEOA, OpenContainer, Container | a signed transfer is relayed at most once |
| Indexer accounting (`MemberCard.ts:4712-5646`, `7128-7417`, `10008-10049`) | retry queue, database | transfer, request, cancel, redeem, purchase entries | each movement booked once |
| NFC link application (`MemberCard.ts:490-680`, `15180-16145`) | database rows, locks | create, execute, unlock, cancel, migrate, claim, sweep | a card is linked to one wallet, a lock ends |
| Master and Cluster routes | caches, session store | about 200 routes: check, precheck, forward or push | what reaches a worker has been checked |
| x402 verification (`util.ts`) | none | verify and settle through a facilitator | no fulfilment without settlement |
| Lab payout and hourly reward reporters | state files, shared pool | as the CL reporter | as the CL reporter |
| Statistics and reward pool (`userCumulativeStatRewardPool*.ts`) | database counters | record, claim | claimed at most once a window |
| Offline multisig, institutional accounts | collected signatures | propose, sign, submit | submitted once at the threshold |
| Referral registry and income | cursor, tree | join, redeem, income | acyclic, income once |
| Stripe and merchant kits | processed sessions | checkout, webhook | a webhook delivered twice sells once |
| Chat push, coupons, fragments, catalogues, dashboards, database, migration, CLI | caches, rows | see section 10 | |

**How they interact.** A public route of the Cluster checks a signature or an x402 payment, does
its read-only prechecks, and posts to a route of Master. That route pushes a job on an array and
calls the worker. The worker takes a key from the pool, sends one or several transactions, answers
the HTTP response stored with the job, and returns the key in its `finally` block. The USDC charge
and the fulfilments are longer: the Cluster answers the customer as soon as the USDC is settled and
goes on in the background, talking to Master by HTTP. The listener and the payout reporter share
one serial lane; the workflows of the bridge initiator share its key and its USDC balance.

## 2. What is hard here

- **Interleaving at awaits.** Keys, queues, sessions, the checkpoint file and the in-flight sets are
  read before an await and used after it. Timers and running jobs of one worker call it at any time.
- **Nonces.** All chain writes of a key must be sent by one job at a time, per chain.
- **Failure in the middle.** Every await may throw; a transaction whose `wait` failed may be mined
  later. A worker has done a part of its transactions, or has given a key back, or not.
- **Restarts.** Master keeps its queues and sessions in memory only. The daemons keep small JSON
  files, written with `writeFileSync`; a crash can cut a write short.
- **Delivery.** HTTP calls between Cluster and Master may fail after they had their effect; patches
  of a session are posted without waiting for each other; requests may be repeated.
- **Checkpoints.** Two scanners and a live subscription advance one checkpoint.
- **Time.** Polls, deadlines, gas windows and retries race with late answers.

`PROJECT.json` lists these at the lines where they bite, with the properties that cover them.

## 3. How the modules are divided, and their order

| Order | Module | Models | Uses |
| --- | --- | --- | --- |
| 1 | `SettleSlots` | abstract specification: an allocator of nonce sequences | |
| 1 | `SettlePool` | the key pool, all operations; implements `SettleSlots` | `SettleSlots` |
| 2 | `PoolPress` | queues, workers, timers, keys, HTTP answers; composes with the pool | `SettlePool` |
| 3 | `OnchainLane` | serial lanes and the daemon's shutdown | |
| 4 | `ClPayout` | the payout reporter with its file, the beacon reads and the chain | |
| 5 | `UsdcCharge` | a charge session from the customer's payment to the POS screen | |
| 6 | `UsdcFulfill` | the four fulfilment workers with the initiator's key and balance | |
| 7 | `ListenerClaim` | subscription, backfills, checkpoint, claims on a node | |
| 8 | `ServiceScript` | the vocabulary in which handlers and workers are written down | |
| 8 | `ServiceRuns` | the machine that runs scripts: awaits, exceptions, queues, keys, timers, answers, restarts | `ServiceScript` |
| 8 | `ServicePlaces` | where a run can be in the scripts, and the rules that make a service safe | `ServiceRuns` |
| 8 | `ServiceEffects` | what a run finds of its request's payment and fee from place to place, and the rules on both | `ServicePlaces` |
| 8 | `ServiceAnswers` | what a run may say of its request's payment, and the rules on that | `ServiceEffects` |
| 9 | `LedgerScripts`, `RelayScripts`, `CardScripts`, `NfcScripts`, `ClaimScripts`, `OtherScripts` | the workers, each module on top of the one before it | `ServiceScript` |
| 10 | `MasterRoutes` | the routes of Master | `OtherScripts` |
| 10 | `ClusterRoutes`, `ClusterCardRoutes` | the routes of the Cluster | `OtherScripts` |
| - | `QueueLemmas` | facts on queues without duplicates | |
| - | `*Proofs` | theorems of `SettlePool` with `PoolPress`, `OnchainLane`, `ClPayout`, `UsdcCharge`, `UsdcFulfill`, `ListenerClaim`, `ServiceRuns` | |
| - | `MC*` | instances for TLC; `MCService` binds every route and worker to its script, `MCServicePlaces` computes the places of all scripts; `MCServiceJobs` and `MCServiceRoutes` have TLC evaluate the rules on them | |

The first seven are machines of their own: they keep what a component keeps (files, sessions,
arrays) and say what a step does to it. The others are one machine, `ServiceRuns`, with a program: a
script for each of 219 routes of the Cluster, 122 of Master and 56 workers. The first kind is for
hazards of one component's state, the second for what may go wrong in any handler: a key not given
back, a second answer, an effect repeated, an error told about a success.

A component's data are abstracted to what its properties tell apart: a key is a model value, a
block is a number, a transaction is its name, a message is a member of a small set. All guards,
early returns, error paths and the order of the steps are kept. One TLA+ step is what runs between
two awaits; where nothing else could see the state in between, several awaits are one step, and the
module says so.

Operators with a suffix (`RelayFunded_Forgets`) are **mutants**: what a plausible bug would make of
the definition without the suffix. They are not part of the specification. They stand in the module
because each of them must be caught by a property when it takes the place of the original.

## 4. The modules, one by one

### SettleSlots and SettlePool

`SettleSlots` says what `settleContractPool.ts:42-44` promises: a slot is a key on a chain, it has
one owner or none; a job takes free slots, all of them at once, and gives back its own.

`SettlePool` has the two arrays (`pool["base"]`, `pool["conet"]`), `poolInitialized`, and for each
job what it holds, the keys the gas picker has passed over (`tried`) and where the job stands
(`pc`). Returned keys enter at the front (`unshift`), keys passed over at the tail (`push`). Actions:

| Action | Code |
| --- | --- |
| `initSettleContractPool` | fills both arrays, once |
| `shiftSettleBase`, `shiftSettleConet` | first idle key of a chain |
| `shiftSettleBoth` | first key of the Base array that is idle on CoNET as well |
| `shiftGenesisBridgeInitiatorBase`, `...Both` | the initiator's key, if idle |
| `BeginPoll`, `shiftSettleContractFor(Base)Write`, `PollTimeout` | `MemberCard.ts:347-373`, polls with a deadline |
| `RelayBegin`, `RelayFunded`, `RelayUnderfunded` | `shiftSettleContractForConetRelay`: awaits each key's balance while it holds it |
| `unshiftSettle...` | the finally blocks |

Properties: `SlotsExclusive` (no slot idle twice, idle and held, or held twice), `NoSlotLost`,
`SlotsSpec` (every step is a step or a stutter of `SettleSlots`, instantiated `WITH` the mapping
`owner`: who holds the slot).
That the keys of the configuration file are distinct is an assumption (`RosterAssumption`); nothing
in the code checks it.

### PoolPress

The shape all `*Process` workers share, on top of `SettlePool` (it EXTENDS that module: the pool's
clients are the requests, and its specification is `PressSpec`). `Submit` is
the HTTP handler (push, call the worker), `Fire` a timer, `Process` the synchronous part of a worker
(shift the job, take a key or put the job back and set a timer), `Write` the transaction that is
awaited, `Finish` the answer with the `finally` block. Four concrete workers are instances:
`removePOS`/`registerPOS` ("conet"), `purchaseBUnitFromBase` ("base"), `AAtoEOA` ("both", a transfer
on Base, and "relay", one on CoNET, in the same queue; the fee either sends on CoNET afterwards is not
awaited) and `cardRedeemPoolPress` ("redeem", which first sends `createAccountFor`
on Base, and re-arms only for a non-empty queue). `sending[j]` is the set of nonce sequences on
which j has a transaction out that is not mined; it may outlive the job (`LeavesOut`: the fee, or a
transaction whose wait failed, such as `purchaseBUnit` tolerates), until `MinedLate`. `unseen` records
the jobs that ended on a failed wait, at most `MaxUnseen`. `mix` is a constant of a behaviour: which request is in which
queue and of which kind. That a queue with redeems has nothing else in it (`cardRedeemPool` is an
array of its own) is the assumption `PressAssumption`.

Properties: `StartedInOrder`, each worker starts its requests in the order of their arrival;
`NonceExclusive`, two transactions that are out share a nonce sequence in three cases only (section 9):
a redeem that creates an account on Base and a job with a Base slot; a job that ended on a failed
wait; an `AAtoEOA` that ended with its fee on the way, on CoNET;
`EveryRequestAnswered` under fairness. That no job is stranded and no key lost is asked of all workers
in `ServiceRuns`.

### OnchainLane

`enqueue` and `drain` of `onchainTxSerialQueue.ts`; the tasks of the listener and of the payout
flush (a batch is enqueued when the one before it has settled); SIGTERM, the polls of
`waitIdle` with the time it has waited for the lane at hand (`elapsed`, at most `MaxWait`),
`process.exit`. `WaitList` is the list of lanes a daemon waits for, so the
shutdown of each daemon is an instance.

Properties: `OneAtATime`, `FifoPerLane`, `NoTaskStranded`, `EveryTaskSettles`, and `ShutdownWaits`:
the poll passes a lane only when all that was enqueued on it has settled, or after its whole half hour
was spent on that lane. The stronger statement, that `exit` never cuts off a
transaction, does not hold: the lanes are polled one after the other and an event handler may
enqueue on a lane after its poll.

### ClPayout

A tick of the reporter: fix or renew the ceiling (a snapshot of the head), read a chunk of blocks,
look up each withdrawal, put it in the pool of the state file, save after each block, then look at
the gas price or wait, filter consumed entries, and pay in batches. A batch that fails is bisected.
The state file survives crashes; a crash inside `writeFileSync` leaves a file that does not parse
and is read as no state. Amounts and gas arithmetic are left out: a gas price is low or high, a
batch fits the gas limit or not (`GasFit`), an entry is paid or not.
`Poison` is the set of withdrawals the contract reverts on; `blockOf` places the withdrawals. A
fault is a failing read, a failing wait, or a crash.

Properties: `NothingForgotten` (what the checkpoint has passed is paid, pooled, or skipped by a
failed lookup), `NeverPastCeiling`, and, under fairness, `HealthyIsPaid` and `EveryBlockScanned`.
`CeilingFixed` (a ceiling stays until the scan reaches it) and `DroppedOnlyIfPaid` (an entry leaves
the pool only when the chain has it as paid) are proved without a run of their own.

### UsdcCharge

One charge session with its payments: the handler of the Cluster route (`beamioServer.ts`), the
orchestrator it starts per payment, the patches to Master's session store (delivered within a
window of `Window`, so they may overtake each other; one whose POST fails is logged and lost,
`PatchLost`), the POS that shows the session and signs the
transfer, `topup` and `container relay` jobs at Master, retries, and restarts of both servers.
Properties: `SuccessMeansCharged`, `MintedOnlyAsSigned`, `SignatureConsumedOnce`; under fairness of
the servers and the chain, and of nobody else, `EveryRunEnds` and `TheEndIsShown`. The latter is
about the end being shown at all: nobody sends a lost patch again, so it names the loss of the patch
with the end (`endLost`) beside a restart of Master, and a stale patch may cover the end afterwards,
since `chargeSessionUpsert` merges whatever arrives.

### UsdcFulfill

Four workers of Master with the same skeleton: look the payment up in the worker's file, run
transactions, write the file, answer. `step[r]` is the transaction a request awaits, `OnBase` the
steps under the initiator's Base slot. `NextStep`, `KeepsKey` and `Records` are the table of the
workflows:

| Kind | Steps | Written to the file |
| --- | --- | --- |
| seat | (vault) bind, lock, nonce, create, claim | after claim |
| wallet | lock | after lock |
| bridge | lock, stage, points, fee | "locked" after lock, "full" after points |
| fuel | paid, free, ket | at the end |

`Restart` loses everything but the files; `RestartInWrite` also tears the file that is being
written, which then counts as empty. `orphans` are transactions sent but no longer awaited: they may
be mined at any later time (`MinedLate`). The customer's settlement is a step of its own
(`Settle`), and several requests may be posted for one payment: `Post` has no fairness, as the
Cluster posts once and only logs a failure. A lock mint needs and takes `Amount + Fee`, the fee being
the treasury's `destinationFeeBps` of the amount, while a payment brings `Amount` (`Settle`): the code
nowhere adds the fee to what the customer pays, so the initiator's own balance has to cover it.

Properties: `FulfilledIsDelivered`, `LockedOnce`; `EveryRequestAnswered` and `DepositArrives` under
fairness. `DepositArrives` supposes `FeesCovered`, a first balance with a fee for every payment that is
to be locked; without it a deposit is refused with nothing failing. Whether the contracts refuse a second transaction for one `USDC_tx` cannot be seen from
this repository; the `operationId` sent contains a random nonce, so the model does not assume it.

### ListenerClaim

The listener of a validator node. `boot` is the question for the head at start, `sub` the life of
the subscription, `bf["boot"]` and `bf["tick"]` the two backfill loops, `rebuilding` the flag of
`rebuildLiveListeners`, `delivered` the live events whose handler has not begun, `lane` and
`running` the serial lane. The chain is the constant `Log` of events with their blocks. `Handle` is
the synchronous part common to all handlers: move the checkpoint, decide (`MustWork`) and enqueue. A
backfill awaits the work it enqueued, the
subscription does not. An error of a claim is caught by its handler, that of an admin event is
thrown into the loop that awaits it and ends it.

The two files are written with `writeFileSync` and never synced: a crash may tear either of them or
both, and a torn file is read as a missing one (`readStateFile` gives `{}`, the checkpoint is null). A
start without a checkpoint, the first one or one after a tear, backfills from `FromBlock`
(`CONET_VALIDATOR_REDEEM_LISTENER_FROM_BLOCK`) or not at all, and its ticks do nothing until a
checkpoint is set. With both files torn, a claim that had succeeded is taken up again from `FromBlock`:
a crash is one of the faults that `ClaimedOnce` counts.

Properties: `ClaimedOnce`, `SucceededIsFinal` (a success stands until a crash tears the file it is in),
`BackfillForgetsNothing` (a claim about the two backfill loops alone, see section 9),
`EveryBlockPassed` (from the moment there is a checkpoint).

### The service machine

**Scripts** (`ServiceScript`). A handler or worker is a sequence of steps, in the order of its code: a
check that may end the run (`Refuse`, `Require`), an awaited call that may throw (`Risk`), a
transaction that is sent (`Send`) and a receipt that is waited for (`Mined`), a row (`Write`), an
answer, a call of Master (`Relay`, `Ask`, `Post`), a push, a key taken, borrowed or given back, and the
control around them (`Either`, `Try`, `Finally`, `Spawn`, `Stop`). What a script does not name
(parsing, amounts, reads whose failure is ignored) leaves the model's state alone. So

    removePOSProcess == Worker("conet", ..., ...)

reads like the function: take a key or put the job back with a timer, the body with its catch, and a
`finally` that returns the key and sets a timer for the next job. Checks with the same answer are one
check, awaits under one catch one await. An effect has a name: `main` what the client asked for,
`fee` the B-Units, `pay`, `book`, `feeBook`, `tipBook`, `burn` the others; names outside
`Effect` are points of failure only. An answer has a class: `refused` (4xx), `failed` (5xx), and of the
2xx `done` ("it has happened"), `sent` ("here is the hash"), `accepted`, `already`, `ok`.

**The machine** (`ServiceRuns`). A behaviour has one mix of requests, each with a route. A request makes
a thread of the Cluster; its script relays to Master, which makes a thread there, which pushes a job,
which a call of the worker turns into a thread. A thread runs without interruption up to its next await
(`Turn`) and threads interleave there.
Exceptions look for the next `catch` or `finally` of what is left of the script; where there is none, a
route answers 500 and a worker or background block has an unhandled rejection (`escaped`). A second
`res.json` throws (`repeated`). A sent transaction is mined or reverted when its receipt comes; the
receipt may be lost, and a call may be accepted though its reply is lost. `Unique` effects are refused by
the chain when repeated (a nonce, a transaction id, a digest); the fee is not one of them. Keys are
sets of slots of `idle`, as in `SettlePool`, which proves the pool's own operations. Timers and pushes
are counted (`calls`); a call that would find no job is not counted, because it has no effect. A restart
drops Master's threads, queues and timers, and refills the pools.

**The program.** Names are those of the source; a route is named after its path or handler and gets
`...Route` where a worker has the name already.

| Module | Scripts of |
| --- | --- |
| `LedgerScripts` | account creation, accounting of transfers and requests, B-Units, kits, POS registration |
| `RelayScripts` | `AAtoEOAProcess`, `OpenContainerRelayProcess`, `ContainerRelayProcess`, EntryPoint, their prechecks |
| `CardScripts` | `createCardPoolPress`, `executeForAdminProcess`, `purchasingCardProcess` and its retry queue, multisig, institutional accounts |
| `NfcScripts` | link application (execute, validate, release, cancel, claim), top-up and payment with a card |
| `ClaimScripts` | redeem codes, coupons, terminals, `executeForOwnerProcess`, open transfers, referral registry |
| `OtherScripts` | validator codes and orders, reward gateway, stable-coin bridge, chat pointer, storage airdrop, account registry |
| `MasterRoutes` | routes of `beamioMaster.ts`, Stripe sessions, webhooks and their payouts |
| `ClusterRoutes`, `ClusterCardRoutes` | routes of `beamioServer.ts`, x402 settlement included |

Properties. `KeysKept`: each key is idle or held by one run. `WalletAlone`: no two runs send from one
wallet. `AnsweredOnce`, `NoEscape`, `NobodyForgotten`, `EveryRequestAnswered`: each client gets one
answer, no exception ends Master. `NoStrandedJob`: a queued job has a call or a run of its worker
coming. `NeverTwice`: the fee of a request is not taken a second time. `DoneIsDone`: "it has happened" is
said only of what was seen mined. `ErrorIsTrue`: an error is not told of what was seen mined.
`FeeOnlyForSuccess`: a fee has its effect. `PaidSaleIsBooked`: a sale whose fee is taken gets into the
books, or all three attempts of the retry queue fail.

Three of them name what they do not hold for: `Borrowers` (runs), `LateErrors` and `FeeFirst` (routes)
are constants of `ServiceRuns`, given in `MCService`, and each of their members is explained in
section 9. They hold for all others, and a script that begins to behave like those in the lists is found.

**Places** (`ServicePlaces`). A place is what a run sees of itself: its kind, name and connection, the
tag of its job, what is left of its script, the error it caught, the chains it has keys of, the chains
on which it may use another's wallet, and whether its connection has an answer. The request, the keys'
names, other runs, queues and the chain are left out, so the places are finitely many however many
requests, keys and faults there are: the walk of `MCServicePlaces` finds all of them for every route and
worker. `Own(p)` are the places a run may come to by one step (`Same`) and those of the background block it
starts (`Beside`); `Begun(p)` where the runs and jobs begin that it makes by a call of Master or a push.
Errors are not counted: at a place any await may fail.

The rules say what must not be found at a place, or at two places of runs that share a connection:

| Rules | What they ask of the scripts |
| --- | --- |
| `DoorRules` | requests begin at places |
| `PlaceRules` | steps lead to places; a run ends without keys; an exception leaves only a route, and then no key is in hand; jobs go to queues; only `Borrowers` send from a wallet they have not taken |
| `VoiceRules` | of two runs with one connection, one is *silent* (writes no answer and hands the connection to nobody) or both are *careful* (look at `headersSent` first); careful and silent are kept by every step |
| `AskRules` | one run of a request asks Master; it asks again only after it has heard the answer, and then whoever is left of the last question is silent |
| `OweRules` | a run that has a client's open connection answers on every path, or hands it to a run, block or job that does |
| `RingRules` | a run that puts its job back, and every run of a worker whose second call returns at once, calls the worker again on every path |
| `DirectRules` | a worker that is called for a job (the two fulfilments) puts the job back only before its first await, and calls itself at once |

`MCServiceJobs` has `Obeyed(AllRoutes, MCPlaces)` as the assumption `ScriptsObey`: TLC evaluates it
whenever it starts the run `service_jobs`. So the rules are not taken on trust; they are the hypothesis
of the theorems on `ServiceRuns`, and a script that breaks one makes that run fail.

**Payments and fees** (`ServiceEffects`). A *ledger* is what the program has seen of the payment (`main`)
and of the fee of a request: not sent, sent, failed or seen mined. `Outcomes(p, v)` says where a run at
place `p` goes that finds ledger `v`, and which ledger it leaves; it has a send that is refused, a receipt
that is lost, a revert, and a branch on the outcome (`ifdone`). Four sets, computed by `MCServiceRoutes`, say
what may be found where: `spends` (places from which payment or fee may still be settled), `ledger` (the
ledgers found at those, and whether the job was put back), `watched` (requests of `executeForOwner`, where
a block nobody awaits may see the payment mined while the worker goes on) and `ahead` (routes that take
the fee first).

| Rules | What they ask of the scripts |
| --- | --- |
| `SpendRules` | payment and fee are settled only at places of `spends`, or by the watching block; no step makes such a place of another; of a run and what it begins, one at most is in `spends` |
| `LedgerRules` | from each place and ledger, a step leads to a ledger expected there; a fee that may be on the chain is sent again only by a job an error has put back; a fee goes on the chain only when the payment is seen, or sent by a request that nobody watches, or first on the routes of `FeeFirst` |
| `ChargeRules` | both, for requests that begin with an empty ledger |

`MCServiceRoutes` has `ChargeRules(AllRoutes, MCPlaces, MCCharges)` as the assumption `ScriptsCharge`,
evaluated whenever TLC starts the run `service_routes`.

**Answers** (`ServiceAnswers`). An answer is *safe* if what it says of the payment stays true whatever
comes: "done" needs a payment that is seen, or that is not sent and that no run will send any more
(a request that needs none); an error needs one that is not seen and will not be, or a route of
`LateErrors`. As long as a run may still settle the payment it may become anything; afterwards it is what
that run has left (`Fates`). Five more sets, computed by `MCServiceRoutes`, say what the other runs find:
`pays` (those of `spends` from which the payment may still be settled: a run of which only the fee is
left leaves the payment as it is), `aside` (places, with the payment found there), `echoes` (places of the Cluster from which Master's answer
is handed on), `under` (runs of Master begun by a question whose answer is not handed on) and `late` (runs
of routes in `LateErrors` only).

| Rules | What they ask of the scripts |
| --- | --- |
| `PayRules` | the payment is settled only at places of `pays` or by the watching block; no step makes such a place of another |
| `HeirRules` | what the run that may settle payment or fee says is safe; what it leaves the payment as, its own next place and whatever it begins expect |
| `AsideRules` | what a run says that can settle neither is safe for every payment it may find; its steps keep to `aside` |
| `EchoRules` | Master's answer is handed on from `echoes` only; none is there after a question that failed to reach Master, or by being begun |
| `UnderRules` | who is asked in vain never settles the payment, asks nobody and does not have the client's connection |
| `LateRules`, `SpeechRules` | `late` is closed backwards; a handler that settles catches its errors, so that no route answers 500 in the middle of it |
| `AnswerRules` | all of these, for requests that begin with no payment |

`MCServiceRoutes` has `AnswerRules(AllRoutes, MCPlaces, MCCharges, MCTales)` as the assumption
`ScriptsTell`, evaluated in the same run.

## 5. The runs

Every configuration names one module, its constants and its properties. States are distinct states
of a run that passes.

| Run | Instance | Shows |
| --- | --- | --- |
| `settle_pool` | 3 jobs, 3 keys, both chains, jobs symmetric | no nonce sequence is owned twice, none is lost, `SettleSlots` is implemented; no deadlock |
| `pool_press` | 2 keys, 4 requests, three mixes, 1 failed wait with a transaction out | requests of all five kinds compete for two keys while any call may fail: none is overtaken, no nonce sequence has two transactions out but in the three cases of section 9, all are answered |
| `onchain_lane` | 5 tasks, 2 lanes, the listener's wait list, a limit of two polls | a lane is serial and in order, errors strand nothing, the shutdown waits |
| `cl_payout` | 3 blocks, 3 withdrawals, 1 of them poisoned, 2 faults | nothing is forgotten, the scan stays below its ceiling, what can be paid is paid |
| `usdc_charge` | 2 payments of a session, 2 attempts, swapped patches, 1 fault, 1 restart | success means charged, points only on the right signature, a signature is used once |
| `usdc_charge_ends` | 1 payment, 2 attempts, up to 4 patches in flight of which the 3 oldest overtake each other, 2 faults or lost patches, 1 restart, under fairness | the orchestrator ends and the POS is shown an end |
| `usdc_fulfil` | 3 requests, 4 mixes of payments, 2 keys, first balances of 0, 2 and 7 for an amount of 2 and a fee of 1, 1 fault or restart | file and answers are not ahead of the chain, USDC is locked once per failure at most, all is answered, a clean deposit arrives if the fees were covered |
| `usdc_fulfil_twice` | same | violation, see section 9 |
| `listener_claim` | 2 blocks, 3 events, chunks of one block, 1 failing work or crash, 1 failing read or lost filter | a claim is worked on once, or once more for a failure or a crash that may tear either file; backfills forget nothing; a checkpoint passes every block |
| `listener_claim_gap` | same without failures | violation, see section 9 |
| `service_routes` | one request of each route of the Cluster and of Master's local ones, one key per chain, 1 fault, Master may restart | every key comes back, one answer per client, no exception escapes, nobody is forgotten, "done" is done |
| `service_jobs` | two requests of each route of Master (one where the script is long), one key per chain, 1 fault, or 4 where points are sold | wallets are not shared, no job is stranded, no fee is taken twice, errors and fees are true, a paid sale is booked unless three retries fail, all are answered |

Why the bounds are enough to be worth something:

- *Pool.* Three keys are the fewest for which the gas picker passes over two keys and keeps a third,
  and for which a key idle on both chains is not at the same position of both arrays. Three jobs
  allow one that holds, one that picks and one that polls. The proofs remove the bound.
- *Press.* With two keys and four requests, a request is put back because all keys are out, while
  another of the same queue ends and a third waits behind it. A "both" request with one key idle per
  chain, but not the same, is among the states. The timers need no bound: there is never more
  than one per request received.
- *Lane.* Two batches of one flush, a claim and a fee update share a lane: enqueueing during a task,
  at its end, and between two tasks of one flush all happen; `lab` uses a lane of its own, and
  "cl-payout" is waited for although nobody opens it. The limit of two sleeps lets the shutdown find the
  lane idle after none or one, or give up on it; the proof has any limit.
- *Payout.* Two withdrawals in one block and one in another, chunks of two blocks with one chunk per
  tick, and at most two entries within the gas limit: a chunk boundary, a session boundary, a
  batch that is too large and a batch with a poisoned entry happen. Two faults are a crash and a
  failure, or two failures of a retry.
- *Charge.* Two payments are needed for one to take the other's signature (`usdc_charge`). Two attempts are needed
  for a transfer that is answered as failed and mined while the second one runs (the code makes
  more attempts; the third repeats what the second can do). A `Window` of two lets adjacent patches
  swap. Two patches in flight suffice there because the orchestrator's steps in between wait for chain
  calls; a step that would send a third waits. `usdc_charge_ends` has four, of which the newest but one
  may arrive first, and two faults, so that a patch is lost and something else fails as well.
- *Fulfilment.* Three requests for one bridge payment show what a second and third retry do behind a
  failure. The mixes pair the kinds that share the Base key, the CoNET key and the USDC. One fault
  is either a failing step, a transaction mined unseen, or a restart. The wallet begins empty (every
  lock is refused for want of the fee until other deposits pay it), with exactly the fees of two locks
  (the boundary of `DepositArrives`), or with enough for three locks of one deposit.
- *Listener.* Two blocks and chunks of one block give ranges of two chunks, with a live event for
  the later block in the middle of the earlier one. `LagAlert = 0` makes the alert possible as soon as
  there is a lag. The daemon starts with a checkpoint or without one, and `FromBlock = 1` lets a start
  without a checkpoint, also the one after a tear, go over all blocks again.
- *Service.* `route`, which gives each request its route, never changes, so a run is the union of one
  small instance per mix of `Mixes`. One request (`MCEach`) passes each branch of the Cluster's and
  Master's scripts, with a fault at any await; two of one route on one key (`MCMixes`) make the second
  wait, come back by a timer, and run while background blocks of the first still do. The routes in
  `MCAlone` have scripts with many branches, and one request of theirs starts several workers already;
  `usdcTopup` pushes the same job as `purchasingCard` and is left to `MCEach`.
  One fault is the first that an error path meets (`MaxFaults`); a sale of points has four in
  `service_jobs` (`SaleFaults`): the booking and its three retries, the fewest with which a sale can be lost.
  What two faults do elsewhere (an error in an error path) is not covered by the runs, nor are requests of two different routes, beyond the workers one route
  starts. For ten of the properties the theorems of section 7 remove all of these bounds: any
  number of requests of any routes, keys, faults and restarts.

Each property of a passing run has a mutant in `PROJECT.json`: replacing one definition by its
mutated form makes TLC find that property violated in that run. So no property holds merely because
its case does not occur.

Deadlock is checked in `settle_pool`. The others really stop: all requests answered, all tasks
settled, all blocks paid, the process exited, the faults used up.

## 6. Fairness

- `PoolPress`: `Fire(w)` for each worker (a timer fires), `Write`/`Finish`/`FinishRedeem` for each
  job (an RPC call is answered, with a result or an error), `FillPools` (module loading). Nothing
  obliges a client to send. Weak fairness is enough: timers that are set stay set, and no other job
  can disable a job's answer.
- `OnchainLane`: an awaited task settles, a handler goes on, the shutdown polls. Signals and events
  need not come.
- `ClPayout`: `Tick` (the next step of the running tick, or the next timer), mining, and the passing
  of the gas window. New blocks need not come and the gas price may stay high for ever. `MaxFaults`
  bounds the faults, so failing reads stop at some time; for `HealthyIsPaid` that is the assumption
  that the RPC node works in the end.
- `UsdcCharge` (only in `FairSpec`): the steps of a *running* orchestrator, Master's workers
  including mining, and the arrival of the oldest patch. Not the customer, not the POS, not the
  expiry of a session: `EveryRunEnds` comes from the code's own deadlines. One payment is enough for
  the two liveness properties: all another payment can do to it is take the signature it waits for,
  which the lost answer of a poll does too, or show an end in its place.
- `UsdcFulfill`: a worker whose key is idle begins, an awaited call returns. Not paying, posting, or
  the mining of a transaction nobody awaits.
- `ListenerClaim`: awaited calls return, timers fire, the service manager starts the daemon again.
  Not the mining of a block.

- `ServiceRuns` (`FairSpec`): strong fairness of each request's runs (`StepsOf`), of the runs that hold
  a key (`HolderSteps`) and of the timers (`FireTimer`). Strong, because a step is enabled only
  while no other run is in the middle of its turn, and is disabled again and again by others' turns.
  Nothing obliges Master to restart or a call to fail.

These are what an event loop provides: a callback whose promise is settled or whose timer has
expired is run, in the order of its queues, whatever else is ready. Apart from `ServiceRuns`, weak
fairness suffices.

## 7. What is proved

All theorems are for every value of the constants that satisfies the named assumptions.

| Theorem | Module | Statement |
| --- | --- | --- |
| `SlotsStayExclusive`, `SlotsAreConserved` | `SettlePoolProofs` | `Spec => []SlotsExclusive`, `Spec => []NoSlotLost` |
| `Refinement` | `SettlePoolProofs` | `Spec => SlotsSpec`: the pool implements the allocator |
| `LaneIsSerial`, `LaneIsFifo`, `LaneNeverStalls` | `OnchainLaneProofs` | the three lane invariants |
| `ShutdownIsPatient` | `OnchainLaneProofs` | `Spec => ShutdownWaits` |
| `PayoutsAccounted` | `ClPayoutProofs` | `Spec => []NothingForgotten` |
| `CeilingIsFixed`, `CheckpointBelowCeiling`, `PoolKeepsUnpaid` | `ClPayoutProofs` | the three action properties |
| `SuccessIsCharged`, `MintsAreSigned`, `SignaturesAreSpent` | `UsdcChargeProofs` | the three charge invariants |
| `FilesAreTrue`, `LocksAreBounded` | `UsdcFulfillProofs` | `Spec => []FulfilledIsDelivered`, `Spec => []LockedOnce` |
| `NobodyWaitsInVain`, `ClaimsAreBounded` | `ListenerClaimProofs` | `Spec => []TypeOK`, `Spec => []ClaimedOnce` |
| `SuccessIsFinal` | `ListenerClaimProofs` | `Spec => SucceededIsFinal` |
| `BackfillsAreComplete` | `ListenerClaimProofs` | `Spec => []BackfillForgetsNothing` |
| `PressInvariance`, `PressKeepsPool` | `SettlePoolProofs` | `PressSpec => []PressIInv`; below the presses the pool keeps `SlotsExclusive` and `NoSlotLost` |
| `RequestsStartInOrder`, `NoncesAreExclusive` | `SettlePoolProofs` | `PressSpec => []StartedInOrder`, `PressSpec => []NonceExclusive` |
| `NoQueueAbandoned` | `SettlePoolProofs` | a press with jobs has a timer or a running job that will call it |
| `TypeCorrect` | `SettlePoolProofs`, `UsdcChargeProofs`, `UsdcFulfillProofs` | `Spec => []TypeOK` |
| `KeysAreExclusive` | `ServiceRunsProofs` | `Spec => []KeysExclusive`: no key is held by two runs, or idle and held; of every program |
| `CoreInvariance` | `ServiceRunsProofs` | `Rules` imply `Spec => []Core`, on which the theorems below rest |
| `EachAnsweredOnce`, `NothingEscapes` | `ServiceRunsProofs` | `Rules` imply `[]AnsweredOnce`, `[]NoEscape` |
| `KeysAreKept`, `WalletsAreAlone` | `ServiceRunsProofs` | `Rules` imply `[]KeysKept`, `[]WalletAlone` |
| `NobodyIsForgotten`, `NoJobIsStranded` | `ServiceRunsProofs` | `Rules` imply `[]NobodyForgotten`, `[]NoStrandedJob` |
| `PaidInvariance` | `ServiceRunsProofs` | `Rules` and `Charging` imply `Spec => [](Core /\ Paid)` |
| `NothingIsTakenTwice`, `FeesAreEarned` | `ServiceRunsProofs` | `Rules` and `Charging` imply `[]NeverTwice`, `[]FeeOnlyForSuccess` |
| `AnswersInvariance` | `ServiceRunsProofs` | `Rules`, `Charging` and `Telling` imply `Spec => [](Core /\ Paid /\ Told)` |
| `DoneMeansDone`, `ErrorsAreTrue` | `ServiceRunsProofs` | the same hypotheses imply `[]DoneIsDone`, `[]ErrorIsTrue` |

**SettlePool.** Assumptions: the keys of the roster are distinct, `Nobody` is no job. `SlotsExclusive`
is not inductive: giving a key back is only safe if the job really owns what it gives back, and the
gas picker's `push` is only safe if what it passed over is what it holds. `IInv` (in `SettlePool`) adds:
what a job holds fits where it stands (`HeldMatchesPc`), the keys tried are distinct and empty
unless the picker is at work, and nothing is idle or held before the pools are filled. The proof has a
lemma per action, resting on `QueueLemmas` (a queue without duplicates stays so under shift, unshift,
push of fresh keys and splice, and its range changes by exactly those keys). `Refinement` maps each
taking action to `Occupy`, each returning one to `Vacate`, and the others to stutters; the picker's
`RelayFunded` is a `Vacate` of the keys passed over.

**OnchainLane.** `IInv`: types, one task awaited at most, enqueued = started followed by queued, a
drain loop runs exactly if a task is awaited, and without one the queue is empty. The last two
are what `NoTaskStranded` needs and what a missed wake-up would break. `ShutdownIsPatient` needs
besides that what was enqueued has settled or is queued or awaited (`AllLocated`); it holds for any
limit.

**ClPayout.** `NothingForgotten` speaks of the file; a tick works on a copy in memory. `IInv` adds that
the copy agrees with the file but for the chunk under way (`InStep`), that this chunk has pooled all
blocks before the scan and lies below the ceiling (`ScanInChunk`), and that a receipt answers the
batch at the head of the flush (`AwaitsHead`), without which an entry could be removed on the
receipt of another batch. The action properties follow from the same invariant.

**UsdcCharge.** `Inv`: a success patch in flight tells the truth (`TruthUnderWay`), and before its mint
is posted a payment has none (`NothingPosted`), together with the two properties and `TypeOK`. With
these, reordering and loss of patches and restarts of Master preserve it without a bound.
`SignatureConsumedOnce` has an invariant of its own, `Once`: a payload is asked for by one patch, which
its payment sends once; while that patch is in flight nobody has seen the payload, and once an
orchestrator has the signature the session shows neither the payload nor the signature again.

**UsdcFulfill.** Assumptions: finitely many requests, the initiator's key is a key, `NoKey` is none.
`FulfilledIsDelivered` needs the order of each workflow: what a request at a step has behind it is
on chain (`InOrder`), a worker's queue holds its own kind (`Queued`), and requests take the steps of
their kind (`Kindly`). `LockedOnce` is not inductive for two reasons. A request that locks looked its
payment up earlier: the file still says nothing (`FileFits`) because one request at a time is in a step
under the Base slot (`OneOnBase`), so nobody else of the payment can have written since. And a lock
mint given up may be mined later: `Budget` bounds mined *and* late ones together by 1 + faults, and by
faults while the file says nothing, so that the next lock mint always has room. An error moves
at most one lock mint to the late ones (again by `OneOnBase`), a torn file loses records, and each of
them is a fault that pays for it.

**ListenerClaim.** Assumptions: every event has one block and a place in the chain's log, which is
sorted by blocks; chunks have at least one block. `ClaimedOnce` needs two facts: an event is in the lane
or under way at most once (`Single`), though three handlers may hand it in, and a claim's beginnings
are *paid for* (`Paid`): at most one per failure or crash unless it is under way or has succeeded, and
once it has succeeded it is not in the lane. A crash drops the lane and pays for what was under way, or
for the one successful beginning whose record it tears.
That the checkpoint stays within the chain rests on `LogsKnown`: a fetched range shows events of blocks
up to its end only.

`BackfillForgetsNothing` needs more than what is behind the checkpoint, because either loop may be the
one that moves it. `Swept`: up to the checkpoint, up to the block at which a loop goes on and up to the end
of the chunk it has fetched, every event owed (from `FromBlock` on, if the start found no checkpoint)
has been looked at or is among the logs a loop still has to dispatch. A fetch extends this by `LogsComplete` (a fetched range shows *all* events of its blocks).
No loop drops logs while it may stop only between chunks, which is the other half (`Shape`): a
loop without a chunk has no logs, and the boot loop is idle until the start has learned the head. What
is owed changes only at the first start, when nothing has moved yet (`Fresh`). A
live event that moves the checkpoint breaks `Swept`; that is the run `listener_claim_gap`.

**PoolPress.** Assumptions: those of `SettlePool`, and `PressAssumption`. The module EXTENDS the pool, so
its invariant `PressIInv` contains the pool's, and each of its steps is shown to take or give back
keys as a step of the pool does (`HandoverKeepsIInv` is the one that is not: a redeem passes its key on
to the next job). `StartedInOrder` needs that what arrived is what was started followed by what is
queued (`Lined`). `NonceExclusive` needs that a job at work holds one key on the chains of its kind and
sends from no other wallet (`AtWork`), and that any other has left out only what it may (`AtRest`).
`Watched`, the safety half of `EveryRequestAnswered`, breaks
halfway through a worker's call; it takes the queues and the stages as parameters, and `WorkerCall`, one
lemma on `Process`, serves the push and the timer.

**ServiceRuns.** `KeysAreExclusive` is about the machine, for all scripts. A thread of the Cluster holds no
key, so that a restart of Master, which drops the others, may refill the pools; each action is shown to
replace one thread by threads whose keys are, taken together, those it had, plus what it took from
`idle`, less what it returned.

The other theorems are about the service: the machine with the scripts. Their hypothesis is `Rules`,
that is `Obeyed(Routes, Places)` of `ServicePlaces` for some sets of places; TLC evaluates it for the places
of all scripts (`ScriptsObey`). It speaks of single runs and of pairs that share a connection, and of no
number of requests, keys, faults or restarts, so the argument has two halves. TLC does the half that
is a finite enumeration, and the theorems do the half that is not: how any number of runs, of requests
of any routes, interleave.

- `Core` says where everybody is. Runs and jobs (`Parties`) are at places (`Placed`); two that share a
  connection fit each other, one silent or both careful (`Voices`); of a request one run
  asks Master, and asks again only when nobody is left who would answer its last question (`Asked`); whoever
  is past an `await` has Master's answer (`Heard`). It is inductive only as a
  whole: an echo (`say "inner"`) has something to echo because of `Heard`, a new answer of Master is
  safe because of `Asked`, and that Master's piped answer is not a second one is `Voices`.
- `KeysKept` adds that each key is idle or held (`Covered`), which rests on "a run ends without keys".
- `NobodyForgotten` adds `Waited`: a client without an answer has a party at a place that `owes` it one. A
  restart drops Master's parties, and the machine writes the Cluster's answer for them.
- `NoStrandedJob` adds `Attended`: a queue with jobs has a call or a run at a place that will call again
  (`Rung`); for the workers that are called for one job each, there are as many calls as jobs, but for the
  run that has just put its job back (`Matched`), of which there is one (`OneFirst`).
- `NeverTwice` (which is about the fee alone: the machine has every other effect refused by its contract
  the second time, so that there is nothing to prove of them) and `FeeOnlyForSuccess` add `Paid`, and the hypothesis `Charging` (`ChargeRules` for some sets,
  true of `MCCharges`). Neither property is inductive: whether a run may send the fee depends on what it has
  found of the payment, and somebody else could have changed that since. `OneSpender` says that nobody
  does: of the parties of one request, one at most is at a place from which payment or fee can still be
  settled. So what it finds follows from where it is and how it came there (`Kept`: its place, whether its
  job was put back, and the ledger are among those computed). The exception is the block of `executeForOwner`
  that waits for a receipt beside the spender; it can only turn a payment that is sent into one that
  is seen or failed, and the computed ledgers are closed under that for the requests it belongs to
  (`Belongs`). `Sourced` says where each party of the next state comes from: it stayed, is the run one
  step on, or was begun by it. A renewed connection between the servers changes the place of those that
  share it (`Turns`).
- `DoneIsDone` and `ErrorIsTrue` add `Told`, and the hypothesis `Telling` (`AnswerRules`, true of `MCTales`). An
  answer is written once and read for ever, by a client who cannot see the chain; so the invariant says that
  it is *safe* (`ClientTold`), which is more than true: a run may still be about to settle the payment.
  `Eased` is what a step may do to a payment: nothing, anything short of undoing what was seen while a run
  may settle it (`Heired`: a party at a place of `pays`), or the receipt that the watching block of `executeForOwner` sees. A safe answer
  stays safe under that (`TrueStays`). Who speaks is the run that may settle payment or fee (its ledger is
  known, by `Kept`) or one that knows what that run left (`Bystanders`; `HeirsLeaveKnowledge` is the step at which
  the one becomes the other). The hard case is the Cluster, which hands on an answer Master gave some
  steps ago: `MasterTold` says that any answer would be true, or that the one given is and nobody is left
  who would give another (`Unheard`). When the Cluster asks again, `Asked` makes the parties of its last
  question silent (`AskersAreUnheard`), and who is asked in vain is heard by no client.

## 8. What is only model-checked

- Liveness (`EveryRequestAnswered`, `EveryTaskSettles`, `HealthyIsPaid`, `EveryBlockScanned`,
  `EveryRunEnds`, `TheEndIsShown`, `DepositArrives`, `EveryBlockPassed`, `PaidSaleIsBooked`) and absence
  of deadlock: they need fairness or `ENABLED`, which the proof system does not handle.
- That the scripts obey the rules (`ScriptsObey`, `ScriptsCharge`, `ScriptsTell`). The walks of
  `MCServicePlaces` and `MCServiceRoutes` are recursive, and their results are facts about finite data.

Every invariant of a passing run is stated by a theorem; what remains here are the temporal properties.

## 9. Where the code does not do what its comments say

Two runs end in a violation.

1. **`usdc_fulfil_twice`.** The seat worker looks the `USDC_tx` up at the start and records it at the
   end, after it has returned the initiator's key; a second request in between locks the USDC
   again. `validatorDepositRedeem.ts:3766` says "Idempotent on USDC_tx".
2. **`listener_claim_gap`.** A live event moves the checkpoint to its block before the backfills have
   filled what is below. Without any failure, a block mined between the answer of the head and the
   installation of the filter is passed over for good. `validatorDepositRedeem.ts:3481` says that
   the backfill fills what is below.

### Disagreements without a run

The models show these as well; a property exempts them by name, or they lie outside what is kept.

*Wallets used without their slot* (`WalletAlone`, `NonceExclusive`). `MemberCard.ts:1720` asks every chain
write to take a slot, so that two transactions of one wallet never compute the same nonce.

- `cardRedeemPoolPress` takes a CoNET slot only (`MemberCard.ts:19756`, `settleContractPool.ts:102`) and then
  awaits `DeployingSmartAccount` with a factory bound to the key's Base wallet (19768).
  `performInfraCardRedeem` (15622) and `cardRedeemAdminProcess` (18665) do the same. `PoolPress` has
  the wallet's chains and exempts the redeem from `NonceExclusive`.
- `AAtoEOAProcess` returns its key with the fee of 11848 on its way, and any worker returns it when the
  wait for a transaction fails that may still be mined (`purchaseBUnitFromBaseProcess` even answers
  200, 7106-7120): the next holder of the key computes the same nonce. `PoolPress` has both;
  `NonceExclusive` names them (`LeftBehind`).
- The routes in `Borrowers` send from `Settle_ContractPool[0]` without taking it:
  `cardClearAdminMintCounter` (18517-18555), `cardTerminalSettlementClear` (18427, 18499),
  `tokenTransferRawSig` and `usdcChargeRawSig` (`beamioMaster.ts:5541`, 5893; the key of the configuration file),
  `payByNfcUidPrepareRoute` and `payByNfcUid` (21136 and 20847, by the account they create),
  `merchantKitStripeWebhook` (`merchantKitStripe.ts:183-190`); or go on with a key they have given back:
  the fee of `AAtoEOAProcess` that nobody awaits (11848) and the background books of `executeForOwner`
  (19375). A behaviour of the run has one request only of several of these, so that the run alone would
  not meet them; the rule on wallets in `PlaceRules` does.

*An error for a success* (`ErrorIsTrue`, `LateErrors`). After the receipt of what was asked for, a row, a
registry entry, statistics or a second transaction fails, and the catch of the whole function answers
an error: 20 routes, among them `executeForOwner` (19180-19189), the claim of a linked card
(16121-16131), `referralRegistryAdminManagement` (22167-22178), `cardClearAdminMintCounter` (18555) and the purchase of
points, `purchasingCard` and `usdcTopup`: after the mint the worker polls for the receipt once more (10289-10298)
and a poll that throws is answered with 400 (10684-10705).
The client is told of a failure and asks again. `MCLateErrors` also names the 25 routes of the Cluster that
hand the answer of one of these on (`cardAddAdmin`, `cardCreateIssuedNft` and others to `executeForOwner`).

*A fee before its effect* (`FeeOnlyForSuccess`, `FeeFirst`). `requestAccounting` and
`nfcLinkAppClaimWithKey` take B-Units first; what follows may fail. So does the accounting of a transfer:
a job whose `source` is `x402`, or `open-container` with `bServiceUnits6` (`beamioMaster.ts:2458`, 2490), is
charged (`MemberCard.ts:5099-5159`) before it is booked (5213), and the booking can fail. `usdcChargeRawSig` and
the Cluster's `nfcUsdcChargeRawSig` in front of it are in `FeeFirst` because they post such a job.

*A fee twice* (`NeverTwice`). `MemberCard.ts:5293` puts a job that ran out of gas back and its catch
answers 400 as well: the job runs again, and its fee, which no contract refuses, is taken again.

*A sale that is never booked.* The comment at `MemberCard.ts:10631-10635` queues a booking that could not
be made so that no order is lost ("避免丢单"). The queue makes three attempts and then drops the job (10039-10043);
it is an array that a restart empties; and a read that throws between the receipt and the fee (10437;
`fetchOperatorParentChain`, 3012-3025; `payMe` being null, 10332) ends the purchase without a booking and
without a retry job. `PaidSaleIsBooked` therefore speaks of sales whose fee was taken, lets go those whose
third retry has met an error (`GivesUp`), and of behaviours without restarts.

*A lookup that failed counts as no guardian.* `resolveGuardianIdForWithdrawal` turns a read error into `null`
(`validatorClRewardPayoutReporter.ts:388, 428`, cached at 376); the withdrawal counts as scanned (453).
Lines 14-15 and 662 say that the checkpoint does not pass a failed fetch. `NothingForgotten` names
those withdrawals apart.

*Stripe.* A poll of `eoaUsdcStripe.ts` reads the session, awaits Stripe and writes the session back (361):
a `usdcTxHash` the webhook wrote in between is gone and the USDC is paid again. The kit's webhook keeps a
hash only after the receipt (`merchantKitStripe.ts:199-202`), while 134 says that it is idempotent; its
poll (399) starts no fulfilment, which 241 and 366 say it does; later events overwrite
"succeeded" (397-449). Sessions are not kept in the model.

Other statements of comments that the models do not support, without a run of their own:

- `usdcChargeOrchestrator.ts:35` "no side effects" when leg 1 fails: the mint may be queued or mined
  when the answer is lost (`TopupAnswerFails`, `ConfirmTimesOut`).
- The log line at `usdcChargeOrchestrator.ts:621` calls the points permanent dust; the transfer may be
  mined afterwards (`MemberCard.ts:12929`).
- The session is told "settling" before the payment is verified (`beamioServer.ts:7021`, 1772).
- A patch overwrites a terminal state (`beamioMaster.ts:5220`, `beamioServer.ts:1762`), and the one
  signature of a session goes to whichever orchestrator asks first (`beamioMaster.ts:5266`, 5073);
  leg 1 then fails, which `MintedOnlyAsSigned` shows.
- `onchainTxSerialQueue.ts:141-148` documents isolated lanes for claims and payouts; both use the same
  one, and the shutdown waits for a lane nobody opens (`validatorDepositRedeemListenerDaemon.ts:38`).
- An error in the work of an admin event is thrown into the backfill that awaits it
  (`validatorDepositRedeem.ts:3318`; 2735 says "never throws out"), and the record of an admin event is
  looked up under an id that is never found (1123), so its work is repeated at every backfill
  over its block.

## 10. What is not modelled, and why

- *External code.* Contracts, facilitator, RPC nodes and the beacon API are outside the repository.
  They are modelled by what the code expects of them: a call is answered, fails, or fails after it has
  had its effect.
- *Cryptography and parsing.* A signature is over a payload and valid or not; what the checks of
  routes refuse never reaches the models.
- *Read-only code.* Catalogues, dashboards, explorers, share pages, previews, image proxies,
  fragments: no state beyond caches. Their routes are scripts that read and answer.
- *Generated data.* Byte code, ABIs, addresses.
- *Database.* PostgreSQL is external. The first seven modules have a variable for a row they need;
  in the service machine a row is an effect, or a point of failure where nothing depends on it.
- *Tools.* Command-line scripts, the operator's replay of a single claim, one-off migrations.
- *Left out of modelled parts.* The wait of a shutdown for child processes; dry-run of the reporter; the referral bookkeeping in the background of a fulfilment;
  what a claim's scripts do on the node;
  the arguments of calls and contents of rows in the service machine; the age of caches. Each module
  says so.
- *Not modelled, though it could be.* The rows of the NFC link application as state (its locks and their
  expiry), the session map of Stripe, the lab payout reporter (a sibling of `ClPayout` with a
  shared pool), statistics windows.

Every component is in `PROJECT.json` with its status and the reason for it.

## 11. The plan from here

1. `NfcLink`: rows and locks of the link application (`MemberCard.ts:490-680`, 15180-16145), whose
   handlers `NfcScripts` has as scripts. Properties: a card is linked to one wallet, a lock ends, the
   sweeper and a late execute do not both win.
2. `StripeSession`: the session map with its three writers (poll, webhook, payout), for the
   hazard at `eoaUsdcStripe.ts:361`.
3. The lab payout as a second instance of the reporter with a shared pool.
4. `StatRewardPool`: reserve, pay, confirm or release, with its windows.

**Abstract specifications worth stating**: a job server (each accepted request gets one answer)
implemented by `PoolPress`; an exactly-once payout ledger implemented by `ClPayout` up to skipped
lookups.

**Theorems to come**: one for each new module above; the safety half of `EveryRequestAnswered` for the
service machine (a run that holds a key can take a step), on which its fairness argument rests.
