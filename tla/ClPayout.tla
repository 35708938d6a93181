------------------------------- MODULE ClPayout -------------------------------
(***************************************************************************)
(* The CL reward payout reporter, validatorClRewardPayoutReporter.ts.      *)
(*                                                                         *)
(* A tick reads the state file, scans the next blocks up to a ceiling for  *)
(* withdrawals to the proxy, keeps those of registered validators in a     *)
(* pending pool, writes checkpoint and pool to the file, and then settles  *)
(* the pool on chain in batches, halving a batch that fails.  The chain    *)
(* pays an event key once.  The process may crash between any two steps,   *)
(* a transaction may be mined after its sender gave up waiting for it, and *)
(* a crash during writeFileSync leaves a file that does not parse.         *)
(***************************************************************************)
EXTENDS Naturals, Sequences, SequencesExt, FiniteSets

CONSTANTS
  Event,        \* withdrawals to the proxy whose validator has a guardian
  blockOf,      \* blockOf[e]: the block of e
  Poison,       \* events settleNodeRewards reverts on
  Floor,        \* the deploy block; scanning starts here
  MaxBlock,     \* bound: the chain's head
  ChunkBlocks, ChunksPerTick,   \* blocks per chunk, chunks per tick
  MaxEntries,   \* entries per transaction before any halving
  GasFit,       \* entries whose gas estimate fits the gas limit
  MaxFaults     \* bound: RPC errors, crashes and shortfalls of balance

\* Events are numbered in the order (block, withdrawal index).
ASSUME EventAssumption ==
  /\ Event \subseteq Nat
  /\ blockOf \in [Event -> Nat]
  /\ \A e, f \in Event : e < f => blockOf[e] <= blockOf[f]
  /\ Poison \subseteq Event
ASSUME BoundAssumption ==
  /\ Floor \in Nat \ {0} /\ MaxBlock \in Nat
  /\ ChunkBlocks \in Nat \ {0} /\ ChunksPerTick \in Nat \ {0}
  /\ MaxEntries \in Nat \ {0} /\ GasFit \in Nat \ {0} /\ MaxFaults \in Nat

NoTarget == 0

VARIABLES
  head,       \* the chain's head
  gas,        \* "low" or "high": eth_gasPrice against the configured maximum
  consumed,   \* event keys paid on chain
  mempool,    \* transactions not yet mined: [batch, awaited]
  disk,       \* the state file
  corrupt,    \* the state file does not parse
  mem,        \* the state and pending map of the running tick
  pc,         \* where the tick is
  at,         \* next block to scan
  chunkTo,    \* last block of the chunk
  tickEnd,    \* last block of the tick
  todo,       \* batches left in the flush, halves first
  receipt,    \* of the awaited transaction
  elapsed,    \* the force window has passed since gasWaitStartedAt
  faults,     \* bound counter
  skipped     \* history: events whose lookup failed while scanned

chainVars == <<head, gas, consumed, mempool>>
scanVars == <<at, chunkTo, tickEnd>>
vars == <<chainVars, disk, corrupt, mem, pc, scanVars, todo, receipt, elapsed,
          faults, skipped>>

\* The state without a file: nothing scanned below the deploy block.
EmptyState == [last |-> Floor - 1, target |-> NoTarget, pending |-> {}, gasWait |-> FALSE]

Init ==
  /\ head = Floor - 1 /\ gas = "low"
  /\ consumed = {} /\ mempool = {}
  /\ disk = EmptyState /\ corrupt = FALSE
  /\ mem = EmptyState /\ pc = "idle"
  /\ at = Floor /\ chunkTo = 0 /\ tickEnd = 0
  /\ todo = <<>> /\ receipt = "none" /\ elapsed = FALSE
  /\ faults = 0 /\ skipped = {}

Min2(a, b) == IF a < b THEN a ELSE b

\* A fault the environment may still cause.
Fault == faults < MaxFaults /\ faults' = faults + 1

------------------------------------------------------------------------------
(* The chain and the clock.                                                *)

NewBlock ==
  /\ head < MaxBlock
  /\ head' = head + 1
  /\ UNCHANGED <<gas, consumed, mempool, disk, corrupt, mem, pc, scanVars, todo,
                 receipt, elapsed, faults, skipped>>

GasMoves ==
  /\ gas' \in {"low", "high"} \ {gas}
  /\ UNCHANGED <<head, consumed, mempool, disk, corrupt, mem, pc, scanVars, todo,
                 receipt, elapsed, faults, skipped>>

ForceWindowPasses ==
  /\ disk.gasWait \/ mem.gasWait
  /\ elapsed' = TRUE
  /\ UNCHANGED <<chainVars, disk, corrupt, mem, pc, scanVars, todo, receipt,
                 faults, skipped>>

Accepts(batch) == \A e \in Range(batch) : e \notin consumed \cup Poison

\* A transaction is mined, in any order (senders differ): settleNodeRewards pays
\* every event of the batch or reverts.
Mine(tx) ==
  /\ mempool' = mempool \ {tx}
  /\ consumed' = IF Accepts(tx.batch) THEN consumed \cup Range(tx.batch) ELSE consumed
  /\ receipt' = IF ~tx.awaited THEN receipt
                ELSE IF Accepts(tx.batch) THEN "ok" ELSE "reverted"
  /\ UNCHANGED <<head, gas, disk, corrupt, mem, pc, scanVars, todo, elapsed,
                 faults, skipped>>

------------------------------------------------------------------------------
(* The tick: ceiling and scan.                                             *)

\* persistPending writes state and pool in one file.
Persist(state) == disk' = state /\ mem' = state /\ corrupt' = FALSE

\* readState and loadPendingMap.
ReadState == IF corrupt THEN EmptyState ELSE disk

\* Mutant: the block after the ceiling must be scanned too.
CaughtUp_Strict(state) == state.target = NoTarget \/ state.last > state.target

CaughtUp(state) == state.target = NoTarget \/ state.last >= state.target

BeginChunk(from, to) ==
  /\ pc' = "scan" /\ at' = from /\ tickEnd' = to
  /\ chunkTo' = Min2(from + ChunkBlocks - 1, to)

\* Mutant: the chunks of a tick are not clamped to the ceiling.
payoutTick_NoClamp ==
  LET read == ReadState
      state == IF CaughtUp(read) THEN [read EXCEPT !.target = head] ELSE read
      from == state.last + 1
  IN  /\ pc = "idle" /\ head >= Floor
      /\ IF state # read THEN Persist(state)
                         ELSE mem' = state /\ UNCHANGED <<disk, corrupt>>
      /\ IF from <= state.target
         THEN BeginChunk(from, from + ChunkBlocks * ChunksPerTick - 1)
         ELSE pc' = "flush" /\ UNCHANGED scanVars
      /\ UNCHANGED <<chainVars, todo, receipt, elapsed, faults, skipped>>

\* A tick begins.  Caught up, it snapshots the head as the new ceiling; behind,
\* it keeps the ceiling it has.
payoutTick ==
  LET read == ReadState
      state == IF CaughtUp(read) THEN [read EXCEPT !.target = head] ELSE read
      from == state.last + 1
  IN  /\ pc = "idle" /\ head >= Floor
      /\ IF state # read THEN Persist(state)
                         ELSE mem' = state /\ UNCHANGED <<disk, corrupt>>
      /\ IF from <= state.target
         THEN BeginChunk(from, Min2(from + ChunkBlocks * ChunksPerTick - 1, state.target))
         ELSE pc' = "flush" /\ UNCHANGED scanVars
      /\ UNCHANGED <<chainVars, todo, receipt, elapsed, faults, skipped>>

EventsOf(block) == {e \in Event : blockOf[e] = block}

\* The chunk is through at block b: advance the checkpoint and write, then the
\* next chunk of the tick or the flush.
EndChunk(pending, b) ==
  /\ Persist([mem EXCEPT !.pending = pending, !.last = b])
  /\ IF b < tickEnd THEN BeginChunk(b + 1, tickEnd) ELSE pc' = "flush" /\ UNCHANGED scanVars

\* Mutant: the checkpoint is written when a chunk begins.
ScanBlock_CheckpointFirst(found) ==
  LET pending == mem.pending \cup found
  IN  /\ pc = "scan" /\ found \subseteq EventsOf(at)
      /\ skipped' = skipped \cup (EventsOf(at) \ found)
      /\ IF found = EventsOf(at) THEN UNCHANGED faults ELSE Fault
      /\ IF at = chunkTo
         THEN /\ EndChunk(pending, at)
         ELSE /\ at' = at + 1
              /\ mem' = [mem EXCEPT !.pending = pending, !.last = chunkTo]
              /\ disk' = [disk EXCEPT !.last = chunkTo]
              /\ UNCHANGED <<corrupt, pc, chunkTo, tickEnd>>
      /\ UNCHANGED <<chainVars, todo, receipt, elapsed>>

\* The next block is fetched and its withdrawals are looked up.  An error of the
\* beacon node or of a contract read yields null, and the withdrawal is skipped
\* like that of a validator without guardian; found are the others.
ScanBlock(found) ==
  LET pending == mem.pending \cup found
  IN  /\ pc = "scan" /\ found \subseteq EventsOf(at)
      /\ skipped' = skipped \cup (EventsOf(at) \ found)
      /\ IF found = EventsOf(at) THEN UNCHANGED faults ELSE Fault
      /\ \/ /\ at = chunkTo
            /\ EndChunk(pending, at)
         \/ /\ at < chunkTo
            /\ at' = at + 1
            /\ mem' = [mem EXCEPT !.pending = pending]
            /\ UNCHANGED <<disk, corrupt, pc, chunkTo, tickEnd>>
      /\ UNCHANGED <<chainVars, todo, receipt, elapsed>>

\* Mutant: the block that could not be fetched counts as scanned.
FetchFails_AdvancesPast ==
  /\ pc = "scan" /\ Fault
  /\ Persist([mem EXCEPT !.last = at])
  /\ pc' = "flush"
  /\ UNCHANGED <<chainVars, scanVars, todo, receipt, elapsed, skipped>>

\* A block cannot be fetched: the checkpoint advances through the blocks before
\* it, and the scan ends for this tick.
FetchFails ==
  /\ pc = "scan" /\ Fault
  /\ IF at > mem.last + 1 THEN Persist([mem EXCEPT !.last = at - 1])
                          ELSE UNCHANGED <<disk, corrupt, mem>>
  /\ pc' = "flush"
  /\ UNCHANGED <<chainVars, scanVars, todo, receipt, elapsed, skipped>>

------------------------------------------------------------------------------
(* The flush.                                                              *)

EndTick == pc' = "idle" /\ todo' = <<>> /\ receipt' = "none"

\* Nothing pending: the gas wait is over.
FlushNothing ==
  /\ pc = "flush" /\ mem.pending = {}
  /\ IF mem.gasWait THEN Persist([mem EXCEPT !.gasWait = FALSE])
                    ELSE UNCHANGED <<disk, corrupt, mem>>
  /\ EndTick
  /\ UNCHANGED <<chainVars, scanVars, elapsed, faults, skipped>>

\* Mutant: every tick that finds the price high restarts the wait.
FlushWaits_Restarts ==
  /\ pc = "flush" /\ mem.pending # {} /\ gas = "high"
  /\ Persist([mem EXCEPT !.gasWait = TRUE]) /\ elapsed' = FALSE
  /\ EndTick
  /\ UNCHANGED <<chainVars, scanVars, faults, skipped>>

\* The gas price is too high and the force window not over.
FlushWaits ==
  /\ pc = "flush" /\ mem.pending # {} /\ gas = "high"
  /\ \/ /\ ~mem.gasWait
        /\ Persist([mem EXCEPT !.gasWait = TRUE]) /\ elapsed' = FALSE
     \/ /\ mem.gasWait /\ ~elapsed
        /\ UNCHANGED <<disk, corrupt, mem, elapsed>>
  /\ EndTick
  /\ UNCHANGED <<chainVars, scanVars, faults, skipped>>

\* The price cannot be read; or it is fine, which ends a gas wait, and no wallet is
\* configured or its balance is too low or cannot be read.
FlushSkips ==
  /\ pc = "flush" /\ mem.pending # {} /\ Fault
  /\ \/ UNCHANGED <<disk, corrupt, mem>>
     \/ gas = "low" /\ mem.gasWait /\ Persist([mem EXCEPT !.gasWait = FALSE])
  /\ EndTick
  /\ UNCHANGED <<chainVars, scanVars, elapsed, skipped>>

\* The batches of at most MaxEntries entries, in order.
splitEntriesForOnchain(entries) ==
  [k \in 1 .. (Len(entries) + MaxEntries - 1) \div MaxEntries |->
     SubSeq(entries, MaxEntries * (k - 1) + 1, Min2(MaxEntries * k, Len(entries)))]

Ordered(pending) == SetToSortSeq(pending, <)

\* The price is fine or the wait is over: drop the entries the chain reports as
\* consumed (unread ones are kept: a read may fail) and split the rest.
Flush(unread) ==
  LET pending == mem.pending \ (consumed \ unread)
      state == [mem EXCEPT !.pending = pending,
                           !.gasWait = IF gas = "low" \/ pending = {} THEN FALSE ELSE @]
  IN  /\ pc = "flush" /\ mem.pending # {}
      /\ gas = "high" => mem.gasWait /\ elapsed
      /\ unread \subseteq mem.pending \cap consumed
      /\ IF unread = {} THEN UNCHANGED faults ELSE Fault
      /\ IF state = mem THEN UNCHANGED <<disk, corrupt, mem>> ELSE Persist(state)
      /\ \/ /\ pending = {} /\ EndTick
         \/ /\ pending # {} /\ pc' = "batch"
            /\ todo' = splitEntriesForOnchain(Ordered(pending))
            /\ UNCHANGED receipt
      /\ UNCHANGED <<chainVars, scanVars, elapsed, skipped>>

\* After the last batch.
FlushEnds ==
  /\ pc = "batch" /\ todo = <<>>
  /\ IF mem.pending = {} /\ mem.gasWait THEN Persist([mem EXCEPT !.gasWait = FALSE])
                                       ELSE UNCHANGED <<disk, corrupt, mem>>
  /\ EndTick
  /\ UNCHANGED <<chainVars, scanVars, elapsed, faults, skipped>>

\* The balance check before a batch fails: the flush ends.
StopBalance ==
  /\ pc = "batch" /\ todo # <<>> /\ Fault
  /\ Persist(mem) /\ EndTick
  /\ UNCHANGED <<chainVars, scanVars, elapsed, skipped>>

\* settleNodeRewards is sent; its gas estimate, when there is one, fits.
Send ==
  /\ pc = "batch" /\ todo # <<>>
  /\ Len(Head(todo)) <= GasFit \/ ~Accepts(Head(todo))
  /\ mempool' = mempool \cup {[batch |-> Head(todo), awaited |-> TRUE]}
  /\ pc' = "wait" /\ receipt' = "none"
  /\ UNCHANGED <<head, gas, consumed, disk, corrupt, mem, scanVars, todo, elapsed,
                 faults, skipped>>

\* Mutant: the rest of a batch that failed is given up.
Halves_LeftOnly(b) ==
  IF Len(b) = 1 THEN <<>> ELSE <<SubSeq(b, 1, Len(b) \div 2)>>

\* A batch that failed is tried in halves; a single entry stays pending.
Halves(b) ==
  LET mid == Len(b) \div 2
  IN  IF Len(b) = 1 THEN <<>>
      ELSE <<SubSeq(b, 1, mid), SubSeq(b, mid + 1, Len(b))>>

\* Nothing is sent: the estimate is over the limit (needs_split), or no key is
\* idle, or sending throws.
SubmitFails ==
  /\ pc = "batch" /\ todo # <<>>
  /\ IF Len(Head(todo)) > GasFit THEN UNCHANGED faults ELSE Fault
  /\ todo' = Halves(Head(todo)) \o Tail(todo)
  /\ UNCHANGED <<chainVars, disk, corrupt, mem, pc, scanVars, receipt, elapsed, skipped>>

\* The receipt arrives: remove the paid entries and write, or halve.
Settled ==
  /\ pc = "wait" /\ receipt \in {"ok", "reverted"}
  /\ \/ /\ receipt = "ok"
        /\ Persist([mem EXCEPT !.pending = @ \ Range(Head(todo))])
        /\ todo' = Tail(todo)
     \/ /\ receipt = "reverted"
        /\ todo' = Halves(Head(todo)) \o Tail(todo)
        /\ UNCHANGED <<disk, corrupt, mem>>
  /\ pc' = "batch" /\ receipt' = "none"
  /\ UNCHANGED <<chainVars, scanVars, elapsed, faults, skipped>>

Unawaited(txs) == {[tx EXCEPT !.awaited = FALSE] : tx \in txs}

\* tx.wait throws: the transaction may still be mined, the batch counts as failed.
WaitFails ==
  /\ pc = "wait" /\ receipt = "none" /\ Fault
  /\ mempool' = Unawaited(mempool)
  /\ todo' = Halves(Head(todo)) \o Tail(todo)
  /\ pc' = "batch"
  /\ UNCHANGED <<head, gas, consumed, disk, corrupt, mem, scanVars, receipt, elapsed,
                 skipped>>

------------------------------------------------------------------------------
\* The process ends, maybe in the middle of writing the file, and comes back.
Crash ==
  /\ pc # "idle" /\ Fault
  /\ corrupt' \in {corrupt, TRUE}
  /\ mempool' = Unawaited(mempool)
  /\ mem' = EmptyState
  /\ EndTick
  /\ UNCHANGED <<head, gas, consumed, disk, scanVars, elapsed, skipped>>

Tick ==
  \/ payoutTick
  \/ \E found \in SUBSET EventsOf(at) : ScanBlock(found)
  \/ FlushNothing \/ FlushWaits
  \/ \E unread \in SUBSET (mem.pending \cap consumed) : Flush(unread)
  \/ Send \/ Settled \/ FlushEnds
  \/ SubmitFails

Next ==
  \/ Tick
  \/ FetchFails \/ FlushSkips \/ StopBalance \/ WaitFails \/ Crash
  \/ NewBlock \/ GasMoves \/ ForceWindowPasses
  \/ \E tx \in mempool : Mine(tx)

\* setTimeout brings the next tick and awaited reads settle; transactions are
\* mined; time passes.  Nothing is assumed about the gas price or new blocks.
Fairness ==
  /\ WF_vars(Tick)
  /\ WF_vars(\E tx \in mempool : Mine(tx))
  /\ WF_vars(ForceWindowPasses)

Spec == Init /\ [][Next]_vars /\ Fairness

------------------------------------------------------------------------------
(* Properties.                                                             *)

State == [last : Nat, target : Nat, pending : SUBSET Event, gasWait : BOOLEAN]

TypeOK ==
  /\ head \in Nat /\ gas \in {"low", "high"}
  /\ consumed \subseteq Event
  /\ \A tx \in mempool : tx.batch \in Seq(Event) /\ tx.awaited \in BOOLEAN
  /\ disk \in State /\ mem \in State /\ corrupt \in BOOLEAN
  /\ pc \in {"idle", "scan", "flush", "batch", "wait"}
  /\ at \in Nat /\ chunkTo \in Nat /\ tickEnd \in Nat
  /\ todo \in Seq(Seq(Event))
  /\ receipt \in {"none", "ok", "reverted"}
  /\ elapsed \in BOOLEAN /\ faults \in 0 .. MaxFaults /\ skipped \subseteq Event

\* A state has accounted for every withdrawal up to its checkpoint: paid, in the
\* pool, or skipped because its lookup failed.
Accounted(state) ==
  \A e \in Event : blockOf[e] \in Floor .. state.last =>
    e \in consumed \cup state.pending \cup skipped

\* "Checkpoint advances after a block is successfully scanned into the pool"
\* (lines 14-15), across crashes, fetch errors, halved batches and late
\* transactions.  A corrupt file starts over from the deploy block.
NothingForgotten == ~corrupt => Accounted(disk)

\* "Never re-read live head and extend the range mid-catch-up (restart-safe)".
CeilingFixed ==
  [][ (~corrupt /\ ~corrupt' /\ ~CaughtUp(disk)) => disk'.target = disk.target ]_vars

\* "Ticks only advance toward that ceiling".
NeverPastCeiling ==
  [][ disk'.last > disk.last => disk'.last <= disk'.target ]_vars

\* An entry leaves the file's pool only when the chain has paid it.
DroppedOnlyIfPaid ==
  [][ (~corrupt /\ ~corrupt') => disk.pending \ disk'.pending \subseteq consumed' ]_vars

\* "Never stall the whole pending pool on one oversized batch", "force flush":
\* an entry the contract accepts is paid, however high the gas price stays and
\* whatever entries it shares the pool with (unless the file is lost and its
\* lookup fails in the new scan).
HealthyIsPaid ==
  \A e \in Event \ Poison :
    (~corrupt /\ e \in disk.pending) ~> e \in consumed \cup skipped

\* Catch-up reaches every block.
EveryBlockScanned == \A b \in Floor .. MaxBlock : head >= b ~> disk.last >= b

------------------------------------------------------------------------------
(* The inductive invariant of the proofs.                                  *)

DataTyped ==
  /\ head \in Nat /\ at \in Nat /\ chunkTo \in Nat /\ tickEnd \in Nat
  /\ disk \in State /\ mem \in State /\ corrupt \in BOOLEAN
  /\ \A tx \in mempool : /\ tx = [batch |-> tx.batch, awaited |-> tx.awaited]
                         /\ tx.awaited \in BOOLEAN

\* While a tick runs, the file reads, and says the same as the memory but for
\* what the chunk under way has found.
InStep ==
  pc # "idle" => /\ ~corrupt
                 /\ mem.last = disk.last /\ mem.target = disk.target
                 /\ disk.pending \subseteq mem.pending

\* The scan is inside its chunk, the chunk inside the tick, the tick below the
\* ceiling, and the blocks before the scan are accounted for.
ScanInChunk ==
  pc = "scan" => /\ mem.last < at /\ at <= chunkTo
                 /\ chunkTo <= tickEnd /\ tickEnd <= mem.target
                 /\ Accounted([mem EXCEPT !.last = at - 1])

\* A transaction is awaited by the batch at the head only, until its receipt.
AwaitsHead ==
  /\ \A tx \in mempool : tx.awaited => /\ pc = "wait" /\ tx.batch = Head(todo)
                                       /\ receipt = "none"
  /\ receipt = "ok" => pc = "wait" /\ Range(Head(todo)) \subseteq consumed

IInv == DataTyped /\ NothingForgotten /\ InStep /\ ScanInChunk /\ AwaitsHead
=============================================================================
