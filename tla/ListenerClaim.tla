----------------------------- MODULE ListenerClaim -----------------------------
(***************************************************************************)
(* The listener of a validator node (validatorDepositRedeem.ts): it learns *)
(* of the contract's events from a live subscription and from backfills of *)
(* block ranges, keeps a block checkpoint and the states of the requests   *)
(* in two files, and works on one request at a time.                       *)
(*                                                                         *)
(* Three loops run beside each other: the live subscription, the backfill  *)
(* of the start ("boot"), which nothing keeps apart from the others, and   *)
(* the incremental one ("tick").  Every event they see moves the           *)
(* checkpoint at once, before it is handled.  The subscription may die     *)
(* unnoticed until the node reports its filter as gone, reads may fail,    *)
(* and the daemon may crash.  The files are neither replaced atomically    *)
(* nor synced: a crash may leave each of them torn, and a torn file is     *)
(* read as a missing one.                                                  *)
(*                                                                         *)
(* The lane is OnchainLane's; here it is a queue with a running task.  The *)
(* operator's replay of a single claim by a process of its own is not      *)
(* modelled.                                                               *)
(***************************************************************************)
EXTENDS Integers, Sequences, FiniteSets, SequencesExt

CONSTANTS Event,      \* the contract's events
          kind,       \* kind[e]: "claim" for this node, "foreign" claim, or "admin"
          MaxBlock,   \* bound: blocks
          block,      \* block[e]: the block of e
          Log,        \* the events in the order of the chain
          Chunk,      \* blocks per getLogs
          TickBlocks, \* blocks per incremental backfill
          LagAlert,   \* lag beyond which a tick also renews the subscription
          FromBlock,  \* where a start without a checkpoint backfills from, or Unset
          NoEvent,
          MaxFaults,  \* bound: failing work and crashes
          MaxErrors   \* bound: failing reads and lost filters

\* No checkpoint (loadListenerBlockCheckpoint gives null), no FromBlock.
Unset == -1

ASSUME ListenerAssumption ==
  /\ kind \in [Event -> {"claim", "foreign", "admin"}] /\ NoEvent \notin Event
  /\ MaxBlock \in Nat /\ block \in [Event -> 1 .. MaxBlock]
  /\ Log \in Seq(Event) /\ \A e \in Event : Contains(Log, e)
  /\ \A i, j \in DOMAIN Log : i < j => block[Log[i]] <= block[Log[j]]
  /\ Chunk \in Nat \ {0} /\ TickBlocks \in Nat \ {0} /\ LagAlert \in Nat
  /\ FromBlock = Unset \/ FromBlock \in 1 .. MaxBlock
  /\ MaxFaults \in Nat /\ MaxErrors \in Nat

\* The logs of the blocks from .. to, sorted by block and index.
LogsOf(from, to) ==
  LET upTo(b) == Cardinality({i \in DOMAIN Log : block[Log[i]] <= b})
  IN  SubSeq(Log, upTo(from - 1) + 1, upTo(to))

VARIABLES
  head,        \* the chain's head
  checkpoint,  \* file: lastProcessedBlock, or Unset
  target,      \* file: scanTargetBlock, 0 if there is none
  status,      \* file: status[e] of a claim
  up,          \* the daemon runs
  boot,        \* the start's question for the head: "asked", "done" or "failed"
  sub,         \* live subscription: "off", "installing", "on", or "gone" unnoticed
  liveFrom,    \* liveListenFromBlock, 0 while unresolved
  prior,       \* the checkpoint read at the start, or Unset
  delivered,   \* live events not handled yet
  rebuildDue,  \* pendingLiveListenerRebuild
  rebuilding,  \* liveListenerRebuildInFlight
  ticking,     \* the periodic chain of backfill ticks has been set up
  bf,          \* the two backfill loops
  lane,        \* the lane: enqueued events
  running,     \* the event worked on, or NoEvent
  begun,       \* begun[e]: how often work on e began
  seen,        \* history: events a handler has looked at
  liveNoted,   \* history: a live event has moved the checkpoint
  faults, errors

fileVars == <<checkpoint, target, status>>
subVars == <<sub, liveFrom, delivered, rebuildDue, rebuilding>>
workVars == <<lane, running, begun, seen>>
countVars == <<liveNoted, faults, errors>>
vars == <<head, fileVars, up, boot, subVars, prior, ticking, bf, workVars, countVars>>

Loop == {"boot", "tick"}

\* A loop: next block to fetch, last block, end of the fetched chunk (0: none),
\* its logs still to dispatch, the event whose handler is awaited.
Off == [on |-> FALSE, next |-> 0, to |-> 0, chunkEnd |-> 0, todo |-> <<>>, wait |-> NoEvent]
Over(from, to) == IF from <= to THEN [Off EXCEPT !.on = TRUE, !.next = from, !.to = to] ELSE Off

NoRecords == [e \in Event |-> "none"]

\* A first start, or one with the checkpoint of an earlier life.
Init ==
  /\ head = 0 /\ checkpoint \in {Unset, 0} /\ target = 0
  /\ status = NoRecords
  /\ up = FALSE /\ boot = "asked" /\ sub = "off" /\ liveFrom = 0 /\ prior = Unset
  /\ delivered = <<>> /\ rebuildDue = FALSE /\ rebuilding = FALSE /\ ticking = FALSE
  /\ bf = [x \in Loop |-> Off]
  /\ lane = <<>> /\ running = NoEvent
  /\ begun = [e \in Event |-> 0] /\ seen = {}
  /\ liveNoted = FALSE /\ faults = 0 /\ errors = 0

MaxOf(a, b) == IF a > b THEN a ELSE b
MinOf(a, b) == IF a < b THEN a ELSE b

\* listenerEventInFlight: e's handler has not returned.
InFlight(e) == Contains(lane, e) \/ running = e

------------------------------------------------------------------------------
(* Handlers.                                                               *)

\* Mutant: a claim that has succeeded is taken on again.
MustWork_Again(e) == ~InFlight(e) /\ kind[e] # "foreign"

\* Mutant: nothing keeps a handler out while another one has the event.
MustWork_Unguarded(e) ==
  kind[e] = "admin" \/ (kind[e] = "claim" /\ status[e] \in {"none", "failed", "running"})

\* Whether a handler takes e on.  A claim left "running" by a crash is taken on
\* again only if it is stale, which only time decides.  The requests of admin
\* events have ids that are no 32-byte hex strings, and looking one of those up
\* always gives null.
MustWork(e) ==
  /\ ~InFlight(e)
  /\ \/ kind[e] = "admin"
     \/ kind[e] = "claim" /\ status[e] \in {"none", "failed", "running"}

\* noteListenerBlock: the checkpoint only moves forward.
Note(b) == checkpoint' = MaxOf(checkpoint, b)

\* The synchronous part of a handler; taken tells whether it enqueues.
Handle(e, taken) ==
  /\ taken => MustWork(e)
  /\ ~taken => (~MustWork(e) \/ (kind[e] = "claim" /\ status[e] = "running"))
  /\ Note(block[e])
  /\ seen' = seen \cup {e}
  /\ status' = IF kind[e] = "foreign" THEN [status EXCEPT ![e] = "ignored"] ELSE status
  /\ lane' = IF taken THEN Append(lane, e) ELSE lane
  /\ UNCHANGED <<running, begun>>

LiveEvent ==
  /\ up /\ delivered # <<>>
  /\ delivered' = Tail(delivered)
  /\ LET e == Head(delivered)
     IN  \/ /\ block[e] < liveFrom
            /\ UNCHANGED <<checkpoint, status, workVars, liveNoted>>
         \/ /\ block[e] >= liveFrom
            /\ \E taken \in BOOLEAN : Handle(e, taken)
            /\ liveNoted' = TRUE
  /\ UNCHANGED <<head, target, up, boot, sub, liveFrom, rebuildDue, rebuilding,
                 prior, ticking, bf, faults, errors>>

\* The state file keeps what becomes of a claim.
Record(e, s) == status' = IF kind[e] = "claim" THEN [status EXCEPT ![e] = s] ELSE status

\* The lane begins the next task.
BeginWork ==
  /\ up /\ running = NoEvent /\ lane # <<>>
  /\ running' = Head(lane) /\ lane' = Tail(lane)
  /\ begun' = [begun EXCEPT ![Head(lane)] = @ + 1]
  /\ Record(Head(lane), "running")
  /\ UNCHANGED <<head, checkpoint, target, up, boot, subVars, prior, ticking, bf, seen,
                 countVars>>

\* The loops that await e go on.
Woken(e) == [x \in Loop |-> IF bf[x].wait = e THEN [bf[x] EXCEPT !.wait = NoEvent] ELSE bf[x]]

\* ... or end, with the tick chain set up behind the boot backfill.
Ended(e) == [x \in Loop |-> IF bf[x].wait = e THEN Off ELSE bf[x]]

WorkDone ==
  /\ up /\ running # NoEvent
  /\ Record(running, "succeeded")
  /\ bf' = Woken(running)
  /\ running' = NoEvent
  /\ UNCHANGED <<head, checkpoint, target, up, boot, subVars, prior, ticking, lane, begun,
                 seen, countVars>>

\* A script or a transaction fails.  A claim's handler catches the error, that of
\* an admin event throws it into the loop that awaits it.
WorkFails ==
  /\ up /\ running # NoEvent /\ faults < MaxFaults
  /\ faults' = faults + 1
  /\ Record(running, "failed")
  /\ bf' = IF kind[running] = "claim" THEN Woken(running) ELSE Ended(running)
  /\ ticking' = (ticking \/ (kind[running] # "claim" /\ bf["boot"].wait = running))
  /\ running' = NoEvent
  /\ UNCHANGED <<head, checkpoint, target, up, boot, subVars, prior, lane, begun, seen,
                 liveNoted, errors>>

------------------------------------------------------------------------------
(* Backfill loops.                                                         *)

ChunkEnd(x) == MinOf(bf[x].to, bf[x].next + Chunk - 1)
MayFetch(x) == up /\ bf[x].on /\ bf[x].chunkEnd = 0

Fetch(x) ==
  /\ MayFetch(x)
  /\ bf' = [bf EXCEPT ![x].chunkEnd = ChunkEnd(x),
                      ![x].todo = LogsOf(bf[x].next, ChunkEnd(x))]
  /\ UNCHANGED <<head, fileVars, up, boot, subVars, prior, ticking, workVars, countVars>>

\* Mutant: a failed getLogs counts as a chunk without events.
FetchFails_CountsAsEmpty(x) ==
  /\ MayFetch(x) /\ errors < MaxErrors
  /\ errors' = errors + 1
  /\ bf' = [bf EXCEPT ![x].chunkEnd = ChunkEnd(x)]
  /\ UNCHANGED <<head, fileVars, up, boot, subVars, prior, ticking, workVars, liveNoted, faults>>

\* Mutant: the tick chain is set up only after a complete boot backfill.
FetchFails_NoTicks(x) ==
  /\ MayFetch(x) /\ errors < MaxErrors
  /\ errors' = errors + 1
  /\ bf' = [bf EXCEPT ![x] = Off]
  /\ UNCHANGED <<head, fileVars, up, boot, subVars, prior, ticking, workVars, liveNoted, faults>>

\* getLogs throws: the loop ends where it is.
FetchFails(x) ==
  /\ MayFetch(x) /\ errors < MaxErrors
  /\ errors' = errors + 1
  /\ bf' = [bf EXCEPT ![x] = Off]
  /\ ticking' = (ticking \/ x = "boot")
  /\ UNCHANGED <<head, fileVars, up, boot, subVars, prior, workVars, liveNoted, faults>>

\* The next log of the chunk; the loop awaits the handler if that enqueues.
Dispatch(x) ==
  /\ up /\ bf[x].on /\ bf[x].todo # <<>> /\ bf[x].wait = NoEvent
  /\ LET e == Head(bf[x].todo)
     IN  \E taken \in BOOLEAN :
           /\ Handle(e, taken)
           /\ bf' = [bf EXCEPT ![x].todo = Tail(@), ![x].wait = IF taken THEN e ELSE NoEvent]
  /\ UNCHANGED <<head, target, up, boot, subVars, prior, ticking, countVars>>

\* All of a chunk dispatched: save the checkpoint, go on or end.  After a tick
\* the live listeners are rebuilt.
ChunkDone(x) ==
  /\ up /\ bf[x].chunkEnd # 0 /\ bf[x].todo = <<>> /\ bf[x].wait = NoEvent
  /\ Note(bf[x].chunkEnd)
  /\ LET last == bf[x].chunkEnd = bf[x].to
     IN  /\ bf' = [bf EXCEPT ![x] = Over(bf[x].chunkEnd + 1, bf[x].to)]
         /\ ticking' = (ticking \/ (last /\ x = "boot"))
         /\ rebuildDue' = (rebuildDue \/ (last /\ x = "tick"))
  /\ UNCHANGED <<head, target, status, up, boot, sub, liveFrom, delivered, rebuilding,
                 prior, workVars, countVars>>

Backfill(x) == Fetch(x) \/ FetchFails(x) \/ Dispatch(x) \/ ChunkDone(x)

\* A session ends when the checkpoint has reached the target; the next one takes
\* the head as it is then.
TickTarget == IF checkpoint >= target THEN head ELSE target

\* runIncrementalListenerBackfill towards t, unless one is in flight or there is
\* no checkpoint yet.
BeginTick(t) ==
  /\ ~bf["tick"].on /\ checkpoint # Unset
  /\ bf' = [bf EXCEPT !["tick"] = Over(checkpoint + 1, MinOf(checkpoint + TickBlocks, t))]

\* maybeAlertListenerCheckpointLag, at most once in a cooldown.
MayAlert == \/ UNCHANGED rebuildDue
            \/ head - checkpoint > LagAlert /\ rebuildDue' = TRUE

PeriodicTick ==
  /\ up /\ ticking
  /\ BeginTick(TickTarget) /\ target' = TickTarget
  /\ MayAlert
  /\ UNCHANGED <<head, checkpoint, status, up, boot, sub, liveFrom, delivered, rebuilding,
                 prior, ticking, workVars, countVars>>

------------------------------------------------------------------------------
(* The live subscription.                                                  *)

\* A block; its events reach the subscription if it is alive.
MineBlock ==
  /\ head < MaxBlock
  /\ head' = head + 1
  /\ delivered' = IF sub = "on" THEN delivered \o LogsOf(head + 1, head + 1) ELSE delivered
  /\ UNCHANGED <<fileVars, up, boot, sub, liveFrom, rebuildDue, rebuilding, prior, ticking,
                 bf, workVars, countVars>>

\* The filter of the new subscription is installed: it sees later blocks.
Installed ==
  /\ sub = "installing" /\ sub' = "on"
  /\ UNCHANGED <<head, fileVars, up, boot, liveFrom, delivered, rebuildDue, rebuilding,
                 prior, ticking, bf, workVars, countVars>>

\* The node drops the filter: events stop coming.
LoseFilter ==
  /\ sub = "on" /\ errors < MaxErrors
  /\ errors' = errors + 1 /\ sub' = "gone"
  /\ UNCHANGED <<head, fileVars, up, boot, liveFrom, delivered, rebuildDue, rebuilding,
                 prior, ticking, bf, workVars, liveNoted, faults>>

\* The next poll says "filter not found": rebuild soon, backfill now.
FilterNotFound ==
  /\ sub = "gone" /\ sub' = "off"
  /\ rebuildDue' = TRUE
  /\ \/ BeginTick(TickTarget) /\ target' = TickTarget
     \/ (bf["tick"].on \/ checkpoint = Unset) /\ UNCHANGED <<target, bf>>
  /\ UNCHANGED <<head, checkpoint, status, up, boot, liveFrom, delivered, rebuilding, prior,
                 ticking, workVars, countVars>>

\* rebuildLiveListeners, unless it is in flight: unsubscribe, ask for the head.
RebuildBegins ==
  /\ up /\ rebuildDue
  /\ rebuildDue' = FALSE /\ rebuilding' = TRUE
  /\ sub' = IF rebuilding THEN sub ELSE "off"
  /\ UNCHANGED <<head, fileVars, up, boot, liveFrom, delivered, prior, ticking, bf, workVars,
                 countVars>>

\* The head is known: subscribe, be live from the next block, and backfill up to it,
\* unless the checkpoint is there or there is none.
RebuildEnds ==
  /\ up /\ rebuilding
  /\ rebuilding' = FALSE /\ sub' = "installing"
  /\ liveFrom' = head + 1
  /\ \/ checkpoint \in 0 .. head - 1 /\ target' = head
        /\ \/ BeginTick(head) /\ MayAlert
           \/ bf["tick"].on /\ UNCHANGED <<bf, rebuildDue>>
     \/ checkpoint \notin 0 .. head - 1 /\ UNCHANGED <<target, bf, rebuildDue>>
  /\ UNCHANGED <<head, checkpoint, status, up, boot, delivered, prior, ticking,
                 workVars, countVars>>

\* It is not: there is no subscription until the next rebuild.
RebuildFails ==
  /\ up /\ rebuilding /\ errors < MaxErrors
  /\ errors' = errors + 1 /\ rebuilding' = FALSE
  /\ UNCHANGED <<head, fileVars, up, boot, sub, liveFrom, delivered, rebuildDue, prior,
                 ticking, bf, workVars, liveNoted, faults>>

------------------------------------------------------------------------------
(* Start and crash.                                                        *)

\* bootstrapValidatorDepositRedeemListener: read the checkpoint, subscribe, ask
\* for the head.
Start ==
  /\ ~up
  /\ up' = TRUE /\ sub' = "installing" /\ prior' = checkpoint
  /\ UNCHANGED <<head, fileVars, boot, liveFrom, delivered, rebuildDue, rebuilding, ticking,
                 bf, workVars, countVars>>

\* Where the boot backfill begins; Unset: there is none.
BootFrom == IF prior # Unset THEN prior + 1 ELSE FromBlock

\* The head bounds the boot backfill, whose end sets up the ticks.
Boundary ==
  /\ up /\ boot = "asked" /\ boot' = "done"
  /\ liveFrom' = head + 1
  /\ target' = IF prior \in 0 .. head - 1 THEN head ELSE target
  /\ bf' = [bf EXCEPT !["boot"] = IF BootFrom = Unset THEN Off ELSE Over(BootFrom, head)]
  /\ ticking' = (BootFrom \notin 1 .. head)
  /\ UNCHANGED <<head, checkpoint, status, up, sub, delivered, rebuildDue, rebuilding,
                 prior, workVars, countVars>>

\* The head cannot be had: no backfill and no ticks in this life.
BoundaryFails ==
  /\ up /\ boot = "asked" /\ errors < MaxErrors
  /\ boot' = "failed" /\ errors' = errors + 1
  /\ UNCHANGED <<head, fileVars, up, subVars, prior, ticking, bf, workVars, liveNoted, faults>>

\* Only the files survive, and each of them may be torn (writeFileSync, no fsync).
Crash ==
  /\ up /\ faults < MaxFaults
  /\ faults' = faults + 1
  /\ up' = FALSE /\ boot' = "asked" /\ sub' = "off" /\ liveFrom' = 0 /\ delivered' = <<>>
  /\ rebuildDue' = FALSE /\ rebuilding' = FALSE /\ ticking' = FALSE
  /\ bf' = [x \in Loop |-> Off]
  /\ lane' = <<>> /\ running' = NoEvent /\ prior' = Unset
  /\ \/ UNCHANGED <<checkpoint, target>>
     \/ checkpoint' = Unset /\ target' = 0
  /\ status' \in {status, NoRecords}
  /\ UNCHANGED <<head, begun, seen, liveNoted, errors>>

Next ==
  \/ LiveEvent \/ BeginWork \/ WorkDone \/ WorkFails
  \/ \E x \in Loop : Backfill(x)
  \/ PeriodicTick
  \/ MineBlock \/ Installed \/ LoseFilter \/ FilterNotFound
  \/ RebuildBegins \/ RebuildEnds \/ RebuildFails
  \/ Start \/ Boundary \/ BoundaryFails \/ Crash

\* Awaited calls return, timers fire, the service manager starts the daemon;
\* no block has to be mined.
Fairness ==
  /\ WF_vars(BeginWork) /\ WF_vars(WorkDone \/ WorkFails)
  /\ \A x \in Loop : WF_vars(Backfill(x))
  /\ WF_vars(LiveEvent) /\ WF_vars(PeriodicTick)
  /\ WF_vars(Installed) /\ WF_vars(FilterNotFound)
  /\ WF_vars(RebuildBegins) /\ WF_vars(RebuildEnds \/ RebuildFails)
  /\ WF_vars(Start) /\ WF_vars(Boundary \/ BoundaryFails)

Spec == Init /\ [][Next]_vars /\ Fairness

------------------------------------------------------------------------------
(* Properties.                                                             *)

\* The types, and that a loop only ever awaits work that is queued or running.
TypeOK ==
  /\ head \in 0 .. MaxBlock /\ checkpoint \in Unset .. head /\ target \in 0 .. head
  /\ status \in [Event -> {"none", "ignored", "running", "succeeded", "failed"}]
  /\ up \in BOOLEAN /\ boot \in {"asked", "done", "failed"}
  /\ sub \in {"off", "installing", "on", "gone"} /\ liveFrom \in 0 .. head + 1
  /\ prior \in Unset .. checkpoint
  /\ rebuildDue \in BOOLEAN /\ rebuilding \in BOOLEAN /\ ticking \in BOOLEAN
  /\ running \in Event \cup {NoEvent} /\ seen \subseteq Event
  /\ delivered \in Seq(Event) /\ lane \in Seq(Event)
  /\ begun \in [Event -> Nat]
  /\ \A x \in Loop :
       /\ bf[x].on = (bf[x].next # 0)
       /\ bf[x].wait = NoEvent \/ InFlight(bf[x].wait)

\* A claim deposits the validators of a sale: it is begun once, and once more for
\* each failure or crash at most, though the subscription and two backfills may
\* all hand it in (handleValidatorRedeemClaimedEvent, listenerEventInFlight), and
\* though a crash may take the record of its success or the checkpoint with it.
ClaimedOnce == \A e \in Event : kind[e] = "claim" => begun[e] <= 1 + faults

\* A claim that has succeeded is not begun again as long as its record stands, and
\* nothing but a crash that tears the file of all the states takes the record away
\* (readStateFile, upsertState).
SucceededIsFinal ==
  [][\A e \in Event : kind[e] = "claim" /\ status[e] = "succeeded"
                        => /\ begun'[e] = begun[e]
                           /\ \/ status'[e] = "succeeded"
                              \/ up /\ ~up' /\ status' = NoRecords]_vars

\* e will still be looked at in this life: it has been delivered, the boot backfill
\* is still to begin, or a loop has e ahead of it.
Ahead(e) ==
  \/ Contains(delivered, e)
  \/ up /\ boot = "asked" /\ BootFrom \in 1 .. block[e]
  \/ \E x \in Loop :
       /\ bf[x].on
       /\ \/ Contains(bf[x].todo, e)
          \/ block[e] \in MaxOf(bf[x].next, bf[x].chunkEnd + 1) .. bf[x].to

\* A start without a checkpoint owes only the blocks from FromBlock on.
Owed(e) == prior # Unset \/ FromBlock \in 1 .. block[e]

Forgotten ==
  {e \in Event : Owed(e) /\ block[e] <= checkpoint /\ e \notin seen /\ ~Ahead(e)}

\* The backfills alone forget nothing: as long as no live event has moved the
\* checkpoint and nothing has failed but reads, every event up to the checkpoint
\* has been looked at or is still ahead, whatever the two loops' order.
BackfillForgetsNothing == ~liveNoted /\ faults = 0 => Forgotten = {}

\* "After live attach: next block live owns; checkpoint = that block - 1; backfill
\* fills only below" (validatorDepositRedeem.ts): what is below the checkpoint and
\* has not been looked at, a backfill still fills.
BackfillFillsBelow == Forgotten = {}

\* A checkpoint once set passes every block in the end, with or without the live
\* subscription, unless the start itself could not learn the head or a crash tears
\* the checkpoint's file.  (A start without a checkpoint promises nothing: until the
\* boot backfill or a live event has set one, the ticks do nothing.)
EveryBlockPassed ==
  \A b \in 1 .. MaxBlock :
    head >= b /\ checkpoint # Unset ~> (checkpoint >= b \/ boot = "failed" \/ checkpoint = Unset)
================================================================================
