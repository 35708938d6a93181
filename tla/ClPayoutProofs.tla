--------------------------- MODULE ClPayoutProofs ---------------------------
(***************************************************************************)
(* Proofs about ClPayout, for any withdrawals, blocks, chunk sizes, batch  *)
(* limits and number of faults.                                            *)
(*                                                                         *)
(* NothingForgotten speaks of the file only; it is inductive together with *)
(* what the tick keeps in memory: the memory agrees with the file but for  *)
(* the chunk under way (InStep), that chunk has pooled every block before  *)
(* the scan (ScanInChunk), and a receipt answers the batch at the head of  *)
(* the flush (AwaitsHead).                                                 *)
(***************************************************************************)
EXTENDS ClPayout, TLAPS

LEMMA Min2Bound ==
  \A a, b \in Nat : Min2(a, b) \in Nat /\ Min2(a, b) <= a /\ Min2(a, b) <= b
                    /\ (Min2(a, b) = a \/ Min2(a, b) = b)
BY DEF Min2

LEMMA EmptyStateTyped == EmptyState \in State /\ Accounted(EmptyState)
<1>1. Floor \in Nat \ {0} BY BoundAssumption
<1>2. EmptyState \in State BY <1>1 DEF EmptyState, State, NoTarget
<1>3. ASSUME NEW e \in Event PROVE blockOf[e] \notin Floor .. Floor - 1
  BY <1>1, EventAssumption
<1> QED BY <1>2, <1>3 DEF Accounted, EmptyState

LEMMA InitIInv == Init => IInv
<1> SUFFICES ASSUME Init PROVE IInv OBVIOUS
<1>1. Floor \in Nat \ {0} BY BoundAssumption
<1>2. Floor - 1 \in Nat /\ EmptyState \in State BY <1>1, EmptyStateTyped
<1>3. DataTyped BY <1>1, <1>2 DEF Init, DataTyped
<1> QED BY <1>3, EmptyStateTyped DEF Init, IInv, NothingForgotten, InStep, ScanInChunk, AwaitsHead

\* Steps of the chain, of the clock and of the flush that touch neither file nor
\* memory nor scan keep the accounts: what is paid or skipped only grows.
LEMMA QuietStep ==
  ASSUME IInv, UNCHANGED <<disk, corrupt, mem, scanVars>>,
         head' \in Nat, consumed \subseteq consumed',
         skipped' = skipped,
         pc' = pc \/ (pc # "idle" /\ pc' # "scan") \/ pc' = "idle"
  PROVE  /\ NothingForgotten' /\ InStep' /\ ScanInChunk'
         /\ (\A tx \in mempool' : tx = [batch |-> tx.batch, awaited |-> tx.awaited]
                                  /\ tx.awaited \in BOOLEAN) => DataTyped'
BY DEF IInv, DataTyped, NothingForgotten, InStep, ScanInChunk, Accounted, scanVars

LEMMA ChainSteps ==
  ASSUME IInv, NewBlock \/ GasMoves \/ ForceWindowPasses
  PROVE  IInv'
<1>1. /\ UNCHANGED <<disk, corrupt, mem, scanVars, consumed, skipped, mempool, pc, todo, receipt>>
      /\ head' \in Nat
  BY DEF NewBlock, GasMoves, ForceWindowPasses, IInv, DataTyped, chainVars, scanVars
<1>2. AwaitsHead' BY <1>1 DEF IInv, AwaitsHead
<1>3. DataTyped' /\ NothingForgotten' /\ InStep' /\ ScanInChunk'
  BY <1>1, QuietStep DEF IInv, DataTyped
<1> QED BY <1>2, <1>3 DEF IInv

LEMMA MineStep ==
  ASSUME IInv, NEW tx \in mempool, Mine(tx)
  PROVE  IInv'
<1>1. /\ mempool' = mempool \ {tx}
      /\ consumed' = IF Accepts(tx.batch) THEN consumed \cup Range(tx.batch) ELSE consumed
      /\ receipt' = IF ~tx.awaited THEN receipt
                    ELSE IF Accepts(tx.batch) THEN "ok" ELSE "reverted"
      /\ UNCHANGED <<head, gas, disk, corrupt, mem, pc, scanVars, todo, elapsed,
                     faults, skipped>>
  BY DEF Mine
<1>2. consumed \subseteq consumed' BY <1>1
<1>3. NothingForgotten' /\ InStep' /\ ScanInChunk' /\ DataTyped'
  BY <1>1, <1>2, QuietStep DEF IInv, DataTyped
<1>4. \A u \in mempool' : u.awaited => pc' = "wait" /\ u.batch = Head(todo')
                                     /\ receipt' = "none"
  <2> SUFFICES ASSUME NEW u \in mempool', u.awaited
               PROVE  pc' = "wait" /\ u.batch = Head(todo') /\ receipt' = "none"
    OBVIOUS
  <2>1. pc = "wait" /\ u.batch = Head(todo) /\ receipt = "none" /\ u # tx
    BY <1>1 DEF IInv, AwaitsHead
  <2>2. ~tx.awaited
    <3> SUFFICES ASSUME tx.awaited PROVE FALSE BY DEF IInv, DataTyped
    <3>1. tx.batch = Head(todo) BY DEF IInv, AwaitsHead
    <3>2. u.awaited = TRUE /\ tx.awaited = TRUE BY <1>1 DEF IInv, DataTyped
    <3>3. /\ u = [batch |-> u.batch, awaited |-> u.awaited]
          /\ tx = [batch |-> tx.batch, awaited |-> tx.awaited]
      BY <1>1 DEF IInv, DataTyped
    <3> QED BY <2>1, <3>1, <3>2, <3>3
  <2> QED BY <1>1, <2>1, <2>2
<1>5. ASSUME receipt' = "ok"
      PROVE  pc' = "wait" /\ Range(Head(todo')) \subseteq consumed'
  <2>1. CASE ~tx.awaited BY <1>1, <1>2, <1>5, <2>1 DEF IInv, AwaitsHead
  <2>2. CASE tx.awaited
    <3>1. pc = "wait" /\ tx.batch = Head(todo) BY <2>2 DEF IInv, AwaitsHead
    <3>2. Accepts(tx.batch) BY <1>1, <1>5, <2>2
    <3> QED BY <1>1, <3>1, <3>2
  <2> QED BY <2>1, <2>2
<1> QED BY <1>3, <1>4, <1>5 DEF IInv, AwaitsHead

\* Nothing is awaited outside "wait": no step of tick or scan disturbs AwaitsHead.
LEMMA NothingAwaited ==
  ASSUME IInv, pc # "wait", UNCHANGED mempool, receipt' = receipt \/ receipt' = "none"
  PROVE  AwaitsHead'
BY DEF IInv, AwaitsHead

\* A chunk begins behind the checkpoint and ends within the tick.
LEMMA ChunkBegins ==
  ASSUME NEW from \in Nat, NEW to \in Nat, from <= to, BeginChunk(from, to)
  PROVE  /\ pc' = "scan" /\ at' = from /\ tickEnd' = to
         /\ at' \in Nat /\ chunkTo' \in Nat /\ tickEnd' \in Nat
         /\ at' <= chunkTo' /\ chunkTo' <= tickEnd'
<1>1. ChunkBlocks \in Nat \ {0} BY BoundAssumption
<1>2. from + ChunkBlocks - 1 \in Nat /\ from + ChunkBlocks - 1 >= from BY <1>1
<1>3. chunkTo' = Min2(from + ChunkBlocks - 1, to) BY DEF BeginChunk
<1> QED BY <1>2, <1>3, Min2Bound DEF BeginChunk

LEMMA TickEndBound ==
  ASSUME NEW from \in Nat, NEW target \in Nat, from <= target
  PROVE  LET to == Min2(from + ChunkBlocks * ChunksPerTick - 1, target)
         IN  to \in Nat /\ from <= to /\ to <= target
<1>1. ChunkBlocks * ChunksPerTick \in Nat /\ ChunkBlocks * ChunksPerTick >= 1
  <2>1. ChunkBlocks \in Nat \ {0} /\ ChunksPerTick \in Nat \ {0} BY BoundAssumption
  <2>2. \A a, b \in Nat \ {0} : a * b \in Nat /\ a * b >= 1 OBVIOUS
  <2> QED BY <2>1, <2>2
<1> HIDE DEF Min2
<1>2. from + ChunkBlocks * ChunksPerTick - 1 \in Nat
      /\ from <= from + ChunkBlocks * ChunksPerTick - 1
  BY <1>1
<1> QED BY <1>2, Min2Bound

LEMMA TickBegins ==
  ASSUME IInv, payoutTick
  PROVE  IInv'
<1> DEFINE read == ReadState
           state == IF CaughtUp(read) THEN [read EXCEPT !.target = head] ELSE read
           from == state.last + 1
           to == Min2(from + ChunkBlocks * ChunksPerTick - 1, state.target)
<1>1. /\ pc = "idle" /\ head >= Floor
      /\ IF state # read THEN Persist(state) ELSE mem' = state /\ UNCHANGED <<disk, corrupt>>
      /\ IF from <= state.target THEN BeginChunk(from, to)
                                 ELSE pc' = "flush" /\ UNCHANGED scanVars
      /\ UNCHANGED <<chainVars, todo, receipt, elapsed, faults, skipped>>
  BY DEF payoutTick
<1>2. /\ read \in State /\ Accounted(read) /\ (~corrupt => read = disk)
      /\ (corrupt => read.target = NoTarget)
  BY EmptyStateTyped DEF IInv, DataTyped, ReadState, NothingForgotten, EmptyState
<1>3. head \in Nat /\ Floor \in Nat \ {0} BY BoundAssumption DEF IInv, DataTyped
<1>4. /\ state \in State /\ state.last = read.last /\ state.pending = read.pending
  BY <1>2, <1>3 DEF State
<1>5. Accounted(state) BY <1>2, <1>4 DEF Accounted
<1>6. corrupt => state # read
  <2> SUFFICES ASSUME corrupt PROVE state # read OBVIOUS
  <2>1. read.target = 0 BY <1>2 DEF NoTarget
  <2>2. state = [read EXCEPT !.target = head] BY <2>1 DEF CaughtUp, NoTarget
  <2>3. state.target = head BY <1>2, <2>2 DEF State
  <2> HIDE DEF state, read
  <2>4. head # 0 BY <1>1, <1>3
  <2> QED BY <2>1, <2>3, <2>4
<1> HIDE DEF state, read
<1>7. mem' = state /\ disk' = state /\ corrupt' = FALSE
  BY <1>1, <1>2, <1>6 DEF Persist, IInv, DataTyped
<1>8. from \in Nat /\ state.target \in Nat BY <1>4 DEF State
<1> HIDE DEF from, to
<1>9. /\ at' \in Nat /\ chunkTo' \in Nat /\ tickEnd' \in Nat
      /\ pc' = "scan" => /\ at' = from /\ at' <= chunkTo' /\ chunkTo' <= tickEnd'
                         /\ tickEnd' <= state.target
  <2>1. CASE from <= state.target
    <3>1. to \in Nat /\ from <= to /\ to <= state.target
      BY <1>8, <2>1, TickEndBound DEF to
    <3>2. BeginChunk(from, to) BY <1>1, <2>1
    <3> QED BY <1>8, <3>1, <3>2, ChunkBegins
  <2>2. CASE ~(from <= state.target)
    BY <1>1, <2>2 DEF scanVars, IInv, DataTyped
  <2> QED BY <2>1, <2>2
<1>10. DataTyped' BY <1>1, <1>4, <1>7, <1>9 DEF IInv, DataTyped, chainVars
<1>11. NothingForgotten' /\ InStep'
  BY <1>1, <1>5, <1>7 DEF NothingForgotten, InStep, Accounted, chainVars
<1>12. ScanInChunk'
  <2> SUFFICES ASSUME pc' = "scan" PROVE ScanInChunk' BY DEF ScanInChunk
  <2>1. at' = state.last + 1 /\ state.last \in Nat BY <1>4, <1>9 DEF from, State
  <2>2. [mem' EXCEPT !.last = at' - 1] = state BY <1>4, <1>7, <2>1 DEF State
  <2>3. Accounted([mem EXCEPT !.last = at - 1])'
    BY <1>1, <1>5, <2>2 DEF Accounted, chainVars
  <2> QED BY <1>7, <1>9, <2>1, <2>3 DEF ScanInChunk
<1>13. AwaitsHead' BY <1>1, NothingAwaited DEF chainVars
<1> QED BY <1>10, <1>11, <1>12, <1>13 DEF IInv

LEMMA ScanStep ==
  ASSUME IInv, NEW found \in SUBSET EventsOf(at), ScanBlock(found)
  PROVE  IInv'
<1> DEFINE pending == mem.pending \cup found
           scanned == [mem EXCEPT !.pending = pending, !.last = at]
<1>1. /\ pc = "scan" /\ skipped' = skipped \cup (EventsOf(at) \ found)
      /\ UNCHANGED <<chainVars, todo, receipt>>
      /\ \/ at = chunkTo /\ EndChunk(pending, at)
         \/ /\ at < chunkTo /\ at' = at + 1
            /\ mem' = [mem EXCEPT !.pending = pending]
            /\ UNCHANGED <<disk, corrupt, pc, chunkTo, tickEnd>>
  BY DEF ScanBlock
<1>2. /\ mem \in State /\ disk \in State /\ at \in Nat /\ chunkTo \in Nat /\ tickEnd \in Nat
      /\ found \subseteq Event
      /\ at <= chunkTo /\ chunkTo <= tickEnd /\ tickEnd <= mem.target /\ mem.last < at
      /\ ~corrupt /\ mem.last = disk.last /\ mem.target = disk.target
      /\ disk.pending \subseteq mem.pending
  BY <1>1 DEF IInv, DataTyped, ScanInChunk, InStep, EventsOf
<1>3. Floor \in Nat \ {0} /\ \A e \in Event : blockOf[e] \in Nat
  BY BoundAssumption, EventAssumption
<1>4. /\ scanned \in State /\ scanned.last = at /\ scanned.pending = pending
      /\ scanned.target = mem.target
  BY <1>2 DEF State
<1>5. ASSUME NEW e \in Event, blockOf[e] \in Floor .. at
      PROVE  e \in consumed \cup pending \cup skipped'
  <2>1. CASE blockOf[e] = at BY <1>1, <2>1 DEF EventsOf
  <2>2. CASE blockOf[e] # at
    <3>1. blockOf[e] \in Floor .. at - 1 BY <1>2, <1>3, <1>5, <2>2
    <3>2. [mem EXCEPT !.last = at - 1].last = at - 1
          /\ [mem EXCEPT !.last = at - 1].pending = mem.pending
      BY <1>2 DEF State
    <3>3. e \in consumed \cup mem.pending \cup skipped
      BY <1>1, <3>1, <3>2 DEF IInv, ScanInChunk, Accounted
    <3> QED BY <1>1, <3>3
  <2> QED BY <2>1, <2>2
<1>6. AwaitsHead' BY <1>1, NothingAwaited DEF chainVars
<1> HIDE DEF scanned
<1>7. CASE at = chunkTo /\ EndChunk(pending, at)
  <2>1. disk' = scanned /\ mem' = scanned /\ corrupt' = FALSE
    BY <1>7 DEF EndChunk, Persist, scanned
  <2>2. \/ at < tickEnd /\ BeginChunk(at + 1, tickEnd)
        \/ pc' = "flush" /\ UNCHANGED scanVars
    BY <1>7 DEF EndChunk
  <2>3. NothingForgotten'
    BY <1>1, <1>4, <1>5, <2>1 DEF NothingForgotten, Accounted, chainVars
  <2>4. InStep' BY <2>1 DEF InStep
  <2>5. /\ at' \in Nat /\ chunkTo' \in Nat /\ tickEnd' \in Nat
        /\ pc' = "scan" => /\ at' = at + 1 /\ at' <= chunkTo' /\ chunkTo' <= tickEnd'
                           /\ tickEnd' = tickEnd
    <3>1. at < tickEnd => at + 1 <= tickEnd /\ at + 1 \in Nat BY <1>2
    <3> QED BY <1>2, <2>2, <3>1, ChunkBegins DEF scanVars
  <2>6. ScanInChunk'
    <3> SUFFICES ASSUME pc' = "scan" PROVE ScanInChunk' BY DEF ScanInChunk
    <3>1. [mem' EXCEPT !.last = at' - 1] = scanned BY <1>2, <1>4, <2>1, <2>5 DEF State
    <3>2. Accounted([mem EXCEPT !.last = at - 1])'
      BY <1>1, <1>4, <1>5, <3>1 DEF Accounted, chainVars
    <3> QED BY <1>2, <1>4, <2>1, <2>5, <3>2 DEF ScanInChunk
  <2>7. DataTyped' BY <1>1, <1>4, <2>1, <2>5 DEF IInv, DataTyped, chainVars
  <2> QED BY <1>6, <2>3, <2>4, <2>6, <2>7 DEF IInv
<1>8. CASE /\ at < chunkTo /\ at' = at + 1
           /\ mem' = [mem EXCEPT !.pending = pending]
           /\ UNCHANGED <<disk, corrupt, pc, chunkTo, tickEnd>>
  <2>1. /\ mem' \in State /\ mem'.last = mem.last /\ mem'.target = mem.target
        /\ mem'.pending = pending
    BY <1>2, <1>8 DEF State
  <2>2. NothingForgotten'
    BY <1>1, <1>2, <1>8 DEF IInv, NothingForgotten, Accounted, chainVars
  <2>3. InStep' BY <1>2, <1>8, <2>1 DEF InStep
  <2>4. ScanInChunk'
    <3>0. at' - 1 = at /\ mem.last \in Nat BY <1>2, <1>8 DEF State
    <3>1. [mem' EXCEPT !.last = at' - 1] = scanned
      BY <1>2, <1>8, <3>0 DEF State, scanned
    <3>2. Accounted([mem EXCEPT !.last = at - 1])'
      BY <1>1, <1>4, <1>5, <3>1 DEF Accounted, chainVars
    <3>3. mem'.last < at' /\ at' <= chunkTo' /\ chunkTo' <= tickEnd' /\ tickEnd' <= mem'.target
      BY <1>2, <1>8, <2>1, <3>0
    <3> QED BY <3>2, <3>3 DEF ScanInChunk
  <2>5. DataTyped' BY <1>1, <1>2, <1>8, <2>1 DEF IInv, DataTyped, chainVars
  <2> QED BY <1>6, <2>2, <2>3, <2>4, <2>5 DEF IInv
<1> QED BY <1>1, <1>7, <1>8

LEMMA FetchFailsStep ==
  ASSUME IInv, FetchFails
  PROVE  IInv'
<1>1. /\ pc = "scan" /\ pc' = "flush"
      /\ UNCHANGED <<chainVars, scanVars, todo, receipt, skipped>>
      /\ \/ at > mem.last + 1 /\ Persist([mem EXCEPT !.last = at - 1])
         \/ UNCHANGED <<disk, corrupt, mem>>
  BY DEF FetchFails
<1>2. AwaitsHead' BY <1>1, NothingAwaited DEF chainVars
<1>3. CASE UNCHANGED <<disk, corrupt, mem>>
  <2>1. NothingForgotten' /\ InStep' /\ ScanInChunk' /\ DataTyped'
    BY <1>1, <1>3, QuietStep DEF IInv, DataTyped, chainVars
  <2> QED BY <1>2, <2>1 DEF IInv
<1>4. CASE Persist([mem EXCEPT !.last = at - 1]) /\ at > mem.last + 1
  <2> DEFINE s == [mem EXCEPT !.last = at - 1]
  <2>1. mem \in State /\ at \in Nat /\ at - 1 \in Nat BY <1>1, <1>4 DEF IInv, DataTyped, ScanInChunk, State
  <2>2. s \in State BY <2>1 DEF State
  <2>3. Accounted(s) BY <1>1 DEF IInv, ScanInChunk
  <2> HIDE DEF s
  <2>4. disk' = s /\ mem' = s /\ ~corrupt' BY <1>4 DEF Persist, s
  <2>5. NothingForgotten' BY <1>1, <2>3, <2>4 DEF NothingForgotten, Accounted, chainVars
  <2>6. InStep' /\ ScanInChunk' BY <1>1, <2>4 DEF InStep, ScanInChunk
  <2>7. DataTyped' BY <1>1, <2>2, <2>4 DEF IInv, DataTyped, chainVars, scanVars, Persist
  <2> QED BY <1>2, <2>5, <2>6, <2>7 DEF IInv
<1> QED BY <1>1, <1>3, <1>4

\* Writing a state that only lost paid entries.
LEMMA WriteStep ==
  ASSUME IInv, NEW s \in State, Persist(s), pc # "idle", pc' # "scan",
         s.last = mem.last, s.target = mem.target,
         mem.pending \ s.pending \subseteq consumed,
         UNCHANGED <<chainVars, scanVars, skipped>>
  PROVE  DataTyped' /\ NothingForgotten' /\ InStep' /\ ScanInChunk'
<1>1. disk' = s /\ mem' = s /\ corrupt' = FALSE BY DEF Persist
<1>2. ~corrupt /\ mem.last = disk.last /\ disk.pending \subseteq mem.pending
  BY DEF IInv, InStep
<1>3. DataTyped' BY <1>1 DEF IInv, DataTyped, chainVars, scanVars
<1>4. NothingForgotten'
  BY <1>1, <1>2 DEF IInv, NothingForgotten, Accounted, chainVars
<1>5. InStep' /\ ScanInChunk' BY <1>1 DEF InStep, ScanInChunk
<1> QED BY <1>3, <1>4, <1>5

\* ... or not writing at all.
LEMMA NoWriteStep ==
  ASSUME IInv, UNCHANGED <<disk, corrupt, mem>>, pc # "idle", pc' # "scan",
         UNCHANGED <<chainVars, scanVars, skipped>>
  PROVE  DataTyped' /\ NothingForgotten' /\ InStep' /\ ScanInChunk'
BY QuietStep DEF IInv, DataTyped, chainVars

\* Ending the gas wait, or beginning it, leaves the accounts alone.
LEMMA GasWaitState ==
  ASSUME NEW m \in State, NEW b \in BOOLEAN
  PROVE  LET s == [m EXCEPT !.gasWait = b]
         IN  s \in State /\ s.last = m.last /\ s.target = m.target /\ s.pending = m.pending
BY DEF State

LEMMA FlushGates ==
  ASSUME IInv, FlushNothing \/ FlushWaits \/ FlushSkips \/ FlushEnds \/ StopBalance
  PROVE  IInv'
<1>1. /\ pc \in {"flush", "batch"} /\ pc' = "idle" /\ receipt' = "none"
      /\ UNCHANGED <<chainVars, scanVars, skipped>>
      /\ \/ \E b \in BOOLEAN : Persist([mem EXCEPT !.gasWait = b])
         \/ Persist(mem)
         \/ UNCHANGED <<disk, corrupt, mem>>
  <2>1. CASE FlushNothing BY <2>1 DEF FlushNothing, EndTick
  <2>2. CASE FlushWaits BY <2>2 DEF FlushWaits, EndTick
  <2>3. CASE FlushSkips BY <2>3 DEF FlushSkips, EndTick
  <2>4. CASE FlushEnds BY <2>4 DEF FlushEnds, EndTick
  <2>5. CASE StopBalance BY <2>5 DEF StopBalance, EndTick
  <2> QED BY <2>1, <2>2, <2>3, <2>4, <2>5
<1>2. mem \in State BY DEF IInv, DataTyped
<1>3. AwaitsHead' BY <1>1, NothingAwaited DEF chainVars
<1>4. ASSUME NEW b \in BOOLEAN, Persist([mem EXCEPT !.gasWait = b])
      PROVE  DataTyped' /\ NothingForgotten' /\ InStep' /\ ScanInChunk'
  <2> DEFINE s == [mem EXCEPT !.gasWait = b]
  <2>1. s \in State /\ s.last = mem.last /\ s.target = mem.target /\ s.pending = mem.pending
    BY <1>2, GasWaitState
  <2>2. Persist(s) BY <1>4
  <2> HIDE DEF s
  <2> QED BY <1>1, <2>1, <2>2, WriteStep
<1>5. CASE Persist(mem) BY <1>1, <1>2, <1>3, <1>5, WriteStep DEF IInv
<1>6. CASE UNCHANGED <<disk, corrupt, mem>> BY <1>1, <1>3, <1>6, NoWriteStep DEF IInv
<1> QED BY <1>1, <1>3, <1>4, <1>5, <1>6 DEF IInv

LEMMA FlushStep ==
  ASSUME IInv, NEW unread \in SUBSET (mem.pending \cap consumed), Flush(unread)
  PROVE  IInv'
<1> DEFINE rest == mem.pending \ (consumed \ unread)
           w == IF gas = "low" \/ rest = {} THEN FALSE ELSE mem.gasWait
           s == [mem EXCEPT !.pending = rest, !.gasWait = w]
<1>1. /\ pc = "flush" /\ pc' \in {"idle", "batch"} /\ receipt' \in {receipt, "none"}
      /\ UNCHANGED <<chainVars, scanVars, skipped>>
      /\ Persist(s) \/ UNCHANGED <<disk, corrupt, mem>>
  BY DEF Flush, EndTick
<1>2. mem \in State BY DEF IInv, DataTyped
<1>3. s \in State /\ s.last = mem.last /\ s.target = mem.target
      /\ mem.pending \ s.pending \subseteq consumed
  <2>1. rest \subseteq Event /\ w \in BOOLEAN BY <1>2 DEF State
  <2> HIDE DEF w
  <2> QED BY <1>2, <2>1 DEF State
<1> HIDE DEF s
<1>4. AwaitsHead' BY <1>1, NothingAwaited DEF chainVars
<1>5. DataTyped' /\ NothingForgotten' /\ InStep' /\ ScanInChunk'
  BY <1>1, <1>3, WriteStep, NoWriteStep
<1> QED BY <1>4, <1>5 DEF IInv

LEMMA SendStep ==
  ASSUME IInv, Send
  PROVE  IInv'
<1> DEFINE tx == [batch |-> Head(todo), awaited |-> TRUE]
<1>1. /\ pc = "batch" /\ pc' = "wait" /\ receipt' = "none"
      /\ mempool' = mempool \cup {tx}
      /\ UNCHANGED <<head, gas, consumed, disk, corrupt, mem, scanVars, todo, skipped>>
  BY DEF Send
<1>2. \A u \in mempool : ~u.awaited BY <1>1 DEF IInv, AwaitsHead
<1>3. AwaitsHead' BY <1>1, <1>2 DEF AwaitsHead
<1>4. \A u \in mempool' : u = [batch |-> u.batch, awaited |-> u.awaited]
                          /\ u.awaited \in BOOLEAN
  <2>1. tx = [batch |-> tx.batch, awaited |-> tx.awaited] /\ tx.awaited \in BOOLEAN
    OBVIOUS
  <2> HIDE DEF tx
  <2> QED BY <1>1, <2>1 DEF IInv, DataTyped
<1>5. head' \in Nat BY <1>1 DEF IInv, DataTyped
<1> HIDE DEF tx
<1>6. DataTyped' /\ NothingForgotten' /\ InStep' /\ ScanInChunk'
  BY <1>1, <1>4, <1>5, QuietStep
<1> QED BY <1>3, <1>6 DEF IInv

LEMMA SubmitFailsStep ==
  ASSUME IInv, SubmitFails
  PROVE  IInv'
<1>1. /\ pc = "batch" /\ pc' = "batch"
      /\ UNCHANGED <<chainVars, scanVars, disk, corrupt, mem, receipt, skipped>>
  BY DEF SubmitFails
<1>2. AwaitsHead' BY <1>1, NothingAwaited DEF chainVars
<1>3. DataTyped' /\ NothingForgotten' /\ InStep' /\ ScanInChunk' BY <1>1, NoWriteStep
<1> QED BY <1>2, <1>3 DEF IInv

LEMMA SettledStep ==
  ASSUME IInv, Settled
  PROVE  IInv'
<1> DEFINE s == [mem EXCEPT !.pending = @ \ Range(Head(todo))]
<1>1. /\ pc = "wait" /\ pc' = "batch" /\ receipt \in {"ok", "reverted"} /\ receipt' = "none"
      /\ UNCHANGED <<chainVars, scanVars, skipped>>
      /\ \/ receipt = "ok" /\ Persist(s)
         \/ UNCHANGED <<disk, corrupt, mem>>
  BY DEF Settled
<1>2. mem \in State BY DEF IInv, DataTyped
<1>3. s \in State /\ s.last = mem.last /\ s.target = mem.target
      /\ s.pending = mem.pending \ Range(Head(todo))
  BY <1>2 DEF State
<1>4. receipt = "ok" => Range(Head(todo)) \subseteq consumed BY DEF IInv, AwaitsHead
<1> HIDE DEF s
<1>5. DataTyped' /\ NothingForgotten' /\ InStep' /\ ScanInChunk'
  BY <1>1, <1>3, <1>4, WriteStep, NoWriteStep
<1>6. AwaitsHead'
  <2>1. \A u \in mempool : ~u.awaited BY <1>1 DEF IInv, AwaitsHead
  <2> QED BY <1>1, <2>1 DEF AwaitsHead, chainVars
<1> QED BY <1>5, <1>6 DEF IInv

\* Giving up a transaction, by an error of tx.wait or by a crash, leaves the pool
\* of the file as it was: whether it is mined or not, its entries are there.
LEMMA UnawaitedTyped ==
  ASSUME IInv, mempool' = Unawaited(mempool)
  PROVE  \A u \in mempool' : /\ u = [batch |-> u.batch, awaited |-> u.awaited]
                            /\ u.awaited = FALSE
<1> SUFFICES ASSUME NEW u \in mempool'
             PROVE  /\ u = [batch |-> u.batch, awaited |-> u.awaited]
                    /\ u.awaited = FALSE
  OBVIOUS
<1>1. PICK tx \in mempool : u = [tx EXCEPT !.awaited = FALSE] BY DEF Unawaited
<1>2. tx = [batch |-> tx.batch, awaited |-> tx.awaited] BY DEF IInv, DataTyped
<1> QED BY <1>1, <1>2

LEMMA WaitFailsStep ==
  ASSUME IInv, WaitFails
  PROVE  IInv'
<1>1. /\ pc = "wait" /\ pc' = "batch" /\ receipt' = "none"
      /\ mempool' = Unawaited(mempool)
      /\ UNCHANGED <<head, gas, consumed, disk, corrupt, mem, scanVars, skipped>>
  BY DEF WaitFails
<1>2. AwaitsHead' BY <1>1, UnawaitedTyped DEF AwaitsHead
<1>3. head' \in Nat BY <1>1 DEF IInv, DataTyped
<1>4. DataTyped' /\ NothingForgotten' /\ InStep' /\ ScanInChunk'
  BY <1>1, <1>3, UnawaitedTyped, QuietStep
<1> QED BY <1>2, <1>4 DEF IInv

LEMMA CrashStep ==
  ASSUME IInv, Crash
  PROVE  IInv'
<1>1. /\ pc' = "idle" /\ receipt' = "none" /\ mem' = EmptyState
      /\ corrupt' \in {corrupt, TRUE} /\ mempool' = Unawaited(mempool)
      /\ UNCHANGED <<head, consumed, disk, scanVars, skipped>>
  BY DEF Crash, EndTick
<1>2. AwaitsHead' BY <1>1, UnawaitedTyped DEF AwaitsHead
<1>3. DataTyped'
  BY <1>1, UnawaitedTyped, EmptyStateTyped DEF IInv, DataTyped, scanVars
<1>4. NothingForgotten' BY <1>1 DEF IInv, NothingForgotten, Accounted
<1>5. InStep' /\ ScanInChunk' BY <1>1 DEF InStep, ScanInChunk
<1> QED BY <1>2, <1>3, <1>4, <1>5 DEF IInv

LEMMA StepIInv == IInv /\ [Next]_vars => IInv'
<1> SUFFICES ASSUME IInv, [Next]_vars PROVE IInv' OBVIOUS
<1>1. CASE UNCHANGED vars
  <2>1. AwaitsHead' BY <1>1 DEF IInv, AwaitsHead, vars, chainVars
  <2>2. DataTyped' /\ NothingForgotten' /\ InStep' /\ ScanInChunk'
    BY <1>1, QuietStep DEF IInv, DataTyped, vars, chainVars
  <2> QED BY <2>1, <2>2 DEF IInv
<1>2. CASE Tick
  BY <1>2, TickBegins, ScanStep, FlushGates, FlushStep, SendStep, SettledStep,
     SubmitFailsStep DEF Tick
<1> QED BY <1>1, <1>2, FetchFailsStep, FlushGates, WaitFailsStep, CrashStep,
           ChainSteps, MineStep DEF Next

\* The inductive invariant holds in every reachable state.
THEOREM Invariance == Spec => []IInv
BY InitIInv, StepIInv, PTL DEF Spec

\* No withdrawal below the checkpoint is lost, for any number of crashes, failed
\* fetches, reverted or late transactions and any chunk and batch sizes.
THEOREM PayoutsAccounted == Spec => []NothingForgotten
<1>1. IInv => NothingForgotten BY DEF IInv
<1> QED BY <1>1, Invariance, PTL

------------------------------------------------------------------------------
(* The action properties.                                                  *)

\* What a step may write: the file keeps its ceiling until it is reached,
\* advances below it, and loses only paid entries.
FileStep ==
  /\ (~corrupt /\ ~corrupt') =>
       /\ ~CaughtUp(disk) => disk'.target = disk.target
       /\ disk.pending \ disk'.pending \subseteq consumed'
  /\ disk'.last > disk.last => disk'.last <= disk'.target

LEMMA PersistFileStep ==
  ASSUME IInv, NEW s \in State, Persist(s), pc # "idle", s.target = mem.target,
         s.last = mem.last \/ s.last <= s.target,
         mem.pending \ s.pending \subseteq consumed, UNCHANGED chainVars
  PROVE  FileStep
<1>1. /\ disk' = s /\ disk.pending \subseteq mem.pending
      /\ mem.last = disk.last /\ mem.target = disk.target
  BY DEF IInv, InStep, Persist
<1>2. s.last \in Nat /\ disk.last \in Nat BY DEF IInv, DataTyped, State
<1> QED BY <1>1, <1>2 DEF FileStep, chainVars

LEMMA QuietFileStep ==
  ASSUME IInv, UNCHANGED disk
  PROVE  FileStep
<1>1. disk.last \in Nat BY DEF IInv, DataTyped, State
<1> QED BY <1>1 DEF FileStep

LEMMA TickFileStep ==
  ASSUME IInv, payoutTick
  PROVE  FileStep
<1>1. CASE UNCHANGED disk BY <1>1, QuietFileStep
<1>2. CASE ~(UNCHANGED disk)
  <2> DEFINE s == [ReadState EXCEPT !.target = head]
  <2>1. /\ head \in Nat /\ head >= Floor /\ Floor \in Nat \ {0}
        /\ ReadState \in State /\ (~corrupt => ReadState = disk)
        /\ (corrupt => ReadState.last = Floor - 1)
    BY EmptyStateTyped, BoundAssumption
       DEF payoutTick, IInv, DataTyped, ReadState, EmptyState
  <2>2. CaughtUp(ReadState) \/ disk' = ReadState
    BY <1>2 DEF payoutTick, Persist
  <2>3. CASE CaughtUp(ReadState)
    <3>1. disk' = s BY <1>2, <2>3 DEF payoutTick, Persist
    <3>2. s.pending = ReadState.pending /\ s.last = ReadState.last /\ s.target = head
      BY <2>1 DEF State
    <3> HIDE DEF s
    <3>3. disk.last \in Nat BY DEF IInv, DataTyped, State
    <3>4. corrupt => disk'.last <= disk'.target BY <2>1, <3>1, <3>2
    <3>5. ~corrupt => disk'.last = disk.last BY <2>1, <3>1, <3>2
    <3> QED BY <2>1, <2>3, <3>1, <3>2, <3>3, <3>4, <3>5 DEF FileStep
  <2>4. CASE ~CaughtUp(ReadState)
    BY <1>2, <2>1, <2>4 DEF payoutTick, Persist, ReadState, EmptyState, CaughtUp
  <2> QED BY <2>3, <2>4
<1> QED BY <1>1, <1>2

LEMMA ScanFileStep ==
  ASSUME IInv, NEW found \in SUBSET EventsOf(at), ScanBlock(found)
  PROVE  FileStep
<1> DEFINE s == [mem EXCEPT !.pending = mem.pending \cup found, !.last = at]
<1>1. pc = "scan" /\ UNCHANGED chainVars
  BY DEF ScanBlock
<1>2. mem \in State /\ at \in Nat /\ at <= mem.target /\ found \subseteq Event
  BY DEF ScanBlock, IInv, DataTyped, ScanInChunk, EventsOf, State
<1>3. s \in State /\ s.target = mem.target /\ s.last = at /\ mem.pending \subseteq s.pending
  BY <1>2 DEF State
<1>3a. Persist(s) \/ UNCHANGED disk
  BY DEF ScanBlock, EndChunk
<1> HIDE DEF s
<1>4. CASE UNCHANGED disk BY <1>4, QuietFileStep
<1>5. CASE Persist(s)
  <2>1. pc # "idle" /\ UNCHANGED chainVars BY DEF ScanBlock
  <2> QED BY <1>2, <1>3, <1>5, <2>1, PersistFileStep
<1> QED BY <1>3a, <1>4, <1>5

LEMMA FetchFailsFileStep ==
  ASSUME IInv, FetchFails
  PROVE  FileStep
<1> DEFINE s == [mem EXCEPT !.last = at - 1]
<1>1. pc = "scan" /\ UNCHANGED chainVars
      /\ ((at > mem.last + 1 /\ Persist(s)) \/ UNCHANGED disk)
  BY DEF FetchFails
<1>2. CASE UNCHANGED disk BY <1>2, QuietFileStep
<1>3. CASE at > mem.last + 1 /\ Persist(s)
  <2>1. mem \in State /\ at - 1 \in Nat /\ at - 1 <= mem.target
    BY <1>1, <1>3 DEF IInv, DataTyped, ScanInChunk, State
  <2>2. s \in State /\ s.target = mem.target /\ s.last = at - 1 /\ s.pending = mem.pending
    BY <2>1 DEF State
  <2> HIDE DEF s
  <2> QED BY <1>1, <1>3, <2>1, <2>2, PersistFileStep
<1> QED BY <1>1, <1>2, <1>3

LEMMA GatesFileStep ==
  ASSUME IInv, FlushNothing \/ FlushWaits \/ FlushSkips \/ FlushEnds \/ StopBalance
  PROVE  FileStep
<1>1. /\ pc # "idle" /\ UNCHANGED chainVars
      /\ \/ \E b \in BOOLEAN : Persist([mem EXCEPT !.gasWait = b])
         \/ Persist(mem)
         \/ UNCHANGED disk
  <2>1. CASE FlushNothing BY <2>1 DEF FlushNothing
  <2>2. CASE FlushWaits BY <2>2 DEF FlushWaits
  <2>3. CASE FlushSkips BY <2>3 DEF FlushSkips
  <2>4. CASE FlushEnds BY <2>4 DEF FlushEnds
  <2>5. CASE StopBalance BY <2>5 DEF StopBalance
  <2> QED BY <2>1, <2>2, <2>3, <2>4, <2>5
<1>2. mem \in State BY DEF IInv, DataTyped
<1>3. ASSUME NEW b \in BOOLEAN, Persist([mem EXCEPT !.gasWait = b]) PROVE FileStep
  <2> DEFINE s == [mem EXCEPT !.gasWait = b]
  <2>1. s \in State /\ s.last = mem.last /\ s.target = mem.target /\ s.pending = mem.pending
    BY <1>2, GasWaitState
  <2>2. Persist(s) BY <1>3
  <2> HIDE DEF s
  <2> QED BY <1>1, <2>1, <2>2, PersistFileStep
<1>4. CASE Persist(mem) BY <1>1, <1>2, <1>4, PersistFileStep
<1> QED BY <1>1, <1>3, <1>4, QuietFileStep

LEMMA FlushFileStep ==
  ASSUME IInv, NEW unread \in SUBSET (mem.pending \cap consumed), Flush(unread)
  PROVE  FileStep
<1> DEFINE rest == mem.pending \ (consumed \ unread)
           w == IF gas = "low" \/ rest = {} THEN FALSE ELSE mem.gasWait
           s == [mem EXCEPT !.pending = rest, !.gasWait = w]
<1>1. pc # "idle" /\ UNCHANGED chainVars /\ (Persist(s) \/ UNCHANGED disk)
  BY DEF Flush
<1>2. mem \in State BY DEF IInv, DataTyped
<1>3. s \in State /\ s.last = mem.last /\ s.target = mem.target
      /\ mem.pending \ s.pending \subseteq consumed
  <2>1. rest \subseteq Event /\ w \in BOOLEAN BY <1>2 DEF State
  <2> HIDE DEF w
  <2> QED BY <1>2, <2>1 DEF State
<1> HIDE DEF s
<1> QED BY <1>1, <1>3, PersistFileStep, QuietFileStep

LEMMA SettledFileStep ==
  ASSUME IInv, Settled
  PROVE  FileStep
<1> DEFINE s == [mem EXCEPT !.pending = @ \ Range(Head(todo))]
<1>1. /\ pc # "idle" /\ UNCHANGED chainVars
      /\ \/ receipt = "ok" /\ Persist(s)
         \/ UNCHANGED disk
  BY DEF Settled
<1>2. mem \in State BY DEF IInv, DataTyped
<1>3. s \in State /\ s.last = mem.last /\ s.target = mem.target
      /\ s.pending = mem.pending \ Range(Head(todo))
  BY <1>2 DEF State
<1>4. receipt = "ok" => Range(Head(todo)) \subseteq consumed BY DEF IInv, AwaitsHead
<1> HIDE DEF s
<1> QED BY <1>1, <1>3, <1>4, PersistFileStep, QuietFileStep

LEMMA StepFileStep == IInv /\ [Next]_vars => FileStep
<1> SUFFICES ASSUME IInv, [Next]_vars PROVE FileStep OBVIOUS
<1>1. CASE UNCHANGED disk BY <1>1, QuietFileStep
<1>2. CASE ~(UNCHANGED disk)
  <2>1. ~(\E tx \in mempool : Mine(tx)) BY <1>2 DEF Mine
  <2>2. ~(NewBlock \/ GasMoves \/ ForceWindowPasses \/ WaitFails \/ Crash
          \/ Send \/ SubmitFails \/ UNCHANGED vars)
    BY <1>2 DEF NewBlock, GasMoves, ForceWindowPasses, WaitFails, Crash, Send,
                SubmitFails, vars
  <2>3. CASE Tick
    BY <2>2, <2>3, TickFileStep, ScanFileStep, GatesFileStep, FlushFileStep,
       SettledFileStep DEF Tick
  <2> QED BY <2>1, <2>2, <2>3, FetchFailsFileStep, GatesFileStep DEF Next
<1> QED BY <1>1, <1>2

\* While the file is behind its ceiling the ceiling stays, across restarts too.
THEOREM CeilingIsFixed == Spec => CeilingFixed
<1>1. FileStep => ((~corrupt /\ ~corrupt' /\ ~CaughtUp(disk)) => disk'.target = disk.target)
  BY DEF FileStep
<1> QED BY <1>1, StepFileStep, Invariance, PTL DEF Spec, CeilingFixed

\* The checkpoint never passes the ceiling.
THEOREM CheckpointBelowCeiling == Spec => NeverPastCeiling
<1>1. FileStep => (disk'.last > disk.last => disk'.last <= disk'.target)
  BY DEF FileStep
<1> QED BY <1>1, StepFileStep, Invariance, PTL DEF Spec, NeverPastCeiling

\* An entry is removed from the file only after the chain has paid it.
THEOREM PoolKeepsUnpaid == Spec => DroppedOnlyIfPaid
<1>1. FileStep => ((~corrupt /\ ~corrupt') => disk.pending \ disk'.pending \subseteq consumed')
  BY DEF FileStep
<1> QED BY <1>1, StepFileStep, Invariance, PTL DEF Spec, DroppedOnlyIfPaid
=============================================================================
