--------------------------- MODULE ServiceRunsProofs ---------------------------
(***************************************************************************)
(* What a service keeps whose scripts obey the rules of ServicePlaces, for *)
(* any number of requests, keys and faults, and across restarts of Master. *)
(*                                                                         *)
(* Whatever the scripts are, no settle-admin key is held by two runs       *)
(* (KeysAreExclusive).  The other theorems assume Rules, which TLC finds   *)
(* true of all scripts (MCServiceJobs).  A rule speaks of one place, or of *)
(* two runs that share a connection; the invariant Core lifts it to the    *)
(* service:                                                                *)
(*   Placed   every run and every job is where the scripts can be,         *)
(*   Voices   two that share a connection fit: they do not both answer     *)
(*            without looking, so a second answer is never written,        *)
(*   Asked    one run of a request asks Master, and when it asks again     *)
(*            nobody is left who would answer the last question: only so   *)
(*            does a renewed connection bring no old answer,               *)
(*   Heard    whoever echoes an answer of Master has it.                   *)
(* Covered, Waited and Attended add the pool, the clients and the calls.   *)
(* Paid adds payments and fees, and Told what clients are told of them;    *)
(* they assume Charging and Telling, which TLC finds true of all scripts   *)
(* as well (MCServiceRoutes).                                              *)
(*                                                                         *)
(* A step is proved by its shape (Shape, Queues): the runs it leaves, what *)
(* it says, and what it does to a queue.  The runs and jobs together are   *)
(* the parties; Flow says where each party of the next state comes from.   *)
(***************************************************************************)
EXTENDS ServiceAnswers, TLAPS, FiniteSetTheorems

\* A thread is a record of ten fields.
IsThread(t) ==
  t = [q |-> t.q, kind |-> t.kind, name |-> t.name, conn |-> t.conn, job |-> t.job,
       rest |-> t.rest, again |-> t.again, keys |-> t.keys, lent |-> t.lent, err |-> t.err]

\* What the pool I and the threads T must satisfy.
Shaped(t) == IsThread(t) /\ t.keys \subseteq Slot /\ (OnMaster(t) \/ t.keys = {})
Apart(T) == \A t, u \in T : \A p \in t.keys \cap u.keys : t = u
Held(T, I) == \A t \in T : \A p \in t.keys : p[2] \notin I[p[1]]

Sound(T, I) == (\A t \in T : Shaped(t)) /\ Apart(T) /\ Held(T, I)

\* No key is held by two runs, and none that a run holds is in the pool.
KeysExclusive == Apart(threads) /\ Held(threads, idle)

\* The invariant of the keys, for every script.
Inv == Sound(threads, idle)

------------------------------------------------------------------------------
(* One thread of a step: what may take its place.                          *)

\* n may replace t, with the keys of t or some of them.
Heir(n, t) == IsThread(n) /\ n.keys \subseteq t.keys /\ (OnMaster(n) \/ n.keys = {})

\* A step keeps Inv when what takes the place of t shares out the keys of t.
LEMMA HeirsAreSound ==
  ASSUME Inv, NEW t \in threads, NEW new,
         \A n \in new : Heir(n, t),
         \A n, m \in new : \A p \in n.keys \cap m.keys : n = m,
         Replace(t, new), idle' = idle
  PROVE  Inv'
<1>1. threads' \subseteq (threads \ {t}) \cup new
  BY DEF Replace
<1>2. \A u \in threads' : Shaped(u)
  BY <1>1 DEF Inv, Sound, Shaped, Heir
<1>3. Apart(threads')
  <2> SUFFICES ASSUME NEW u \in threads', NEW v \in threads', NEW p \in u.keys \cap v.keys
               PROVE  u = v
    BY DEF Apart
  <2>1. CASE u \in new /\ v \in new
    BY <2>1
  <2>2. CASE u \in new /\ v \in threads \ {t}
    BY <2>2 DEF Inv, Sound, Apart, Heir
  <2>3. CASE u \in threads \ {t} /\ v \in new
    BY <2>3 DEF Inv, Sound, Apart, Heir
  <2>4. CASE u \in threads \ {t} /\ v \in threads \ {t}
    BY <2>4 DEF Inv, Sound, Apart
  <2> QED
    BY <1>1, <2>1, <2>2, <2>3, <2>4
<1>4. Held(threads', idle')
  BY <1>1 DEF Inv, Sound, Held, Heir
<1> QED
  BY <1>2, <1>3, <1>4 DEF Inv, Sound

\* So it does when one heir takes its place.
LEMMA HeirOfOne ==
  ASSUME Inv, NEW t \in threads, NEW n, Heir(n, t), Replace(t, {n}), idle' = idle
  PROVE  Inv'
BY HeirsAreSound

\* A thread that goes on with s is its own heir, with its keys.
LEMMA WithIsHeir ==
  ASSUME NEW t, Shaped(t), NEW s
  PROVE  Heir(With(t, s), t) /\ With(t, s).keys = t.keys /\ With(t, s).kind = t.kind
<1> DEFINE r == AfterTry(s)
<1>1. With(t, s) = [q |-> t.q, kind |-> t.kind, name |-> t.name, conn |-> t.conn, job |-> t.job,
       rest |-> r, again |-> t.again, keys |-> t.keys, lent |-> t.lent, err |-> t.err]
  <2> HIDE DEF r
  <2>1. With(t, s) = [t EXCEPT !.rest = r]
    BY DEF With, r
  <2> QED
    BY <2>1 DEF Shaped, IsThread
<1> HIDE DEF r
<1> QED
  BY <1>1 DEF Heir, IsThread, Shaped, OnMaster

\* Setting other fields of a thread.
LEMMA SetErr ==
  ASSUME NEW t, IsThread(t), NEW x
  PROVE  /\ IsThread([t EXCEPT !.err = x])
         /\ [t EXCEPT !.err = x].keys = t.keys
         /\ [t EXCEPT !.err = x].kind = t.kind
<1>1. [t EXCEPT !.err = x] = [q |-> t.q, kind |-> t.kind, name |-> t.name, conn |-> t.conn, job |-> t.job,
           rest |-> t.rest, again |-> t.again, keys |-> t.keys, lent |-> t.lent, err |-> x]
  BY DEF IsThread
<1> QED
  BY <1>1 DEF IsThread

\* Borrowing keeps the keys;
LEMMA SetLent ==
  ASSUME NEW t, IsThread(t), NEW x
  PROVE  /\ IsThread([t EXCEPT !.lent = x])
         /\ [t EXCEPT !.lent = x].keys = t.keys
         /\ [t EXCEPT !.lent = x].kind = t.kind
<1>1. [t EXCEPT !.lent = x] = [q |-> t.q, kind |-> t.kind, name |-> t.name, conn |-> t.conn, job |-> t.job,
           rest |-> t.rest, again |-> t.again, keys |-> t.keys, lent |-> x, err |-> t.err]
  BY DEF IsThread
<1> QED
  BY <1>1 DEF IsThread

\* so much for the other fields:
LEMMA SetKeys ==
  ASSUME NEW t, IsThread(t), NEW x
  PROVE  /\ IsThread([t EXCEPT !.keys = x])
         /\ [t EXCEPT !.keys = x].keys = x
         /\ [t EXCEPT !.keys = x].kind = t.kind
<1>1. [t EXCEPT !.keys = x] = [q |-> t.q, kind |-> t.kind, name |-> t.name, conn |-> t.conn, job |-> t.job,
           rest |-> t.rest, again |-> t.again, keys |-> x, lent |-> t.lent, err |-> t.err]
  BY DEF IsThread
<1> QED
  BY <1>1 DEF IsThread

\* the job,
LEMMA SetJob ==
  ASSUME NEW t, IsThread(t), NEW x
  PROVE  /\ IsThread([t EXCEPT !.job = x])
         /\ [t EXCEPT !.job = x].keys = t.keys
         /\ [t EXCEPT !.job = x].kind = t.kind
<1>1. [t EXCEPT !.job = x] = [q |-> t.q, kind |-> t.kind, name |-> t.name, conn |-> t.conn, job |-> x,
           rest |-> t.rest, again |-> t.again, keys |-> t.keys, lent |-> t.lent, err |-> t.err]
  BY DEF IsThread
<1> QED
  BY <1>1 DEF IsThread

\* the mark of a job put back,
LEMMA SetAgain ==
  ASSUME NEW t, IsThread(t), NEW x
  PROVE  /\ IsThread([t EXCEPT !.again = x])
         /\ [t EXCEPT !.again = x].keys = t.keys
         /\ [t EXCEPT !.again = x].kind = t.kind
<1>1. [t EXCEPT !.again = x] = [q |-> t.q, kind |-> t.kind, name |-> t.name, conn |-> t.conn, job |-> t.job,
           rest |-> t.rest, again |-> x, keys |-> t.keys, lent |-> t.lent, err |-> t.err]
  BY DEF IsThread
<1> QED
  BY <1>1 DEF IsThread

\* the kind.
LEMMA SetKind ==
  ASSUME NEW t, IsThread(t), NEW x
  PROVE  /\ IsThread([t EXCEPT !.kind = x])
         /\ [t EXCEPT !.kind = x].keys = t.keys
         /\ [t EXCEPT !.kind = x].kind = x
<1>1. [t EXCEPT !.kind = x] = [q |-> t.q, kind |-> x, name |-> t.name, conn |-> t.conn, job |-> t.job,
           rest |-> t.rest, again |-> t.again, keys |-> t.keys, lent |-> t.lent, err |-> t.err]
  BY DEF IsThread
<1> QED
  BY <1>1 DEF IsThread

\* A new thread holds no key.
LEMMA NewThread ==
  ASSUME NEW q, NEW k, NEW n, NEW c
  PROVE  IsThread(Thread(q, k, n, c)) /\ Thread(q, k, n, c).keys = {}
BY DEF IsThread, Thread

\* A slot is a chain and a key of it.
LEMMA SlotIsPair ==
  ASSUME NEW p \in Slot
  PROVE  p[1] \in Chain /\ p[2] \in KeyOf[p[1]] /\ p = <<p[1], p[2]>>
BY DEF Slot

------------------------------------------------------------------------------
(* The ways in which a step moves a thread.                                *)

\* Moving on,
LEMMA GoKeeps ==
  ASSUME Inv, NEW t \in threads, NEW s, Go(t, s), idle' = idle
  PROVE  Inv'
<1>1. Heir(With(t, s), t)
  BY WithIsHeir DEF Inv, Sound
<1> QED
  BY <1>1, HeirOfOne DEF Go

\* throwing,
LEMMA RaiseKeeps ==
  ASSUME Inv, NEW t \in threads, NEW kind, Raise(t, kind), idle' = idle
  PROVE  Inv'
<1>1. CASE Caught(t, kind)
  <2> DEFINE w == With(t, Thrown(t.rest))
             n == [w EXCEPT !.err = kind]
  <2>1. Heir(w, t)
    BY WithIsHeir DEF Inv, Sound
  <2>2. Replace(t, {n})
    BY <1>1 DEF Caught
  <2> HIDE DEF w
  <2>3. Heir(n, t)
    BY <2>1, SetErr DEF Heir, OnMaster
  <2> HIDE DEF n
  <2> QED
    BY <2>2, <2>3, HeirOfOne
<1>2. CASE Escapes(t)
  BY <1>2, HeirsAreSound DEF Escapes
<1> QED
  BY <1>1, <1>2 DEF Raise

\* A request to Master makes a thread there, which has no keys yet.
LEMMA RequestKeeps ==
  ASSUME Inv, NEW t \in threads, NEW s, NEW q, NEW k, NEW n, NEW c,
         Replace(t, {With(t, s), Thread(q, k, n, c)}), idle' = idle
  PROVE  Inv'
<1>1. Heir(With(t, s), t) /\ Heir(Thread(q, k, n, c), t)
  BY WithIsHeir, NewThread DEF Inv, Sound, Heir
<1>2. Thread(q, k, n, c).keys = {}
  BY NewThread
<1> DEFINE new == {With(t, s), Thread(q, k, n, c)}
<1>3. \A x, y \in new : \A p \in x.keys \cap y.keys : x = y
  BY <1>2
<1>4. \A x \in new : Heir(x, t)
  BY <1>1
<1>5. Replace(t, new)
  OBVIOUS
<1> HIDE DEF new
<1> QED
  BY <1>3, <1>4, <1>5, HeirsAreSound

\* leaving a block beside, with the keys or without,
LEMMA SpawnKeeps ==
  ASSUME Inv, NEW t \in threads, SpawnBlock(t)
  PROVE  Inv'
<1> DEFINE takes == \E i \in DOMAIN Head1(t).then : Head1(t).then[i].op = "give"
           kind == IF takes THEN t.kind ELSE IF OnMaster(t) THEN "block" ELSE "clusterblock"
           w == With(t, Head1(t).then)
           v == Next1(t)
           cLent == IF takes THEN {} ELSE {p \in t.keys : p[1] = "conet"}
           cKeys == IF takes THEN t.keys ELSE {}
           sKeys == IF takes THEN {} ELSE t.keys
           block == [w EXCEPT !.kind = kind]
           sends == [block EXCEPT !.lent = cLent]
           child == [sends EXCEPT !.keys = cKeys]
           self == [v EXCEPT !.keys = sKeys]
<1>1. Replace(t, {child, self}) /\ idle' = idle
  BY DEF SpawnBlock, runVars
<1>2. Heir(w, t) /\ Heir(v, t) /\ v.kind = t.kind
  BY WithIsHeir DEF Inv, Sound, Next1
<1>3. OnMaster(t) \/ t.keys = {}
  BY DEF Inv, Sound, Shaped
<1> HIDE DEF takes, w, v, cLent
<1>4. (cKeys = t.keys /\ kind = t.kind /\ sKeys = {}) \/ (cKeys = {} /\ sKeys = t.keys)
  OBVIOUS
<1> HIDE DEF kind, cKeys, sKeys
<1>5. IsThread(block) /\ block.kind = kind
  BY <1>2, SetKind DEF Heir
<1> HIDE DEF block
<1>6. IsThread(sends) /\ sends.kind = kind
  BY <1>5, SetLent
<1> HIDE DEF sends
<1>7. IsThread(child) /\ child.kind = kind /\ child.keys = cKeys
  BY <1>6, SetKeys
<1>8. IsThread(self) /\ self.kind = t.kind /\ self.keys = sKeys
  BY <1>2, SetKeys DEF Heir
<1> HIDE DEF child, self
<1> DEFINE new == {child, self}
<1>9. \A n \in new : Heir(n, t)
  BY <1>3, <1>4, <1>7, <1>8 DEF Heir, OnMaster
<1>10. \A n, m \in new : \A p \in n.keys \cap m.keys : n = m
  BY <1>4, <1>7, <1>8
<1>11. Replace(t, new)
  BY <1>1
<1> HIDE DEF new
<1> QED
  BY <1>1, <1>9, <1>10, <1>11, HeirsAreSound

------------------------------------------------------------------------------
(* Keys change hands.                                                      *)

\* The keys one may take are slots of the pool.
LEMMA IdleSlots ==
  ASSUME NEW ch, NEW ks \in IdleKeys(ch)
  PROVE  ks \subseteq Slot /\ \A p \in ks : p[2] \in idle[p[1]]
<1>1. ks \in KeysOf(ch) /\ \A p \in ks : p[2] \in idle[p[1]]
  BY DEF IdleKeys
<1>2. CASE ch = "both"
  BY <1>1, <1>2 DEF KeysOf
<1>3. CASE ch # "both"
  BY <1>1, <1>3 DEF KeysOf
<1> QED
  BY <1>1, <1>2, <1>3

\* Taking keys out of the pool keeps Inv,
LEMMA TakingKeeps ==
  ASSUME Inv, NEW t \in threads, OnMaster(t), NEW ch, NEW ks \in IdleKeys(ch), Take(ks),
         Replace(t, {[Next1(t) EXCEPT !.keys = @ \cup ks]})
  PROVE  Inv'
<1> DEFINE w == Next1(t)
           n == [w EXCEPT !.keys = w.keys \cup ks]
<1>1. Replace(t, {n})
  OBVIOUS
<1>2. Heir(w, t) /\ w.keys = t.keys /\ w.kind = t.kind
  BY WithIsHeir DEF Inv, Sound, Next1
<1>3. ks \subseteq Slot /\ \A p \in ks : p[2] \in idle[p[1]]
  BY IdleSlots
<1> HIDE DEF w
<1>4. IsThread(n) /\ n.keys = t.keys \cup ks /\ n.kind = t.kind
  BY <1>2, SetKeys DEF Heir
<1> HIDE DEF n
<1>5. threads' \subseteq (threads \ {t}) \cup {n}
  BY <1>1 DEF Replace
<1>6. Shaped(n)
  BY <1>3, <1>4 DEF Inv, Sound, Shaped, OnMaster
<1>7. \A u \in threads' : Shaped(u)
  BY <1>5, <1>6 DEF Inv, Sound
<1>8. \A u \in threads \ {t} : \A p \in u.keys : p \notin n.keys
  BY <1>3, <1>4 DEF Inv, Sound, Apart, Held
<1>9. Apart(threads')
  BY <1>5, <1>8 DEF Inv, Sound, Apart
<1>10. \A p \in Slot : idle'[p[1]] = idle[p[1]] \ {k \in KeyOf[p[1]] : <<p[1], k>> \in ks}
  BY SlotIsPair DEF Take
<1>11. Held(threads', idle')
  <2> SUFFICES ASSUME NEW u \in threads', NEW p \in u.keys
               PROVE  p[2] \notin idle'[p[1]]
    BY DEF Held
  <2>1. p \in Slot
    BY <1>7 DEF Shaped
  <2>2. CASE p \in ks
    BY <1>10, <2>1, <2>2, SlotIsPair
  <2>3. CASE p \notin ks
    <3>1. \E v \in threads : p \in v.keys
      BY <1>4, <1>5, <2>3
    <3> QED
      BY <1>10, <2>1, <3>1 DEF Inv, Sound, Held
  <2> QED
    BY <2>2, <2>3
<1> QED
  BY <1>7, <1>9, <1>11 DEF Inv, Sound

\* so does putting them back,
LEMMA GivingKeeps ==
  ASSUME Inv, NEW t \in threads, GiveSlots(t)
  PROVE  Inv'
<1> DEFINE w == Next1(t)
           n == [w EXCEPT !.keys = {}]
<1>1. Replace(t, {n})
  BY DEF GiveSlots
<1>2. Heir(w, t)
  BY WithIsHeir DEF Inv, Sound, Next1
<1> HIDE DEF w
<1>3. IsThread(n) /\ n.keys = {}
  BY <1>2, SetKeys DEF Heir
<1> HIDE DEF n
<1>4. threads' \subseteq (threads \ {t}) \cup {n}
  BY <1>1 DEF Replace
<1>5. \A u \in threads' : Shaped(u)
  BY <1>3, <1>4 DEF Inv, Sound, Shaped
<1>6. Apart(threads')
  BY <1>3, <1>4 DEF Inv, Sound, Apart
<1>7. \A p \in Slot : idle'[p[1]] = idle[p[1]] \cup {k \in KeyOf[p[1]] : <<p[1], k>> \in t.keys}
  BY SlotIsPair DEF GiveSlots
<1>8. Held(threads', idle')
  <2> SUFFICES ASSUME NEW u \in threads', NEW p \in u.keys
               PROVE  p[2] \notin idle'[p[1]]
    BY DEF Held
  <2>1. u \in threads \ {t}
    BY <1>3, <1>4
  <2>2. p \in Slot
    BY <1>5 DEF Shaped
  <2>3. p \notin t.keys
    BY <2>1 DEF Inv, Sound, Apart
  <2>4. p[2] \notin idle[p[1]]
    BY <2>1 DEF Inv, Sound, Held
  <2> QED
    BY <1>7, <2>2, <2>3, <2>4, SlotIsPair
<1> QED
  BY <1>5, <1>6, <1>8 DEF Inv, Sound

\* and a restart, because the threads of the Cluster hold none.
LEMMA RestartKeeps == Inv /\ Restart => Inv'
<1> SUFFICES ASSUME Inv, Restart PROVE Inv'
  OBVIOUS
<1>1. \A t \in threads' : t \in threads /\ ~OnMaster(t)
  BY DEF Restart
<1>2. \A t \in threads' : Shaped(t) /\ t.keys = {}
  BY <1>1 DEF Inv, Sound, Shaped
<1> QED
  BY <1>2 DEF Inv, Sound, Apart, Held

\* A call of a worker makes a thread without keys.
LEMMA CallKeeps ==
  ASSUME Inv, NEW w \in Queue, CallWorker(w)
  PROVE  Inv'
<1>1. idle' = idle
  BY DEF CallWorker
<1>2. CASE threads' = threads
  BY <1>1, <1>2 DEF Inv, Sound, Apart, Held
<1>3. CASE w \notin Single \/ Runs(w) = {}
  <2> DEFINE job == Head(queue[w])
             fresh == Thread(job.q, "worker", w, job.conn)
             named == [fresh EXCEPT !.job = job.job]
             n == [named EXCEPT !.again = job.again]
  <2>1. threads' = threads \cup {n}
    BY <1>3 DEF CallWorker
  <2>2. IsThread(fresh) /\ fresh.keys = {}
    BY NewThread
  <2> HIDE DEF fresh
  <2>3. IsThread(named) /\ named.keys = {}
    BY <2>2, SetJob
  <2> HIDE DEF named
  <2>4. IsThread(n) /\ n.keys = {}
    BY <2>3, SetAgain
  <2> HIDE DEF n
  <2> QED
    BY <1>1, <2>1, <2>4 DEF Inv, Sound, Shaped, Apart, Held
<1> QED
  BY <1>2, <1>3 DEF CallWorker

------------------------------------------------------------------------------
(* Every step of a thread.                                                 *)

\* Every step of a thread keeps Inv.
LEMMA StepKeeps ==
  ASSUME Inv, NEW t \in threads, StepOf(t)
  PROVE  Inv'
<1>1. CASE Choose(t)
  BY <1>1, GoKeeps, RaiseKeeps DEF Choose, runVars
<1>2. CASE Await(t)
  BY <1>2, GoKeeps, RaiseKeeps DEF Await, runVars
<1>3. CASE ThrowError(t)
  BY <1>3, GoKeeps, RaiseKeeps DEF ThrowError, runVars
<1>4. CASE InspectError(t)
  BY <1>4, GoKeeps, RaiseKeeps DEF InspectError, runVars
<1>5. CASE RememberOutcome(t)
  BY <1>5, GoKeeps, RaiseKeeps DEF RememberOutcome, runVars
<1>6. CASE LookAtJob(t)
  BY <1>6, GoKeeps, RaiseKeeps DEF LookAtJob, runVars
<1>7. CASE EnterTry(t)
  BY <1>7, GoKeeps, RaiseKeeps DEF EnterTry, runVars
<1>8. CASE EnterFinally(t)
  BY <1>8, GoKeeps, RaiseKeeps DEF EnterFinally, runVars
<1>9. CASE Return(t)
  BY <1>9, GoKeeps, RaiseKeeps DEF Return, runVars
<1>10. CASE SpawnBlock(t)
  BY <1>10, SpawnKeeps
<1>11. CASE SayAnswer(t)
  BY <1>11, GoKeeps, RaiseKeeps DEF SayAnswer, runVars
<1>12. CASE GiveAnswer(t)
  <2>1. CASE Answered(t.q, t.conn) /\ Handler(t.rest) # 0
    <3> DEFINE w == With(t, Thrown(t.rest))
               n == [w EXCEPT !.err = "other"]
    <3>1. Heir(w, t)
      BY WithIsHeir DEF Inv, Sound
    <3>2. Replace(t, {n}) /\ idle' = idle
      BY <1>12, <2>1 DEF GiveAnswer, runVars
    <3> HIDE DEF w
    <3>3. Heir(n, t)
      BY <3>1, SetErr DEF Heir, OnMaster
    <3> HIDE DEF n
    <3> QED
      BY <3>2, <3>3, HeirOfOne
  <2>2. CASE Answered(t.q, t.conn) /\ Handler(t.rest) = 0
    BY <1>12, <2>2, HeirsAreSound DEF GiveAnswer, runVars
  <2>3. CASE ~Answered(t.q, t.conn)
    BY <1>12, <2>3, GoKeeps DEF GiveAnswer, runVars
  <2> QED
    BY <2>1, <2>2, <2>3
<1>13. CASE SendTx(t)
  BY <1>13, GoKeeps, RaiseKeeps DEF SendTx, runVars
<1>14. CASE AwaitReceipt(t)
  BY <1>14, GoKeeps, RaiseKeeps DEF AwaitReceipt, runVars
<1>15. CASE WriteRow(t)
  BY <1>15, GoKeeps, RaiseKeeps DEF WriteRow, runVars
<1>16. CASE RelayRequest(t)
  <2>1. CASE Replace(t, {Next1(t), Thread(t.q, "master", Head1(t).name, t.conn)})
    BY <1>16, <2>1, RequestKeeps DEF RelayRequest, Next1, runVars
  <2> QED
    BY <1>16, <2>1, GoKeeps DEF RelayRequest, runVars
<1>17. CASE AskMaster(t)
  <2>1. CASE Raise(t, "other")
    BY <1>17, <2>1, RaiseKeeps DEF AskMaster, runVars
  <2> DEFINE s == Step("await", "inner", Head1(t).then, Head1(t).else) \o Tail(t.rest)
  <2>2. CASE Replace(t, {With(t, s), Thread(t.q, "master", Head1(t).name, "inner")})
    <3> HIDE DEF s
    <3> QED
      BY <1>17, <2>2, RequestKeeps DEF AskMaster, runVars
  <2> QED
    BY <1>17, <2>1, <2>2 DEF AskMaster
<1>18. CASE HearMaster(t)
  BY <1>18, GoKeeps, RaiseKeeps DEF HearMaster, runVars
<1>19. CASE PostRequest(t)
  <2>1. CASE Replace(t, {Next1(t), Thread(t.q, "master", Head1(t).name, "none")})
    BY <1>19, <2>1, RequestKeeps DEF PostRequest, Next1, runVars
  <2> QED
    BY <1>19, <2>1, GoKeeps DEF PostRequest, runVars
<1>20. CASE PushJob(t)
  BY <1>20, GoKeeps, RaiseKeeps DEF PushJob, runVars
<1>21. CASE PutBack(t)
  BY <1>21, GoKeeps, RaiseKeeps DEF PutBack, runVars
<1>22. CASE SetTimer(t)
  BY <1>22, GoKeeps, RaiseKeeps DEF SetTimer, runVars
<1>23. CASE TakeSlot(t)
  <2>1. CASE IdleKeys(Head1(t).name) = {} /\ idle' = idle
    BY <1>23, <2>1, GoKeeps DEF TakeSlot
  <2>2. CASE \E ks \in IdleKeys(Head1(t).name) :
               Take(ks) /\ Replace(t, {[Next1(t) EXCEPT !.keys = @ \cup ks]})
    BY <1>23, <2>2, TakingKeeps DEF TakeSlot
  <2> QED
    BY <1>23, <2>1, <2>2 DEF TakeSlot
<1>24. CASE PollForSlot(t)
  <2>1. CASE Raise(t, "other") /\ idle' = idle
    BY <1>24, <2>1, RaiseKeeps
  <2>2. CASE \E ks \in IdleKeys(Head1(t).name) :
               Take(ks) /\ Replace(t, {[Next1(t) EXCEPT !.keys = @ \cup ks]})
    BY <1>24, <2>2, TakingKeeps DEF PollForSlot
  <2> QED
    BY <1>24, <2>1, <2>2 DEF PollForSlot
<1>25. CASE LookForSlot(t)
  BY <1>25, GoKeeps, RaiseKeeps DEF LookForSlot, runVars
<1>26. CASE BorrowSlot(t)
  <2> DEFINE w == Next1(t)
             p == {<<Head1(t).name, CHOOSE k \in KeyOf[Head1(t).name] : TRUE>>}
             n == [w EXCEPT !.lent = p]
  <2>1. Replace(t, {n}) /\ idle' = idle
    BY <1>26 DEF BorrowSlot, runVars
  <2>2. Heir(w, t)
    BY WithIsHeir DEF Inv, Sound, Next1
  <2> HIDE DEF w, p
  <2>3. Heir(n, t)
    BY <2>2, SetLent DEF Heir, OnMaster
  <2> HIDE DEF n
  <2> QED
    BY <2>1, <2>3, HeirOfOne
<1>27. CASE GiveSlots(t)
  BY <1>27, GivingKeeps
<1> QED
  BY <1>1, <1>2, <1>3, <1>4, <1>5, <1>6, <1>7, <1>8, <1>9, <1>10, <1>11, <1>12, <1>13, <1>14, <1>15, <1>16, <1>17, <1>18, <1>19, <1>20, <1>21, <1>22, <1>23, <1>24, <1>25, <1>26, <1>27 DEF StepOf

\* The pool is full at the start.
LEMMA InitIsSound == Init => Inv
<1> SUFFICES ASSUME Init PROVE Inv
  OBVIOUS
<1>1. \A t \in threads : IsThread(t) /\ t.keys = {}
  BY NewThread DEF Init
<1> QED
  BY <1>1 DEF Inv, Sound, Shaped, Apart, Held

\* Inv is inductive, for every script.
LEMMA InvIsInductive == Inv /\ [Next]_vars => Inv'
<1> SUFFICES ASSUME Inv, [Next]_vars PROVE Inv'
  OBVIOUS
<1>1. ASSUME NEW t \in threads, Turn(t), StepOf(t) PROVE Inv'
  BY <1>1, StepKeeps
<1>2. CASE FireTimer
  BY <1>2, CallKeeps DEF FireTimer
<1>3. CASE Restart
  BY <1>3, RestartKeeps
<1>4. CASE UNCHANGED vars
  BY <1>4 DEF vars, Inv, Sound, Apart, Held
<1> QED
  BY <1>1, <1>2, <1>3, <1>4 DEF Next

\* For all scripts, routes, keys, requests and faults: no settle-admin key is
\* held by two runs, and none is in the pool while a run holds it
\* (settleContractPool.ts:42-44; shiftSettle*, unshiftSettle*, the polls of
\* MemberCard.ts:347-405 and the blocks that return a key of another's run).
THEOREM KeysAreExclusive == Spec => []KeysExclusive
<1>1. Inv => KeysExclusive
  BY DEF Inv, Sound, KeysExclusive
<1> QED
  BY <1>1, InitIsSound, InvIsInductive, PTL DEF Spec

CONSTANT Places   \* sets of places, as ServicePlaces has them

\* The scripts obey.
Rules == Obeyed(Routes, Places)

------------------------------------------------------------------------------
(* Places of threads.                                                      *)

\* n is a later state of the run t, or a block of it.
Kin(n, t) ==
  IsThread(n) /\ n.q = t.q /\ n.name = t.name /\ n.conn = t.conn /\ n.again = t.again

\* The place of a thread that goes on with s.
LEMMA WithSeen ==
  ASSUME NEW t, IsThread(t), NEW s, NEW o
  PROVE  /\ Seen(With(t, s), o) = With(Seen(t, o), s)
         /\ Kin(With(t, s), t)
         /\ With(t, s).keys = t.keys /\ With(t, s).lent = t.lent
         /\ With(t, s).kind = t.kind
         /\ With(Seen(t, o), s) = [kind |-> t.kind, name |-> t.name, conn |-> t.conn, job |-> t.job,
               rest |-> AfterTry(s), err |-> t.err, holds |-> {p[1] : p \in t.keys}, lent |-> {y[1] : y \in t.lent}, open |-> o]
<1> DEFINE r == AfterTry(s)
           h == {p[1] : p \in t.keys}
           l == {p[1] : p \in t.lent}
<1> HIDE DEF r, h, l
<1>1. With(t, s) = [q |-> t.q, kind |-> t.kind, name |-> t.name, conn |-> t.conn, job |-> t.job,
       rest |-> r, again |-> t.again, keys |-> t.keys, lent |-> t.lent, err |-> t.err]
  <2>1. With(t, s) = [t EXCEPT !.rest = r]
    BY DEF With, r
  <2> QED
    BY <2>1 DEF IsThread
<1>2. Seen(With(t, s), o) = [kind |-> t.kind, name |-> t.name, conn |-> t.conn, job |-> t.job,
               rest |-> r, err |-> t.err, holds |-> h, lent |-> l, open |-> o]
  BY <1>1 DEF Seen, h, l
<1>3. Seen(t, o) = [kind |-> t.kind, name |-> t.name, conn |-> t.conn, job |-> t.job,
               rest |-> t.rest, err |-> t.err, holds |-> h, lent |-> l, open |-> o]
  BY DEF Seen, h, l
<1>4. With(Seen(t, o), s) = [Seen(t, o) EXCEPT !.rest = r]
  BY DEF With, r
<1>5. With(Seen(t, o), s) = [kind |-> t.kind, name |-> t.name, conn |-> t.conn, job |-> t.job,
               rest |-> r, err |-> t.err, holds |-> h, lent |-> l, open |-> o]
  BY <1>3, <1>4
<1> QED
  BY <1>1, <1>2, <1>5 DEF Kin, IsThread, r, h, l

\* Setting one field of a thread.
LEMMA ErrSeen ==
  ASSUME NEW t, IsThread(t), NEW x, NEW o
  PROVE  /\ Seen([t EXCEPT !.err = x], o) = [Seen(t, o) EXCEPT !.err = x]
         /\ Kin([t EXCEPT !.err = x], t)
         /\ [t EXCEPT !.err = x].keys = t.keys
<1>1. [t EXCEPT !.err = x] = [q |-> t.q, kind |-> t.kind, name |-> t.name, conn |-> t.conn, job |-> t.job,
           rest |-> t.rest, again |-> t.again, keys |-> t.keys, lent |-> t.lent, err |-> x]
  BY DEF IsThread
<1> DEFINE g == {p[1] : p \in t.keys}
<1>2. Seen(t, o) = [kind |-> t.kind, name |-> t.name, conn |-> t.conn, job |-> t.job, rest |-> t.rest, err |-> t.err, holds |-> g, lent |-> {y[1] : y \in t.lent}, open |-> o]
  BY DEF Seen
<1>3. Seen([t EXCEPT !.err = x], o) = [kind |-> t.kind, name |-> t.name, conn |-> t.conn, job |-> t.job, rest |-> t.rest, err |-> x, holds |-> g, lent |-> {y[1] : y \in t.lent}, open |-> o]
  BY <1>1 DEF Seen
<1> HIDE DEF g
<1> QED
  BY <1>1, <1>2, <1>3 DEF Kin, IsThread

\* The place after borrowing,
LEMMA LentSeen ==
  ASSUME NEW t, IsThread(t), NEW x, NEW o
  PROVE  /\ Seen([t EXCEPT !.lent = x], o) = [Seen(t, o) EXCEPT !.lent = {p[1] : p \in x}]
         /\ Kin([t EXCEPT !.lent = x], t)
         /\ [t EXCEPT !.lent = x].lent = x
         /\ [t EXCEPT !.lent = x].keys = t.keys
<1>1. [t EXCEPT !.lent = x] = [q |-> t.q, kind |-> t.kind, name |-> t.name, conn |-> t.conn, job |-> t.job,
           rest |-> t.rest, again |-> t.again, keys |-> t.keys, lent |-> x, err |-> t.err]
  BY DEF IsThread
<1> DEFINE h == {p[1] : p \in x}
<1>2. Seen([t EXCEPT !.lent = x], o) = [Seen(t, o) EXCEPT !.lent = h]
  <2> DEFINE g == {p[1] : p \in t.keys}
             l == {p[1] : p \in t.lent}
  <2>1. Seen(t, o) = [kind |-> t.kind, name |-> t.name, conn |-> t.conn, job |-> t.job,
               rest |-> t.rest, err |-> t.err, holds |-> g, lent |-> l, open |-> o]
    BY DEF Seen
  <2>2. Seen([t EXCEPT !.lent = x], o) = [kind |-> t.kind, name |-> t.name, conn |-> t.conn, job |-> t.job,
               rest |-> t.rest, err |-> t.err, holds |-> g, lent |-> h, open |-> o]
    BY <1>1 DEF Seen
  <2> HIDE DEF g, h, l
  <2> QED
    BY <2>1, <2>2
<1> QED
  BY <1>1, <1>2 DEF Kin, IsThread

\* after taking or returning keys,
LEMMA KeysSeen ==
  ASSUME NEW t, IsThread(t), NEW x, NEW o
  PROVE  /\ Seen([t EXCEPT !.keys = x], o) = [Seen(t, o) EXCEPT !.holds = {p[1] : p \in x}]
         /\ Kin([t EXCEPT !.keys = x], t)
         /\ [t EXCEPT !.keys = x].keys = x
<1>1. [t EXCEPT !.keys = x] = [q |-> t.q, kind |-> t.kind, name |-> t.name, conn |-> t.conn, job |-> t.job,
           rest |-> t.rest, again |-> t.again, keys |-> x, lent |-> t.lent, err |-> t.err]
  BY DEF IsThread
<1> DEFINE h == {p[1] : p \in x}
<1>2. Seen([t EXCEPT !.keys = x], o) = [Seen(t, o) EXCEPT !.holds = h]
  <2> DEFINE g == {p[1] : p \in t.keys}
  <2>1. Seen(t, o) = [kind |-> t.kind, name |-> t.name, conn |-> t.conn, job |-> t.job,
               rest |-> t.rest, err |-> t.err, holds |-> g, lent |-> {y[1] : y \in t.lent}, open |-> o]
    BY DEF Seen
  <2>2. Seen([t EXCEPT !.keys = x], o) = [kind |-> t.kind, name |-> t.name, conn |-> t.conn, job |-> t.job,
               rest |-> t.rest, err |-> t.err, holds |-> h, lent |-> {y[1] : y \in t.lent}, open |-> o]
    BY <1>1 DEF Seen
  <2> HIDE DEF g, h
  <2> QED
    BY <2>1, <2>2
<1> QED
  BY <1>1, <1>2 DEF Kin, IsThread

\* and of a block.
LEMMA KindSeen ==
  ASSUME NEW t, IsThread(t), NEW x, NEW o
  PROVE  /\ Seen([t EXCEPT !.kind = x], o) = [Seen(t, o) EXCEPT !.kind = x]
         /\ Kin([t EXCEPT !.kind = x], t)
         /\ [t EXCEPT !.kind = x].keys = t.keys
<1>1. [t EXCEPT !.kind = x] = [q |-> t.q, kind |-> x, name |-> t.name, conn |-> t.conn, job |-> t.job,
           rest |-> t.rest, again |-> t.again, keys |-> t.keys, lent |-> t.lent, err |-> t.err]
  BY DEF IsThread
<1> DEFINE g == {p[1] : p \in t.keys}
<1>2. Seen(t, o) = [kind |-> t.kind, name |-> t.name, conn |-> t.conn, job |-> t.job, rest |-> t.rest, err |-> t.err, holds |-> g, lent |-> {y[1] : y \in t.lent}, open |-> o]
  BY DEF Seen
<1>3. Seen([t EXCEPT !.kind = x], o) = [kind |-> x, name |-> t.name, conn |-> t.conn, job |-> t.job, rest |-> t.rest, err |-> t.err, holds |-> g, lent |-> {y[1] : y \in t.lent}, open |-> o]
  BY <1>1 DEF Seen
<1> HIDE DEF g
<1> QED
  BY <1>1, <1>2, <1>3 DEF Kin, IsThread

\* A new thread is at the place where its script begins.
LEMMA NewSeen ==
  ASSUME NEW q, NEW k, NEW n, NEW c
  PROVE  /\ IsThread(Thread(q, k, n, c))
         /\ Thread(q, k, n, c).q = q /\ Thread(q, k, n, c).conn = c
         /\ Thread(q, k, n, c).again \in BOOLEAN
         /\ Thread(q, k, n, c).keys = {}
         /\ Thread(q, k, n, c).kind = k /\ Thread(q, k, n, c).name = n
         /\ Thread(q, k, n, c).rest = Script[k][n]
         /\ \A o : Seen(Thread(q, k, n, c), o) = Entry(k, n, c, NoJob, o)
<1>1. {p[1] : p \in {}} = {}
  OBVIOUS
<1> QED
  BY <1>1 DEF Seen, Thread, Entry, IsThread

\* It was not put back.
LEMMA NewAgain ==
  ASSUME NEW q, NEW k, NEW n, NEW c
  PROVE  Thread(q, k, n, c).again = FALSE
BY DEF Thread

\* Its place before and after the step,
LEMMA NewPlace ==
  ASSUME NEW q, NEW k, NEW n, NEW c
  PROVE  /\ Place(Thread(q, k, n, c)) = Entry(k, n, c, NoJob, said[q][c] = "none")
         /\ Place(Thread(q, k, n, c))' = Entry(k, n, c, NoJob, said'[q][c] = "none")
<1> DEFINE t == Thread(q, k, n, c)
           o1 == said[q][c] = "none"
           o2 == said'[q][c] = "none"
<1>1. t.q = q /\ t.conn = c
  BY NewSeen
<1>0. \A o : Seen(t, o) = Entry(k, n, c, NoJob, o)
  BY NewSeen
<1> HIDE DEF t
<1>2. Place(t) = Seen(t, o1) /\ Place(t)' = Seen(t, o2)
  BY <1>1 DEF Place, Open
<1> HIDE DEF o1, o2
<1>3. Place(t) = Entry(k, n, c, NoJob, o1) /\ Place(t)' = Entry(k, n, c, NoJob, o2)
  BY <1>0, <1>2
<1> QED
  BY <1>3 DEF t, o1, o2

\* with an open connection.
LEMMA NewOpenPlace ==
  ASSUME NEW q, NEW k, NEW n, NEW c, said'[q][c] = "none"
  PROVE  Place(Thread(q, k, n, c))' = Entry(k, n, c, NoJob, TRUE)
<1> DEFINE t == Thread(q, k, n, c)
<1>1. t.q = q /\ t.conn = c
  BY NewSeen
<1>2. Seen(t, TRUE) = Entry(k, n, c, NoJob, TRUE)
  <2>1. {p[1] : p \in {}} = {}
    OBVIOUS
  <2> QED
    BY <2>1 DEF Seen, Thread, Entry
<1> HIDE DEF t
<1>3. Place(t)' = Seen(t, TRUE)
  BY <1>1 DEF Place, Open
<1> QED
  BY <1>2, <1>3 DEF t

\* A place has the fields of its thread.
LEMMA PlaceFields ==
  ASSUME NEW t
  PROVE  /\ Head1(Place(t)) = Head1(t) /\ Place(t).rest = t.rest
         /\ Place(t).conn = t.conn /\ Place(t).kind = t.kind /\ Place(t).name = t.name
         /\ Place(t).job = t.job /\ Place(t).err = t.err /\ Place(t).open = Open(t)
         /\ (OnMaster(Place(t)) <=> OnMaster(t)) /\ (IsHandler(Place(t)) <=> IsHandler(t))
BY DEF Place, Seen, Head1, OnMaster, IsHandler

\* A place names the chains of the keys.
LEMMA PlaceChains ==
  ASSUME NEW t
  PROVE  Place(t).holds = {p[1] : p \in t.keys} /\ Place(t).lent = {p[1] : p \in t.lent}
BY DEF Place, Seen

------------------------------------------------------------------------------
(* The invariant.                                                          *)

\* A job of a queue.
Job == [q : Request, conn : Conn, job : {p.job : p \in Places.all}, again : BOOLEAN]

Typed ==
  /\ \A t \in threads : IsThread(t) /\ t.q \in Request /\ t.again \in BOOLEAN
  /\ queue \in [Queue -> Seq(Job)]
  /\ calls \in [Queue -> Nat] /\ \A w \in Queue : calls[w] <= Len(queue[w])
  /\ said \in [Request -> [Conn -> Said]] /\ \A q \in Request : said[q]["none"] = "none"
  /\ repeated = {} /\ escaped = {}

\* Every run is where the scripts can be, and every job will begin there.
Placed ==
  /\ \A t \in threads : Place(t) \in Places.all
  /\ \A w \in Queue : \A i \in DOMAIN queue[w] : JobPlace(w, queue[w][i]) \in Places.all

\* Runs and queued jobs, under one name.
Jobs == {j \in Queue \X Nat : j[2] \in DOMAIN queue[j[1]]}
Parties == ({"run"} \X threads) \cup ({"job"} \X Jobs)
Of(x) == IF x[1] = "run" THEN x[2] ELSE queue[x[2][1]][x[2][2]]
At(x) == IF x[1] = "run" THEN Place(Of(x)) ELSE JobPlace(x[2][1], Of(x))

\* Two that have the same connection of the same request.
Share(x, y) == Of(x).q = Of(y).q /\ Of(x).conn = Of(y).conn /\ Of(x).conn # "none"

\* Runs and jobs that share a connection do not both answer without looking.
Voices == \A x, y \in Parties : x # y /\ Share(x, y) => Fits(Places, At(x), At(y))

\* Nobody will answer on the inner connection of q any more.
Unasked(q) == \A x \in Parties : Of(x).q = q /\ Of(x).conn = "inner" => At(x) \in Places.silent

\* One run of a request asks Master, and only when nobody is left who would
\* answer its last question.
Asked ==
  /\ \A x, y \in Parties : Of(x).q = Of(y).q /\ {At(x), At(y)} \subseteq Places.asks => x = y
  /\ \A x \in Parties : At(x) \in Places.asks /\ Head1(At(x)).op # "await" => Unasked(Of(x).q)

\* Whoever has heard Master has its answer.
Heard == \A t \in threads : Place(t) \in Places.heard => said[t.q]["inner"] # "none"

\* The inductive invariant.
Core == Inv /\ Typed /\ Placed /\ Voices /\ Asked /\ Heard

------------------------------------------------------------------------------
(* What a step of thread t does, at its place: N is where it goes, B the   *)
(* block it leaves beside it, E the run it begins at Master.               *)

Steps(t, N, B, E) ==
  /\ threads' = (threads \ {t}) \cup {n \in N \cup B \cup E : n.rest # <<>>}
  /\ \A n \in N : Kin(n, t) /\ Seen(n, Open(t)') \in Same(Place(t))
  /\ \A b \in B : Kin(b, t) /\ Seen(b, Open(t)') \in Beside(Place(t))
  /\ \A e \in E : IsThread(e) /\ e.q = t.q /\ e.again = FALSE /\ Place(e)' \in Begun(Place(t))
  /\ \A x, y \in N : x = y
  /\ \A x, y \in B : x = y
  /\ \A x, y \in E : x = y
  /\ N = {} => Escaping(Place(t))
  /\ Beside(Place(t)) # {} => B # {}
  /\ E # {} => Head1(t).op \in {"relay", "ask", "post"}
  /\ N = {} \/ Head1(t).op = "give" \/ \A s \in t.keys : \E n \in N \cup B : s \in n.keys

\* It says nothing;
Mute(t, N, E) ==
  /\ said' = said
  /\ N = {} \/ Head1(t).op \in {"say", "answer"} => ~Open(t) \/ t.conn = "none"
  /\ Head1(t).op = "relay" => E # {}
  /\ Head1(t).op = "ask" => E = {} /\ \A n \in N : Seen(n, Open(t)') \in Raised(Place(t))

\* it answers its connection, or would if it had one;
Voice(t, N, E) ==
  /\ Open(t) /\ E = {}
  /\ Head1(t).op \in {"say", "answer", "relay"} \/ (Escaping(Place(t)) /\ N = {})
  /\ \E a \in Said : /\ said' = [said EXCEPT ![t.q][t.conn] = a]
                     /\ a = "none" <=> t.conn = "none"
                     /\ t.conn # "none" => \E c \in Speech(Place(t)) : a = ClassOf(t.q, c)

\* it asks Master.
AsksMaster(t, N) ==
  /\ Head1(t).op = "ask" /\ N # {}
  /\ \A n \in N : Seen(n, Open(t)) \in Moved(Place(t))
  /\ said' = [said EXCEPT ![t.q]["inner"] = "none"]

Speaks(t, N, E) ==
  /\ Mute(t, N, E) \/ Voice(t, N, E) \/ AsksMaster(t, N)
  /\ repeated' = repeated /\ escaped' = escaped

Pushes(t) ==
  /\ Head1(t).op \in {"push", "pushsilent"}
  /\ \E job \in Job :
       /\ job.q = t.q /\ job.again = FALSE /\ (Head1(t).op = "push" => job.conn = t.conn)
       /\ JobPlace(Head1(t).name, job)' \in Begun(Place(t))
       /\ queue' = [queue EXCEPT ![Head1(t).name] = Append(@, job)]
  /\ calls' = [calls EXCEPT ![Head1(t).name] = @ + 1]

PutsBack(t) ==
  /\ Head1(t).op = "requeue"
  /\ \E job \in Job :
       /\ job.q = t.q /\ job.conn = t.conn /\ job.again = (t.again \/ t.err # "none")
       /\ JobPlace(t.name, job)' \in Begun(Place(t))
       /\ queue' = [queue EXCEPT ![t.name] = <<job>> \o @]
  /\ calls' = calls

Rings(t) ==
  /\ Head1(t).op = "again"
  /\ queue' = queue
  /\ calls' = [calls EXCEPT ![t.name] = More(@, queue[t.name])]

Queues(t) ==
  \/ /\ Head1(t).op \notin {"push", "pushsilent", "requeue", "again"}
     /\ queue' = queue /\ calls' = calls
  \/ Pushes(t) \/ PutsBack(t) \/ Rings(t)

Shape(t, N, B, E) == Steps(t, N, B, E) /\ Speaks(t, N, E)

\* A step that moves t on.
LEMMA GoSteps ==
  ASSUME Inv, NEW t \in threads, NEW s, Go(t, s),
         With(Seen(t, Open(t)'), s) \in Moved(Place(t)), Head1(t).op # "spawn"
  PROVE  Steps(t, {With(t, s)}, {}, {})
<1>1. IsThread(t)
  BY DEF Inv, Sound, Shaped
<1>2. /\ Kin(With(t, s), t) /\ Seen(With(t, s), Open(t)') \in Same(Place(t))
      /\ With(t, s).keys = t.keys
  BY <1>1, WithSeen DEF Same
<1>3. Beside(Place(t)) = {}
  BY PlaceFields DEF Beside
<1>4. threads' = (threads \ {t}) \cup {n \in {With(t, s)} : n.rest # <<>>}
  BY DEF Go, Replace
<1> DEFINE n == With(t, s)
<1>5. n.keys = t.keys /\ Kin(n, t) /\ Seen(n, Open(t)') \in Same(Place(t)) /\ threads' = (threads \ {t}) \cup {m \in {n} : m.rest # <<>>}
  BY <1>2, <1>4
<1> HIDE DEF n
<1>6. Steps(t, {n}, {}, {})
  BY <1>3, <1>5 DEF Steps
<1> QED
  BY <1>6 DEF n

\* A step that goes on in silence: where it goes,
LEMMA GoesTo ==
  ASSUME Inv, NEW t \in threads, NEW s, Go(t, s),
         With(Place(t), s) \in Moved(Place(t)),
         Head1(t).op \notin {"spawn", "say", "answer", "relay", "ask"},
         said' = said, repeated' = repeated, escaped' = escaped
  PROVE  \E N, B, E : Shape(t, N, B, E) /\ \A n \in N : Seen(n, Open(t)') = With(Place(t), s)
<1>1. With(Seen(t, Open(t)'), s) \in Moved(Place(t))
  BY DEF Open, Place
<1>0. Seen(With(t, s), Open(t)') = With(Place(t), s)
  BY WithSeen DEF Inv, Sound, Shaped, Open, Place
<1>2. Steps(t, {With(t, s)}, {}, {})
  BY <1>1, GoSteps
<1>3. Speaks(t, {With(t, s)}, {})
  BY DEF Speaks, Mute
<1> QED
  BY <1>0, <1>2, <1>3 DEF Shape

\* and its shape.
LEMMA GoQuietly ==
  ASSUME Inv, NEW t \in threads, NEW s, Go(t, s),
         With(Place(t), s) \in Moved(Place(t)),
         Head1(t).op \notin {"spawn", "say", "answer", "relay", "ask"},
         said' = said, repeated' = repeated, escaped' = escaped
  PROVE  \E N, B, E : Shape(t, N, B, E)
BY GoesTo

\* The rules of PlaceRules, of one place.
LEMMA PlacesObey ==
  ASSUME Rules, NEW p \in Places.all
  PROVE  /\ ~Ended(p) /\ p.conn \in Conn
         /\ \A n \in Own(p) : IF Ended(n) THEN n.holds = {} ELSE n \in Places.all
         /\ Begun(p) \subseteq Places.all
         /\ Escaping(p) => p.holds = {} /\ IsHandler(p)
         /\ Head1(p).op \in {"push", "pushsilent"} => Head1(p).name \in Queue
         /\ Head1(p).op = "requeue" => p.kind = "worker" /\ p.name \in Queue
BY DEF Rules, Obeyed, PlaceRules

\* A step that throws: where it goes,
LEMMA RaisesTo ==
  ASSUME Rules, Core, NEW t \in threads, NEW k \in Errors(Place(t)), Raise(t, k)
  PROVE  \E N, B, E : Shape(t, N, B, E) /\ \A n \in N : Seen(n, Open(t)') \in Raised(Place(t))
<1> DEFINE p == Place(t)
<1>1. IsThread(t) /\ p \in Places.all
  BY DEF Core, Inv, Sound, Shaped, Placed
<1>2. Head1(t).op \in {"risk", "mined", "write", "ask", "await", "poll", "throw", "send"}
  BY PlaceFields DEF Errors
<1>3. Beside(p) = {}
  BY <1>2, PlaceFields DEF Beside
<1>4. CASE Caught(t, k)
  <2> DEFINE w == With(t, Thrown(t.rest))
             n == [w EXCEPT !.err = k]
  <2>1. /\ threads' = (threads \ {t}) \cup {m \in {n} : m.rest # <<>>}
        /\ Handler(t.rest) # 0 /\ said' = said /\ repeated' = repeated /\ escaped' = escaped
    BY <1>4 DEF Caught, Replace, webVars
  <2>2. Kin(w, t) /\ Seen(w, Open(t)) = With(p, Thrown(p.rest)) /\ w.keys = t.keys
    BY <1>1, WithSeen, PlaceFields DEF Place
  <2> HIDE DEF w
  <2>3. n.keys = w.keys /\ Kin(n, w) /\ Seen(n, Open(t)) = [Seen(w, Open(t)) EXCEPT !.err = k]
    BY <2>2, ErrSeen DEF Kin
  <2> HIDE DEF n
  <2>4. Seen(n, Open(t)) \in Raised(p)
    BY <2>1, <2>2, <2>3, PlaceFields DEF Raised
  <2>5. Kin(n, t) /\ Open(t)' = Open(t) /\ Seen(n, Open(t)) \in Same(p)
    BY <2>1, <2>2, <2>3, <2>4 DEF Kin, Same, Open
  <2>6. Steps(t, {n}, {}, {})
    BY <1>3, <2>1, <2>2, <2>3, <2>5 DEF Steps
  <2>7. Speaks(t, {n}, {})
    BY <1>2, <2>1, <2>4, <2>5 DEF Speaks, Mute
  <2>8. Shape(t, {n}, {}, {}) /\ Seen(n, Open(t)') \in Raised(p)
    BY <2>4, <2>5, <2>6, <2>7 DEF Shape
  <2> HIDE DEF p
  <2>9. \A m \in {n} : Seen(m, Open(t)') \in Raised(p)
    BY <2>8
  <2>10. \E N, B, E : Shape(t, N, B, E) /\ \A m \in N : Seen(m, Open(t)') \in Raised(p)
    BY <2>8, <2>9
  <2> QED
    BY <2>10 DEF p
<1>5. CASE Escapes(t)
  <2>1. Escaping(p)
    BY <1>5, PlaceFields DEF Escapes, Escaping
  <2>2. IsHandler(t)
    BY <1>1, <2>1, PlacesObey, PlaceFields
  <2>3. threads' = threads \ {t} /\ repeated' = repeated /\ escaped' = escaped
    BY <1>5, <2>2 DEF Escapes, Replace
  <2>4. Steps(t, {}, {}, {})
    BY <1>3, <2>1, <2>3 DEF Steps
  <2>5. Mute(t, {}, {}) \/ Voice(t, {}, {})
    <3>1. CASE Answered(t.q, t.conn)
      BY <1>2, <1>5, <2>2, <3>1 DEF Escapes, Mute, Open, Answered
    <3>2. CASE ~Answered(t.q, t.conn)
      <4>1. said' = [said EXCEPT ![t.q][t.conn] = IF t.conn = "none" THEN "none" ELSE "failed"] /\ Open(t)
        BY <1>5, <2>2, <3>2 DEF Escapes, Open, Answered, WriteAnswer, ClassOf
      <4>2. t.conn # "none" => "failed" \in Speech(p)
        BY <2>1, <2>2, <4>1, PlaceFields DEF Speech, IsHandler
      <4>3. ClassOf(t.q, "failed") = "failed"
        BY DEF ClassOf
      <4> QED
        BY <2>1, <4>1, <4>2, <4>3 DEF Voice, Said
    <3> QED
      BY <3>1, <3>2
  <2> QED
    BY <2>3, <2>4, <2>5 DEF Shape, Speaks
<1> QED
  BY <1>4, <1>5 DEF Raise

\* and its shape.
LEMMA RaiseShape ==
  ASSUME Rules, Core, NEW t \in threads, NEW k \in Errors(Place(t)), Raise(t, k)
  PROVE  \E N, B, E : Shape(t, N, B, E)
BY RaisesTo

\* A step that answers.
LEMMA ClosedSeen ==
  ASSUME NEW t, IsThread(t), NEW o, o = (t.conn = "none")
  PROVE  Closed(Next1(Place(t))) = With(Seen(t, o), Tail(t.rest))
<1>1. Next1(Place(t)) = With(Seen(t, Open(t)), Tail(t.rest))
  BY DEF Next1, Place, Seen
<1>2. \A x : With(Seen(t, x), Tail(t.rest)) =
         [kind |-> t.kind, name |-> t.name, conn |-> t.conn, job |-> t.job,
          rest |-> AfterTry(Tail(t.rest)), err |-> t.err, holds |-> {y[1] : y \in t.keys}, lent |-> {y[1] : y \in t.lent},
          open |-> x]
  BY WithSeen
<1> DEFINE h == {y[1] : y \in t.keys}
           r == AfterTry(Tail(t.rest))
           l == {y[1] : y \in t.lent}
<1> HIDE DEF h, r, l
<1>4. Next1(Place(t)) = [kind |-> t.kind, name |-> t.name, conn |-> t.conn, job |-> t.job,
          rest |-> r, err |-> t.err, holds |-> h, lent |-> l, open |-> Open(t)]
  BY <1>1, <1>2 DEF h, r, l
<1>5. Closed(Next1(Place(t))) = [kind |-> t.kind, name |-> t.name, conn |-> t.conn, job |-> t.job,
          rest |-> r, err |-> t.err, holds |-> h, lent |-> l, open |-> o]
  BY <1>4 DEF Closed
<1>6. With(Seen(t, o), Tail(t.rest)) = [kind |-> t.kind, name |-> t.name, conn |-> t.conn, job |-> t.job,
          rest |-> r, err |-> t.err, holds |-> h, lent |-> l, open |-> o]
  BY <1>2 DEF h, r, l
<1> QED
  BY <1>5, <1>6

\* A step that writes to the chain or the database and moves on.
LEMMA WriteShape ==
  ASSUME Rules, Core, NEW t \in threads, NEW a, WriteAnswer(t.q, t.conn, a),
         a \in Said \ {"none"} \/ (a = "inner" /\ Place(t) \in Places.heard),
         Open(t), Head1(t).op \in {"say", "answer", "relay"},
         a = (IF Head1(t).op = "relay" THEN "failed" ELSE Head1(t).name), Go(t, Tail(t.rest)),
         repeated' = repeated, escaped' = escaped
  PROVE  \E N, B, E : Shape(t, N, B, E)
<1>1. IsThread(t) /\ t.q \in Request /\ Place(t) \in Places.all
  BY DEF Core, Inv, Sound, Shaped, Placed, Typed
<1>2. t.conn \in Conn /\ said \in [Request -> [Conn -> Said]]
  BY <1>1, PlacesObey, PlaceFields DEF Core, Typed
<1> DEFINE b == IF t.conn = "none" THEN "none" ELSE ClassOf(t.q, a)
<1>3. said' = [said EXCEPT ![t.q][t.conn] = b]
  BY DEF WriteAnswer
<1>4. ClassOf(t.q, a) \in Said \ {"none"}
  <2>1. CASE a \in Said \ {"none"}
    BY <2>1 DEF ClassOf, Said
  <2>2. CASE a = "inner" /\ Place(t) \in Places.heard
    BY <1>1, <1>2, <2>2 DEF ClassOf, Core, Heard, Conn
  <2> QED
    BY <2>1, <2>2
<1>5. b \in Said /\ (b = "none" <=> t.conn = "none")
  BY <1>4 DEF Said
<1> HIDE DEF b
<1>6. Open(t)' = (t.conn = "none")
  BY <1>1, <1>2, <1>3, <1>5 DEF Open
<1>7. Closed(Next1(Place(t))) \in Moved(Place(t))
  BY PlaceFields DEF Moved
<1>8. Steps(t, {With(t, Tail(t.rest))}, {}, {})
  <2>1. With(Seen(t, Open(t)'), Tail(t.rest)) \in Moved(Place(t))
    BY <1>1, <1>6, <1>7, ClosedSeen
  <2> QED
    BY <2>1, GoSteps DEF Core
<1>9. t.conn # "none" => a \in Speech(Place(t)) /\ b = ClassOf(t.q, a)
  <2>1. t.conn # "none" => a \in Speech(Place(t))
    BY PlaceFields DEF Speech
  <2> QED
    BY <2>1 DEF b
<1>10. Speaks(t, {With(t, Tail(t.rest))}, {})
  BY <1>3, <1>5, <1>9 DEF Speaks, Voice
<1> QED
  BY <1>8, <1>10 DEF Shape

------------------------------------------------------------------------------
(* The shape of every step.                                                *)

\* A step that goes one of two ways.
Forks(t) == Head1(t).op \in {"either", "ifdone", "await"}

\* The two ways of a branch are moves of the place.
LEMMA ForkMoves ==
  ASSUME NEW t, Forks(t)
  PROVE  /\ With(Place(t), Head1(t).then \o Tail(t.rest)) \in Moved(Place(t))
         /\ With(Place(t), Head1(t).else \o Tail(t.rest)) \in Moved(Place(t))
<1> DEFINE p == Place(t)
<1>1. Head1(p) = Head1(t) /\ p.rest = t.rest
  BY PlaceFields
<1> HIDE DEF p
<1>2. Moved(p) = Branches(p, Head1(t).then, Head1(t).else)
  BY <1>1 DEF Moved, Forks
<1>3. /\ With(p, Head1(t).then \o Tail(t.rest)) \in Moved(p)
      /\ With(p, Head1(t).else \o Tail(t.rest)) \in Moved(p)
  BY <1>1, <1>2 DEF Branches, Goto
<1> QED
  BY <1>3 DEF p

\* Where the run begins that a request to Master makes.
LEMMA RequestBegins ==
  ASSUME NEW t
  PROVE  /\ Head1(t).op = "relay" => Begun(Place(t)) = {Entry("master", Head1(t).name, t.conn, NoJob, Open(t))}
         /\ Head1(t).op = "ask" => Begun(Place(t)) = {Entry("master", Head1(t).name, "inner", NoJob, TRUE)}
         /\ Head1(t).op = "post" => Begun(Place(t)) = {Entry("master", Head1(t).name, "none", NoJob, TRUE)}
<1> DEFINE p == Place(t)
           o == Open(t)
<1>1. Head1(p) = Head1(t) /\ p.rest = t.rest /\ p.conn = t.conn /\ p.open = o
  BY PlaceFields
<1> HIDE DEF p, o
<1>2. /\ Head1(t).op = "relay" => Begun(p) = {Entry("master", Head1(t).name, t.conn, NoJob, o)}
      /\ Head1(t).op = "ask" => Begun(p) = {Entry("master", Head1(t).name, "inner", NoJob, TRUE)}
      /\ Head1(t).op = "post" => Begun(p) = {Entry("master", Head1(t).name, "none", NoJob, TRUE)}
  BY <1>1 DEF Begun
<1> QED
  BY <1>2 DEF p, o

\* The shapes of the steps, one handler after the other: branches and blocks,
LEMMA ControlShape ==
  ASSUME Rules, Core, NEW t \in threads,
         \/ Choose(t) \/ InspectError(t) \/ RememberOutcome(t) \/ LookAtJob(t) \/ EnterTry(t) \/ EnterFinally(t) \/ Return(t) \/ LookForSlot(t)
  PROVE  (\E N, B, E : Shape(t, N, B, E)) /\ Queues(t)
<1>1. CASE Choose(t)
  <2>1. PICK s \in {Head1(t).then \o Tail(t.rest), Head1(t).else \o Tail(t.rest)} : Go(t, s)
    BY <1>1 DEF Choose
  <2>2. With(Place(t), s) \in Moved(Place(t))
    <3>1. Forks(t)
      BY <1>1 DEF Choose, Forks
    <3>2. /\ With(Place(t), Head1(t).then \o Tail(t.rest)) \in Moved(Place(t))
          /\ With(Place(t), Head1(t).else \o Tail(t.rest)) \in Moved(Place(t))
      BY <3>1, ForkMoves, Zenon
    <3> QED
      BY ONLY <2>1, <3>2
  <2>3. /\ Head1(t).op \notin {"spawn", "say", "answer", "relay", "ask", "push", "pushsilent", "requeue", "again"}
        /\ said' = said /\ repeated' = repeated /\ escaped' = escaped /\ queue' = queue /\ calls' = calls
    BY <1>1 DEF Choose, runVars, webVars
  <2> QED
    BY <2>1, <2>2, <2>3, GoQuietly DEF Core, Queues
<1>2. CASE InspectError(t)
  <2> DEFINE s == (IF t.err = Head1(t).name THEN Head1(t).then ELSE Head1(t).else) \o Tail(t.rest)
  <2>1. Go(t, s)
    BY <1>2 DEF InspectError
  <2>2. With(Place(t), s) \in Moved(Place(t))
    BY <1>2, PlaceFields DEF InspectError, Moved, Goto
  <2> HIDE DEF s
  <2>3. /\ Head1(t).op \notin {"spawn", "say", "answer", "relay", "ask", "push", "pushsilent", "requeue", "again"}
        /\ said' = said /\ repeated' = repeated /\ escaped' = escaped /\ queue' = queue /\ calls' = calls
    BY <1>2 DEF InspectError, runVars, webVars
  <2> QED
    BY <2>1, <2>2, <2>3, GoQuietly DEF Core, Queues
<1>3. CASE RememberOutcome(t)
  <2>1. PICK s \in {Head1(t).then \o Tail(t.rest), Head1(t).else \o Tail(t.rest)} : Go(t, s)
    BY <1>3 DEF RememberOutcome
  <2>2. With(Place(t), s) \in Moved(Place(t))
    BY <1>3, PlaceFields DEF RememberOutcome, Moved, Branches, Goto
  <2>3. /\ Head1(t).op \notin {"spawn", "say", "answer", "relay", "ask", "push", "pushsilent", "requeue", "again"}
        /\ said' = said /\ repeated' = repeated /\ escaped' = escaped /\ queue' = queue /\ calls' = calls
    BY <1>3 DEF RememberOutcome, runVars, webVars
  <2> QED
    BY <2>1, <2>2, <2>3, GoQuietly DEF Core, Queues
<1>4. CASE LookAtJob(t)
  <2> DEFINE s == (IF t.job = Head1(t).name THEN Head1(t).then ELSE Head1(t).else) \o Tail(t.rest)
  <2>1. Go(t, s)
    BY <1>4 DEF LookAtJob
  <2>2. With(Place(t), s) \in Moved(Place(t))
    BY <1>4, PlaceFields DEF LookAtJob, Moved, Goto
  <2> HIDE DEF s
  <2>3. /\ Head1(t).op \notin {"spawn", "say", "answer", "relay", "ask", "push", "pushsilent", "requeue", "again"}
        /\ said' = said /\ repeated' = repeated /\ escaped' = escaped /\ queue' = queue /\ calls' = calls
    BY <1>4 DEF LookAtJob, runVars, webVars
  <2> QED
    BY <2>1, <2>2, <2>3, GoQuietly DEF Core, Queues
<1>5. CASE EnterTry(t)
  <2> DEFINE s == Head1(t).then \o Head1(t).else \o Tail(t.rest)
  <2>1. Go(t, s)
    BY <1>5 DEF EnterTry
  <2>2. With(Place(t), s) \in Moved(Place(t))
    BY <1>5, PlaceFields DEF EnterTry, Moved, Goto
  <2> HIDE DEF s
  <2>3. /\ Head1(t).op \notin {"spawn", "say", "answer", "relay", "ask", "push", "pushsilent", "requeue", "again"}
        /\ said' = said /\ repeated' = repeated /\ escaped' = escaped /\ queue' = queue /\ calls' = calls
    BY <1>5 DEF EnterTry, runVars, webVars
  <2> QED
    BY <2>1, <2>2, <2>3, GoQuietly DEF Core, Queues
<1>6. CASE EnterFinally(t)
  <2> DEFINE s == Head1(t).then \o Tail(t.rest)
  <2>1. Go(t, s)
    BY <1>6 DEF EnterFinally
  <2>2. With(Place(t), s) \in Moved(Place(t))
    BY <1>6, PlaceFields DEF EnterFinally, Moved, Goto
  <2> HIDE DEF s
  <2>3. /\ Head1(t).op \notin {"spawn", "say", "answer", "relay", "ask", "push", "pushsilent", "requeue", "again"}
        /\ said' = said /\ repeated' = repeated /\ escaped' = escaped /\ queue' = queue /\ calls' = calls
    BY <1>6 DEF EnterFinally, runVars, webVars
  <2> QED
    BY <2>1, <2>2, <2>3, GoQuietly DEF Core, Queues
<1>7. CASE Return(t)
  <2> DEFINE s == Returned(Tail(t.rest))
  <2>1. Go(t, s)
    BY <1>7 DEF Return
  <2>2. With(Place(t), s) \in Moved(Place(t))
    BY <1>7, PlaceFields DEF Return, Moved, Goto
  <2> HIDE DEF s
  <2>3. /\ Head1(t).op \notin {"spawn", "say", "answer", "relay", "ask", "push", "pushsilent", "requeue", "again"}
        /\ said' = said /\ repeated' = repeated /\ escaped' = escaped /\ queue' = queue /\ calls' = calls
    BY <1>7 DEF Return, runVars, webVars
  <2> QED
    BY <2>1, <2>2, <2>3, GoQuietly DEF Core, Queues
<1>8. CASE LookForSlot(t)
  <2>1. PICK s \in {Head1(t).then \o Tail(t.rest), <<>> \o Tail(t.rest)} : Go(t, s)
    BY <1>8 DEF LookForSlot
  <2>2. With(Place(t), s) \in Moved(Place(t))
    BY <1>8, PlaceFields DEF LookForSlot, Moved, Branches, Goto
  <2>3. /\ Head1(t).op \notin {"spawn", "say", "answer", "relay", "ask", "push", "pushsilent", "requeue", "again"}
        /\ said' = said /\ repeated' = repeated /\ escaped' = escaped /\ queue' = queue /\ calls' = calls
    BY <1>8 DEF LookForSlot, runVars, webVars
  <2> QED
    BY <2>1, <2>2, <2>3, GoQuietly DEF Core, Queues
<1> QED
  BY <1>1, <1>2, <1>3, <1>4, <1>5, <1>6, <1>7, <1>8

\* A step that only goes on to the next.
LEMMA TailShape ==
  ASSUME Rules, Core, NEW t \in threads, Go(t, Tail(t.rest)),
         Head1(t).op \in {"risk", "send", "mined", "write", "post", "push", "pushsilent", "requeue", "again"},
         said' = said, repeated' = repeated, escaped' = escaped
  PROVE  \E N, B, E : Shape(t, N, B, E)
<1>1. With(Place(t), Tail(t.rest)) \in Moved(Place(t))
  BY PlaceFields DEF Moved, Next1
<1> QED
  BY <1>1, GoQuietly DEF Core

\* awaits,
LEMMA AwaitShape ==
  ASSUME Rules, Core, NEW t \in threads, Await(t)
  PROVE  (\E N, B, E : Shape(t, N, B, E)) /\ Queues(t)
<1>1. Head1(t).op = "risk" /\ queue' = queue /\ calls' = calls
  BY DEF Await, runVars
<1>2. CASE Go(t, Tail(t.rest)) /\ UNCHANGED <<webVars, escaped>>
  BY <1>1, <1>2, TailShape DEF Queues, webVars
<1>3. CASE \E k \in {"other"} : Raise(t, k)
  BY <1>1, <1>3, RaiseShape, PlaceFields DEF Queues, Errors
<1> QED
  BY <1>2, <1>3 DEF Await

\* transactions,
LEMMA SendTxShape ==
  ASSUME Rules, Core, NEW t \in threads, SendTx(t)
  PROVE  (\E N, B, E : Shape(t, N, B, E)) /\ Queues(t)
<1>1. Head1(t).op = "send" /\ queue' = queue /\ calls' = calls
  BY DEF SendTx, runVars
<1>2. CASE Go(t, Tail(t.rest)) /\ UNCHANGED <<webVars, escaped>>
  BY <1>1, <1>2, TailShape DEF Queues, webVars
<1>3. CASE \E k \in {"exists", "gas", "nonce", "other"} : Raise(t, k)
  BY <1>1, <1>3, RaiseShape, PlaceFields DEF Queues, Errors
<1> QED
  BY <1>2, <1>3 DEF SendTx

\* receipts,
LEMMA AwaitReceiptShape ==
  ASSUME Rules, Core, NEW t \in threads, AwaitReceipt(t)
  PROVE  (\E N, B, E : Shape(t, N, B, E)) /\ Queues(t)
<1>1. Head1(t).op = "mined" /\ queue' = queue /\ calls' = calls
  BY DEF AwaitReceipt, runVars
<1>2. CASE Go(t, Tail(t.rest)) /\ UNCHANGED <<webVars, escaped>>
  BY <1>1, <1>2, TailShape DEF Queues, webVars
<1>3. CASE \E k \in {"other"} : Raise(t, k)
  BY <1>1, <1>3, RaiseShape, PlaceFields DEF Queues, Errors
<1> QED
  BY <1>2, <1>3 DEF AwaitReceipt

\* rows,
LEMMA WriteRowShape ==
  ASSUME Rules, Core, NEW t \in threads, WriteRow(t)
  PROVE  (\E N, B, E : Shape(t, N, B, E)) /\ Queues(t)
<1>1. Head1(t).op = "write" /\ queue' = queue /\ calls' = calls
  BY DEF WriteRow, runVars
<1>2. CASE Go(t, Tail(t.rest)) /\ UNCHANGED <<webVars, escaped>>
  BY <1>1, <1>2, TailShape DEF Queues, webVars
<1>3. CASE \E k \in {"other"} : Raise(t, k)
  BY <1>1, <1>3, RaiseShape, PlaceFields DEF Queues, Errors
<1> QED
  BY <1>2, <1>3 DEF WriteRow

\* throws,
LEMMA ThrowErrorShape ==
  ASSUME Rules, Core, NEW t \in threads, ThrowError(t)
  PROVE  (\E N, B, E : Shape(t, N, B, E)) /\ Queues(t)
<1>1. Head1(t).op = "throw" /\ queue' = queue /\ calls' = calls /\ Raise(t, t.err)
  BY DEF ThrowError, runVars
<1>2. t.err \in Errors(Place(t))
  BY <1>1, PlaceFields DEF Errors
<1> QED
  BY <1>1, <1>2, RaiseShape DEF Queues

\* Master's answer,
LEMMA HearMasterShape ==
  ASSUME Rules, Core, NEW t \in threads, HearMaster(t)
  PROVE  (\E N, B, E : Shape(t, N, B, E)) /\ Queues(t)
<1>1. Head1(t).op = "await" /\ queue' = queue /\ calls' = calls
  BY DEF HearMaster, runVars
<1>2. CASE UNCHANGED <<webVars, escaped>>
           /\ \E s \in {Head1(t).then \o Tail(t.rest), Head1(t).else \o Tail(t.rest)} : Go(t, s)
  <2>1. PICK s \in {Head1(t).then \o Tail(t.rest), Head1(t).else \o Tail(t.rest)} : Go(t, s)
    BY <1>2
  <2>2. With(Place(t), s) \in Moved(Place(t))
    <3>1. Forks(t)
      BY <1>1 DEF Forks
    <3>2. /\ With(Place(t), Head1(t).then \o Tail(t.rest)) \in Moved(Place(t))
          /\ With(Place(t), Head1(t).else \o Tail(t.rest)) \in Moved(Place(t))
      BY <3>1, ForkMoves, Zenon
    <3> QED
      BY ONLY <2>1, <3>2
  <2> QED
    BY <1>1, <1>2, <2>1, <2>2, GoQuietly DEF Core, Queues, webVars
<1>3. CASE Raise(t, "other")
  BY <1>1, <1>3, RaiseShape, PlaceFields DEF Queues, Errors
<1> QED
  BY <1>2, <1>3 DEF HearMaster

\* The rules of VoiceRules, of one place.
LEMMA VoiceObey ==
  ASSUME Rules, Core, NEW t \in threads
  PROVE  /\ Head1(t).op \in {"answer", "relay"} => Open(t)
         /\ Head1(t).op \in {"say", "answer"} =>
              Head1(t).name \in Said \ {"none"} \/ (Head1(t).name = "inner" /\ Place(t) \in Places.heard)
         /\ t.conn = "none" => Open(t)
<1> DEFINE p == Place(t)
<1>1. p \in Places.all
  BY DEF Core, Placed
<1>2. /\ Head1(p).op \in {"answer", "relay"} => p.open
      /\ Head1(p).op \in {"say", "answer"} => Head1(p).name \in (Said \ {"none"}) \cup {"inner"}
      /\ p.conn = "none" => p.open
  BY <1>1 DEF Rules, Obeyed, VoiceRules
<1>3. Head1(p).op \in {"say", "answer"} /\ Head1(p).name = "inner" => p \in Places.heard
  BY <1>1 DEF Rules, Obeyed, AskRules
<1> QED
  BY <1>2, <1>3, PlaceFields

\* an answer if there is none yet,
LEMMA SayAnswerShape ==
  ASSUME Rules, Core, NEW t \in threads, SayAnswer(t)
  PROVE  (\E N, B, E : Shape(t, N, B, E)) /\ Queues(t)
<1>1. /\ Head1(t).op = "say" /\ queue' = queue /\ calls' = calls /\ Go(t, Tail(t.rest))
      /\ repeated' = repeated /\ escaped' = escaped
  BY DEF SayAnswer, runVars
<1>2. CASE Answered(t.q, t.conn)
  <2>1. said' = said /\ ~Open(t)
    BY <1>2 DEF SayAnswer, Answered, Open
  <2>2. t.conn # "none"
    BY <2>1, VoiceObey
  <2>3. IsThread(t)
    BY DEF Core, Inv, Sound, Shaped
  <2>4. With(Seen(t, FALSE), Tail(t.rest)) \in Moved(Place(t))
    <3>1. \A o : o = (t.conn = "none") => With(Seen(t, o), Tail(t.rest)) \in Moved(Place(t))
      BY <1>1, <2>3, ClosedSeen, PlaceFields DEF Moved
    <3> QED
      BY <2>2, <3>1
  <2>5. Open(t)' = FALSE
    BY <2>1 DEF Open
  <2>6. Steps(t, {With(t, Tail(t.rest))}, {}, {})
    BY <1>1, <2>4, <2>5, GoSteps DEF Core
  <2>7. Speaks(t, {With(t, Tail(t.rest))}, {})
    BY <1>1, <2>1 DEF Speaks, Mute
  <2> QED
    BY <1>1, <2>6, <2>7 DEF Shape, Queues
<1>3. CASE ~Answered(t.q, t.conn)
  BY <1>1, <1>3, WriteShape, VoiceObey DEF SayAnswer, Answered, Open, Queues
<1> QED
  BY <1>2, <1>3

\* an answer that would throw if there were one,
LEMMA GiveAnswerShape ==
  ASSUME Rules, Core, NEW t \in threads, GiveAnswer(t)
  PROVE  (\E N, B, E : Shape(t, N, B, E)) /\ Queues(t)
<1>1. Head1(t).op = "answer" /\ queue' = queue /\ calls' = calls
  BY DEF GiveAnswer, runVars
<1>2. Open(t) /\ ~Answered(t.q, t.conn)
  BY <1>1, VoiceObey DEF Open, Answered
<1> QED
  BY <1>1, <1>2, WriteShape, VoiceObey DEF GiveAnswer, Queues

\* A step that goes on and begins a run at Master.
LEMMA BeginSteps ==
  ASSUME Rules, Core, NEW t \in threads, NEW s, NEW e,
         Replace(t, {With(t, s), e}), With(Seen(t, Open(t)'), s) \in Moved(Place(t)),
         Head1(t).op \in {"relay", "ask", "post"},
         IsThread(e), e.q = t.q, e.again = FALSE, Place(e)' \in Begun(Place(t))
  PROVE  Steps(t, {With(t, s)}, {}, {e})
<1> DEFINE n == With(t, s)
<1>1. IsThread(t)
  BY DEF Core, Inv, Sound, Shaped
<1>2. Kin(n, t) /\ Seen(n, Open(t)') \in Same(Place(t)) /\ n.keys = t.keys
  BY <1>1, WithSeen DEF Same
<1>3. Beside(Place(t)) = {}
  BY PlaceFields DEF Beside
<1>4. threads' = (threads \ {t}) \cup {m \in {n, e} : m.rest # <<>>}
  BY DEF Replace
<1> HIDE DEF n
<1>5. {n} \cup {} \cup {e} = {n, e}
  OBVIOUS
<1>6. Steps(t, {n}, {}, {e})
  BY <1>2, <1>3, <1>4, <1>5 DEF Steps
<1> QED
  BY <1>6 DEF n

\* handing the connection to Master,
LEMMA RelayRequestShape ==
  ASSUME Rules, Core, NEW t \in threads, RelayRequest(t)
  PROVE  (\E N, B, E : Shape(t, N, B, E)) /\ Queues(t)
<1>1. /\ Head1(t).op = "relay" /\ queue' = queue /\ calls' = calls
      /\ repeated' = repeated /\ escaped' = escaped
  BY DEF RelayRequest, runVars
<1> DEFINE e == Thread(t.q, "master", Head1(t).name, t.conn)
<1>2. CASE Replace(t, {Next1(t), e}) /\ said' = said
  <2>1. Place(e)' = Entry("master", Head1(t).name, t.conn, NoJob, Open(t))
    BY <1>2, NewPlace DEF Open
  <2>2. Place(e)' \in Begun(Place(t))
    BY <1>1, <2>1, PlaceFields DEF Begun
  <2>3. IsThread(e) /\ e.q = t.q /\ e.again = FALSE
    <3>1. IsThread(e) /\ e.q = t.q
      BY NewSeen
    <3>2. e.again = FALSE
      BY NewAgain
    <3> QED
      BY <3>1, <3>2
  <2>4. With(Seen(t, Open(t)'), Tail(t.rest)) \in Moved(Place(t))
    BY <1>1, <1>2, PlaceFields DEF Moved, Next1, Place, Open
  <2>5. Replace(t, {With(t, Tail(t.rest)), e})
    BY <1>2 DEF Next1
  <2> HIDE DEF e
  <2>6. Steps(t, {With(t, Tail(t.rest))}, {}, {e})
    BY <1>1, <2>2, <2>3, <2>4, <2>5, BeginSteps
  <2>7. Speaks(t, {With(t, Tail(t.rest))}, {e})
    BY <1>1, <1>2 DEF Speaks, Mute
  <2> QED
    BY <1>1, <2>6, <2>7 DEF Shape, Queues
<1>3. CASE WriteAnswer(t.q, t.conn, "failed") /\ Go(t, Tail(t.rest))
  <2>1. Open(t)
    BY <1>1, VoiceObey
  <2> QED
    BY <1>1, <1>3, <2>1, WriteShape DEF Queues, Said
<1> QED
  BY <1>2, <1>3 DEF RelayRequest

\* asking Master,
LEMMA AskMasterShape ==
  ASSUME Rules, Core, NEW t \in threads, AskMaster(t)
  PROVE  (\E N, B, E : Shape(t, N, B, E)) /\ Queues(t)
<1>1. Head1(t).op = "ask" /\ queue' = queue /\ calls' = calls
  BY DEF AskMaster, runVars
<1> DEFINE e == Thread(t.q, "master", Head1(t).name, "inner")
           s == Step("await", "inner", Head1(t).then, Head1(t).else) \o Tail(t.rest)
<1>2. CASE /\ Replace(t, {With(t, s), e})
           /\ said' = [said EXCEPT ![t.q]["inner"] = "none"]
           /\ repeated' = repeated /\ escaped' = escaped
  <2>1. Place(t) \in Places.all /\ t.q \in Request /\ said \in [Request -> [Conn -> Said]]
    BY DEF Core, Placed, Typed
  <2>2. Place(t) \in Places.asks
    BY <1>1, <2>1, PlaceFields DEF Rules, Obeyed, AskRules
  <2>3. t.conn # "inner"
    BY <2>2, PlaceFields DEF Rules, Obeyed, AskRules
  <2>4. Open(t)' = Open(t) /\ said'[t.q]["inner"] = "none"
    BY <1>2, <2>1, <2>3 DEF Open, Conn
  <2>5. Place(e)' = Entry("master", Head1(t).name, "inner", NoJob, TRUE)
    BY <2>4, NewOpenPlace
  <2>6. Place(e)' \in Begun(Place(t))
    <3> HIDE DEF e
    <3> QED
      BY <1>1, <2>5, RequestBegins
  <2>7. IsThread(e) /\ e.q = t.q /\ e.again = FALSE
    <3>1. IsThread(e) /\ e.q = t.q
      BY NewSeen
    <3>2. e.again = FALSE
      BY NewAgain
    <3> QED
      BY <3>1, <3>2
  <2>8. With(Place(t), s) \in Moved(Place(t))
    BY <1>1, PlaceFields DEF Moved, Goto
  <2> HIDE DEF e, s
  <2>9. With(Seen(t, Open(t)'), s) \in Moved(Place(t))
    BY <2>4, <2>8 DEF Place
  <2>10. Steps(t, {With(t, s)}, {}, {e})
    BY <1>1, <1>2, <2>6, <2>7, <2>9, BeginSteps
  <2>11. Seen(With(t, s), Open(t)) \in Moved(Place(t))
    BY <2>8, WithSeen DEF Core, Inv, Sound, Shaped, Place
  <2>12. Speaks(t, {With(t, s)}, {e})
    BY <1>1, <1>2, <2>11 DEF Speaks, AsksMaster
  <2> QED
    BY <1>1, <2>10, <2>12 DEF Shape, Queues
<1>3. CASE Raise(t, "other")
  BY <1>1, <1>3, RaiseShape, PlaceFields DEF Queues, Errors
<1> QED
  BY <1>2, <1>3 DEF AskMaster

\* posting to Master,
LEMMA PostRequestShape ==
  ASSUME Rules, Core, NEW t \in threads, PostRequest(t)
  PROVE  (\E N, B, E : Shape(t, N, B, E)) /\ Queues(t)
<1>1. /\ Head1(t).op = "post" /\ queue' = queue /\ calls' = calls
      /\ said' = said /\ repeated' = repeated /\ escaped' = escaped
  BY DEF PostRequest, runVars, webVars
<1> DEFINE e == Thread(t.q, "master", Head1(t).name, "none")
<1>2. CASE Replace(t, {Next1(t), e})
  <2>1. t.q \in Request /\ said[t.q]["none"] = "none"
    BY DEF Core, Typed
  <2>2. Place(e)' = Entry("master", Head1(t).name, "none", NoJob, TRUE)
    BY <1>1, <2>1, NewOpenPlace
  <2>3. Place(e)' \in Begun(Place(t))
    <3> HIDE DEF e
    <3> QED
      BY <1>1, <2>2, RequestBegins
  <2>4. IsThread(e) /\ e.q = t.q /\ e.again = FALSE
    <3>1. IsThread(e) /\ e.q = t.q
      BY NewSeen
    <3>2. e.again = FALSE
      BY NewAgain
    <3> QED
      BY <3>1, <3>2
  <2>5. With(Seen(t, Open(t)'), Tail(t.rest)) \in Moved(Place(t))
    BY <1>1, PlaceFields DEF Moved, Next1, Place, Open
  <2>6. Replace(t, {With(t, Tail(t.rest)), e})
    BY <1>2 DEF Next1
  <2> HIDE DEF e
  <2>7. Steps(t, {With(t, Tail(t.rest))}, {}, {e})
    BY <1>1, <2>3, <2>4, <2>5, <2>6, BeginSteps
  <2>8. Speaks(t, {With(t, Tail(t.rest))}, {e})
    BY <1>1 DEF Speaks, Mute
  <2> QED
    BY <1>1, <2>7, <2>8 DEF Shape, Queues
<1>3. CASE Go(t, Tail(t.rest))
  BY <1>1, <1>3, TailShape DEF Queues
<1> QED
  BY <1>2, <1>3 DEF PostRequest

\* queueing a job,
LEMMA PushJobShape ==
  ASSUME Rules, Core, NEW t \in threads, PushJob(t)
  PROVE  (\E N, B, E : Shape(t, N, B, E)) /\ Queues(t)
<1> DEFINE c == IF Head1(t).op = "push" THEN t.conn ELSE "none"
           w == Head1(t).name
           j == JobOf(Head1(t))
           job == [q |-> t.q, conn |-> c, job |-> j, again |-> FALSE]
<1>1. /\ Head1(t).op \in {"push", "pushsilent"} /\ Go(t, Tail(t.rest))
      /\ said' = said /\ repeated' = repeated /\ escaped' = escaped
      /\ queue' = [queue EXCEPT ![w] = Append(@, job)]
      /\ calls' = [calls EXCEPT ![w] = @ + 1]
  BY DEF PushJob, webVars, JobOf
<1>2. t.q \in Request /\ said[t.q]["none"] = "none" /\ Place(t) \in Places.all
  BY DEF Core, Typed, Placed
<1>3. JobPlace(w, job)' = Entry("worker", w, c, j, said[t.q][c] = "none")
  BY <1>1 DEF JobPlace, Open
<1>4. Entry("worker", w, c, j, said[t.q][c] = "none") \in Begun(Place(t))
  <2>1. CASE Head1(t).op = "push"
    BY <2>1, PlaceFields DEF Begun, Open
  <2>2. CASE Head1(t).op = "pushsilent"
    <3>1. Begun(Place(t)) = {Entry("worker", w, "none", j, TRUE)}
      BY <2>2, PlaceFields DEF Begun
    <3> QED
      BY <1>2, <2>2, <3>1
  <2> QED
    BY <1>1, <2>1, <2>2
<1>5. c \in Conn
  BY <1>2, PlacesObey, PlaceFields DEF Conn
<1>6. j \in {p.job : p \in Places.all}
  <2>1. Entry("worker", w, c, j, said[t.q][c] = "none") \in Places.all
    BY <1>2, <1>4, PlacesObey
  <2>2. Entry("worker", w, c, j, said[t.q][c] = "none").job = j
    BY DEF Entry
  <2> HIDE DEF j, w, c
  <2> QED
    BY <2>1, <2>2
<1> HIDE DEF j
<1>7. job \in Job
  BY <1>2, <1>5, <1>6 DEF Job
<1>8. /\ job.q = t.q /\ job.again = FALSE /\ (Head1(t).op = "push" => job.conn = t.conn)
  OBVIOUS
<1>9. Queues(t)
  <2> HIDE DEF job, c
  <2> QED
    BY <1>1, <1>3, <1>4, <1>7, <1>8 DEF Queues, Pushes
<1> QED
  BY <1>1, <1>9, TailShape

\* putting it back,
LEMMA PutBackShape ==
  ASSUME Rules, Core, NEW t \in threads, PutBack(t)
  PROVE  (\E N, B, E : Shape(t, N, B, E)) /\ Queues(t)
<1> DEFINE a == t.again \/ t.err # "none"
           job == [q |-> t.q, conn |-> t.conn, job |-> t.job, again |-> a]
<1>1. /\ Head1(t).op = "requeue" /\ Go(t, Tail(t.rest))
      /\ said' = said /\ repeated' = repeated /\ escaped' = escaped
      /\ queue' = [queue EXCEPT ![t.name] = <<job>> \o @]
      /\ calls' = calls
  BY DEF PutBack, webVars
<1>2. t.q \in Request /\ t.again \in BOOLEAN /\ Place(t) \in Places.all
  BY DEF Core, Typed, Placed
<1>3. a \in BOOLEAN
  OBVIOUS
<1> HIDE DEF a
<1>4. JobPlace(t.name, job)' = Entry("worker", t.name, t.conn, t.job, Open(t))
  BY <1>1 DEF JobPlace, Open
<1>5. Entry("worker", t.name, t.conn, t.job, Open(t)) \in Begun(Place(t))
  BY <1>1, PlaceFields DEF Begun
<1>6. t.job \in {p.job : p \in Places.all} /\ t.conn \in Conn
  BY <1>2, PlacesObey, PlaceFields
<1>7. job \in Job
  BY <1>2, <1>3, <1>6 DEF Job
<1>8. job.q = t.q /\ job.conn = t.conn /\ job.again = (t.again \/ t.err # "none")
  BY DEF a
<1>9. Queues(t)
  <2> HIDE DEF job
  <2> QED
    BY <1>1, <1>4, <1>5, <1>7, <1>8 DEF Queues, PutsBack
<1> QED
  BY <1>1, <1>9, TailShape

\* calling the worker again,
LEMMA SetTimerShape ==
  ASSUME Rules, Core, NEW t \in threads, SetTimer(t)
  PROVE  (\E N, B, E : Shape(t, N, B, E)) /\ Queues(t)
BY TailShape DEF SetTimer, Queues, Rings, webVars

\* A step in silence after which t is n.
LEMMA OneQuietly ==
  ASSUME NEW t \in threads, NEW n, Replace(t, {n}), Kin(n, t),
         Seen(n, Open(t)) \in Moved(Place(t)), t.keys \subseteq n.keys \/ Head1(t).op = "give",
         Head1(t).op \notin {"spawn", "say", "answer", "relay", "ask"},
         said' = said, repeated' = repeated, escaped' = escaped
  PROVE  \E N, B, E : Shape(t, N, B, E)
<1>1. Seen(n, Open(t)') \in Same(Place(t))
  BY DEF Open, Same
<1>2. Beside(Place(t)) = {}
  BY PlaceFields DEF Beside
<1>3. threads' = (threads \ {t}) \cup {m \in {n} : m.rest # <<>>}
  BY DEF Replace
<1>4. Steps(t, {n}, {}, {})
  BY <1>1, <1>2, <1>3 DEF Steps
<1>5. Speaks(t, {n}, {})
  BY DEF Speaks, Mute
<1> QED
  BY <1>4, <1>5 DEF Shape

\* The keys taken are of the chains asked for.
LEMMA IdleChains ==
  ASSUME NEW ch, NEW ks \in IdleKeys(ch)
  PROVE  {x[1] : x \in ks} = Chains(ch)
<1>1. ks \in KeysOf(ch)
  BY DEF IdleKeys
<1>2. CASE ch = "both"
  <2>1. PICK s \in Slot : ks = {<<"base", s[2]>>, <<"conet", s[2]>>}
    BY <1>1, <1>2 DEF KeysOf
  <2>2. {x[1] : x \in ks} = {"base", "conet"}
    BY <2>1
  <2> QED
    BY <1>2, <2>2 DEF Chains
<1>3. CASE ch # "both"
  <2>1. PICK s \in Slot : s[1] = ch /\ ks = {s}
    BY <1>1, <1>3 DEF KeysOf
  <2> QED
    BY <1>3, <2>1 DEF Chains
<1> QED
  BY <1>2, <1>3

\* A step that takes keys.
LEMMA TakingShape ==
  ASSUME Core, NEW t \in threads, NEW ks \in IdleKeys(Head1(t).name),
         Replace(t, {[Next1(t) EXCEPT !.keys = @ \cup ks]}),
         Head1(t).op \in {"take", "poll"},
         said' = said, repeated' = repeated, escaped' = escaped
  PROVE  \E N, B, E : Shape(t, N, B, E)
<1> DEFINE w == Next1(t)
           k == t.keys \cup ks
           n == [w EXCEPT !.keys = k]
           h == {x[1] : x \in k}
<1>1. IsThread(t)
  BY DEF Core, Inv, Sound, Shaped
<1>2. Kin(w, t) /\ w.keys = t.keys /\ Seen(w, Open(t)) = Next1(Place(t))
  BY <1>1, WithSeen, PlaceFields DEF Next1, Place
<1>3. Replace(t, {n})
  BY <1>2
<1> HIDE DEF w, k
<1>3a. IsThread(w)
  BY <1>2 DEF Kin
<1>4. n.keys = k /\ Kin(n, w) /\ Seen(n, Open(t)) = [Seen(w, Open(t)) EXCEPT !.holds = {x[1] : x \in k}]
  BY ONLY <1>3a, KeysSeen, Zenon
<1>4a. t.keys \subseteq n.keys
  BY <1>4 DEF k
<1>5. {x[1] : x \in k} = {x[1] : x \in t.keys} \cup {x[1] : x \in ks}
  BY DEF k
<1>6. {x[1] : x \in k} = Place(t).holds \cup Chains(Head1(Place(t)).name)
  BY <1>5, IdleChains, PlaceFields, PlaceChains
<1> HIDE DEF n
<1>7. Seen(n, Open(t)) = Keyed(Place(t))
  BY <1>2, <1>4, <1>6 DEF Keyed
<1>8. Keyed(Place(t)) \in Moved(Place(t))
  BY PlaceFields DEF Moved
<1>9. Kin(n, t)
  BY <1>2, <1>4 DEF Kin
<1> QED
  BY <1>3, <1>4a, <1>7, <1>8, <1>9, OneQuietly

\* taking a key or none,
LEMMA TakeSlotShape ==
  ASSUME Rules, Core, NEW t \in threads, TakeSlot(t)
  PROVE  (\E N, B, E : Shape(t, N, B, E)) /\ Queues(t)
<1>1. /\ Head1(t).op = "take" /\ queue' = queue /\ calls' = calls
      /\ said' = said /\ repeated' = repeated /\ escaped' = escaped
  BY DEF TakeSlot, webVars
<1> DEFINE s == Head1(t).then \o Tail(t.rest)
<1>2. CASE Go(t, s)
  <2>1. With(Place(t), s) \in Moved(Place(t))
    BY <1>1, PlaceFields DEF Moved, Goto
  <2> HIDE DEF s
  <2> QED
    BY <1>1, <1>2, <2>1, GoQuietly DEF Core, Queues
<1>3. CASE \E ks \in IdleKeys(Head1(t).name) : Replace(t, {[Next1(t) EXCEPT !.keys = @ \cup ks]})
  BY <1>1, <1>3, TakingShape DEF Queues
<1> QED
  BY <1>2, <1>3 DEF TakeSlot

\* waiting for a key,
LEMMA PollForSlotShape ==
  ASSUME Rules, Core, NEW t \in threads, PollForSlot(t)
  PROVE  (\E N, B, E : Shape(t, N, B, E)) /\ Queues(t)
<1>1. Head1(t).op = "poll" /\ queue' = queue /\ calls' = calls
  BY DEF PollForSlot
<1>2. CASE UNCHANGED <<webVars, escaped>>
           /\ \E ks \in IdleKeys(Head1(t).name) : Replace(t, {[Next1(t) EXCEPT !.keys = @ \cup ks]})
  BY <1>1, <1>2, TakingShape DEF Queues, webVars
<1>3. CASE Raise(t, "other")
  BY <1>1, <1>3, RaiseShape, PlaceFields DEF Queues, Errors
<1> QED
  BY <1>2, <1>3 DEF PollForSlot

\* using another's wallet,
LEMMA BorrowSlotShape ==
  ASSUME Rules, Core, NEW t \in threads, BorrowSlot(t)
  PROVE  (\E N, B, E : Shape(t, N, B, E)) /\ Queues(t)
<1> DEFINE w == Next1(t)
           p == {<<Head1(t).name, CHOOSE k \in KeyOf[Head1(t).name] : TRUE>>}
           n == [w EXCEPT !.lent = p]
           l == {x[1] : x \in p}
<1>1. /\ Head1(t).op = "borrow" /\ queue' = queue /\ calls' = calls
      /\ said' = said /\ repeated' = repeated /\ escaped' = escaped /\ Replace(t, {n})
  BY DEF BorrowSlot, runVars, webVars
<1>2. IsThread(t)
  BY DEF Core, Inv, Sound, Shaped
<1>3. Kin(w, t) /\ Seen(w, Open(t)) = Next1(Place(t)) /\ w.keys = t.keys
  <2>1. Kin(w, t) /\ Seen(w, Open(t)) = Next1(Place(t))
    BY <1>2, WithSeen, PlaceFields DEF Next1, Place
  <2>2. w.keys = t.keys
    BY <1>2, WithSeen DEF Next1
  <2> QED
    BY <2>1, <2>2
<1>4. l = {Head1(t).name}
  OBVIOUS
<1>4a. IsThread(w)
  BY <1>3 DEF Kin
<1> HIDE DEF w, p
<1>5. n.keys = w.keys /\ Kin(n, w) /\ Seen(n, Open(t)) = [Seen(w, Open(t)) EXCEPT !.lent = l]
  BY ONLY <1>4a, LentSeen, Zenon DEF l
<1> HIDE DEF n, l
<1>6. Seen(n, Open(t)) = [Next1(Place(t)) EXCEPT !.lent = {Head1(t).name}]
  BY <1>3, <1>4, <1>5
<1>7. Seen(n, Open(t)) \in Moved(Place(t)) /\ Kin(n, t)
  BY <1>1, <1>3, <1>5, <1>6, PlaceFields DEF Moved, Kin
<1>8. t.keys \subseteq n.keys
  BY <1>3, <1>5
<1> QED
  BY <1>1, <1>7, <1>8, OneQuietly DEF Queues

\* returning the keys,
LEMMA GiveSlotsShape ==
  ASSUME Rules, Core, NEW t \in threads, GiveSlots(t)
  PROVE  (\E N, B, E : Shape(t, N, B, E)) /\ Queues(t)
<1> DEFINE w == Next1(t)
           n == [w EXCEPT !.keys = {}]
<1>1. /\ Head1(t).op = "give" /\ queue' = queue /\ calls' = calls
      /\ said' = said /\ repeated' = repeated /\ escaped' = escaped /\ Replace(t, {n})
  BY DEF GiveSlots, webVars
<1>2. IsThread(t)
  BY DEF Core, Inv, Sound, Shaped
<1>3. Kin(w, t) /\ Seen(w, Open(t)) = Next1(Place(t))
  BY <1>2, WithSeen, PlaceFields DEF Next1, Place
<1>4. {x[1] : x \in {}} = {}
  OBVIOUS
<1> HIDE DEF w
<1>5. Kin(n, w) /\ Seen(n, Open(t)) = [Seen(w, Open(t)) EXCEPT !.holds = {x[1] : x \in {}}]
  BY <1>3, KeysSeen DEF Kin
<1> HIDE DEF n
<1>6. Seen(n, Open(t)) = [Next1(Place(t)) EXCEPT !.holds = {}]
  BY <1>3, <1>4, <1>5
<1>7. Seen(n, Open(t)) \in Moved(Place(t)) /\ Kin(n, t)
  BY <1>1, <1>3, <1>5, <1>6, PlaceFields DEF Moved, Kin
<1> QED
  BY <1>1, <1>7, OneQuietly DEF Queues

\* and leaving a block beside.
LEMMA SpawnBlockShape ==
  ASSUME Rules, Core, NEW t \in threads, SpawnBlock(t)
  PROVE  (\E N, B, E : Shape(t, N, B, E)) /\ Queues(t)
<1> DEFINE p == Place(t)
           takes == \E i \in DOMAIN Head1(t).then : Head1(t).then[i].op = "give"
           kind == IF takes THEN t.kind ELSE IF OnMaster(t) THEN "block" ELSE "clusterblock"
           w == With(t, Head1(t).then)
           v == Next1(t)
           cLent == IF takes THEN {} ELSE {x \in t.keys : x[1] = "conet"}
           cKeys == IF takes THEN t.keys ELSE {}
           sKeys == IF takes THEN {} ELSE t.keys
           block == [w EXCEPT !.kind = kind]
           sends == [block EXCEPT !.lent = cLent]
           child == [sends EXCEPT !.keys = cKeys]
           self == [v EXCEPT !.keys = sKeys]
           lent == IF Takes(p) THEN {} ELSE p.holds \cap {"conet"}
           o == Open(t)
<1>1. /\ Head1(t).op = "spawn" /\ queue' = queue /\ calls' = calls
      /\ said' = said /\ repeated' = repeated /\ escaped' = escaped
      /\ Replace(t, {child, self})
  BY DEF SpawnBlock, runVars, webVars
<1>2. IsThread(t)
  BY DEF Core, Inv, Sound, Shaped
<1>3. Kin(w, t) /\ Seen(w, o) = With(p, Head1(p).then)
  BY <1>2, WithSeen, PlaceFields DEF Place
<1>4. Kin(v, t) /\ Seen(v, o) = Next1(p)
  BY <1>2, WithSeen, PlaceFields DEF Next1, Place
<1>5. Takes(p) <=> takes
  BY PlaceFields DEF Takes
<1>6. BlockKind(p) = kind
  BY <1>5, PlaceFields DEF BlockKind
<1>7. {x[1] : x \in cKeys} = IF Takes(p) THEN p.holds ELSE {}
  BY <1>5, PlaceChains
<1>8. {x[1] : x \in sKeys} = IF Takes(p) THEN {} ELSE p.holds
  BY <1>5, PlaceChains
<1>9. {x[1] : x \in cLent} = lent
  BY <1>5, PlaceChains
<1>10. Block(p) = [[[With(p, Head1(p).then) EXCEPT !.kind = kind] EXCEPT !.lent = lent]
                     EXCEPT !.holds = {x[1] : x \in cKeys}]
  BY <1>6, <1>7 DEF Block
<1>11. Spawner(p) = [Next1(p) EXCEPT !.holds = {x[1] : x \in sKeys}]
  BY <1>8 DEF Spawner
<1> HIDE DEF w, v, kind, cLent, cKeys, sKeys, lent, p, o
<1>12. Kin(block, t) /\ Seen(block, o) = [Seen(w, o) EXCEPT !.kind = kind]
  BY <1>3, KindSeen DEF Kin
<1> HIDE DEF block
<1>12a. IsThread(block)
  BY <1>12 DEF Kin
<1>12b. t.keys = cKeys \/ t.keys = sKeys
  BY DEF cKeys, sKeys
<1>13. Kin(sends, block) /\ Seen(sends, o) = [Seen(block, o) EXCEPT !.lent = {x[1] : x \in cLent}]
  BY ONLY <1>12a, LentSeen, Zenon
<1> HIDE DEF sends
<1>14. IsThread(sends) /\ IsThread(v)
  BY <1>4, <1>13 DEF Kin
<1>15. child.keys = cKeys /\ Kin(child, sends) /\ Seen(child, o) = [Seen(sends, o) EXCEPT !.holds = {x[1] : x \in cKeys}]
  BY ONLY <1>14, KeysSeen, Zenon
<1>16. self.keys = sKeys /\ Kin(self, v) /\ Seen(self, o) = [Seen(v, o) EXCEPT !.holds = {x[1] : x \in sKeys}]
  BY ONLY <1>14, KeysSeen, Zenon
<1> HIDE DEF child, self
<1>17. Kin(child, t) /\ Kin(self, t)
  BY <1>4, <1>12, <1>13, <1>15, <1>16 DEF Kin
<1>18. Seen(child, o) = Block(p)
  BY <1>3, <1>9, <1>10, <1>12, <1>13, <1>15
<1>19. Seen(self, o) = Spawner(p)
  BY <1>4, <1>11, <1>16
<1>20. Head1(p).op = "spawn"
  BY <1>1, PlaceFields DEF p
<1>21. Block(p) \in Beside(p) /\ Spawner(p) \in Same(p)
  BY <1>20 DEF Beside, Same, Moved
<1>22. Open(t)' = o
  BY <1>1 DEF Open, o
<1>23. threads' = (threads \ {t}) \cup {n \in {self} \cup {child} \cup {} : n.rest # <<>>}
  BY <1>1 DEF Replace
<1>24. Steps(t, {self}, {child}, {})
  BY <1>12b, <1>15, <1>16, <1>17, <1>18, <1>19, <1>21, <1>22, <1>23 DEF Steps, p
<1>25. Speaks(t, {self}, {})
  BY <1>1 DEF Speaks, Mute
<1> QED
  BY <1>1, <1>24, <1>25 DEF Shape, Queues

\* Every step of a run has a shape.
LEMMA StepShape ==
  ASSUME Rules, Core, NEW t \in threads, StepOf(t)
  PROVE  (\E N, B, E : Shape(t, N, B, E)) /\ Queues(t)
BY ControlShape, AwaitShape, SendTxShape, AwaitReceiptShape, WriteRowShape, ThrowErrorShape, HearMasterShape,
   SayAnswerShape, GiveAnswerShape, RelayRequestShape, AskMasterShape, PostRequestShape, PushJobShape,
   PutBackShape, SetTimerShape, TakeSlotShape, PollForSlotShape, BorrowSlotShape, GiveSlotsShape,
   SpawnBlockShape
   DEF StepOf

------------------------------------------------------------------------------
(* The parties after a step: each is one from before, or comes from the    *)
(* run that moved.                                                         *)

\* Party x of the next state is y: only its connection may have got an answer.
Keeps(x, y) ==
  /\ Of(x)'.q = Of(y).q /\ Of(x)'.conn = Of(y).conn /\ Of(x)'.again = Of(y).again
  /\ (Open(Of(y)) <=> said'[Of(y).q][Of(y).conn] = "none") => At(x)' = At(y)
  /\ said'[Of(y).q][Of(y).conn] = "none" => At(x)' = Flipped(At(y), TRUE)
  /\ said'[Of(y).q][Of(y).conn] # "none" => At(x)' = Flipped(At(y), FALSE)

\* A run as a party,
LEMMA RunParty ==
  ASSUME NEW t
  PROVE  /\ Of(<<"run", t>>) = t /\ Of(<<"run", t>>)' = t
         /\ At(<<"run", t>>) = Place(t) /\ At(<<"run", t>>)' = Place(t)'
         /\ (<<"run", t>> \in Parties <=> t \in threads)
         /\ (<<"run", t>> \in Parties' <=> t \in threads')
BY DEF Of, At, Parties

\* and a job as one.
LEMMA JobParty ==
  ASSUME NEW j
  PROVE  /\ Of(<<"job", j>>) = queue[j[1]][j[2]] /\ Of(<<"job", j>>)' = queue'[j[1]][j[2]]
         /\ At(<<"job", j>>) = JobPlace(j[1], queue[j[1]][j[2]])
         /\ At(<<"job", j>>)' = JobPlace(j[1], queue[j[1]][j[2]])'
         /\ (<<"job", j>> \in Parties <=> j \in Jobs)
         /\ (<<"job", j>> \in Parties' <=> j \in Jobs')
BY DEF Of, At, Parties

\* Flipping a place is seeing the thread with the other answer.
LEMMA FlippedSeen ==
  ASSUME NEW t, NEW a, NEW b
  PROVE  Flipped(Seen(t, a), b) = Seen(t, b)
<1> DEFINE h == {y[1] : y \in t.keys}
           l == {y[1] : y \in t.lent}
<1>1. \A o : Seen(t, o) = [kind |-> t.kind, name |-> t.name, conn |-> t.conn, job |-> t.job,
            rest |-> t.rest, err |-> t.err, holds |-> h, lent |-> l, open |-> o]
  BY DEF Seen
<1> HIDE DEF h, l
<1> QED
  BY <1>1 DEF Flipped

\* So it is where a run begins.
LEMMA FlippedEntry ==
  ASSUME NEW k, NEW n, NEW c, NEW j, NEW a, NEW b
  PROVE  Flipped(Entry(k, n, c, j, a), b) = Entry(k, n, c, j, b)
BY DEF Flipped, Entry

\* The two flips of a place.
LEMMA SeenFlips ==
  ASSUME NEW t
  PROVE  /\ Flipped(Place(t), TRUE) = Seen(t, TRUE) /\ Flipped(Place(t), FALSE) = Seen(t, FALSE)
BY FlippedSeen, Zenon DEF Place

\* A run that does not move is kept,
LEMMA RunIsKept ==
  ASSUME NEW t
  PROVE  Keeps(<<"run", t>>, <<"run", t>>)
<1>1. /\ said'[t.q][t.conn] = "none" => Place(t)' = Seen(t, TRUE)
      /\ said'[t.q][t.conn] # "none" => Place(t)' = Seen(t, FALSE)
      /\ said[t.q][t.conn] = "none" => Place(t) = Seen(t, TRUE)
      /\ said[t.q][t.conn] # "none" => Place(t) = Seen(t, FALSE)
  BY DEF Place, Open
<1>2. (Open(t) <=> said'[t.q][t.conn] = "none") => Place(t)' = Place(t)
  <2>1. CASE said[t.q][t.conn] = "none" /\ said'[t.q][t.conn] = "none"
    BY <1>1, <2>1
  <2>2. CASE said[t.q][t.conn] # "none" /\ said'[t.q][t.conn] # "none"
    BY <1>1, <2>2
  <2> QED
    BY <2>1, <2>2 DEF Open
<1>3. /\ said'[t.q][t.conn] = "none" => Place(t)' = Flipped(Place(t), TRUE)
      /\ said'[t.q][t.conn] # "none" => Place(t)' = Flipped(Place(t), FALSE)
  BY <1>1, SeenFlips
<1> DEFINE x == <<"run", t>>
<1>4. Of(x) = t /\ Of(x)' = t /\ At(x) = Place(t) /\ At(x)' = Place(t)'
  BY RunParty
<1> HIDE DEF x
<1>5. Keeps(x, x)
  BY <1>2, <1>3, <1>4 DEF Keeps
<1> QED
  BY <1>5 DEF x

\* and so is a job, wherever in the queue it is now.
LEMMA JobIsKept ==
  ASSUME NEW i, NEW j, i[1] = j[1], queue'[i[1]][i[2]] = queue[j[1]][j[2]]
  PROVE  Keeps(<<"job", i>>, <<"job", j>>)
<1> DEFINE w == j[1]
           z == queue[j[1]][j[2]]
           x == <<"job", i>>
           y == <<"job", j>>
<1>1. /\ Of(y) = z /\ Of(x)' = z /\ At(y) = JobPlace(w, z)
      /\ At(x)' = Entry("worker", w, z.conn, z.job, said'[z.q][z.conn] = "none")
  BY JobParty DEF JobPlace, Open
<1> HIDE DEF x, y, z, w
<1>2. /\ said'[z.q][z.conn] = "none" => At(x)' = Entry("worker", w, z.conn, z.job, TRUE)
      /\ said'[z.q][z.conn] # "none" => At(x)' = Entry("worker", w, z.conn, z.job, FALSE)
      /\ said[z.q][z.conn] = "none" => JobPlace(w, z) = Entry("worker", w, z.conn, z.job, TRUE)
      /\ said[z.q][z.conn] # "none" => JobPlace(w, z) = Entry("worker", w, z.conn, z.job, FALSE)
  BY <1>1 DEF JobPlace, Open
<1> DEFINE p == JobPlace(w, z)
<1>3. /\ Flipped(p, TRUE) = Entry("worker", w, z.conn, z.job, TRUE)
      /\ Flipped(p, FALSE) = Entry("worker", w, z.conn, z.job, FALSE)
  <2>1. \A a, b : Flipped(Entry("worker", w, z.conn, z.job, a), b) = Entry("worker", w, z.conn, z.job, b)
    BY FlippedEntry
  <2> QED
    BY ONLY <2>1, Zenon DEF JobPlace
<1>4. Keeps(x, y)
  BY <1>1, <1>2, <1>3 DEF Keeps, Open
<1> QED
  BY <1>4 DEF x, y

------------------------------------------------------------------------------
(* Queues.                                                                 *)

\* The jobs of the queues after one was appended,
LEMMA AppendedJobs ==
  ASSUME NEW w \in Queue, NEW T, NEW x, queue \in [Queue -> Seq(T)], x \in T,
         queue' = [queue EXCEPT ![w] = Append(@, x)]
  PROVE  LET k == <<w, Len(queue[w]) + 1>>
         IN /\ k \in Jobs' /\ k \notin Jobs /\ queue'[w][Len(queue[w]) + 1] = x
            /\ \A j \in Jobs' : j # k => j \in Jobs
            /\ \A j \in Jobs : j \in Jobs' /\ queue'[j[1]][j[2]] = queue[j[1]][j[2]]
<1> DEFINE s == queue[w]
<1>1. s \in Seq(T) /\ queue'[w] = Append(s, x) /\ \A v \in Queue : v # w => queue'[v] = queue[v]
  OBVIOUS
<1> HIDE DEF s
<1>2. /\ DOMAIN Append(s, x) = 1..(Len(s) + 1) /\ DOMAIN s = 1..Len(s) /\ Len(s) \in Nat
      /\ Append(s, x)[Len(s) + 1] = x
      /\ \A i \in 1..Len(s) : Append(s, x)[i] = s[i]
  BY <1>1
<1>3. \A j \in Jobs' : j \in Queue \X Nat /\ j = <<j[1], j[2]>> /\ j[2] \in DOMAIN queue'[j[1]]
  BY DEF Jobs
<1>4. \A j \in Jobs : j \in Queue \X Nat /\ j = <<j[1], j[2]>> /\ j[2] \in DOMAIN queue[j[1]]
  BY DEF Jobs
<1>5. <<w, Len(s) + 1>> \in Jobs' /\ <<w, Len(s) + 1>> \notin Jobs
  BY <1>1, <1>2 DEF Jobs, s
<1>6. \A j \in Jobs' : j # <<w, Len(s) + 1>> => j \in Jobs
  <2> SUFFICES ASSUME NEW j \in Jobs', j # <<w, Len(s) + 1>> PROVE j \in Jobs
    OBVIOUS
  <2>1. CASE j[1] = w
    <3>1. j[2] \in 1..Len(s)
      BY <1>1, <1>2, <1>3, <2>1
    <3> QED
      BY <1>2, <1>3, <2>1, <3>1 DEF Jobs, s
  <2>2. CASE j[1] # w
    BY <1>1, <1>3, <2>2 DEF Jobs
  <2> QED
    BY <2>1, <2>2
<1>7. \A j \in Jobs : j \in Jobs' /\ queue'[j[1]][j[2]] = queue[j[1]][j[2]]
  <2> SUFFICES ASSUME NEW j \in Jobs PROVE j \in Jobs' /\ queue'[j[1]][j[2]] = queue[j[1]][j[2]]
    OBVIOUS
  <2>1. CASE j[1] = w
    <3>1. j[2] \in 1..Len(s)
      BY <1>2, <1>4, <2>1 DEF s
    <3>2. j[2] \in DOMAIN queue'[j[1]]
      BY <1>1, <1>2, <2>1, <3>1
    <3> QED
      BY <1>1, <1>2, <1>4, <2>1, <3>1, <3>2 DEF Jobs, s
  <2>2. CASE j[1] # w
    BY <1>1, <1>4, <2>2 DEF Jobs
  <2> QED
    BY <2>1, <2>2
<1>8. queue'[w][Len(s) + 1] = x
  BY <1>1, <1>2
<1> QED
  BY <1>5, <1>6, <1>7, <1>8 DEF s

\* put in front,
LEMMA PrependedJobs ==
  ASSUME NEW w \in Queue, NEW T, NEW x, queue \in [Queue -> Seq(T)], x \in T,
         queue' = [queue EXCEPT ![w] = <<x>> \o @]
  PROVE  /\ <<w, 1>> \in Jobs' /\ queue'[w][1] = x
         /\ \A j \in Jobs' : j # <<w, 1>> /\ j[1] = w =>
              /\ <<w, j[2] - 1>> \in Jobs /\ j = <<w, j[2]>> /\ j[2] \in Nat
              /\ queue'[j[1]][j[2]] = queue[w][j[2] - 1]
         /\ \A j \in Jobs' : j[1] # w => j \in Jobs /\ queue'[j[1]][j[2]] = queue[j[1]][j[2]]
         /\ \A j \in Jobs : j[1] = w =>
              <<w, j[2] + 1>> \in Jobs' /\ queue'[w][j[2] + 1] = queue[j[1]][j[2]]
         /\ \A j \in Jobs : j[1] # w => j \in Jobs' /\ queue'[j[1]][j[2]] = queue[j[1]][j[2]]
<1> DEFINE s == queue[w]
           n == <<x>> \o s
<1>1. s \in Seq(T) /\ queue'[w] = n /\ \A v \in Queue : v # w => queue'[v] = queue[v]
  OBVIOUS
<1> HIDE DEF s
<1>2. /\ DOMAIN n = 1..(Len(s) + 1) /\ DOMAIN s = 1..Len(s) /\ Len(s) \in Nat
      /\ n[1] = x /\ \A i \in 2..(Len(s) + 1) : n[i] = s[i - 1]
  <2>1. <<x>> \in Seq(T) /\ Len(<<x>>) = 1
    OBVIOUS
  <2>2. Len(n) = Len(s) + 1
    BY <1>1, <2>1
  <2>3. n[1] = x /\ \A i \in 2..(Len(s) + 1) : n[i] = s[i - 1]
    BY <1>1, <2>1
  <2>4. n \in Seq(T)
    BY <1>1, <2>1
  <2> HIDE DEF n
  <2> QED
    BY <1>1, <2>2, <2>3, <2>4
<1> HIDE DEF n
<1>3. \A j \in Jobs' : j \in Queue \X Nat /\ j = <<j[1], j[2]>> /\ j[2] \in DOMAIN queue'[j[1]]
  BY DEF Jobs
<1>4. \A j \in Jobs : j \in Queue \X Nat /\ j = <<j[1], j[2]>> /\ j[2] \in DOMAIN queue[j[1]]
  BY DEF Jobs
<1>5. <<w, 1>> \in Jobs' /\ queue'[w][1] = x
  BY <1>1, <1>2 DEF Jobs
<1>6. \A j \in Jobs' : j # <<w, 1>> /\ j[1] = w =>
        /\ <<w, j[2] - 1>> \in Jobs /\ j = <<w, j[2]>> /\ j[2] \in Nat
        /\ queue'[j[1]][j[2]] = queue[w][j[2] - 1]
  <2> SUFFICES ASSUME NEW j \in Jobs', j # <<w, 1>>, j[1] = w
               PROVE  /\ <<w, j[2] - 1>> \in Jobs /\ j = <<w, j[2]>> /\ j[2] \in Nat
                      /\ queue'[j[1]][j[2]] = queue[w][j[2] - 1]
    OBVIOUS
  <2>1. j[2] \in 2..(Len(s) + 1)
    BY <1>1, <1>2, <1>3
  <2>2. j[2] - 1 \in 1..Len(s) /\ j[2] - 1 \in Nat
    BY <1>2, <2>1
  <2>3. <<w, j[2] - 1>> \in Jobs
    BY <1>2, <2>2 DEF Jobs, s
  <2> QED
    BY <1>1, <1>2, <1>3, <2>1, <2>3 DEF s
<1>7. \A j \in Jobs' : j[1] # w => j \in Jobs /\ queue'[j[1]][j[2]] = queue[j[1]][j[2]]
  BY <1>1, <1>3 DEF Jobs
<1>8. \A j \in Jobs : j[1] = w => <<w, j[2] + 1>> \in Jobs' /\ queue'[w][j[2] + 1] = queue[j[1]][j[2]]
  <2> SUFFICES ASSUME NEW j \in Jobs, j[1] = w
               PROVE  <<w, j[2] + 1>> \in Jobs' /\ queue'[w][j[2] + 1] = queue[j[1]][j[2]]
    OBVIOUS
  <2>1. j[2] \in 1..Len(s)
    BY <1>2, <1>4 DEF s
  <2>2. j[2] + 1 \in 2..(Len(s) + 1) /\ j[2] + 1 \in Nat /\ (j[2] + 1) - 1 = j[2]
    BY <1>2, <2>1
  <2>3. j[2] + 1 \in DOMAIN n /\ n[j[2] + 1] = s[j[2]]
    BY <1>2, <2>2
  <2> QED
    BY <1>1, <2>2, <2>3 DEF Jobs, s
<1>9. \A j \in Jobs : j[1] # w => j \in Jobs' /\ queue'[j[1]][j[2]] = queue[j[1]][j[2]]
  BY <1>1, <1>4 DEF Jobs
<1> QED
  BY <1>5, <1>6, <1>7, <1>8, <1>9

\* or taken.
LEMMA ShiftedJobs ==
  ASSUME NEW w \in Queue, NEW T, queue \in [Queue -> Seq(T)], queue[w] # <<>>,
         queue' = [queue EXCEPT ![w] = Tail(@)]
  PROVE  /\ <<w, 1>> \in Jobs /\ queue[w][1] = Head(queue[w])
         /\ \A j \in Jobs' : j[1] = w =>
              <<w, j[2] + 1>> \in Jobs /\ j = <<w, j[2]>> /\ j[2] \in Nat \ {0}
                /\ queue'[j[1]][j[2]] = queue[w][j[2] + 1]
         /\ \A j \in Jobs' : j[1] # w => j \in Jobs /\ queue'[j[1]][j[2]] = queue[j[1]][j[2]]
         /\ \A j \in Jobs : j[1] = w /\ j # <<w, 1>> =>
              <<w, j[2] - 1>> \in Jobs' /\ queue'[w][j[2] - 1] = queue[j[1]][j[2]]
         /\ \A j \in Jobs : j[1] # w => j \in Jobs' /\ queue'[j[1]][j[2]] = queue[j[1]][j[2]]
<1> DEFINE s == queue[w]
           n == Tail(s)
<1>1. s \in Seq(T) /\ s # <<>> /\ queue'[w] = n /\ \A v \in Queue : v # w => queue'[v] = queue[v]
  OBVIOUS
<1> HIDE DEF s
<1>2. /\ DOMAIN n = 1..(Len(s) - 1) /\ DOMAIN s = 1..Len(s) /\ Len(s) \in Nat /\ Len(s) >= 1
      /\ s[1] = Head(s) /\ \A i \in 1..(Len(s) - 1) : n[i] = s[i + 1]
  <2>1. Len(n) = Len(s) - 1 /\ n \in Seq(T) /\ Len(s) \in Nat /\ Len(s) >= 1
    BY <1>1
  <2>2. \A i \in 1..(Len(s) - 1) : n[i] = s[i + 1]
    BY <1>1
  <2>3. s[1] = Head(s)
    BY <1>1
  <2> HIDE DEF n
  <2> QED
    BY <1>1, <2>1, <2>2, <2>3
<1> HIDE DEF n
<1>3. \A j \in Jobs' : j \in Queue \X Nat /\ j = <<j[1], j[2]>> /\ j[2] \in DOMAIN queue'[j[1]]
  BY DEF Jobs
<1>4. \A j \in Jobs : j \in Queue \X Nat /\ j = <<j[1], j[2]>> /\ j[2] \in DOMAIN queue[j[1]]
  BY DEF Jobs
<1>5. <<w, 1>> \in Jobs /\ queue[w][1] = Head(queue[w])
  BY <1>1, <1>2 DEF Jobs, s
<1>6. \A j \in Jobs' : j[1] = w =>
        <<w, j[2] + 1>> \in Jobs /\ j = <<w, j[2]>> /\ j[2] \in Nat \ {0}
          /\ queue'[j[1]][j[2]] = queue[w][j[2] + 1]
  <2> SUFFICES ASSUME NEW j \in Jobs', j[1] = w
               PROVE  <<w, j[2] + 1>> \in Jobs /\ j = <<w, j[2]>> /\ j[2] \in Nat \ {0}
                        /\ queue'[j[1]][j[2]] = queue[w][j[2] + 1]
    OBVIOUS
  <2>1. j[2] \in 1..(Len(s) - 1)
    BY <1>1, <1>2, <1>3
  <2>2. j[2] + 1 \in 1..Len(s) /\ j[2] + 1 \in Nat /\ j[2] \in Nat \ {0}
    BY <1>2, <2>1
  <2>3. <<w, j[2] + 1>> \in Jobs
    BY <1>2, <2>2 DEF Jobs, s
  <2> QED
    BY <1>1, <1>2, <1>3, <2>1, <2>2, <2>3 DEF s
<1>7. \A j \in Jobs' : j[1] # w => j \in Jobs /\ queue'[j[1]][j[2]] = queue[j[1]][j[2]]
  BY <1>1, <1>3 DEF Jobs
<1>8. \A j \in Jobs : j[1] = w /\ j # <<w, 1>> =>
        <<w, j[2] - 1>> \in Jobs' /\ queue'[w][j[2] - 1] = queue[j[1]][j[2]]
  <2> SUFFICES ASSUME NEW j \in Jobs, j[1] = w, j # <<w, 1>>
               PROVE  <<w, j[2] - 1>> \in Jobs' /\ queue'[w][j[2] - 1] = queue[j[1]][j[2]]
    OBVIOUS
  <2>1. j[2] \in 2..Len(s)
    BY <1>2, <1>4 DEF s
  <2>2. j[2] - 1 \in 1..(Len(s) - 1) /\ j[2] - 1 \in Nat /\ (j[2] - 1) + 1 = j[2]
    BY <1>2, <2>1
  <2>3. j[2] - 1 \in DOMAIN n /\ n[j[2] - 1] = s[j[2]]
    BY <1>2, <2>2
  <2> QED
    BY <1>1, <2>2, <2>3 DEF Jobs, s
<1>9. \A j \in Jobs : j[1] # w => j \in Jobs' /\ queue'[j[1]][j[2]] = queue[j[1]][j[2]]
  BY <1>1, <1>4 DEF Jobs
<1> QED
  BY <1>5, <1>6, <1>7, <1>8, <1>9

------------------------------------------------------------------------------
(* The flow of a step of t.                                                *)

\* Party x of the next state has the request and the connection of a.
Comes(x, a) == Of(x)'.q = Of(a).q /\ Of(x)'.conn = Of(a).conn

\* It is new, and as often put back as the script of a says.
Arises(x, a) == Of(x)'.q = Of(a).q /\ Of(x)'.again = Repeats(At(a), Of(a).again)

\* Of each party f is where it comes from; of those that come from a, which is
\* the party of t, one in M goes on, and one in S is new.
Flow(a, f, M, S) ==
  /\ f \in [Parties' -> Parties]
  /\ \A x \in Parties' : f[x] # a => Keeps(x, f[x])
  /\ \A x, y \in Parties' : f[x] = f[y] /\ f[x] # a => x = y
  /\ \A y \in Parties : y # a => \E x \in Parties' : Keeps(x, y)
  /\ \A x \in Parties' : f[x] = a => x \in M \cup S
  /\ \A x \in M : Comes(x, a) /\ Of(x)'.again = Of(a).again /\ At(x)' \in Same(At(a))
  /\ \A x \in S : Arises(x, a) /\ At(x)' \in News(At(a))
  /\ \A x \in S : At(x)' \in Beside(At(a)) => Comes(x, a)
  /\ \A x, y \in M : x = y
  /\ \A x, y \in S : x = y
  /\ \A x \in M \cup S : x \in Parties' => ~Ended(At(x)')
  /\ Head1(At(a)).op \in {"push", "requeue"} => \E x \in S : x \in Parties' /\ At(x)' \in Begun(At(a))

\* What stays of the runs, and what a step of t adds to them.
LEMMA RunsAfter ==
  ASSUME Core, NEW t \in threads, NEW N, NEW B, NEW E, Steps(t, N, B, E)
  PROVE  /\ \A n \in N : Comes(<<"run", n>>, <<"run", t>>) /\ At(<<"run", n>>)' \in Same(At(<<"run", t>>))
         /\ \A b \in B : Comes(<<"run", b>>, <<"run", t>>) /\ At(<<"run", b>>)' \in Beside(At(<<"run", t>>))
         /\ \A e \in E : Of(<<"run", e>>)'.q = t.q /\ At(<<"run", e>>)' \in Begun(At(<<"run", t>>))
         /\ \A n \in threads' : n \in threads \ {t} \/ n \in N \cup B \cup E
         /\ threads \ {t} \subseteq threads'
         /\ B # {} => E = {} /\ Head1(t).op = "spawn"
<1>1. \A n : Kin(n, t) => Place(n)' = Seen(n, Open(t)')
  BY DEF Kin, Place, Open
<1>2. \A n \in N : Kin(n, t) /\ Place(n)' \in Same(Place(t))
  BY <1>1 DEF Steps
<1>3. \A n \in B : Kin(n, t) /\ Place(n)' \in Beside(Place(t))
  BY <1>1 DEF Steps
<1>4. \A n : Kin(n, t) => Comes(<<"run", n>>, <<"run", t>>)
  BY RunParty DEF Comes, Kin
<1>5. \A n \in E : n.q = t.q /\ Place(n)' \in Begun(Place(t))
  BY DEF Steps
<1>6. B # {} => E = {} /\ Head1(t).op = "spawn"
  <2>1. B # {} => Beside(Place(t)) # {}
    BY <1>3
  <2>2. B # {} => Head1(t).op = "spawn"
    BY <2>1, PlaceFields DEF Beside
  <2> QED
    BY <2>2 DEF Steps
<1> QED
  BY <1>2, <1>3, <1>4, <1>5, <1>6, RunParty DEF Steps

\* A party is a run or a job.
LEMMA PartyKinds ==
  /\ \A x \in Parties : (\E t \in threads : x = <<"run", t>>) \/ (\E j \in Jobs : x = <<"job", j>>)
  /\ \A x \in Parties' : (\E t \in threads' : x = <<"run", t>>) \/ (\E j \in Jobs' : x = <<"job", j>>)
BY DEF Parties

\* Jobs keep their order; g is where each was, and one in K is new.
Moves(g, K) ==
  /\ \A j, k \in K : j = k
  /\ \A j \in Jobs' : j \in K \/ (/\ g[j] \in Jobs /\ g[j][1] = j[1]
                                 /\ queue'[j[1]][j[2]] = queue[g[j][1]][g[j][2]])
  /\ \A i, j \in Jobs' \ K : g[i] = g[j] => i = j
  /\ \A j \in Jobs : \E i \in Jobs' : i[1] = j[1] /\ queue'[i[1]][i[2]] = queue[j[1]][j[2]]

\* Names of runs and jobs differ.
LEMMA Names ==
  ASSUME NEW i, NEW j
  PROVE  /\ <<"job", i>> = <<"job", j>> => i = j
         /\ <<"run", i>> = <<"run", j>> => i = j
         /\ <<"job", i>> # <<"run", j>>
OBVIOUS

\* The flow of a step, from what becomes of the runs and of the jobs.
LEMMA FlowOf ==
  ASSUME Rules, Core, NEW t \in threads, NEW N, NEW B, NEW E, Steps(t, N, B, E),
         NEW g, NEW K, Moves(g, K),
         \A j \in K : /\ j \in Jobs'
                     /\ Arises(<<"job", j>>, <<"run", t>>) /\ At(<<"job", j>>)' \in Begun(Place(t)),
         K # {} => B = {} /\ E = {} /\ Head1(t).op \notin {"ask", "relay"},
         Head1(t).op \in {"push", "requeue"} => K # {}
  PROVE  \E f, S : /\ Flow(<<"run", t>>, f, {"run"} \X N, S)
                   /\ Head1(t).op \in {"ask", "relay"} /\ E = {} => S = {}
<1> DEFINE a == <<"run", t>>
           M == {"run"} \X N
           S == ({"run"} \X (B \cup E)) \cup ({"job"} \X K)
           f == [x \in Parties' |->
                  IF x[1] = "run" THEN (IF x[2] \in threads \ {t} THEN x ELSE a)
                  ELSE IF x[2] \in K THEN a ELSE <<"job", g[x[2]]>>]
<1>0. a \in Parties /\ At(a) = Place(t) /\ Of(a) = t
  BY RunParty
<1>1. /\ \A n \in N : Comes(<<"run", n>>, a) /\ At(<<"run", n>>)' \in Same(At(a))
      /\ \A b \in B : Comes(<<"run", b>>, a) /\ At(<<"run", b>>)' \in Beside(At(a))
      /\ \A e \in E : Of(<<"run", e>>)'.q = t.q /\ At(<<"run", e>>)' \in Begun(At(a))
      /\ \A n \in threads' : n \in threads \ {t} \/ n \in N \cup B \cup E
      /\ threads \ {t} \subseteq threads'
      /\ B # {} => E = {} /\ Head1(t).op = "spawn"
  BY RunsAfter
<1>1a. (\A n \in N \cup B : n.again = t.again) /\ (\A e \in E : e.again = FALSE)
  BY DEF Steps, Kin
<1>2. \A u \in threads' : f[<<"run", u>>] = IF u \in threads \ {t} THEN <<"run", u>> ELSE a
  BY RunParty
<1>3. \A j \in Jobs' : IF j \in K THEN f[<<"job", j>>] = a ELSE f[<<"job", j>>] = <<"job", g[j]>>
  BY JobParty
<1>4. DOMAIN f = Parties' /\ f = [x \in Parties' |-> f[x]]
  OBVIOUS
<1> HIDE DEF f
<1>5. \A x \in Parties' : f[x] \in Parties /\ (f[x] # a => Keeps(x, f[x]))
  <2> SUFFICES ASSUME NEW x \in Parties' PROVE f[x] \in Parties /\ (f[x] # a => Keeps(x, f[x]))
    OBVIOUS
  <2>1. CASE \E u \in threads' : x = <<"run", u>>
    BY <1>0, <1>2, <2>1, RunIsKept, RunParty
  <2>2. CASE \E j \in Jobs' : x = <<"job", j>>
    <3>1. PICK j \in Jobs' : x = <<"job", j>>
      BY <2>2
    <3>2. CASE j \in K
      BY <1>0, <1>3, <3>1, <3>2
    <3>3. CASE j \notin K
      <4>1. g[j] \in Jobs /\ g[j][1] = j[1] /\ queue'[j[1]][j[2]] = queue[g[j][1]][g[j][2]]
        BY <3>3 DEF Moves
      <4>2. Keeps(<<"job", j>>, <<"job", g[j]>>)
        BY <4>1, JobIsKept
      <4> QED
        BY <1>3, <3>1, <3>3, <4>1, <4>2, JobParty
    <3> QED
      BY <3>2, <3>3
  <2> QED
    BY <2>1, <2>2, PartyKinds
<1>6. f \in [Parties' -> Parties]
  BY <1>4, <1>5
<1>7. \A x, y \in Parties' : f[x] = f[y] /\ f[x] # a => x = y
  <2> SUFFICES ASSUME NEW x \in Parties', NEW y \in Parties', f[x] = f[y], f[x] # a PROVE x = y
    OBVIOUS
  <2>1. CASE (\E u \in threads' : x = <<"run", u>>) /\ (\E u \in threads' : y = <<"run", u>>)
    BY <1>2, <2>1
  <2>2. CASE (\E j \in Jobs' : x = <<"job", j>>) /\ (\E j \in Jobs' : y = <<"job", j>>)
    <3>1. PICK i \in Jobs', j \in Jobs' : x = <<"job", i>> /\ y = <<"job", j>>
      BY <2>2
    <3>2. i \notin K /\ j \notin K
      BY <1>3, <3>1
    <3>3. f[<<"job", i>>] = <<"job", g[i]>> /\ f[<<"job", j>>] = <<"job", g[j]>>
      BY <1>3, <3>2
    <3>4. <<"job", g[i]>> = <<"job", g[j]>>
      BY <3>1, <3>3
    <3>5. g[i] = g[j]
      BY ONLY <3>4, Names
    <3> QED
      BY <3>1, <3>2, <3>5 DEF Moves
  <2>3. CASE (\E u \in threads' : x = <<"run", u>>) /\ (\E j \in Jobs' : y = <<"job", j>>)
    <3>1. PICK u \in threads', j \in Jobs' : x = <<"run", u>> /\ y = <<"job", j>>
      BY <2>3
    <3>2. f[x] = <<"run", u>>
      BY <1>2, <3>1
    <3>3. f[y] = a \/ f[y] = <<"job", g[j]>>
      BY <1>3, <3>1
    <3> QED
      BY <3>2, <3>3, Names
  <2>4. CASE (\E j \in Jobs' : x = <<"job", j>>) /\ (\E u \in threads' : y = <<"run", u>>)
    <3>1. PICK u \in threads', j \in Jobs' : y = <<"run", u>> /\ x = <<"job", j>>
      BY <2>4
    <3>2. f[y] = <<"run", u>> \/ f[y] = a
      BY <1>2, <3>1
    <3>3. f[x] = <<"job", g[j]>>
      BY <1>3, <3>1
    <3> QED
      BY <3>2, <3>3, Names
  <2> QED
    BY <2>1, <2>2, <2>3, <2>4, PartyKinds
<1>8. \A y \in Parties : y # a => \E x \in Parties' : Keeps(x, y)
  <2> SUFFICES ASSUME NEW y \in Parties, y # a PROVE \E x \in Parties' : Keeps(x, y)
    OBVIOUS
  <2>1. CASE \E u \in threads : y = <<"run", u>>
    BY <1>1, <2>1, RunIsKept, RunParty
  <2>2. CASE \E j \in Jobs : y = <<"job", j>>
    <3>1. PICK j \in Jobs : y = <<"job", j>>
      BY <2>2
    <3>2. PICK i \in Jobs' : i[1] = j[1] /\ queue'[i[1]][i[2]] = queue[j[1]][j[2]]
      BY DEF Moves
    <3> QED
      BY <3>1, <3>2, JobIsKept, JobParty
  <2> QED
    BY <2>1, <2>2, PartyKinds
<1>9. \A x \in Parties' : f[x] = a => x \in M \cup S
  <2> SUFFICES ASSUME NEW x \in Parties', f[x] = a PROVE x \in M \cup S
    OBVIOUS
  <2>1. CASE \E u \in threads' : x = <<"run", u>>
    BY <1>1, <1>2, <2>1
  <2>2. CASE \E j \in Jobs' : x = <<"job", j>>
    <3>1. PICK j \in Jobs' : x = <<"job", j>>
      BY <2>2
    <3>2. j \in K
      BY <1>3, <3>1, Names
    <3> QED
      BY <3>1, <3>2
  <2> QED
    BY <2>1, <2>2, PartyKinds
<1>10. \A x \in M : Comes(x, a) /\ Of(x)'.again = Of(a).again /\ At(x)' \in Same(At(a))
  <2> SUFFICES ASSUME NEW n \in N, NEW x, x = <<"run", n>>
               PROVE  Comes(x, a) /\ Of(x)'.again = Of(a).again /\ At(x)' \in Same(At(a))
    OBVIOUS
  <2>1. Of(x)' = n
    BY RunParty
  <2> QED
    BY <1>0, <1>1, <1>1a, <2>1
<1>11. /\ \A x \in S : Arises(x, a) /\ At(x)' \in News(At(a))
       /\ \A x \in S : At(x)' \in Beside(At(a)) => Comes(x, a)
  <2> SUFFICES ASSUME NEW x \in S
               PROVE  /\ Arises(x, a) /\ At(x)' \in News(At(a))
                      /\ At(x)' \in Beside(At(a)) => Comes(x, a)
    OBVIOUS
  <2>0. Head1(At(a)) = Head1(t)
    BY <1>0, PlaceFields
  <2>1. CASE \E b \in B : x = <<"run", b>>
    <3>1. PICK b \in B : x = <<"run", b>>
      BY <2>1
    <3>2. Of(x)' = b /\ Comes(x, a) /\ b.again = t.again /\ At(x)' \in Beside(At(a))
      BY <1>1, <1>1a, <3>1, RunParty
    <3>3. Head1(At(a)).op = "spawn"
      BY <1>1, <2>0, <2>1
    <3>4. Repeats(At(a), Of(a).again) = t.again
      BY <1>0, <3>3 DEF Repeats
    <3> QED
      BY <3>2, <3>4 DEF Comes, Arises, News
  <2>2. CASE \E e \in E : x = <<"run", e>>
    <3>1. Head1(At(a)).op \in {"relay", "ask", "post"}
      BY <2>0, <2>2 DEF Steps
    <3>2. Beside(At(a)) = {}
      BY <3>1 DEF Beside
    <3>3. Repeats(At(a), Of(a).again) = FALSE
      BY <3>1 DEF Repeats
    <3>4. PICK e \in E : x = <<"run", e>>
      BY <2>2
    <3>5. Of(x)' = e /\ e.q = t.q /\ e.again = FALSE /\ At(x)' \in Begun(At(a))
      <4>1. Of(x)' = e
        BY <3>4, RunParty
      <4>2. Of(x)'.q = t.q /\ e.again = FALSE /\ At(x)' \in Begun(At(a))
        BY <1>1, <1>1a, <3>4
      <4> QED
        BY <4>1, <4>2
    <3> QED
      BY <1>0, <3>2, <3>3, <3>5 DEF Arises, News
  <2>3. CASE \E j \in K : x = <<"job", j>>
    <3>1. PICK j \in K : x = <<"job", j>>
      BY <2>3
    <3>2. Arises(x, a) /\ At(x)' \in Begun(At(a))
      BY <1>0, <3>1
    <3>3. Beside(At(a)) = {}
      BY <3>2 DEF Beside, Begun
    <3> QED
      BY <3>2, <3>3 DEF News
  <2> QED
    BY <2>1, <2>2, <2>3
<1>12. (\A x, y \in M : x = y) /\ (\A x, y \in S : x = y)
  BY <1>1 DEF Steps, Moves
<1>13. Head1(At(a)).op \in {"push", "requeue"} => \E x \in S : x \in Parties' /\ At(x)' \in Begun(At(a))
  <2> SUFFICES ASSUME Head1(At(a)).op \in {"push", "requeue"}
               PROVE  \E x \in S : x \in Parties' /\ At(x)' \in Begun(At(a))
    OBVIOUS
  <2>1. PICK j : j \in K
    BY <1>0, PlaceFields
  <2>2. <<"job", j>> \in S /\ <<"job", j>> \in Parties' /\ At(<<"job", j>>)' \in Begun(At(a))
    BY <1>0, <2>1, JobParty
  <2> QED
    BY <2>2
<1>14. \A x \in M \cup S : x \in Parties' => ~Ended(At(x)')
  <2> SUFFICES ASSUME NEW x \in M \cup S, x \in Parties' PROVE ~Ended(At(x)')
    OBVIOUS
  <2>1. CASE \E n \in N \cup B \cup E : x = <<"run", n>>
    <3>1. PICK n \in N \cup B \cup E : x = <<"run", n>>
      BY <2>1
    <3>2. n \in threads' /\ At(x)' = Place(n)'
      BY <3>1, RunParty
    <3>3. Place(n)'.rest = n.rest
      BY DEF Place, Seen
    <3>4. \A u \in threads : u.rest # <<>>
      BY PlaceFields, PlacesObey DEF Core, Placed, Ended
    <3> QED
      BY <3>2, <3>3, <3>4 DEF Steps, Ended
  <2>2. CASE \E j \in K : x = <<"job", j>>
    <3>1. At(x)' \in Begun(Place(t))
      BY <2>2
    <3> QED
      BY <3>1, PlacesObey DEF Core, Placed
  <2> QED
    BY <2>1, <2>2
<1>15. Head1(t).op \in {"ask", "relay"} /\ E = {} => S = {}
  <2> SUFFICES ASSUME Head1(t).op \in {"ask", "relay"}, E = {} PROVE S = {}
    OBVIOUS
  <2>1. B = {} /\ K = {}
    BY <1>1
  <2> QED
    BY <2>1
<1> HIDE DEF a, M, S
<1>16. Flow(a, f, M, S)
  BY <1>5, <1>6, <1>7, <1>8, <1>9, <1>10, <1>11, <1>12, <1>13, <1>14 DEF Flow
<1> QED
  BY <1>15, <1>16 DEF a, M

\* The place of a job after the step.
LEMMA JobAt ==
  ASSUME NEW k, NEW w, NEW job, k[1] = w, queue'[k[1]][k[2]] = job
  PROVE  Of(<<"job", k>>)' = job /\ At(<<"job", k>>)' = JobPlace(w, job)'
<1>1. /\ Of(<<"job", k>>)' = queue'[k[1]][k[2]]
      /\ At(<<"job", k>>)' = JobPlace(k[1], queue[k[1]][k[2]])'
  BY JobParty
<1> QED
  BY <1>1 DEF JobPlace, Open

\* A step that makes a job.
LEMMA JobFlow ==
  ASSUME Rules, Core, NEW t \in threads, NEW N, NEW B, NEW E, Steps(t, N, B, E),
         Head1(t).op \in {"push", "pushsilent", "requeue"},
         NEW k \in Jobs', NEW w, NEW job, k[1] = w, queue'[k[1]][k[2]] = job,
         job.q = t.q, job.again = Repeats(Place(t), t.again), JobPlace(w, job)' \in Begun(Place(t)),
         NEW g, Moves(g, {k})
  PROVE  \E f, S : /\ Flow(<<"run", t>>, f, {"run"} \X N, S)
                   /\ Head1(t).op \in {"ask", "relay"} /\ E = {} => S = {}
<1>1. Arises(<<"job", k>>, <<"run", t>>) /\ At(<<"job", k>>)' \in Begun(Place(t))
  <2> DEFINE x == <<"job", k>>
  <2>1. Of(x)' = job /\ At(x)' = JobPlace(w, job)'
    BY JobAt
  <2> HIDE DEF x
  <2>2. Arises(x, <<"run", t>>) /\ At(x)' \in Begun(Place(t))
    <3> DEFINE a == <<"run", t>>
    <3>1. Of(a) = t /\ At(a) = Place(t)
      BY RunParty
    <3> HIDE DEF a
    <3>2. Arises(x, a)
      BY <2>1, <3>1 DEF Arises
    <3> QED
      BY <2>1, <3>2 DEF a
  <2> QED
    BY <2>2 DEF x
<1>2. \A j \in {k} : /\ j \in Jobs'
                     /\ Arises(<<"job", j>>, <<"run", t>>) /\ At(<<"job", j>>)' \in Begun(Place(t))
  <2> SUFFICES ASSUME NEW j, j = k
               PROVE  /\ j \in Jobs'
                      /\ Arises(<<"job", j>>, <<"run", t>>) /\ At(<<"job", j>>)' \in Begun(Place(t))
    OBVIOUS
  <2> QED
    BY <1>1, Zenon
<1>3. B = {} /\ E = {}
  <2>1. E # {} => Head1(t).op \in {"relay", "ask", "post"}
    BY Zenon DEF Steps
  <2>2. B # {} => Head1(t).op = "spawn"
    BY RunsAfter, Zenon
  <2> QED
    BY <2>1, <2>2
<1>4. {k} # {}
  OBVIOUS
<1> DEFINE K == {k}
<1>5. /\ Moves(g, K)
      /\ \A j \in K : /\ j \in Jobs'
                      /\ Arises(<<"job", j>>, <<"run", t>>) /\ At(<<"job", j>>)' \in Begun(Place(t))
      /\ K # {}
  BY <1>2, <1>4
<1> HIDE DEF K
<1>6. Head1(t).op \notin {"ask", "relay"}
  OBVIOUS
<1> QED
  BY <1>3, <1>5, <1>6, FlowOf

\* Every step of a run has a flow.
LEMMA StepFlows ==
  ASSUME Rules, Core, NEW t \in threads, NEW N, NEW B, NEW E, Steps(t, N, B, E), Queues(t)
  PROVE  \E f, S : /\ Flow(<<"run", t>>, f, {"run"} \X N, S)
                   /\ Head1(t).op \in {"ask", "relay"} /\ E = {} => S = {}
<1>0. queue \in [Queue -> Seq(Job)] /\ Place(t) \in Places.all
  BY DEF Core, Typed, Placed
<1>1. CASE Pushes(t)
  <2> DEFINE w == Head1(t).name
             k == <<w, Len(queue[w]) + 1>>
             g == [j \in Jobs' |-> j]
  <2>1. w \in Queue /\ Head1(t).op \in {"push", "pushsilent"}
    BY <1>0, <1>1, PlacesObey, PlaceFields DEF Pushes
  <2>2. PICK job \in Job : /\ job.q = t.q /\ JobPlace(w, job)' \in Begun(Place(t)) /\ job.again = FALSE
                           /\ queue' = [queue EXCEPT ![w] = Append(@, job)]
    BY <1>1 DEF Pushes
  <2>2a. job.again = Repeats(Place(t), t.again)
    BY <2>1, <2>2, PlaceFields DEF Repeats
  <2>3. /\ k \in Jobs' /\ k \notin Jobs /\ queue'[w][Len(queue[w]) + 1] = job
        /\ \A j \in Jobs' : j # k => j \in Jobs
        /\ \A j \in Jobs : j \in Jobs' /\ queue'[j[1]][j[2]] = queue[j[1]][j[2]]
    BY <1>0, <2>1, <2>2, AppendedJobs
  <2>4. k[1] = w /\ queue'[k[1]][k[2]] = job
    BY <2>3
  <2> HIDE DEF k, w
  <2>5. \A j \in Jobs' : g[j] = j
    OBVIOUS
  <2> HIDE DEF g
  <2>6. Moves(g, {k})
    BY <2>3, <2>5 DEF Moves
  <2> QED
    BY <2>1, <2>2, <2>2a, <2>3, <2>4, <2>6, JobFlow
<1>2. CASE PutsBack(t)
  <2> DEFINE w == t.name
             k == <<w, 1>>
             g == [j \in Jobs' |-> IF j[1] = w THEN <<w, j[2] - 1>> ELSE j]
  <2>1. w \in Queue /\ Head1(t).op = "requeue"
    BY <1>0, <1>2, PlacesObey, PlaceFields DEF PutsBack
  <2>2. PICK job \in Job : /\ job.q = t.q /\ JobPlace(w, job)' \in Begun(Place(t))
                           /\ job.again = (t.again \/ t.err # "none")
                           /\ queue' = [queue EXCEPT ![w] = <<job>> \o @]
    BY <1>2 DEF PutsBack
  <2>2a. job.again = Repeats(Place(t), t.again)
    BY <2>1, <2>2, PlaceFields DEF Repeats
  <2>3. /\ k \in Jobs' /\ queue'[w][1] = job
        /\ \A j \in Jobs' : j # k /\ j[1] = w =>
              /\ <<w, j[2] - 1>> \in Jobs /\ j = <<w, j[2]>> /\ j[2] \in Nat
              /\ queue'[j[1]][j[2]] = queue[w][j[2] - 1]
        /\ \A j \in Jobs' : j[1] # w => j \in Jobs /\ queue'[j[1]][j[2]] = queue[j[1]][j[2]]
        /\ \A j \in Jobs : j[1] = w =>
              <<w, j[2] + 1>> \in Jobs' /\ queue'[w][j[2] + 1] = queue[j[1]][j[2]]
        /\ \A j \in Jobs : j[1] # w => j \in Jobs' /\ queue'[j[1]][j[2]] = queue[j[1]][j[2]]
    <3>1. job \in Job
      OBVIOUS
    <3> QED
      BY ONLY <1>0, <2>1, <2>2, <3>1, PrependedJobs
  <2>4. k[1] = w /\ queue'[k[1]][k[2]] = job
    BY <2>3
  <2>7. \A j \in Jobs' : g[j] = IF j[1] = w THEN <<w, j[2] - 1>> ELSE j
    OBVIOUS
  <2> HIDE DEF g, w
  <2>8. \A i, j \in Jobs' : i # k /\ j # k /\ g[i] = g[j] => i = j
    <3> SUFFICES ASSUME NEW i \in Jobs', NEW j \in Jobs', i # k, j # k, g[i] = g[j] PROVE i = j
      OBVIOUS
    <3>1. CASE i[1] = w /\ j[1] = w
      <4>1. i = <<w, i[2]>> /\ j = <<w, j[2]>> /\ i[2] \in Nat /\ j[2] \in Nat
        BY <2>3, <3>1
      <4>2. <<w, i[2] - 1>> = <<w, j[2] - 1>>
        BY <2>7, <3>1
      <4>3. i[2] - 1 = j[2] - 1
        BY <4>2
      <4>4. i[2] = j[2]
        BY ONLY <4>1, <4>3
      <4> QED
        BY ONLY <4>1, <4>4
    <3>2. CASE i[1] # w \/ j[1] # w
      <4>1. \A m \in Jobs' : (m[1] = w => g[m][1] = w) /\ (m[1] # w => g[m] = m)
        <5> SUFFICES ASSUME NEW m \in Jobs' PROVE (m[1] = w => g[m][1] = w) /\ (m[1] # w => g[m] = m)
          OBVIOUS
        <5>1. g[m] = IF m[1] = w THEN <<w, m[2] - 1>> ELSE m
          BY <2>7, Zenon
        <5>2. <<w, m[2] - 1>>[1] = w
          OBVIOUS
        <5> QED
          BY ONLY <5>1, <5>2
      <4> QED
        BY <3>2, <4>1
    <3> QED
      BY <3>1, <3>2
  <2>9. \A j \in Jobs' : j # k => /\ g[j] \in Jobs /\ g[j][1] = j[1]
                                 /\ queue'[j[1]][j[2]] = queue[g[j][1]][g[j][2]]
    <3> SUFFICES ASSUME NEW j \in Jobs', j # k
                 PROVE  /\ g[j] \in Jobs /\ g[j][1] = j[1]
                        /\ queue'[j[1]][j[2]] = queue[g[j][1]][g[j][2]]
      OBVIOUS
    <3>1. CASE j[1] = w
      <4>1. /\ <<w, j[2] - 1>> \in Jobs /\ g[j] = <<w, j[2] - 1>>
            /\ queue'[j[1]][j[2]] = queue[w][j[2] - 1]
        BY <2>3, <2>7, <3>1
      <4> DEFINE m == j[2] - 1
      <4>2. g[j][1] = w /\ g[j][2] = m
        <5>1. g[j] = <<w, m>>
          BY <4>1
        <5> HIDE DEF m
        <5> QED
          BY <5>1
      <4> QED
        BY <3>1, <4>1, <4>2
    <3>2. CASE j[1] # w
      BY <2>3, <2>7, <3>2
    <3> QED
      BY <3>1, <3>2
  <2>10. \A j \in Jobs : \E i \in Jobs' : i[1] = j[1] /\ queue'[i[1]][i[2]] = queue[j[1]][j[2]]
    <3> SUFFICES ASSUME NEW j \in Jobs
                 PROVE  \E i \in Jobs' : i[1] = j[1] /\ queue'[i[1]][i[2]] = queue[j[1]][j[2]]
      OBVIOUS
    <3>1. CASE j[1] = w
      <4> DEFINE i == <<w, j[2] + 1>>
      <4>1. i \in Jobs' /\ i[1] = j[1] /\ queue'[i[1]][i[2]] = queue[j[1]][j[2]]
        BY <2>3, <3>1
      <4> HIDE DEF i
      <4> QED
        BY <4>1
    <3>2. CASE j[1] # w
      BY <2>3, <3>2
    <3> QED
      BY <3>1, <3>2
  <2> HIDE DEF k
  <2>11. Moves(g, {k})
    BY <2>8, <2>9, <2>10 DEF Moves
  <2> QED
    <3>1. Head1(t).op \in {"push", "pushsilent", "requeue"}
      BY <2>1
    <3>2. k \in Jobs' /\ k[1] = w /\ queue'[k[1]][k[2]] = job
      BY <2>3, <2>4
    <3>3. job.q = t.q /\ job.again = Repeats(Place(t), t.again) /\ JobPlace(w, job)' \in Begun(Place(t))
      BY <2>2, <2>2a
    <3> HIDE DEF Flow
    <3> QED
      BY ONLY Rules, Core, t \in threads, Steps(t, N, B, E), <2>11, <3>1, <3>2, <3>3, JobFlow
<1>3. CASE queue' = queue /\ Head1(t).op \notin {"push", "requeue"}
  <2> DEFINE g == [j \in Jobs' |-> j]
  <2>1. Jobs' = Jobs
    BY <1>3 DEF Jobs
  <2>2. \A j \in Jobs' : g[j] = j
    OBVIOUS
  <2> HIDE DEF g
  <2>3. Moves(g, {})
    BY <1>3, <2>1, <2>2 DEF Moves
  <2> DEFINE K == {}
  <2>4. /\ Moves(g, K) /\ K = {}
        /\ \A j \in K : /\ j \in Jobs'
                        /\ Arises(<<"job", j>>, <<"run", t>>) /\ At(<<"job", j>>)' \in Begun(Place(t))
    BY <2>3
  <2> HIDE DEF K
  <2> QED
    BY <1>3, <2>4, FlowOf
<1> QED
  BY <1>1, <1>2, <1>3 DEF Queues, Rings

------------------------------------------------------------------------------
(* Parties.                                                                *)

\* The connection of a party is that of its place.
LEMMA PartyFields ==
  ASSUME NEW x
  PROVE  /\ At(x).conn = Of(x).conn /\ At(x)'.conn = Of(x)'.conn
         /\ x \in {"run"} \X threads => At(x).open = Open(Of(x))
<1>1. CASE x[1] = "run"
  BY <1>1 DEF At, Of, Place, Seen
<1>2. CASE x[1] # "run"
  BY <1>2 DEF At, Of, JobPlace, Entry
<1> QED
  BY <1>1, <1>2

\* Of every party: its place is one of the scripts, and says whether its connection has an answer.
LEMMA PartyTyped ==
  ASSUME Rules, Core, NEW x \in Parties
  PROVE  /\ At(x) \in Places.all /\ Of(x).q \in Request /\ Of(x).conn \in Conn
         /\ At(x).open = (said[Of(x).q][Of(x).conn] = "none")
<1>1. CASE \E t \in threads : x = <<"run", t>>
  <2>1. PICK t \in threads : x = <<"run", t>>
    BY <1>1
  <2>2. At(x) = Place(t) /\ Of(x) = t /\ Place(t) \in Places.all /\ t.q \in Request
    BY <2>1, RunParty DEF Core, Placed, Typed
  <2>3. Place(t).open = Open(t) /\ Place(t).conn \in Conn /\ Place(t).conn = t.conn
    BY <2>2, PlaceFields, PlacesObey
  <2> QED
    BY <2>2, <2>3 DEF Open
<1>2. CASE \E j \in Jobs : x = <<"job", j>>
  <2>1. PICK j \in Jobs : x = <<"job", j>>
    BY <1>2
  <2> DEFINE z == queue[j[1]][j[2]]
  <2>2. At(x) = JobPlace(j[1], z) /\ Of(x) = z
    BY <2>1, JobParty
  <2>3. j[1] \in Queue /\ j[2] \in DOMAIN queue[j[1]]
    BY DEF Jobs
  <2>4. z \in Job /\ JobPlace(j[1], z) \in Places.all
    BY <2>3 DEF Core, Typed, Placed
  <2>5. z.q \in Request /\ z.conn \in Conn
    BY <2>4 DEF Job
  <2> HIDE DEF z
  <2>6. JobPlace(j[1], z).open = Open(z)
    BY DEF JobPlace, Entry
  <2> QED
    BY <2>2, <2>4, <2>5, <2>6 DEF Open
<1> QED
  BY <1>1, <1>2, PartyKinds

\* Placed, of the parties of the next state.
LEMMA PlacedAfter ==
  ASSUME queue' \in [Queue -> Seq(Job)], \A x \in Parties' : At(x)' \in Places.all
  PROVE  Placed'
<1>1. \A t \in threads' : Place(t)' \in Places.all
  BY RunParty
<1>2. ASSUME NEW w \in Queue, NEW i \in DOMAIN queue'[w] PROVE JobPlace(w, queue[w][i])' \in Places.all
  <2> DEFINE j == <<w, i>>
  <2>1. i \in Nat
    OBVIOUS
  <2>2. j \in Jobs' /\ j[1] = w /\ j[2] = i
    BY <2>1 DEF Jobs
  <2>3. At(<<"job", j>>)' = JobPlace(w, queue[w][i])'
    BY <2>2, JobAt
  <2> HIDE DEF j
  <2>4. <<"job", j>> \in Parties'
    BY <2>2, JobParty
  <2>5. At(<<"job", j>>)' \in Places.all
    BY <2>4
  <2> QED
    BY <2>3, <2>5
<1> QED
  BY <1>1, <1>2 DEF Placed

------------------------------------------------------------------------------
(* The rules, place by place.                                              *)

\* The rules that a careful place obeys,
LEMMA CarefulObey ==
  ASSUME Rules, NEW p \in Places.careful, p.conn # "none"
  PROVE  /\ Head1(p).op \notin {"answer", "relay"}
         /\ Flipped(p, FALSE) \in Places.careful /\ Flipped(p, FALSE) \in Places.all
BY DEF Rules, Obeyed, VoiceRules

\* that a silent one does,
LEMMA SilentObey ==
  ASSUME Rules, NEW p \in Places.silent, p.conn # "none"
  PROVE  /\ p \in Places.careful /\ p \in Places.all
         /\ Head1(p).op \notin {"say", "answer", "relay", "push", "requeue"} /\ ~Escaping(p)
         /\ Flipped(p, FALSE) \in Places.silent
         /\ p.conn = "inner" => Flipped(p, TRUE) \in Places.silent
<1>1. Places.silent \subseteq Places.careful /\ Places.careful \subseteq Places.all
  BY DEF Rules, Obeyed, VoiceRules
<1>2. /\ Head1(p).op \notin {"say", "push", "requeue"} /\ ~Escaping(p)
      /\ Flipped(p, FALSE) \in Places.silent
      /\ p.conn = "inner" => Flipped(p, TRUE) \in Places.silent
  BY DEF Rules, Obeyed, VoiceRules
<1> QED
  BY <1>1, <1>2, CarefulObey

\* what a run leaves with its connection,
LEMMA SharingObey ==
  ASSUME Rules, NEW p \in Places.all, p.conn # "none"
  PROVE  /\ \A n \in Same(p), b \in Sharing(p) : Ended(n) \/ Ended(b) \/ Fits(Places, n, b)
         /\ \A n \in Same(p) \cup Sharing(p) :
              /\ p \in Places.careful => Ended(n) \/ n \in Places.careful
              /\ p \in Places.silent => Ended(n) \/ n \in Places.silent
BY DEF Rules, Obeyed, VoiceRules

\* and who asks.
LEMMA AskObey ==
  ASSUME Rules, NEW p \in Places.all
  PROVE  /\ Head1(p).op \in {"ask", "await"} => p \in Places.asks
         /\ Head1(p).op = "await" => Head1(p).name = "inner"
         /\ Head1(p).op = "ask" => \A n \in Moved(p) : Head1(n).op = "await"
         /\ p.conn = "inner" => OnMaster(p)
         /\ p.conn = "inner" /\ ~p.open => p \in Places.silent
         /\ Flipped(p, FALSE) \in Places.asks => p \in Places.asks
         /\ Flipped(p, FALSE) \in Places.heard => p \in Places.heard
         /\ \A n \in Own(p) : n \in Places.asks => p \in Places.asks
         /\ \A n \in Same(p), b \in Beside(p) : ~({n, b} \subseteq Places.asks)
         /\ \A n \in Own(p) : n \in Places.heard =>
              Head1(p).op = "await" \/ (p \in Places.heard /\ Head1(p).op # "ask")
BY DEF Rules, Obeyed, AskRules

\* Only handlers of the Cluster ask Master.
LEMMA OnlyClusterAsks ==
  ASSUME Rules, NEW p \in Places.asks
  PROVE  ~OnMaster(p) /\ p.conn # "inner" /\ p \in Places.all
BY DEF Rules, Obeyed, AskRules

\* No run that begins asks Master.
LEMMA BegunDoNotAsk ==
  ASSUME Rules, NEW p, NEW b \in Begun(p)
  PROVE  /\ b \notin Places.asks /\ OnMaster(b)
         /\ b.conn = p.conn \/ b.conn = "none" \/ (b.conn = "inner" /\ Head1(p).op = "ask")
<1>1. OnMaster(b)
  BY DEF Begun, Entry, OnMaster
<1>2. b.conn = p.conn \/ b.conn = "none" \/ (b.conn = "inner" /\ Head1(p).op = "ask")
  BY DEF Begun, Entry
<1> QED
  BY <1>1, <1>2, OnlyClusterAsks

\* Whoever has heard Master has an answer of Master.
LEMMA HeardParties ==
  ASSUME Rules, Core, NEW x \in Parties, At(x) \in Places.heard
  PROVE  said[Of(x).q]["inner"] # "none"
<1>1. At(x) \in Places.asks
  BY DEF Rules, Obeyed, AskRules
<1>2. CASE \E t \in threads : x = <<"run", t>>
  BY <1>2, RunParty DEF Core, Heard
<1>3. CASE \E j \in Jobs : x = <<"job", j>>
  <2>1. PICK j \in Jobs : x = <<"job", j>>
    BY <1>3
  <2>2. At(x) = JobPlace(j[1], queue[j[1]][j[2]])
    BY <2>1, JobParty
  <2>3. OnMaster(At(x))
    BY <2>2 DEF JobPlace, Entry, OnMaster
  <2> QED
    BY <1>1, <2>3, OnlyClusterAsks
<1> QED
  BY <1>2, <1>3, PartyKinds

\* The run that hears Master has been answered.
LEMMA AwaitHears ==
  ASSUME Rules, Core, NEW t \in threads, StepOf(t), Head1(t).op = "await"
  PROVE  said[t.q]["inner"] # "none"
<1>1. HearMaster(t)
  BY DEF StepOf, Choose, Await, ThrowError, InspectError, RememberOutcome, LookAtJob, EnterTry, EnterFinally,
         Return, SpawnBlock, SayAnswer, GiveAnswer, SendTx, AwaitReceipt, WriteRow, RelayRequest, AskMaster,
         PostRequest, PushJob, PutBack, SetTimer, TakeSlot, PollForSlot, LookForSlot, BorrowSlot, GiveSlots
<1>2. Place(t) \in Places.all /\ Head1(Place(t)) = Head1(t)
  BY PlaceFields DEF Core, Placed
<1>3. Head1(t).name = "inner"
  BY <1>2, AskObey
<1> QED
  BY <1>1, <1>3 DEF HearMaster

------------------------------------------------------------------------------
(* A step of t: what becomes of the places of the others.                  *)

\* What a place loses or keeps when its connection gets an answer or a new
\* question.
Endures(p, n) ==
  /\ n \in Places.all /\ n.conn = p.conn /\ n \in {p} \cup Turns(Places, p)
  /\ p \in Places.careful => n \in Places.careful
  /\ p \in Places.silent => n \in Places.silent
  /\ n \in Places.asks => p \in Places.asks /\ Head1(n) = Head1(p)
  /\ n \in Places.heard => p \in Places.heard

\* A place endures as itself,
LEMMA SelfEndures == ASSUME NEW p \in Places.all PROVE Endures(p, p)
BY DEF Endures

\* when its connection gets an answer,
LEMMA ClosedEndures ==
  ASSUME Rules, NEW p \in Places.all, p.conn # "none", p \in Places.careful
  PROVE  Endures(p, Flipped(p, FALSE))
<1>1. Flipped(p, FALSE).conn = p.conn /\ Head1(Flipped(p, FALSE)) = Head1(p)
  BY DEF Flipped, Head1
<1> QED
  BY <1>1, CarefulObey, SilentObey, AskObey DEF Endures, Turns

\* and when its question is asked anew.
LEMMA OpenedEndures ==
  ASSUME Rules, NEW p \in Places.silent, p.conn = "inner"
  PROVE  Endures(p, Flipped(p, TRUE))
<1>1. Flipped(p, TRUE).conn = p.conn
  BY DEF Flipped
<1>2. Flipped(p, TRUE) \in Places.silent
  BY SilentObey
<1>3. Flipped(p, TRUE) \in Places.careful /\ Flipped(p, TRUE) \in Places.all
  BY <1>1, <1>2, SilentObey
<1>4. Flipped(p, TRUE) \notin Places.asks
  BY <1>1, OnlyClusterAsks
<1>5. Flipped(p, TRUE) \notin Places.heard
  BY <1>4 DEF Rules, Obeyed, AskRules
<1> QED
  BY <1>1, <1>2, <1>3, <1>4, <1>5 DEF Endures, Turns

\* The run that speaks on a connection is not silent.
LEMMA VoiceIsHeard ==
  ASSUME Rules, Core, NEW t \in threads, NEW N, NEW E, Voice(t, N, E), t.conn # "none"
  PROVE  Place(t) \notin Places.silent
<1>1. Head1(Place(t)) = Head1(t) /\ Place(t).conn = t.conn
  BY PlaceFields
<1>2. Head1(t).op \in {"say", "answer", "relay"} \/ Escaping(Place(t))
  BY DEF Voice
<1> QED
  BY <1>1, <1>2, SilentObey

\* Who asks Master is alone in it.
LEMMA AskingAlone ==
  ASSUME Rules, Core, NEW t \in threads, Head1(t).op \in {"ask", "await"}
  PROVE  /\ Place(t) \in Places.asks
         /\ Head1(t).op = "ask" => Unasked(t.q)
<1>1. Place(t) \in Places.asks
  <2>1. Place(t) \in Places.all /\ Head1(Place(t)) = Head1(t)
    BY PlaceFields DEF Core, Placed
  <2> QED
    BY <2>1, AskObey
<1>2. At(<<"run", t>>) = Place(t) /\ Of(<<"run", t>>) = t /\ <<"run", t>> \in Parties
  BY RunParty
<1> DEFINE a == <<"run", t>>
<1>3. At(a) = Place(t) /\ Of(a) = t /\ a \in Parties
  BY <1>2
<1> HIDE DEF a
<1>4. Head1(At(a)).op = Head1(t).op
  BY <1>3, PlaceFields
<1>5. Head1(t).op = "ask" => Unasked(t.q)
  BY <1>1, <1>3, <1>4 DEF Core, Asked
<1> QED
  BY <1>1, <1>5

\* What does not move endures what the step says.
LEMMA KeptEndures ==
  ASSUME Rules, Core, NEW t \in threads, NEW N, NEW E, Speaks(t, N, E),
         NEW y \in Parties, y # <<"run", t>>, NEW x, Keeps(x, y)
  PROVE  Endures(At(y), At(x)')
<1> DEFINE a == <<"run", t>>
           p == At(y)
           q == Of(y).q
           c == Of(y).conn
<1>1. /\ p \in Places.all /\ q \in Request /\ c \in Conn /\ p.conn = c
  BY PartyTyped, PartyFields
<1>2. Of(a) = t /\ At(a) = Place(t) /\ a \in Parties
  BY RunParty
<1>3. /\ (said[q][c] = "none" <=> said'[q][c] = "none") => At(x)' = p
      /\ said'[q][c] = "none" => At(x)' = Flipped(p, TRUE)
      /\ said'[q][c] # "none" => At(x)' = Flipped(p, FALSE)
  BY DEF Keeps, Open
<1>4. said \in [Request -> [Conn -> Said]] /\ t.q \in Request /\ \A r \in Request : said[r]["none"] = "none"
  BY DEF Core, Typed
<1>5. y # a
  OBVIOUS
<1> HIDE DEF a, p, q, c
<1> SUFFICES Endures(p, At(x)')
  BY DEF p
<1>6. CASE said[q][c] = "none" <=> said'[q][c] = "none"
  BY <1>1, <1>3, <1>6, SelfEndures
<1>7. CASE said[q][c] = "none" /\ said'[q][c] # "none"
  <2>1. Voice(t, N, E) /\ q = t.q /\ c = t.conn /\ c # "none"
    <3>1. CASE Mute(t, N, E)
      BY <1>7, <3>1 DEF Mute
    <3>2. CASE Voice(t, N, E)
      <4>1. PICK v \in Said : said' = [said EXCEPT ![t.q][t.conn] = v] /\ (v = "none" <=> t.conn = "none")
        BY <3>2 DEF Voice
      <4>2. q = t.q /\ c = t.conn
        BY <1>1, <1>4, <1>7, <4>1
      <4>3. t.conn = "none" => said'[t.q][t.conn] = "none"
        BY <1>1, <1>4, <4>1, <4>2
      <4> QED
        BY <1>7, <3>2, <4>2, <4>3
    <3>3. CASE AsksMaster(t, N)
      BY <1>1, <1>4, <1>7, <3>3 DEF AsksMaster
    <3> QED
      BY <3>1, <3>2, <3>3 DEF Speaks
  <2>2. Fits(Places, p, Place(t))
    BY <1>1, <1>2, <1>5, <2>1 DEF Core, Voices, Share, p, q, c
  <2>3. Place(t) \notin Places.silent
    BY <2>1, VoiceIsHeard
  <2>4. p \in Places.careful
    BY <1>1, <2>1, <2>2, <2>3, SilentObey DEF Fits
  <2> QED
    BY <1>1, <1>3, <1>7, <2>1, <2>4, ClosedEndures
<1>8. CASE said[q][c] # "none" /\ said'[q][c] = "none"
  <2>1. AsksMaster(t, N) /\ q = t.q /\ c = "inner"
    <3>1. CASE Mute(t, N, E)
      BY <1>8, <3>1 DEF Mute
    <3>2. CASE Voice(t, N, E)
      <4>1. PICK v \in Said : said' = [said EXCEPT ![t.q][t.conn] = v] /\ (v = "none" <=> t.conn = "none")
        BY <3>2 DEF Voice
      <4>2. q = t.q /\ c = t.conn
        BY <1>1, <1>4, <1>8, <4>1
      <4> QED
        BY <1>4, <1>8, <3>2, <4>2 DEF Voice, Open
    <3>3. CASE AsksMaster(t, N)
      BY <1>1, <1>4, <1>8, <3>3 DEF AsksMaster
    <3> QED
      BY <3>1, <3>2, <3>3 DEF Speaks
  <2>2. Unasked(t.q)
    BY <2>1, AskingAlone DEF AsksMaster
  <2>3. p \in Places.silent
    BY <2>1, <2>2 DEF Unasked, p, q, c
  <2> QED
    BY <1>1, <1>3, <1>8, <2>1, <2>3, OpenedEndures
<1> QED
  BY <1>6, <1>7, <1>8

------------------------------------------------------------------------------
(* The invariant after a step of t.                                        *)

\* Where party x of the next state comes from, by a flow f of the step.
Stays(x, y, a) ==
  /\ y \in Parties /\ y # a
  /\ Of(x)'.q = Of(y).q /\ Of(x)'.conn = Of(y).conn /\ Of(x)'.again = Of(y).again
  /\ Endures(At(y), At(x)')

\* It is a after the step, a run beside it, or one that begins.
Follows(x, a) == Comes(x, a) /\ At(x)' \in Same(At(a))
Joins(x, a) == Comes(x, a) /\ At(x)' \in Sharing(At(a))
Begins(x, a) ==
  /\ Of(x)'.q = Of(a).q /\ At(x)' \in Begun(At(a))
  /\ Of(x)'.conn = "none" \/ (Of(x)'.conn = "inner" /\ Head1(At(a)).op = "ask")

\* Every party after a step stays, follows the run that moved, shares its connection or begins.
LEMMA Origins ==
  ASSUME Rules, Core, NEW t \in threads, NEW N, NEW B, NEW E, Steps(t, N, B, E), Speaks(t, N, E),
         NEW f, NEW M, NEW S, Flow(<<"run", t>>, f, M, S), NEW x \in Parties'
  PROVE  \/ Stays(x, f[x], <<"run", t>>)
         \/ /\ f[x] = <<"run", t>> /\ At(x)' \in Places.all /\ ~Ended(At(x)')
            /\ \/ x \in M /\ Follows(x, <<"run", t>>)
               \/ x \in S /\ (Joins(x, <<"run", t>>) \/ Begins(x, <<"run", t>>))
<1> DEFINE a == <<"run", t>>
<1>1. f[x] \in Parties /\ (f[x] # a => Keeps(x, f[x]))
  BY DEF Flow
<1>2. a \in Parties /\ At(a) \in Places.all
  BY RunParty, PartyTyped
<1>3. f[x] # a => Endures(At(f[x]), At(x)')
  BY <1>1, KeptEndures
<1>4. Flow(a, f, M, S)
  OBVIOUS
<1> HIDE DEF a
<1>5. CASE f[x] # a
  BY <1>1, <1>3, <1>5 DEF Stays, Keeps, a
<1>6. CASE f[x] = a /\ x \in M
  <2>1. Follows(x, a) /\ ~Ended(At(x)')
    BY <1>4, <1>6 DEF Flow, Follows
  <2>2. At(x)' \in Own(At(a))
    BY <2>1 DEF Follows, Own
  <2> QED
    BY <1>2, <1>6, <2>1, <2>2, PlacesObey DEF a
<1>7. CASE f[x] = a /\ x \in S
  <2>1. /\ ~Ended(At(x)') /\ Of(x)'.q = Of(a).q
        /\ At(x)' \in Beside(At(a)) \cup Begun(At(a))
        /\ At(x)' \in Beside(At(a)) => Comes(x, a)
    BY <1>4, <1>7 DEF Flow, Arises, News
  <2>2. At(x)'.conn = Of(x)'.conn /\ At(a).conn = Of(a).conn
    BY PartyFields
  <2>3. CASE At(x)' \in Beside(At(a))
    <3>1. At(x)' \in Own(At(a)) /\ Joins(x, a)
      BY <2>1, <2>3 DEF Joins, Own, Sharing
    <3> QED
      BY <1>2, <1>7, <2>1, <3>1, PlacesObey DEF a
  <2>4. CASE At(x)' \in Begun(At(a))
    <3>1. At(x)' \in Places.all
      BY <1>2, <2>4, PlacesObey
    <3>2. At(x)'.conn = At(a).conn \/ At(x)'.conn = "none" \/ (At(x)'.conn = "inner" /\ Head1(At(a)).op = "ask")
      BY <2>4, BegunDoNotAsk
    <3>3. At(x)'.conn = At(a).conn => Joins(x, a)
      BY <2>1, <2>2, <2>4 DEF Joins, Sharing, Comes
    <3>4. Joins(x, a) \/ Begins(x, a)
      BY <2>1, <2>2, <2>4, <3>2, <3>3 DEF Begins
    <3> QED
      BY <1>7, <2>1, <3>1, <3>4 DEF a
  <2> QED
    BY <2>1, <2>3, <2>4
<1> QED
  BY <1>1, <1>4, <1>5, <1>6, <1>7 DEF Flow, a

\* Fits holds of what endures, and of what silent or careful places become.
LEMMA FitsEndures ==
  ASSUME NEW p, NEW r, NEW n, NEW m, Fits(Places, p, r), Endures(p, n), Endures(r, m)
  PROVE  Fits(Places, n, m)
BY DEF Fits, Endures

\* A run fits what it leaves with its connection.
LEMMA FitsSharing ==
  ASSUME Rules, NEW p, NEW r \in Places.all, NEW n, NEW m, Fits(Places, p, r), Endures(p, n),
         r.conn # "none", m \in Same(r) \cup Sharing(r), ~Ended(m)
  PROVE  Fits(Places, n, m)
<1>1. (r \in Places.careful => m \in Places.careful) /\ (r \in Places.silent => m \in Places.silent)
  BY SharingObey
<1> QED
  BY <1>1 DEF Fits, Endures

\* Fitting is symmetric.
LEMMA FitsSymmetric == ASSUME NEW p, NEW r, Fits(Places, p, r) PROVE Fits(Places, r, p)
BY DEF Fits

\* One that stays, and one that comes from t.
LEMMA StayerAndNewcomer ==
  ASSUME Rules, Core, NEW t \in threads,
         NEW x, NEW y, Stays(x, y, <<"run", t>>),
         NEW z, ~Ended(At(z)'),
         Follows(z, <<"run", t>>) \/ Joins(z, <<"run", t>>) \/ Begins(z, <<"run", t>>),
         Share(x, z)'
  PROVE  Fits(Places, At(x)', At(z)')
<1> DEFINE a == <<"run", t>>
<1>1. a \in Parties /\ At(a) \in Places.all /\ At(a).conn = Of(a).conn /\ At(a) = Place(t) /\ Of(a) = t
  BY RunParty, PartyTyped, PartyFields
<1>2. Of(x)'.q = Of(z)'.q /\ Of(x)'.conn = Of(z)'.conn /\ Of(x)'.conn # "none"
  BY DEF Share
<1>3. /\ Stays(x, y, a)
      /\ Follows(z, a) \/ Joins(z, a) \/ Begins(z, a)
  OBVIOUS
<1> HIDE DEF a
<1>4. CASE Follows(z, a) \/ Joins(z, a)
  <2>1. Comes(z, a) /\ At(z)' \in Same(At(a)) \cup Sharing(At(a))
    BY <1>4 DEF Follows, Joins
  <2>2. Share(y, a) /\ y # a /\ y \in Parties
    BY <1>2, <1>3, <2>1 DEF Stays, Comes, Share
  <2>3. Fits(Places, At(y), At(a))
    BY <1>1, <2>2 DEF Core, Voices
  <2>4. Endures(At(y), At(x)') /\ At(a).conn # "none"
    BY <1>1, <1>3, <2>2 DEF Stays, Share
  <2> QED
    BY <1>1, <2>1, <2>3, <2>4, FitsSharing
<1>5. CASE Begins(z, a)
  <2>1. Of(z)'.conn = "inner" /\ Head1(At(a)).op = "ask" /\ Of(z)'.q = Of(a).q
    BY <1>2, <1>5 DEF Begins
  <2>2. Unasked(t.q)
    BY <1>1, <2>1, PlaceFields, AskingAlone
  <2>3. At(y) \in Places.silent
    BY <1>1, <1>2, <1>3, <2>1, <2>2 DEF Unasked, Stays
  <2> QED
    BY <1>3, <2>3 DEF Stays, Endures, Fits
<1> QED
  BY <1>3, <1>4, <1>5

\* A step keeps Voices,
LEMMA StepKeepsVoices ==
  ASSUME Rules, Core, NEW t \in threads, NEW N, NEW B, NEW E, Steps(t, N, B, E), Speaks(t, N, E),
         NEW f, NEW M, NEW S, Flow(<<"run", t>>, f, M, S)
  PROVE  Voices'
<1> SUFFICES ASSUME NEW x \in Parties', NEW z \in Parties', x # z, Share(x, z)'
             PROVE  Fits(Places, At(x)', At(z)')
  BY DEF Voices
<1> DEFINE a == <<"run", t>>
<1>1. \A w \in Parties' : \/ Stays(w, f[w], a)
                          \/ /\ f[w] = a /\ At(w)' \in Places.all /\ ~Ended(At(w)')
                             /\ \/ w \in M /\ Follows(w, a)
                                \/ w \in S /\ (Joins(w, a) \/ Begins(w, a))
  BY Origins
<1>2. Share(z, x)'
  BY DEF Share
<1>3. Of(x)'.q = Of(z)'.q /\ Of(x)'.conn = Of(z)'.conn /\ Of(x)'.conn # "none"
  BY DEF Share
<1>4. CASE Stays(x, f[x], a) /\ Stays(z, f[z], a)
  <2>1. f[x] # f[z]
    BY <1>4 DEF Flow, Stays
  <2>2. Share(f[x], f[z])
    BY <1>3, <1>4 DEF Stays, Share
  <2>3. Fits(Places, At(f[x]), At(f[z]))
    BY <1>4, <2>1, <2>2 DEF Core, Voices, Stays
  <2>4. Endures(At(f[x]), At(x)') /\ Endures(At(f[z]), At(z)')
    BY <1>4 DEF Stays
  <2> QED
    BY ONLY <2>3, <2>4, FitsEndures
<1>5. CASE Stays(x, f[x], a) /\ ~Stays(z, f[z], a)
  BY <1>1, <1>5, StayerAndNewcomer
<1>6. CASE ~Stays(x, f[x], a) /\ Stays(z, f[z], a)
  BY <1>1, <1>2, <1>6, StayerAndNewcomer, FitsSymmetric
<1>7. CASE ~Stays(x, f[x], a) /\ ~Stays(z, f[z], a)
  <2>0. a \in Parties /\ At(a) \in Places.all /\ At(a).conn = Of(a).conn
    BY RunParty, PartyTyped, PartyFields
  <2>1. \A v, w \in M : v = w
    BY DEF Flow
  <2>2. \A v, w \in S : v = w
    BY DEF Flow
  <2>3. ~(Follows(x, a) /\ Begins(z, a)) /\ ~(Follows(z, a) /\ Begins(x, a))
    <3> SUFFICES ASSUME NEW v, NEW w, Follows(v, a), Begins(w, a), Of(v)'.conn = Of(w)'.conn, Of(v)'.conn # "none"
                 PROVE  FALSE
      BY <1>3
    <3>1. Of(w)'.conn = "inner" /\ Head1(At(a)).op = "ask" /\ Of(a).conn = "inner"
      BY DEF Begins, Follows, Comes
    <3>2. At(a) \in Places.asks
      BY <2>0, <3>1, AskObey
    <3> QED
      BY <2>0, <3>1, <3>2, OnlyClusterAsks
  <2>4. \/ Follows(x, a) /\ Joins(z, a)
        \/ Joins(x, a) /\ Follows(z, a)
    BY <1>1, <1>7, <2>1, <2>2, <2>3
  <2>5. Of(a).conn # "none"
    BY <1>3, <2>4 DEF Follows, Joins, Comes
  <2>6. ~Ended(At(x)') /\ ~Ended(At(z)')
    BY <1>1, <1>7
  <2>7. \A n \in Same(At(a)), b \in Sharing(At(a)) : Ended(n) \/ Ended(b) \/ Fits(Places, n, b)
    BY <2>0, <2>5, SharingObey
  <2> QED
    BY <2>4, <2>6, <2>7, FitsSymmetric DEF Follows, Joins
<1> QED
  BY <1>4, <1>5, <1>6, <1>7

\* Placed,
LEMMA StepKeepsPlaced ==
  ASSUME Rules, Core, NEW t \in threads, NEW N, NEW B, NEW E, Steps(t, N, B, E), Speaks(t, N, E),
         NEW f, NEW M, NEW S, Flow(<<"run", t>>, f, M, S),
         queue' \in [Queue -> Seq(Job)]
  PROVE  Placed'
<1>1. \A x \in Parties' : At(x)' \in Places.all
  BY Origins DEF Stays, Endures
<1> QED
  BY <1>1, PlacedAfter

\* A run that comes from t and asks: so does t.
LEMMA AskerFollows ==
  ASSUME Rules, Core, NEW t \in threads, NEW x, At(x)' \in Places.asks,
         Follows(x, <<"run", t>>) \/ Joins(x, <<"run", t>>) \/ Begins(x, <<"run", t>>)
  PROVE  /\ Place(t) \in Places.asks /\ t.conn # "inner" /\ ~Begins(x, <<"run", t>>)
         /\ Joins(x, <<"run", t>>) => At(x)' \in Beside(Place(t))
         /\ At(x)' \in Own(Place(t))
<1> DEFINE a == <<"run", t>>
<1>1. a \in Parties /\ At(a) \in Places.all /\ At(a).conn = Of(a).conn /\ At(a) = Place(t) /\ Of(a) = t
  BY RunParty, PartyTyped, PartyFields
<1>2. Follows(x, a) \/ Joins(x, a) \/ Begins(x, a)
  OBVIOUS
<1> SUFFICES /\ At(a) \in Places.asks /\ t.conn # "inner" /\ ~Begins(x, a)
             /\ Joins(x, a) => At(x)' \in Beside(At(a))
             /\ At(x)' \in Own(At(a))
  BY <1>1
<1> HIDE DEF a
<1>3. At(x)' \notin Begun(At(a))
  BY BegunDoNotAsk
<1>4. ~Begins(x, a) /\ (Joins(x, a) => At(x)' \in Beside(At(a)))
  BY <1>3 DEF Begins, Joins, Sharing
<1>5. At(x)' \in Own(At(a))
  BY <1>2, <1>4 DEF Own, Follows
<1>6. At(a) \in Places.asks
  BY <1>1, <1>5, AskObey
<1>7. t.conn # "inner"
  BY <1>1, <1>6, OnlyClusterAsks
<1> QED
  BY <1>4, <1>5, <1>6, <1>7

\* When t asks and is not waiting, nobody begins to speak on the inner
\* connection but the run that t's question begins.
LEMMA NewcomersAreSilent ==
  ASSUME Rules, Core, NEW t \in threads, Place(t) \in Places.asks,
         NEW z, Of(z)'.conn = "inner",
         Follows(z, <<"run", t>>) \/ Joins(z, <<"run", t>>) \/ Begins(z, <<"run", t>>)
  PROVE  Begins(z, <<"run", t>>) /\ Head1(t).op = "ask"
<1> DEFINE a == <<"run", t>>
<1>1. a \in Parties /\ At(a) \in Places.all /\ At(a).conn = Of(a).conn /\ At(a) = Place(t) /\ Of(a) = t
  BY RunParty, PartyTyped, PartyFields
<1>2. Follows(z, a) \/ Joins(z, a) \/ Begins(z, a)
  OBVIOUS
<1> HIDE DEF a
<1>3. t.conn # "inner"
  BY <1>1, OnlyClusterAsks
<1>4. Begins(z, a)
  BY <1>1, <1>2, <1>3 DEF Follows, Joins, Comes
<1>5. Head1(At(a)).op = "ask"
  BY <1>4 DEF Begins
<1> QED
  BY <1>1, <1>4, <1>5, PlaceFields DEF a

\* One run of a request asks, after the step too.
LEMMA StepKeepsOneAsker ==
  ASSUME Rules, Core, NEW t \in threads, NEW N, NEW B, NEW E, Steps(t, N, B, E), Speaks(t, N, E),
         NEW f, NEW M, NEW S, Flow(<<"run", t>>, f, M, S),
         NEW x \in Parties', NEW z \in Parties', Of(x)'.q = Of(z)'.q,
         At(x)' \in Places.asks, At(z)' \in Places.asks
  PROVE  x = z
<1> DEFINE a == <<"run", t>>
<1>1. \A w \in Parties' : \/ Stays(w, f[w], a)
                          \/ /\ f[w] = a /\ At(w)' \in Places.all /\ ~Ended(At(w)')
                             /\ \/ w \in M /\ Follows(w, a)
                                \/ w \in S /\ (Joins(w, a) \/ Begins(w, a))
  BY Origins
<1>2. a \in Parties /\ At(a) \in Places.all /\ At(a) = Place(t) /\ Of(a) = t
  BY RunParty, PartyTyped
<1>3. \A w \in Parties' : At(w)' \in Places.asks =>
        /\ Stays(w, f[w], a) => At(f[w]) \in Places.asks /\ f[w] \in Parties /\ f[w] # a /\ Of(w)'.q = Of(f[w]).q
        /\ ~Stays(w, f[w], a) => At(a) \in Places.asks /\ ~Begins(w, a) /\ Of(w)'.q = Of(a).q
  <2> SUFFICES ASSUME NEW w \in Parties', At(w)' \in Places.asks
               PROVE  /\ Stays(w, f[w], a) => At(f[w]) \in Places.asks /\ f[w] \in Parties /\ f[w] # a
                                                /\ Of(w)'.q = Of(f[w]).q
                      /\ ~Stays(w, f[w], a) => At(a) \in Places.asks /\ ~Begins(w, a) /\ Of(w)'.q = Of(a).q
    OBVIOUS
  <2>1. Stays(w, f[w], a) => At(f[w]) \in Places.asks /\ f[w] \in Parties /\ f[w] # a /\ Of(w)'.q = Of(f[w]).q
    BY DEF Stays, Endures
  <2>2. CASE ~Stays(w, f[w], a)
    <3>1. Follows(w, a) \/ Joins(w, a) \/ Begins(w, a)
      BY <1>1, <2>2
    <3>2. At(a) \in Places.asks /\ ~Begins(w, a)
      BY <1>2, <3>1, AskerFollows
    <3>3. Of(w)'.q = Of(a).q
      BY <3>1 DEF Follows, Joins, Begins, Comes
    <3> QED
      BY <2>2, <3>2, <3>3
  <2> QED
    BY <2>1, <2>2
<1>4. \A v, w \in Parties : Of(v).q = Of(w).q /\ At(v) \in Places.asks /\ At(w) \in Places.asks => v = w
  BY DEF Core, Asked
<1>5. CASE Stays(x, f[x], a) /\ Stays(z, f[z], a)
  <2>1. f[x] = f[z] /\ f[x] # a
    BY <1>3, <1>4, <1>5
  <2> QED
    BY <2>1 DEF Flow
<1>6. CASE Stays(x, f[x], a) /\ ~Stays(z, f[z], a)
  BY <1>2, <1>3, <1>4, <1>6
<1>7. CASE ~Stays(x, f[x], a) /\ Stays(z, f[z], a)
  BY <1>2, <1>3, <1>4, <1>7
<1>8. CASE ~Stays(x, f[x], a) /\ ~Stays(z, f[z], a)
  <2>1. (\A v, w \in M : v = w) /\ (\A v, w \in S : v = w)
    BY DEF Flow
  <2>2. ~Begins(x, a) /\ ~Begins(z, a)
    BY <1>3, <1>8
  <2>3. ASSUME NEW v, NEW w, Follows(v, a), Joins(w, a), At(v)' \in Places.asks, At(w)' \in Places.asks
        PROVE  FALSE
    <3>1. At(w)' \in Beside(At(a)) /\ At(v)' \in Same(At(a))
      BY <1>2, <2>3, AskerFollows DEF Follows
    <3>2. \A n \in Same(At(a)), b \in Beside(At(a)) : ~({n, b} \subseteq Places.asks)
      BY <1>2, AskObey
    <3>3. ~({At(v)', At(w)'} \subseteq Places.asks)
      BY ONLY <3>1, <3>2
    <3> QED
      BY <2>3, <3>3
  <2> QED
    BY <1>1, <1>8, <2>1, <2>2, <2>3
<1> QED
  BY <1>5, <1>6, <1>7, <1>8

\* Whom nobody waits for keeps silent.
LEMMA StepKeepsUnasked ==
  ASSUME Rules, Core, NEW t \in threads, StepOf(t),
         NEW N, NEW B, NEW E, Steps(t, N, B, E), Speaks(t, N, E),
         NEW f, NEW S, Flow(<<"run", t>>, f, {"run"} \X N, S),
         Head1(t).op \in {"ask", "relay"} /\ E = {} => S = {},
         NEW x \in Parties', At(x)' \in Places.asks, Head1(At(x)').op # "await"
  PROVE  Unasked(Of(x).q)'
<1> DEFINE a == <<"run", t>>
           M == {"run"} \X N
<1>1. \A w \in Parties' : \/ Stays(w, f[w], a)
                          \/ /\ f[w] = a /\ At(w)' \in Places.all /\ ~Ended(At(w)')
                             /\ \/ w \in M /\ Follows(w, a)
                                \/ w \in S /\ (Joins(w, a) \/ Begins(w, a))
  BY Origins
<1>2. a \in Parties /\ At(a) \in Places.all /\ At(a) = Place(t) /\ Of(a) = t /\ At(a).conn = Of(a).conn
  BY RunParty, PartyTyped, PartyFields
<1>3. Head1(At(a)) = Head1(t)
  BY <1>2, PlaceFields
<1> SUFFICES ASSUME NEW z \in Parties', Of(z)'.q = Of(x)'.q, Of(z)'.conn = "inner"
             PROVE  At(z)' \in Places.silent
  BY DEF Unasked
<1>4. \A v, w \in Parties : Of(v).q = Of(w).q /\ At(v) \in Places.asks /\ At(w) \in Places.asks => v = w
  BY DEF Core, Asked
<1>5. CASE Stays(x, f[x], a)
  <2> DEFINE y == f[x]
  <2>1. /\ y \in Parties /\ y # a /\ At(y) \in Places.asks /\ Head1(At(y)).op # "await"
        /\ Of(y).q = Of(x)'.q
    BY <1>5 DEF Stays, Endures
  <2> HIDE DEF y
  <2>2. Unasked(Of(y).q)
    BY <2>1 DEF Core, Asked
  <2>3. CASE Stays(z, f[z], a)
    <3>1. At(f[z]) \in Places.silent
      BY <2>1, <2>2, <2>3 DEF Unasked, Stays
    <3> QED
      BY <2>3, <3>1 DEF Stays, Endures
  <2>4. CASE Follows(z, a) \/ Joins(z, a)
    <3>1. At(z)' \in Same(At(a)) \cup Sharing(At(a)) /\ Of(a).q = Of(y).q /\ Of(a).conn = "inner"
      BY <2>1, <2>4 DEF Follows, Joins, Comes
    <3>2. At(a) \in Places.silent
      BY <1>2, <2>2, <3>1 DEF Unasked
    <3>3. ~Stays(z, f[z], a) => ~Ended(At(z)')
      BY <1>1
    <3>4. ~Stays(z, f[z], a) => At(z)' \in Places.silent
      BY <1>2, <3>1, <3>2, <3>3, SharingObey
    <3> QED
      BY <2>3, <3>4
  <2>5. CASE Begins(z, a)
    <3>1. Head1(At(a)).op = "ask" /\ Of(a).q = Of(y).q
      BY <2>1, <2>5 DEF Begins
    <3>2. At(a) \in Places.asks
      BY <1>2, <3>1, AskObey
    <3> QED
      BY <1>2, <1>4, <2>1, <3>1, <3>2
  <2> QED
    BY <1>1, <2>3, <2>4, <2>5
<1>6. CASE ~Stays(x, f[x], a)
  <2>1. Follows(x, a) \/ Joins(x, a) \/ Begins(x, a)
    BY <1>1, <1>6
  <2>2. At(a) \in Places.asks /\ ~Begins(x, a) /\ t.conn # "inner" /\ (Joins(x, a) => At(x)' \in Beside(At(a)))
    BY <1>2, <2>1, AskerFollows
  <2>3. Of(x)'.q = t.q
    BY <1>2, <2>1 DEF Follows, Joins, Begins, Comes
  <2>4. Stays(z, f[z], a) \/ (Begins(z, a) /\ Head1(t).op = "ask" /\ z \in S)
    <3>1. CASE ~Stays(z, f[z], a)
      <4>1. Begins(z, a) /\ Head1(t).op = "ask"
        BY <1>1, <1>2, <2>2, <3>1, NewcomersAreSilent
      <4>2. ~Follows(z, a)
        BY <1>2, <2>2 DEF Follows, Comes
      <4> QED
        BY <1>1, <3>1, <4>1, <4>2
    <3> QED
      BY <3>1
  <2>5. CASE Head1(t).op = "ask"
    <3>1. Unasked(t.q)
      BY <2>5, AskingAlone
    <3>2. ~AsksMaster(t, N)
      <4>1. SUFFICES ASSUME AsksMaster(t, N) PROVE FALSE
        OBVIOUS
      <4>2. Beside(At(a)) = {}
        BY <1>3, <2>5 DEF Beside
      <4>3. Follows(x, a) /\ x \in M
        BY <1>1, <1>6, <2>1, <2>2, <4>2
      <4>4. PICK n \in N : x = <<"run", n>>
        BY <4>3
      <4>5. Kin(n, t) /\ Seen(n, Open(t)) \in Moved(At(a))
        BY <1>2, <4>1 DEF AsksMaster, Steps
      <4>6. Head1(Seen(n, Open(t))).op = "await"
        BY <1>2, <1>3, <2>5, <4>5, AskObey
      <4>7. Head1(Seen(n, Open(t))) = Head1(n)
        BY DEF Seen, Head1
      <4>8. Head1(At(x)') = Head1(n)
        <5>1. At(x)' = Place(n)'
          BY <4>4, RunParty
        <5> QED
          BY <5>1 DEF Place, Seen, Head1
      <4> QED
        BY <4>6, <4>7, <4>8
    <3>3. E = {}
      BY <2>5, <3>2 DEF Speaks, Mute, Voice
    <3>4. Stays(z, f[z], a)
      BY <2>4, <2>5, <3>3
    <3>5. At(f[z]) \in Places.silent
      BY <2>3, <3>1, <3>4 DEF Unasked, Stays
    <3> QED
      BY <3>4, <3>5 DEF Stays, Endures
  <2>6. CASE Head1(t).op # "ask"
    <3>1. Stays(z, f[z], a)
      BY <2>4, <2>6
    <3> DEFINE y == f[z]
    <3>2. y \in Parties /\ Of(y).q = t.q /\ Of(y).conn = "inner" /\ Endures(At(y), At(z)')
      BY <2>3, <3>1 DEF Stays
    <3> HIDE DEF y
    <3>3. At(y) \in Places.silent
      <4>1. CASE Head1(t).op # "await"
        <5>1. Unasked(t.q)
          BY <1>2, <1>3, <2>2, <4>1 DEF Core, Asked
        <5> QED
          BY <3>2, <5>1 DEF Unasked
      <4>2. CASE Head1(t).op = "await"
        <5>1. said[t.q]["inner"] # "none"
          BY <4>2, AwaitHears
        <5>2. At(y) \in Places.all /\ At(y).conn = "inner" /\ ~At(y).open
          BY <3>2, <5>1, PartyTyped, PartyFields
        <5> QED
          BY <5>2, AskObey
      <4> QED
        BY <4>1, <4>2
    <3> QED
      BY <3>2, <3>3 DEF Endures
  <2> QED
    BY <2>5, <2>6
<1> QED
  BY <1>5, <1>6

\* and Asked.
LEMMA StepKeepsAsked ==
  ASSUME Rules, Core, NEW t \in threads, StepOf(t),
         NEW N, NEW B, NEW E, Steps(t, N, B, E), Speaks(t, N, E),
         NEW f, NEW S, Flow(<<"run", t>>, f, {"run"} \X N, S),
         Head1(t).op \in {"ask", "relay"} /\ E = {} => S = {}
  PROVE  Asked'
<1>1. \A x, z \in Parties' : Of(x)'.q = Of(z)'.q /\ {At(x)', At(z)'} \subseteq Places.asks => x = z
  BY StepKeepsOneAsker
<1>2. \A x \in Parties' : At(x)' \in Places.asks /\ Head1(At(x)').op # "await" => Unasked(Of(x).q)'
  BY StepKeepsUnasked
<1>3. \A x \in Parties' : Head1(At(x))' = Head1(At(x)')
  BY DEF Head1
<1> QED
  BY <1>1, <1>2, <1>3 DEF Asked

\* Whoever has heard Master: it answered.
LEMMA StepKeepsHeard ==
  ASSUME Rules, Core, NEW t \in threads, StepOf(t),
         NEW N, NEW B, NEW E, Steps(t, N, B, E), Speaks(t, N, E),
         NEW f, NEW M, NEW S, Flow(<<"run", t>>, f, M, S)
  PROVE  Heard'
<1> DEFINE a == <<"run", t>>
<1> SUFFICES ASSUME NEW x \in Parties', At(x)' \in Places.heard
               PROVE  said'[Of(x)'.q]["inner"] # "none"
  BY RunParty DEF Heard
<1>2. \/ Stays(x, f[x], a)
      \/ Follows(x, a) \/ Joins(x, a) \/ Begins(x, a)
  BY Origins
<1>3. a \in Parties /\ At(a) \in Places.all /\ At(a) = Place(t) /\ Of(a) = t
  BY RunParty, PartyTyped
<1>4. Head1(At(a)) = Head1(t)
  BY <1>3, PlaceFields
<1>5. At(x)' \in Places.asks /\ said \in [Request -> [Conn -> Said]] /\ t.q \in Request
  <2>1. Places.heard \subseteq Places.asks
    BY DEF Rules, Obeyed, AskRules
  <2> QED
    BY <2>1 DEF Core, Typed
<1>6. \A q \in Request : said[q]["inner"] # "none" =>
        said'[q]["inner"] # "none" \/ (q = t.q /\ AsksMaster(t, N))
  <2> SUFFICES ASSUME NEW q \in Request, said[q]["inner"] # "none", said'[q]["inner"] = "none"
               PROVE  q = t.q /\ AsksMaster(t, N)
    OBVIOUS
  <2>1. CASE Mute(t, N, E)
    BY <2>1 DEF Mute
  <2>2. CASE Voice(t, N, E)
    <3>1. PICK v \in Said : said' = [said EXCEPT ![t.q][t.conn] = v] /\ (v = "none" <=> t.conn = "none")
      BY <2>2 DEF Voice
    <3>2. q = t.q /\ t.conn = "inner"
      BY <1>5, <3>1 DEF Conn
    <3> QED
      BY <1>5, <3>1, <3>2 DEF Conn
  <2>3. CASE AsksMaster(t, N)
    BY <1>5, <2>3 DEF AsksMaster, Conn
  <2> QED
    BY <2>1, <2>2, <2>3 DEF Speaks
<1>7. AsksMaster(t, N) => At(a) \in Places.asks /\ Head1(t).op = "ask"
  BY <1>3, <1>4, AskObey DEF AsksMaster
<1>8. CASE Stays(x, f[x], a)
  <2> DEFINE y == f[x]
  <2>1. /\ y \in Parties /\ y # a /\ At(y) \in Places.heard /\ At(y) \in Places.asks
        /\ Of(y).q = Of(x)'.q
    BY <1>5, <1>8 DEF Stays, Endures
  <2> HIDE DEF y
  <2>2. said[Of(y).q]["inner"] # "none" /\ Of(y).q \in Request
    BY <2>1, HeardParties, PartyTyped
  <2>3. ~(Of(y).q = t.q /\ AsksMaster(t, N))
    BY <1>3, <1>7, <2>1 DEF Core, Asked
  <2> QED
    BY <1>6, <2>1, <2>2, <2>3
<1>9. CASE Follows(x, a) \/ Joins(x, a) \/ Begins(x, a)
  <2>1. At(x)' \in Own(At(a))
    BY <1>3, <1>5, <1>9, AskerFollows
  <2>2. Head1(At(a)).op = "await" \/ (At(a) \in Places.heard /\ Head1(At(a)).op # "ask")
    BY <1>3, <2>1, AskObey
  <2>3. Of(x)'.q = t.q
    BY <1>3, <1>9 DEF Follows, Joins, Begins, Comes
  <2>4. said[t.q]["inner"] # "none"
    BY <1>3, <1>4, <2>2, AwaitHears, HeardParties
  <2>5. ~AsksMaster(t, N)
    BY <1>4, <1>7, <2>2
  <2> QED
    BY <1>5, <1>6, <2>3, <2>4, <2>5
<1> QED
  BY <1>2, <1>8, <1>9

\* The types.
LEMMA StepKeepsTyped ==
  ASSUME Rules, Core, NEW t \in threads,
         NEW N, NEW B, NEW E, Steps(t, N, B, E), Speaks(t, N, E), Queues(t)
  PROVE  Typed'
<1>0. t.q \in Request /\ t.conn \in Conn /\ t.again \in BOOLEAN /\ Place(t) \in Places.all
  BY RunParty, PartyTyped DEF Core, Typed, Placed
<1>1. \A u \in threads' : IsThread(u) /\ u.q \in Request /\ u.again \in BOOLEAN
  BY <1>0 DEF Steps, Kin, Core, Typed
<1>2. /\ queue \in [Queue -> Seq(Job)] /\ calls \in [Queue -> Nat]
      /\ \A w \in Queue : calls[w] <= Len(queue[w])
  BY DEF Core, Typed
<1>3. /\ queue' \in [Queue -> Seq(Job)] /\ calls' \in [Queue -> Nat]
      /\ \A w \in Queue : calls'[w] <= Len(queue'[w])
  <2>1. CASE queue' = queue /\ calls' = calls
    BY <1>2, <2>1
  <2>2. CASE Pushes(t)
    <3> DEFINE w == Head1(t).name
    <3>1. w \in Queue
      BY <1>0, <2>2, PlacesObey, PlaceFields DEF Pushes
    <3>2. PICK x \in Job : queue' = [queue EXCEPT ![w] = Append(@, x)]
      BY <2>2 DEF Pushes
    <3>3. calls' = [calls EXCEPT ![w] = @ + 1]
      BY <2>2 DEF Pushes
    <3> HIDE DEF w
    <3>4. queue[w] \in Seq(Job) /\ Append(queue[w], x) \in Seq(Job)
          /\ Len(Append(queue[w], x)) = Len(queue[w]) + 1 /\ Len(queue[w]) \in Nat
      BY <1>2, <3>1
    <3> DEFINE s == Append(queue[w], x)
    <3> HIDE DEF s
    <3>5. queue' = [queue EXCEPT ![w] = s] /\ s \in Seq(Job) /\ Len(s) = Len(queue[w]) + 1
      BY <3>2, <3>4 DEF s
    <3> QED
      BY <1>2, <3>1, <3>3, <3>4, <3>5
  <2>3. CASE PutsBack(t)
    <3> DEFINE w == t.name
    <3>1. w \in Queue
      BY <1>0, <2>3, PlacesObey, PlaceFields DEF PutsBack
    <3>2. PICK x \in Job : queue' = [queue EXCEPT ![w] = <<x>> \o @]
      BY <2>3 DEF PutsBack
    <3>3. calls' = calls
      BY <2>3 DEF PutsBack
    <3> HIDE DEF w
    <3>4. queue[w] \in Seq(Job) /\ <<x>> \o queue[w] \in Seq(Job)
          /\ Len(<<x>> \o queue[w]) = Len(queue[w]) + 1 /\ Len(queue[w]) \in Nat
      BY <1>2, <3>1
    <3> DEFINE s == <<x>> \o queue[w]
    <3> HIDE DEF s
    <3>5. queue' = [queue EXCEPT ![w] = s] /\ s \in Seq(Job) /\ Len(s) = Len(queue[w]) + 1
      BY <3>2, <3>4 DEF s
    <3> QED
      BY <1>2, <3>1, <3>3, <3>4, <3>5
  <2>4. CASE Rings(t)
    <3> DEFINE w == t.name
               m == More(calls[w], queue[w])
    <3>1. queue' = queue /\ calls' = [calls EXCEPT ![w] = m]
      BY <2>4 DEF Rings
    <3>2. w \in Queue => m \in Nat /\ m <= Len(queue[w])
      BY <1>2 DEF More
    <3> HIDE DEF w, m
    <3> QED
      BY <1>2, <3>1, <3>2
  <2> QED
    BY <2>1, <2>2, <2>3, <2>4 DEF Queues
<1>4. said' \in [Request -> [Conn -> Said]] /\ \A q \in Request : said'[q]["none"] = "none"
  <2>1. said \in [Request -> [Conn -> Said]] /\ \A q \in Request : said[q]["none"] = "none"
    BY DEF Core, Typed
  <2>2. CASE Mute(t, N, E)
    BY <2>1, <2>2 DEF Mute
  <2>3. CASE Voice(t, N, E)
    <3>1. PICK v \in Said : said' = [said EXCEPT ![t.q][t.conn] = v] /\ (v = "none" <=> t.conn = "none")
      BY <2>3 DEF Voice
    <3>2. said' \in [Request -> [Conn -> Said]]
      BY <1>0, <2>1, <3>1
    <3>3. \A q \in Request : said'[q]["none"] = "none"
      BY <1>0, <2>1, <3>1 DEF Conn
    <3> QED
      BY <3>2, <3>3
  <2>4. CASE AsksMaster(t, N)
    <3>1. "none" \in Said /\ "inner" \in Conn /\ "none" \in Conn
      BY DEF Said, Conn
    <3>2. said' = [said EXCEPT ![t.q]["inner"] = "none"]
      BY <2>4 DEF AsksMaster
    <3> QED
      BY <1>0, <2>1, <3>1, <3>2
  <2> QED
    BY <2>2, <2>3, <2>4 DEF Speaks
<1>5. repeated' = {} /\ escaped' = {}
  BY DEF Speaks, Core, Typed
<1> QED
  BY <1>1, <1>3, <1>4, <1>5 DEF Typed

\* A step keeps the invariant.
LEMMA StepKeepsCore ==
  ASSUME Rules, Core, NEW t \in threads, StepOf(t)
  PROVE  Core'
<1>1. Inv'
  BY StepKeeps DEF Core
<1>2. PICK N, B, E : Shape(t, N, B, E)
  BY StepShape
<1>3. Queues(t)
  BY StepShape
<1>4. Steps(t, N, B, E) /\ Speaks(t, N, E)
  BY <1>2 DEF Shape
<1>5. PICK f, S : /\ Flow(<<"run", t>>, f, {"run"} \X N, S)
                  /\ Head1(t).op \in {"ask", "relay"} /\ E = {} => S = {}
  BY <1>3, <1>4, StepFlows
<1>6. Typed'
  BY <1>3, <1>4, StepKeepsTyped
<1>7. queue' \in [Queue -> Seq(Job)]
  BY <1>6 DEF Typed, Job
<1>8. Placed'
  BY <1>4, <1>5, <1>7, StepKeepsPlaced
<1>9. Voices'
  BY <1>4, <1>5, StepKeepsVoices
<1>10. Asked'
  BY <1>4, <1>5, StepKeepsAsked
<1>11. Heard'
  BY <1>4, <1>5, StepKeepsHeard
<1> QED
  BY <1>1, <1>6, <1>8, <1>9, <1>10, <1>11 DEF Core

------------------------------------------------------------------------------
(* Steps that move no run: a call of a worker, and a restart of Master.    *)

\* Every party of the next state is one of this, at the same place.
Renamed(f) ==
  /\ f \in [Parties' -> Parties]
  /\ \A x, z \in Parties' : f[x] = f[z] => x = z
  /\ \A x \in Parties' : /\ Of(x)'.q = Of(f[x]).q /\ Of(x)'.conn = Of(f[x]).conn
                         /\ Of(x)'.again = Of(f[x]).again /\ At(x)' = At(f[x])
  /\ \A q \in Request : said[q]["inner"] # "none" => said'[q]["inner"] # "none"

\* A step that only renames parties keeps Placed, Voices, Asked and Heard.
LEMMA RenamedKeeps ==
  ASSUME Rules, Core, NEW f, Renamed(f), queue' \in [Queue -> Seq(Job)]
  PROVE  Placed' /\ Voices' /\ Asked' /\ Heard'
<1>1. /\ \A x \in Parties' : /\ f[x] \in Parties /\ Of(x)'.q = Of(f[x]).q
                             /\ Of(x)'.conn = Of(f[x]).conn /\ At(x)' = At(f[x])
      /\ \A x, z \in Parties' : f[x] = f[z] => x = z
  BY DEF Renamed
<1>2. Placed'
  <2>1. \A x \in Parties' : At(x)' \in Places.all
    BY <1>1, PartyTyped
  <2> QED
    BY <2>1, PlacedAfter
<1>3. Voices'
  <2> SUFFICES ASSUME NEW x \in Parties', NEW z \in Parties', x # z, Share(x, z)'
               PROVE  Fits(Places, At(x)', At(z)')
    BY DEF Voices
  <2>1. f[x] # f[z] /\ Share(f[x], f[z])
    <3>1. Of(x)'.q = Of(z)'.q /\ Of(x)'.conn = Of(z)'.conn /\ Of(x)'.conn # "none"
      BY DEF Share
    <3> QED
      BY <1>1, <3>1 DEF Share
  <2>2. Fits(Places, At(f[x]), At(f[z]))
    BY <1>1, <2>1 DEF Core, Voices
  <2> QED
    BY <1>1, <2>2
<1>4. Asked'
  <2>1. ASSUME NEW x \in Parties', NEW z \in Parties', Of(x)'.q = Of(z)'.q, {At(x)', At(z)'} \subseteq Places.asks
        PROVE  x = z
    <3>1. Of(f[x]).q = Of(f[z]).q /\ {At(f[x]), At(f[z])} \subseteq Places.asks
      BY <1>1, <2>1
    <3>2. f[x] = f[z]
      BY <1>1, <3>1 DEF Core, Asked
    <3> QED
      BY <1>1, <3>2
  <2>2. ASSUME NEW x \in Parties', At(x)' \in Places.asks, Head1(At(x)').op # "await"
        PROVE  Unasked(Of(x).q)'
    <3>1. Unasked(Of(f[x]).q)
      BY <1>1, <2>2 DEF Core, Asked
    <3> QED
      BY <1>1, <3>1 DEF Unasked
  <2>3. \A x \in Parties' : Head1(At(x))' = Head1(At(x)')
    BY DEF Head1
  <2> QED
    BY <2>1, <2>2, <2>3 DEF Asked
<1>5. Heard'
  <2> SUFFICES ASSUME NEW x \in Parties', At(x)' \in Places.heard
               PROVE  said'[Of(x)'.q]["inner"] # "none"
    BY RunParty DEF Heard
  <2>1. said[Of(f[x]).q]["inner"] # "none" /\ Of(f[x]).q \in Request
    BY <1>1, HeardParties, PartyTyped
  <2> QED
    BY <1>1, <2>1 DEF Renamed
<1> QED
  BY <1>2, <1>3, <1>4, <1>5

\* The run a call makes of a job.
Called(w, x) == [[Thread(x.q, "worker", w, x.conn) EXCEPT !.job = x.job] EXCEPT !.again = x.again]

\* A called run is where its job was to begin.
LEMMA CalledRun ==
  ASSUME NEW w, NEW x
  PROVE  /\ IsThread(Called(w, x)) /\ Called(w, x).q = x.q /\ Called(w, x).conn = x.conn
         /\ Called(w, x).again = x.again /\ Called(w, x).kind = "worker" /\ Called(w, x).name = w
         /\ Called(w, x).keys = {} /\ Called(w, x).rest = Script["worker"][w]
         /\ Place(Called(w, x))' = JobPlace(w, x)'
<1> DEFINE t == Thread(x.q, "worker", w, x.conn)
           u == [t EXCEPT !.job = x.job]
           c == [u EXCEPT !.again = x.again]
<1>1. /\ IsThread(t) /\ t.q = x.q /\ t.kind = "worker" /\ t.name = w /\ t.conn = x.conn
      /\ t.rest = Script["worker"][w] /\ t.keys = {}
  BY NewSeen
<1>2. t.lent = {} /\ t.err = "none"
  BY DEF Thread
<1> HIDE DEF t
<1>3. u = [q |-> t.q, kind |-> t.kind, name |-> t.name, conn |-> t.conn, job |-> x.job,
           rest |-> t.rest, again |-> t.again, keys |-> t.keys, lent |-> t.lent, err |-> t.err]
  BY <1>1 DEF IsThread
<1> HIDE DEF u
<1>4. c = [q |-> t.q, kind |-> t.kind, name |-> t.name, conn |-> t.conn, job |-> x.job,
           rest |-> t.rest, again |-> x.again, keys |-> t.keys, lent |-> t.lent, err |-> t.err]
  BY <1>3
<1>5. c = Called(w, x)
  BY DEF Called, u, t
<1> HIDE DEF c
<1>6. /\ c.q = x.q /\ c.kind = "worker" /\ c.name = w /\ c.conn = x.conn /\ c.job = x.job
      /\ c.rest = Script["worker"][w] /\ c.keys = {} /\ c.lent = {} /\ c.err = "none"
      /\ c.again = x.again /\ IsThread(c)
  BY <1>1, <1>2, <1>4 DEF IsThread
<1>7. {s[1] : s \in c.keys} = {} /\ {s[1] : s \in c.lent} = {}
  BY <1>6
<1>8. \A o : Seen(c, o) = Entry("worker", w, x.conn, x.job, o)
  BY <1>6, <1>7 DEF Seen, Entry
<1>9. Place(c)' = Seen(c, said'[x.q][x.conn] = "none")
  BY <1>6 DEF Place, Open
<1>10. JobPlace(w, x)' = Entry("worker", w, x.conn, x.job, said'[x.q][x.conn] = "none")
  BY DEF JobPlace, Open
<1>11. Place(c)' = JobPlace(w, x)'
  BY <1>8, <1>9, <1>10
<1> QED
  BY <1>5, <1>6, <1>11

\* A call that makes a run of the first job.
Begin(w) ==
  /\ queue' = [queue EXCEPT ![w] = Tail(@)]
  /\ threads' = threads \cup {Called(w, Head(queue[w]))}

\* What a call does.
LEMMA CallShape ==
  ASSUME Core, NEW w \in Queue, CallWorker(w)
  PROVE  /\ calls[w] > 0 /\ calls[w] \in Nat /\ queue[w] # <<>> /\ queue[w] \in Seq(Job)
         /\ calls' = [calls EXCEPT ![w] = @ - 1] /\ said' = said /\ idle' = idle
         /\ repeated' = repeated /\ escaped' = escaped /\ route' = route
         /\ \/ w \in Single /\ Runs(w) # {} /\ queue' = queue /\ threads' = threads
            \/ (w \notin Single \/ Runs(w) = {}) /\ Begin(w)
<1>1. calls[w] \in Nat /\ calls[w] <= Len(queue[w]) /\ queue[w] \in Seq(Job)
  BY DEF Core, Typed
<1>2. calls[w] > 0
  BY DEF CallWorker
<1>3. queue[w] # <<>>
  BY <1>1, <1>2
<1> QED
  BY <1>1, <1>2, <1>3 DEF CallWorker, Begin, Called, webVars

\* A call renames the job it takes.
LEMMA CallRenames ==
  ASSUME Rules, Core, NEW w \in Queue, CallWorker(w)
  PROVE  \E f : Renamed(f)
<1> DEFINE a == <<"job", <<w, 1>>>>
<1> PICK job : job = Head(queue[w])
  OBVIOUS
<1> PICK c : c = Called(w, job)
  OBVIOUS
<1>0. queue \in [Queue -> Seq(Job)] /\ said' = said /\ queue[w] # <<>>
  BY CallShape DEF Core, Typed
<1>1. \A q \in Request : said[q]["inner"] # "none" => said'[q]["inner"] # "none"
  BY <1>0
<1>2. \A t : Place(t)' = Place(t)
  BY <1>0 DEF Place, Open
<1>3. \A v, x : JobPlace(v, x)' = JobPlace(v, x)
  BY <1>0 DEF JobPlace, Open
<1>4. CASE queue' = queue /\ threads' = threads
  <2> DEFINE f == [x \in Parties |-> x]
  <2>1. Parties' = Parties /\ \A x : Of(x)' = Of(x)
    BY <1>4 DEF Parties, Jobs, Of
  <2>2. \A x : At(x)' = At(x)
    BY <1>2, <1>3, <2>1 DEF At
  <2>3. Renamed(f)
    BY <1>1, <2>1, <2>2 DEF Renamed
  <2> QED
    BY <2>3
<1>5. CASE Begin(w)
  <2>1. /\ queue' = [queue EXCEPT ![w] = Tail(@)] /\ threads' = threads \cup {c}
    BY <1>5 DEF Begin
  <2>2. Place(c) = JobPlace(w, job) /\ c.q = job.q /\ c.conn = job.conn /\ c.again = job.again
    <3>1. Place(c)' = JobPlace(w, job)' /\ c.q = job.q /\ c.conn = job.conn /\ c.again = job.again
      BY CalledRun
    <3>2. Place(c)' = Place(c) /\ JobPlace(w, job)' = JobPlace(w, job)
      BY <1>0 DEF Place, JobPlace, Open
    <3> QED
      BY <3>1, <3>2
  <2>3. /\ <<w, 1>> \in Jobs /\ queue[w][1] = job
        /\ \A j \in Jobs' : j[1] = w =>
             <<w, j[2] + 1>> \in Jobs /\ j = <<w, j[2]>> /\ j[2] \in Nat \ {0}
               /\ queue'[j[1]][j[2]] = queue[w][j[2] + 1]
        /\ \A j \in Jobs' : j[1] # w => j \in Jobs /\ queue'[j[1]][j[2]] = queue[j[1]][j[2]]
    BY <1>0, <2>1, ShiftedJobs
  <2>4. Of(a) = job /\ At(a) = JobPlace(w, job) /\ a \in Parties
    <3> DEFINE k == <<w, 1>>
    <3>1. k \in Jobs /\ k[1] = w /\ queue[k[1]][k[2]] = job
      BY <2>3
    <3> HIDE DEF k
    <3>2. Of(<<"job", k>>) = job /\ At(<<"job", k>>) = JobPlace(w, job) /\ <<"job", k>> \in Parties
      BY <3>1, JobParty
    <3> QED
      BY <3>2 DEF k
  <2> DEFINE g == [j \in Jobs' |-> IF j[1] = w THEN <<w, j[2] + 1>> ELSE j]
             f == [x \in Parties' |->
                    IF x[1] = "run" THEN (IF x[2] \in threads THEN x ELSE a) ELSE <<"job", g[x[2]]>>]
  <2>5. \A j \in Jobs' : /\ g[j] \in Jobs /\ g[j] # <<w, 1>> /\ g[j][1] = j[1]
                         /\ queue'[j[1]][j[2]] = queue[g[j][1]][g[j][2]]
    <3> SUFFICES ASSUME NEW j \in Jobs'
                 PROVE  /\ g[j] \in Jobs /\ g[j] # <<w, 1>> /\ g[j][1] = j[1]
                        /\ queue'[j[1]][j[2]] = queue[g[j][1]][g[j][2]]
      OBVIOUS
    <3>1. CASE j[1] = w
      <4> DEFINE m == j[2] + 1
      <4>1. g[j] = <<w, m>> /\ <<w, m>> \in Jobs /\ queue'[j[1]][j[2]] = queue[w][m]
        BY <2>3, <3>1
      <4>2. m # 1
        BY <2>3, <3>1
      <4> HIDE DEF m, g
      <4>3. g[j][1] = w /\ g[j][2] = m /\ g[j] # <<w, 1>>
        BY <4>1, <4>2
      <4> QED
        BY <3>1, <4>1, <4>3
    <3>2. CASE j[1] # w
      <4>1. g[j] = j
        BY <3>2
      <4> QED
        BY <2>3, <3>2, <4>1
    <3> QED
      BY <3>1, <3>2
  <2>6. \A i, j \in Jobs' : g[i] = g[j] => i = j
    <3> SUFFICES ASSUME NEW i \in Jobs', NEW j \in Jobs', g[i] = g[j] PROVE i = j
      OBVIOUS
    <3>1. i[1] = j[1]
      BY <2>5
    <3>2. CASE i[1] = w
      <4>1. <<w, i[2] + 1>> = <<w, j[2] + 1>>
        BY <3>1, <3>2
      <4>2. i[2] + 1 = j[2] + 1
        BY <4>1
      <4>3. i = <<w, i[2]>> /\ j = <<w, j[2]>> /\ i[2] \in Nat /\ j[2] \in Nat
        BY <2>3, <3>1, <3>2
      <4> QED
        BY <4>2, <4>3
    <3>3. CASE i[1] # w
      BY <3>1, <3>3
    <3> QED
      BY <3>2, <3>3
  <2> HIDE DEF g
  <2>7. \A t \in threads' : f[<<"run", t>>] = IF t \in threads THEN <<"run", t>> ELSE a
    BY RunParty
  <2>8. \A j \in Jobs' : f[<<"job", j>>] = <<"job", g[j]>>
    BY JobParty
  <2>9. f = [x \in Parties' |-> f[x]]
    OBVIOUS
  <2> HIDE DEF f
  <2>9a. \A j \in Jobs' : f[<<"job", j>>] # a
    <3> SUFFICES ASSUME NEW j \in Jobs', f[<<"job", j>>] = a PROVE FALSE
      OBVIOUS
    <3>1. <<"job", g[j]>> = <<"job", <<w, 1>>>>
      BY <2>8
    <3>2. g[j] = <<w, 1>>
      BY ONLY <3>1, Names
    <3> QED
      BY <2>5, <3>2
  <2> HIDE DEF a
  <2>10. \A x \in Parties' : /\ f[x] \in Parties /\ Of(x)'.q = Of(f[x]).q
                             /\ Of(x)'.conn = Of(f[x]).conn /\ Of(x)'.again = Of(f[x]).again
                             /\ At(x)' = At(f[x])
    <3> SUFFICES ASSUME NEW x \in Parties'
                 PROVE  /\ f[x] \in Parties /\ Of(x)'.q = Of(f[x]).q
                        /\ Of(x)'.conn = Of(f[x]).conn /\ Of(x)'.again = Of(f[x]).again
                        /\ At(x)' = At(f[x])
      OBVIOUS
    <3>1. CASE \E t \in threads' : x = <<"run", t>>
      <4>1. PICK t \in threads' : x = <<"run", t>>
        BY <3>1
      <4>2. CASE t \in threads
        BY <1>2, <2>7, <4>1, <4>2, RunParty
      <4>3. CASE t \notin threads
        <5>1. t = c /\ f[x] = a
          BY <2>1, <2>7, <4>1, <4>3
        <5>2. Of(x)' = t /\ At(x)' = Place(t)
          BY <1>2, <4>1, RunParty
        <5> QED
          BY <2>2, <2>4, <5>1, <5>2
      <4> QED
        BY <4>2, <4>3
    <3>2. CASE \E j \in Jobs' : x = <<"job", j>>
      <4>1. PICK j \in Jobs' : x = <<"job", j>>
        BY <3>2
      <4> DEFINE i == g[j]
      <4>2. /\ i \in Jobs /\ i[1] = j[1] /\ queue'[j[1]][j[2]] = queue[i[1]][i[2]] /\ f[x] = <<"job", i>>
        BY <2>5, <2>8, <4>1
      <4> HIDE DEF i
      <4>3. /\ Of(x)' = queue'[j[1]][j[2]] /\ At(x)' = JobPlace(j[1], queue'[j[1]][j[2]])
            /\ Of(f[x]) = queue[i[1]][i[2]] /\ At(f[x]) = JobPlace(i[1], queue[i[1]][i[2]])
            /\ f[x] \in Parties
        <5>1. /\ Of(x)' = queue'[j[1]][j[2]] /\ At(x)' = JobPlace(j[1], queue[j[1]][j[2]])'
          BY <4>1, JobParty
        <5>2. At(x)' = JobPlace(j[1], queue'[j[1]][j[2]])
          BY <1>0, <5>1 DEF JobPlace, Open
        <5> QED
          BY <4>2, <5>1, <5>2, JobParty
      <4> QED
        BY <4>2, <4>3
    <3> QED
      BY <3>1, <3>2, PartyKinds
  <2>11. \A x, z \in Parties' : f[x] = f[z] => x = z
    <3> SUFFICES ASSUME NEW x \in Parties', NEW z \in Parties', f[x] = f[z] PROVE x = z
      OBVIOUS
    <3>1. CASE (\E t \in threads' : x = <<"run", t>>) /\ (\E t \in threads' : z = <<"run", t>>)
      <4>1. PICK t \in threads', u \in threads' : x = <<"run", t>> /\ z = <<"run", u>>
        BY <3>1
      <4>2. /\ f[x] = <<"run", t>> \/ (f[x] = a /\ t = c)
            /\ f[z] = <<"run", u>> \/ (f[z] = a /\ u = c)
        BY <2>1, <2>7, <4>1
      <4>3. a # <<"run", t>> /\ a # <<"run", u>>
        BY Names DEF a
      <4> QED
        BY <4>1, <4>2, <4>3, Names
    <3>2. CASE (\E j \in Jobs' : x = <<"job", j>>) /\ (\E j \in Jobs' : z = <<"job", j>>)
      <4>1. PICK i \in Jobs', j \in Jobs' : x = <<"job", i>> /\ z = <<"job", j>>
        BY <3>2
      <4>2. <<"job", g[i]>> = <<"job", g[j]>>
        BY <2>8, <4>1
      <4>3. g[i] = g[j]
        BY ONLY <4>2, Names
      <4> QED
        BY <2>6, <4>1, <4>3
    <3>3. ASSUME NEW t \in threads', NEW j \in Jobs' PROVE f[<<"run", t>>] # f[<<"job", j>>]
      <4>1. f[<<"job", j>>] # a /\ f[<<"job", j>>] = <<"job", g[j]>>
        BY <2>8, <2>9a
      <4>2. f[<<"run", t>>] = a \/ f[<<"run", t>>] = <<"run", t>>
        BY <2>7
      <4> QED
        BY <4>1, <4>2, Names
    <3> QED
      BY <3>1, <3>2, <3>3, PartyKinds
  <2>12. Renamed(f)
    BY <1>1, <2>9, <2>10, <2>11 DEF Renamed
  <2> QED
    BY <2>12
<1> QED
  BY <1>4, <1>5, CallShape

\* A call keeps the invariant.
LEMMA CallKeepsCore ==
  ASSUME Rules, Core, NEW w \in Queue, CallWorker(w)
  PROVE  Core'
<1>1. Inv'
  BY CallKeeps DEF Core
<1>2. /\ queue \in [Queue -> Seq(Job)] /\ calls \in [Queue -> Nat]
      /\ \A v \in Queue : calls[v] <= Len(queue[v])
      /\ \A t \in threads : IsThread(t) /\ t.q \in Request /\ t.again \in BOOLEAN
      /\ said \in [Request -> [Conn -> Said]] /\ \A q \in Request : said[q]["none"] = "none"
      /\ repeated = {} /\ escaped = {}
  BY DEF Core, Typed
<1>3. /\ calls[w] > 0 /\ calls[w] \in Nat /\ queue[w] # <<>> /\ queue[w] \in Seq(Job)
      /\ calls' = [calls EXCEPT ![w] = @ - 1] /\ said' = said
      /\ repeated' = repeated /\ escaped' = escaped
      /\ \/ queue' = queue /\ threads' = threads
         \/ Begin(w)
  BY CallShape
<1>4. /\ queue' \in [Queue -> Seq(Job)] /\ calls' \in [Queue -> Nat]
      /\ \A v \in Queue : calls'[v] <= Len(queue'[v])
      /\ \A t \in threads' : IsThread(t) /\ t.q \in Request /\ t.again \in BOOLEAN
  <2>1. CASE queue' = queue /\ threads' = threads
    BY <1>2, <1>3, <2>1
  <2>2. CASE Begin(w)
    <3> DEFINE s == Tail(queue[w])
               c == Called(w, Head(queue[w]))
    <3>1. s \in Seq(Job) /\ Len(s) = Len(queue[w]) - 1 /\ Len(queue[w]) \in Nat /\ Head(queue[w]) \in Job
      BY <1>3
    <3>2. queue' = [queue EXCEPT ![w] = s] /\ threads' = threads \cup {c}
      BY <2>2 DEF Begin
    <3>3. IsThread(c) /\ c.q \in Request /\ c.again \in BOOLEAN
      <4>1. Head(queue[w]).q \in Request /\ Head(queue[w]).again \in BOOLEAN
        BY <3>1 DEF Job
      <4> QED
        BY <4>1, CalledRun
    <3> HIDE DEF s, c
    <3> QED
      BY <1>2, <1>3, <3>1, <3>2, <3>3
  <2> QED
    BY <1>3, <2>1, <2>2
<1>5. Typed'
  BY <1>2, <1>3, <1>4 DEF Typed
<1>6. PICK f : Renamed(f)
  BY CallRenames
<1>7. Placed' /\ Voices' /\ Asked' /\ Heard'
  BY <1>4, <1>6, RenamedKeeps
<1> QED
  BY <1>1, <1>5, <1>7 DEF Core

\* The runs of the Cluster survive a restart, and their places with them.
LEMMA AliveStays ==
  ASSUME Rules, Core, Restart, NEW t \in threads, ~OnMaster(t)
  PROVE  Place(t)' = Place(t)
<1>1. t.q \in Request /\ t.conn \in Conn /\ t.conn # "inner"
  <2>1. Place(t) \in Places.all /\ Place(t).conn = t.conn /\ ~OnMaster(Place(t))
    BY PlaceFields DEF Core, Placed
  <2> QED
    BY <2>1, AskObey, PlacesObey DEF Core, Typed
<1> DEFINE alive == {u \in threads : ~OnMaster(u)}
           Lost(q, c) == /\ said[q][c] = "none"
                         /\ ~\E u \in alive : u.q = q /\ u.conn = c
                         /\ c = "inner" => \E u \in alive : u.q = q /\ Head1(u).op = "await"
                         /\ c # "none"
<1>2. said' = [q \in Request |-> [c \in Conn |-> IF Lost(q, c) THEN "lost" ELSE said[q][c]]]
  BY DEF Restart
<1>3. ~Lost(t.q, t.conn)
  OBVIOUS
<1> HIDE DEF Lost, alive
<1>4. said'[t.q][t.conn] = said[t.q][t.conn]
  BY <1>1, <1>2, <1>3
<1> QED
  BY <1>4 DEF Place, Open

\* A restart answers, and takes no answer back.
LEMMA RestartSays ==
  ASSUME Core, Restart
  PROVE  /\ said' \in [Request -> [Conn -> Said]]
         /\ \A q \in Request, c \in Conn : said[q][c] # "none" => said'[q][c] # "none"
         /\ \A q \in Request : said'[q]["none"] = "none"
<1>0. said \in [Request -> [Conn -> Said]] /\ \A q \in Request : said[q]["none"] = "none"
  BY DEF Core, Typed
<1> DEFINE alive == {u \in threads : ~OnMaster(u)}
           Lost(q, c) == /\ said[q][c] = "none"
                         /\ ~\E u \in alive : u.q = q /\ u.conn = c
                         /\ c = "inner" => \E u \in alive : u.q = q /\ Head1(u).op = "await"
                         /\ c # "none"
<1>1. said' = [q \in Request |-> [c \in Conn |-> IF Lost(q, c) THEN "lost" ELSE said[q][c]]]
  BY DEF Restart
<1>2. \A q \in Request : ~Lost(q, "none")
  OBVIOUS
<1>3. "lost" \in Said /\ "none" \in Conn
  BY DEF Said, Conn
<1> HIDE DEF Lost
<1>4. \A q \in Request : said'[q] \in [Conn -> Said]
  <2> SUFFICES ASSUME NEW q \in Request PROVE said'[q] \in [Conn -> Said]
    OBVIOUS
  <2>1. said'[q] = [c \in Conn |-> IF Lost(q, c) THEN "lost" ELSE said[q][c]]
    BY <1>1
  <2> QED
    BY <1>0, <1>3, <2>1
<1> QED
  BY <1>0, <1>1, <1>2, <1>3, <1>4

\* A restart leaves the Cluster's parties as they are.
LEMMA RestartRenames ==
  ASSUME Rules, Core, Restart
  PROVE  \E f : Renamed(f)
<1> DEFINE f == [x \in Parties' |-> x]
<1>0. "inner" \in Conn
  BY DEF Conn
<1>1. threads' = {t \in threads : ~OnMaster(t)} /\ queue' = [w \in Queue |-> <<>>]
  BY DEF Restart
<1>2. Jobs' = {}
  BY <1>1 DEF Jobs
<1>3. \A x \in Parties' : \E t \in threads' : x = <<"run", t>> /\ t \in threads /\ ~OnMaster(t)
  BY <1>1, <1>2, PartyKinds
<1>4. \A x \in Parties' : /\ f[x] = x /\ x \in Parties /\ Of(x)'.q = Of(x).q
                          /\ Of(x)'.conn = Of(x).conn /\ Of(x)'.again = Of(x).again /\ At(x)' = At(x)
  <2> SUFFICES ASSUME NEW x \in Parties'
               PROVE  /\ f[x] = x /\ x \in Parties /\ Of(x)'.q = Of(x).q
                      /\ Of(x)'.conn = Of(x).conn /\ Of(x)'.again = Of(x).again /\ At(x)' = At(x)
    OBVIOUS
  <2>1. PICK t \in threads' : x = <<"run", t>> /\ t \in threads /\ ~OnMaster(t)
    BY <1>3
  <2>2. Place(t)' = Place(t)
    BY <2>1, AliveStays
  <2> QED
    BY <2>1, <2>2, RunParty
<1>5. \A q \in Request : said[q]["inner"] # "none" => said'[q]["inner"] # "none"
  BY <1>0, RestartSays
<1>6. f = [x \in Parties' |-> f[x]]
  OBVIOUS
<1> HIDE DEF f
<1>7. Renamed(f)
  BY <1>4, <1>5, <1>6 DEF Renamed
<1> QED
  BY <1>7

\* A restart keeps the invariant.
LEMMA RestartKeepsCore ==
  ASSUME Rules, Core, Restart
  PROVE  Core'
<1>1. Inv'
  BY RestartKeeps DEF Core
<1>2. /\ queue' = [w \in Queue |-> <<>>] /\ calls' = [w \in Queue |-> 0]
      /\ threads' \subseteq threads /\ repeated' = repeated /\ escaped' = escaped
  BY DEF Restart
<1>3. /\ queue' \in [Queue -> Seq(Job)] /\ calls' \in [Queue -> Nat]
      /\ \A w \in Queue : calls'[w] <= Len(queue'[w])
  BY <1>2
<1>4. Typed'
  BY <1>2, <1>3, RestartSays DEF Core, Typed
<1>5. PICK f : Renamed(f)
  BY RestartRenames
<1>6. Placed' /\ Voices' /\ Asked' /\ Heard'
  BY <1>3, <1>5, RenamedKeeps
<1> QED
  BY <1>1, <1>4, <1>6 DEF Core

------------------------------------------------------------------------------
(* Core is an invariant.                                                   *)

\* A request's door is one of the doors.
LEMMA RequestsHaveDoors ==
  ASSUME Init, NEW q \in Asking
  PROVE  Entry(route[q][1], route[q][2], "client", NoJob, TRUE) \in Doors(Routes)
<1>1. route[q] \in {route[r] : r \in DOMAIN route}
  BY DEF Asking
<1>2. route[q] \in Routes
  <2>1. {route[r] : r \in DOMAIN route} \in {{m[r] : r \in DOMAIN m} : m \in Mixes}
    BY DEF Init
  <2> QED
    BY <1>1, <2>1 DEF Routes
<1> QED
  BY <1>2 DEF Doors

\* It holds at the start: each request has one run, and nobody has an answer.
LEMMA InitHasCore == ASSUME Rules, Init PROVE Core
<1> DEFINE run(q) == Thread(q, route[q][1], route[q][2], "client")
           door(q) == Entry(route[q][1], route[q][2], "client", NoJob, TRUE)
<1>1. Inv
  BY InitIsSound
<1>2. Asking \subseteq Request
  BY MixAssumption DEF Asking, Init
<1>3. threads = {run(q) : q \in Asking} /\ queue = [w \in Queue |-> <<>>] /\ calls = [w \in Queue |-> 0]
      /\ said = [q \in Request |-> [c \in Conn |-> "none"]] /\ repeated = {} /\ escaped = {}
      /\ route \in Mixes
  BY DEF Init
<1>4. "none" \in Said /\ "none" \in Conn /\ "client" \in Conn
  BY DEF Said, Conn
<1>5. \A q \in Asking : door(q) \in Places.all /\ door(q) \notin Places.heard
  <2> SUFFICES ASSUME NEW q \in Asking PROVE door(q) \in Places.all /\ door(q) \notin Places.heard
    OBVIOUS
  <2>1. door(q) \in Doors(Routes)
    BY RequestsHaveDoors
  <2> HIDE DEF door
  <2> QED
    BY <2>1 DEF Rules, Obeyed, DoorRules
<1>6. \A q \in Asking : /\ IsThread(run(q)) /\ run(q).q = q /\ run(q).conn = "client" /\ run(q).again \in BOOLEAN
                        /\ Place(run(q)) = door(q)
  <2> SUFFICES ASSUME NEW q \in Asking
               PROVE  /\ IsThread(run(q)) /\ run(q).q = q /\ run(q).conn = "client" /\ run(q).again \in BOOLEAN
                      /\ Place(run(q)) = door(q)
    OBVIOUS
  <2>1. \A o : Seen(run(q), o) = Entry(route[q][1], route[q][2], "client", NoJob, o)
    BY NewSeen
  <2>2. IsThread(run(q)) /\ run(q).q = q /\ run(q).conn = "client" /\ run(q).again \in BOOLEAN
    BY NewSeen
  <2> HIDE DEF run
  <2>3. Open(run(q))
    BY <1>2, <1>3, <1>4, <2>2 DEF Open
  <2>4. Place(run(q)) = Seen(run(q), TRUE)
    BY <2>3 DEF Place
  <2> QED
    BY <2>1, <2>2, <2>4
<1> HIDE DEF run, door
<1>7. Jobs = {}
  BY <1>3 DEF Jobs
<1>8. \A x \in Parties : \E q \in Asking : x = <<"run", run(q)>> /\ Of(x) = run(q) /\ At(x) = door(q)
  BY <1>3, <1>6, <1>7, PartyKinds, RunParty
<1>9. queue \in [Queue -> Seq(Job)] /\ calls \in [Queue -> Nat] /\ \A w \in Queue : calls[w] <= Len(queue[w])
  BY <1>3
<1>10. said \in [Request -> [Conn -> Said]] /\ \A q \in Request : said[q]["none"] = "none"
  BY <1>3, <1>4
<1>11. Typed
  BY <1>2, <1>3, <1>6, <1>9, <1>10 DEF Typed
<1>12. Placed
  BY <1>3, <1>5, <1>6 DEF Placed
<1>13. \A x, y \in Parties : Of(x).q = Of(y).q => x = y
  BY <1>6, <1>8
<1>14. Voices
  BY <1>13 DEF Voices, Share
<1>15. Asked
  <2>1. \A x \in Parties : Of(x).conn = "client"
    BY <1>6, <1>8
  <2> QED
    BY <1>13, <2>1 DEF Asked, Unasked
<1>16. Heard
  BY <1>3, <1>5, <1>6 DEF Heard
<1> QED
  BY <1>1, <1>11, <1>12, <1>14, <1>15, <1>16 DEF Core

\* It is a predicate of the variables.
LEMMA CoreStutters == ASSUME Core, UNCHANGED vars PROVE Core'
<1>1. /\ threads' = threads /\ queue' = queue /\ said' = said /\ idle' = idle
      /\ calls' = calls /\ repeated' = repeated /\ escaped' = escaped
  BY DEF vars
<1>2. /\ \A x : Of(x)' = Of(x)
      /\ \A x : At(x)' = At(x)
      /\ Parties' = Parties
  BY <1>1 DEF Of, At, Parties, Jobs, Place, JobPlace, Open
<1>3. Inv'
  BY <1>1 DEF Core, Inv, Sound, Apart, Held
<1>4. Typed' /\ Heard' /\ Placed'
  BY <1>1 DEF Core, Typed, Heard, Placed, Place, JobPlace, Open
<1>5. Voices' /\ Asked'
  BY <1>2 DEF Core, Voices, Asked, Share, Unasked
<1> QED
  BY <1>3, <1>4, <1>5 DEF Core

\* Core is inductive when the scripts obey.
LEMMA CoreIsInductive == ASSUME Rules, Core, [Next]_vars PROVE Core'
<1>1. ASSUME NEW t \in threads, Turn(t), StepOf(t) PROVE Core'
  BY <1>1, StepKeepsCore
<1>2. CASE FireTimer
  BY <1>2, CallKeepsCore DEF FireTimer
<1>3. CASE Restart
  BY <1>3, RestartKeepsCore
<1>4. CASE UNCHANGED vars
  BY <1>4, CoreStutters
<1> QED
  BY <1>1, <1>2, <1>3, <1>4 DEF Next

\* If the scripts obey: every run is where the scripts can be, runs that share a
\* connection fit, and at most one run of a request asks Master (res.json, the
\* relays and postLocalhostBuffer).
THEOREM CoreInvariance == ASSUME Rules PROVE Spec => []Core
<1>1. Init => Core
  BY InitHasCore
<1>2. Core /\ [Next]_vars => Core'
  BY CoreIsInductive
<1> QED
  BY <1>1, <1>2, PTL DEF Spec

\* If the scripts obey: no response gets a second answer, whoever of the body,
\* its catch, the worker and the relay comes first.
THEOREM EachAnsweredOnce == ASSUME Rules PROVE Spec => []AnsweredOnce
<1>1. Core => AnsweredOnce
  BY DEF Core, Typed, AnsweredOnce
<1> QED
  BY <1>1, CoreInvariance, PTL

\* If the scripts obey: no exception of a worker or a background block is left
\* unhandled.
THEOREM NothingEscapes == ASSUME Rules PROVE Spec => []NoEscape
<1>1. Core => NoEscape
  BY DEF Core, Typed, NoEscape
<1> QED
  BY <1>1, CoreInvariance, PTL

------------------------------------------------------------------------------
(* No key is lost.                                                         *)

\* Every key is in the pool or with a run.
Covered == \A s \in Slot : s[2] \in idle[s[1]] \/ \E t \in threads : s \in t.keys

\* What a step does to the pool.
LEMMA StepTouchesPool ==
  ASSUME NEW t \in threads, StepOf(t)
  PROVE  \/ idle' = idle
         \/ /\ Head1(t).op = "give"
            /\ idle' = [ch \in Chain |-> idle[ch] \cup {k \in KeyOf[ch] : <<ch, k>> \in t.keys}]
         \/ /\ Head1(t).op \in {"take", "poll"}
            /\ \E ks \in IdleKeys(Head1(t).name) :
                 Take(ks) /\ Replace(t, {[Next1(t) EXCEPT !.keys = @ \cup ks]})
<1>1. CASE Choose(t) \/ Await(t) \/ ThrowError(t) \/ InspectError(t) \/ RememberOutcome(t) \/ LookAtJob(t)
  BY <1>1 DEF Choose, Await, ThrowError, InspectError, RememberOutcome, LookAtJob, runVars
<1>2. CASE EnterTry(t) \/ EnterFinally(t) \/ Return(t) \/ SpawnBlock(t) \/ SayAnswer(t) \/ GiveAnswer(t)
  BY <1>2 DEF EnterTry, EnterFinally, Return, SpawnBlock, SayAnswer, GiveAnswer, runVars
<1>3. CASE SendTx(t) \/ AwaitReceipt(t) \/ WriteRow(t) \/ RelayRequest(t) \/ AskMaster(t) \/ HearMaster(t)
  BY <1>3 DEF SendTx, AwaitReceipt, WriteRow, RelayRequest, AskMaster, HearMaster, runVars
<1>4. CASE PostRequest(t) \/ PushJob(t) \/ PutBack(t) \/ SetTimer(t) \/ LookForSlot(t) \/ BorrowSlot(t)
  BY <1>4 DEF PostRequest, PushJob, PutBack, SetTimer, LookForSlot, BorrowSlot, runVars
<1>5. CASE TakeSlot(t)
  BY <1>5 DEF TakeSlot
<1>6. CASE PollForSlot(t)
  BY <1>6 DEF PollForSlot
<1>7. CASE GiveSlots(t)
  BY <1>7 DEF GiveSlots
<1> QED
  BY <1>1, <1>2, <1>3, <1>4, <1>5, <1>6, <1>7 DEF StepOf

\* A run does not end with a key.
LEMMA HolderGoesOn ==
  ASSUME Rules, Core, NEW t \in threads, NEW n, NEW o, Seen(n, o) \in Own(Place(t)), NEW s \in n.keys
  PROVE  n.rest # <<>>
<1>1. Place(t) \in Places.all
  BY DEF Core, Placed
<1>2. IF Ended(Seen(n, o)) THEN Seen(n, o).holds = {} ELSE Seen(n, o) \in Places.all
  BY <1>1, PlacesObey
<1>3. s[1] \in Seen(n, o).holds /\ Seen(n, o).rest = n.rest
  BY DEF Seen
<1> QED
  BY <1>2, <1>3 DEF Ended

\* The keys of a run that does not return them stay with it or its block.
LEMMA StepPassesKeys ==
  ASSUME Rules, Core, NEW t \in threads, StepOf(t), Head1(t).op # "give", NEW s \in t.keys
  PROVE  \E u \in threads' : s \in u.keys
<1>1. PICK N, B, E : Steps(t, N, B, E)
  BY StepShape DEF Shape
<1>2. CASE N = {}
  <2>1. Place(t).holds = {}
    BY <1>1, <1>2, PlacesObey DEF Steps, Core, Placed
  <2>2. s[1] \in Place(t).holds
    BY PlaceChains
  <2> QED
    BY <2>1, <2>2
<1>3. CASE N # {}
  <2>1. PICK n \in N \cup B : s \in n.keys
    BY <1>1, <1>3 DEF Steps
  <2>2. Seen(n, Open(t)') \in Own(Place(t))
    BY <1>1 DEF Steps, Own
  <2>3. PICK o : o = Open(t)'
    OBVIOUS
  <2>4. Seen(n, o) \in Own(Place(t))
    BY <2>2, <2>3
  <2>5. n.rest # <<>>
    BY <2>1, <2>4, HolderGoesOn
  <2>6. n \in threads'
    BY <1>1, <2>5 DEF Steps
  <2> QED
    BY <2>1, <2>6
<1> QED
  BY <1>2, <1>3

\* The keys that a run takes are with it afterwards.
LEMMA TakenKeys ==
  ASSUME Rules, Core, NEW t \in threads, NEW ks \in IdleKeys(Head1(t).name),
         Replace(t, {[Next1(t) EXCEPT !.keys = @ \cup ks]}),
         Head1(t).op \in {"take", "poll"}, NEW s \in ks
  PROVE  \E u \in threads' : s \in u.keys
<1> DEFINE w == Next1(t)
           k == t.keys \cup ks
           n == [w EXCEPT !.keys = k]
<1>1. IsThread(t)
  BY DEF Core, Inv, Sound, Shaped
<1>2. Kin(w, t) /\ w.keys = t.keys /\ Seen(w, Open(t)) = Next1(Place(t))
  BY <1>1, WithSeen, PlaceFields DEF Next1, Place
<1>3. Replace(t, {n})
  BY <1>2
<1> HIDE DEF w, k
<1>3a. IsThread(w)
  BY <1>2 DEF Kin
<1>4. n.keys = k /\ Seen(n, Open(t)) = [Seen(w, Open(t)) EXCEPT !.holds = {x[1] : x \in k}]
  BY ONLY <1>3a, KeysSeen, Zenon
<1>5. {x[1] : x \in k} = {x[1] : x \in t.keys} \cup {x[1] : x \in ks}
  BY DEF k
<1>6. {x[1] : x \in k} = Place(t).holds \cup Chains(Head1(Place(t)).name)
  BY <1>5, IdleChains, PlaceFields, PlaceChains
<1> HIDE DEF n
<1>7. Seen(n, Open(t)) = Keyed(Place(t))
  BY <1>2, <1>4, <1>6 DEF Keyed
<1>8. Seen(n, Open(t)) \in Own(Place(t))
  BY <1>7, PlaceFields DEF Moved, Same, Own
<1>9. s \in n.keys
  BY <1>4 DEF k
<1>10. n.rest # <<>>
  BY <1>8, <1>9, HolderGoesOn
<1> QED
  BY <1>3, <1>9, <1>10 DEF Replace

\* A step loses no key.
LEMMA StepCovers ==
  ASSUME Rules, Core, Covered, NEW t \in threads, StepOf(t)
  PROVE  Covered'
<1> SUFFICES ASSUME NEW s \in Slot
             PROVE  s[2] \in idle'[s[1]] \/ \E u \in threads' : s \in u.keys
  BY DEF Covered
<1>0. s[1] \in Chain /\ s[2] \in KeyOf[s[1]] /\ s = <<s[1], s[2]>>
  BY SlotIsPair
<1>1. ASSUME Head1(t).op # "give", NEW u \in threads, s \in u.keys
      PROVE  \E v \in threads' : s \in v.keys
  <2>1. CASE u = t
    BY <1>1, <2>1, StepPassesKeys
  <2>2. CASE u # t
    <3>1. PICK N, B, E : Steps(t, N, B, E)
      BY StepShape DEF Shape
    <3>2. u \in threads'
      BY <2>2, <3>1 DEF Steps
    <3> QED
      BY <1>1, <3>2
  <2> QED
    BY <2>1, <2>2
<1>2. CASE Head1(t).op # "give" /\ idle' = idle
  BY <1>1, <1>2 DEF Covered
<1>3. CASE /\ Head1(t).op \in {"take", "poll"}
           /\ \E ks \in IdleKeys(Head1(t).name) :
                 Take(ks) /\ Replace(t, {[Next1(t) EXCEPT !.keys = @ \cup ks]})
  <2>1. PICK ks \in IdleKeys(Head1(t).name) : Take(ks) /\ Replace(t, {[Next1(t) EXCEPT !.keys = @ \cup ks]})
    BY <1>3
  <2>2. CASE s \in ks
    BY <1>3, <2>1, <2>2, TakenKeys
  <2>3. CASE s \notin ks /\ s[2] \in idle[s[1]]
    <3>1. idle'[s[1]] = idle[s[1]] \ {k \in KeyOf[s[1]] : <<s[1], k>> \in ks}
      BY <1>0, <2>1 DEF Take
    <3> QED
      BY <1>0, <2>3, <3>1
  <2>4. CASE \E u \in threads : s \in u.keys
    BY <1>1, <1>3, <2>4
  <2> QED
    BY <2>2, <2>3, <2>4 DEF Covered
<1>4. CASE /\ Head1(t).op = "give"
           /\ idle' = [ch \in Chain |-> idle[ch] \cup {k \in KeyOf[ch] : <<ch, k>> \in t.keys}]
  <2>1. idle'[s[1]] = idle[s[1]] \cup {k \in KeyOf[s[1]] : <<s[1], k>> \in t.keys}
    BY <1>0, <1>4
  <2>2. CASE s[2] \in idle[s[1]] \/ s \in t.keys
    BY <1>0, <2>1, <2>2
  <2>3. ASSUME NEW u \in threads, u # t, s \in u.keys PROVE \E v \in threads' : s \in v.keys
    <3>1. PICK N, B, E : Steps(t, N, B, E)
      BY StepShape DEF Shape
    <3> QED
      BY <2>3, <3>1 DEF Steps
  <2> QED
    BY <2>2, <2>3 DEF Covered
<1>5. Head1(t).op = "give" => ~(Head1(t).op \in {"take", "poll"})
  OBVIOUS
<1>6. CASE Head1(t).op = "give" /\ idle' = idle
  <2>1. GiveSlots(t)
    BY <1>6 DEF StepOf, Choose, Await, ThrowError, InspectError, RememberOutcome, LookAtJob,
       EnterTry, EnterFinally, Return, SpawnBlock, SayAnswer, GiveAnswer,
       SendTx, AwaitReceipt, WriteRow, RelayRequest, AskMaster, HearMaster,
       PostRequest, PushJob, PutBack, SetTimer, LookForSlot, BorrowSlot, TakeSlot, PollForSlot
  <2> QED
    BY <1>4, <1>6, <2>1 DEF GiveSlots
<1> QED
  BY <1>2, <1>3, <1>4, <1>6, StepTouchesPool

\* Covered is inductive with Core.
LEMMA CoveredIsInductive == ASSUME Rules, Core, Covered, [Next]_vars PROVE Covered'
<1>1. ASSUME NEW t \in threads, Turn(t), StepOf(t) PROVE Covered'
  BY <1>1, StepCovers
<1>2. CASE FireTimer
  <2>1. idle' = idle /\ threads \subseteq threads'
    BY <1>2 DEF FireTimer, CallWorker
  <2> QED
    BY <2>1 DEF Covered
<1>3. CASE Restart
  <2>1. idle' = KeyOf
    BY <1>3 DEF Restart
  <2> QED
    BY <2>1, SlotIsPair DEF Covered
<1>4. CASE UNCHANGED vars
  BY <1>4 DEF vars, Covered
<1> QED
  BY <1>1, <1>2, <1>3, <1>4 DEF Next

\* Covered and held once: that is KeysKept.
LEMMA CoveredKeepsKeys == ASSUME Core, Covered PROVE KeysKept
<1> SUFFICES ASSUME NEW ch \in Chain, NEW k \in KeyOf[ch]
             PROVE  Cardinality({t \in threads : <<ch, k>> \in t.keys}) = IF k \in idle[ch] THEN 0 ELSE 1
  BY DEF KeysKept
<1> DEFINE s == <<ch, k>>
           H == {t \in threads : s \in t.keys}
<1>1. s \in Slot /\ s[1] = ch /\ s[2] = k
  BY DEF Slot
<1>2. \A t, u \in H : t = u
  BY DEF Core, Inv, Sound, Apart
<1>3. CASE k \in idle[ch]
  <2>1. H = {}
    BY <1>1, <1>3 DEF Core, Inv, Sound, Held
  <2> QED
    BY <1>3, <2>1, FS_EmptySet
<1>4. CASE k \notin idle[ch]
  <2>1. PICK t \in threads : s \in t.keys
    BY <1>1, <1>4 DEF Covered
  <2>2. H = {t}
    BY <1>2, <2>1
  <2> QED
    BY <1>4, <2>2, FS_Singleton
<1> QED
  BY <1>3, <1>4

\* If the scripts obey: every settle-admin key is in the pool or with exactly one
\* run (shiftSettle*, unshiftSettle*), also across restarts.
THEOREM KeysAreKept == ASSUME Rules PROVE Spec => []KeysKept
<1>1. Init => Covered
  BY SlotIsPair DEF Init, Covered
<1>2. Core /\ Covered /\ [Next]_vars => Covered'
  BY CoveredIsInductive
<1>3. Core /\ Covered => KeysKept
  BY CoveredKeepsKeys
<1> QED
  BY <1>1, <1>2, <1>3, CoreInvariance, PTL DEF Spec

\* Who sends without a key is in Borrowers.
LEMMA CoreKeepsWalletsApart == ASSUME Rules, Core PROVE WalletAlone
<1> SUFFICES ASSUME NEW t \in threads, NEW u \in threads, t # u, Wallets(t) \cap Wallets(u) # {},
                    {t.name, u.name} \cap Borrowers = {}
             PROVE  FALSE
  BY DEF WalletAlone
<1>1. ASSUME NEW v \in threads, v.name \notin Borrowers PROVE Wallets(v) \subseteq v.keys
  <2>1. CASE v.keys # {}
    BY <2>1 DEF Wallets
  <2>2. CASE v.keys = {} /\ Head1(v).op = "send"
    <3> DEFINE p == Place(v)
    <3>1. p \in Places.all /\ Head1(p).op = "send" /\ p.name = v.name
      BY <2>2, PlaceFields DEF Core, Placed
    <3>2. p.holds = {x[1] : x \in v.keys} /\ p.lent = {x[1] : x \in v.lent}
      BY PlaceChains
    <3> HIDE DEF p
    <3>3. p.lent # {} /\ p.holds = {} => p.name \in Borrowers
      BY <3>1 DEF Rules, Obeyed, PlaceRules
    <3>4. v.lent = {}
      BY <1>1, <2>2, <3>1, <3>2, <3>3
    <3> QED
      BY <2>2, <3>4 DEF Wallets
  <2>3. CASE v.keys = {} /\ Head1(v).op # "send"
    BY <2>3 DEF Wallets
  <2> QED
    BY <2>1, <2>2, <2>3
<1>2. Wallets(t) \subseteq t.keys /\ Wallets(u) \subseteq u.keys
  BY <1>1
<1> QED
  BY <1>2 DEF Core, Inv, Sound, Apart

\* If the scripts obey: two runs send from one wallet only if one is in Borrowers.
THEOREM WalletsAreAlone == ASSUME Rules PROVE Spec => []WalletAlone
<1>1. Core => WalletAlone
  BY CoreKeepsWalletsApart
<1> QED
  BY <1>1, CoreInvariance, PTL

------------------------------------------------------------------------------
(* Who has the client's connection.                                        *)

\* A run or a job of q will answer the client, or hand it on.
Waiting(q) == \E x \in Parties : Of(x).q = q /\ At(x) \in Places.owes
\* Every client has an answer or somebody who owes it one.
Waited ==
  /\ Asking \subseteq Request
  /\ \A q \in Asking : said[q]["client"] # "none" \/ Waiting(q)

\* The rules of OweRules, one by one.
LEMMA OweObey ==
  ASSUME Rules, NEW p \in Places.owes
  PROVE  /\ p \in Places.all /\ p.conn = "client"
         /\ Head1(p).op \notin {"say", "answer", "relay", "push", "requeue"} =>
              Same(p) \subseteq Places.owes \/ (Beside(p) # {} /\ Beside(p) \subseteq Places.owes)
BY DEF Rules, Obeyed, OweRules

\* Whom the client is handed to owes an answer.
LEMMA HandedOn ==
  ASSUME Rules, NEW p \in Places.owes, p.open, Head1(p).op \in {"relay", "push", "requeue"}
  PROVE  Begun(p) \subseteq Places.owes
<1>1. p \in Places.all /\ p.conn = "client"
  BY OweObey
<1>2. \A n \in Begun(p) : n.conn = "client" /\ n.open => n \in Places.owes
  BY <1>1 DEF Rules, Obeyed, OweRules
<1>3. \A k, m, j : Entry(k, m, p.conn, j, p.open).conn = p.conn /\ Entry(k, m, p.conn, j, p.open).open = p.open
  BY DEF Entry
<1>4. \E k, m, j : Begun(p) = {Entry(k, m, p.conn, j, p.open)}
  BY DEF Begun
<1> QED
  BY <1>1, <1>2, <1>3, <1>4

\* A client that has an answer keeps it.
LEMMA ClientHears ==
  ASSUME Core, NEW t \in threads, NEW N, NEW E, Speaks(t, N, E), NEW q \in Request,
         said'[q]["client"] = "none"
  PROVE  said[q]["client"] = "none"
<1>0. said \in [Request -> [Conn -> Said]] /\ t.q \in Request /\ "client" \in Conn
  BY DEF Core, Typed, Conn
<1>1. CASE Mute(t, N, E)
  BY <1>1 DEF Mute
<1>2. CASE Voice(t, N, E)
  <2>1. PICK v \in Said : said' = [said EXCEPT ![t.q][t.conn] = v]
    BY <1>2 DEF Voice
  <2>2. CASE q = t.q /\ t.conn = "client"
    BY <1>2, <2>2 DEF Voice, Open
  <2>3. CASE ~(q = t.q /\ t.conn = "client")
    BY <1>0, <2>1, <2>3
  <2> QED
    BY <2>2, <2>3
<1>3. CASE AsksMaster(t, N)
  BY <1>0, <1>3 DEF AsksMaster
<1> QED
  BY <1>1, <1>2, <1>3 DEF Speaks

\* A voice on the client's connection is its answer.
LEMMA ClientAnswered ==
  ASSUME Core, NEW t \in threads, NEW N, NEW E, Voice(t, N, E), t.conn = "client"
  PROVE  said'[t.q]["client"] # "none"
<1>0. said \in [Request -> [Conn -> Said]] /\ t.q \in Request /\ "client" \in Conn
  BY DEF Core, Typed, Conn
<1>1. PICK v \in Said : said' = [said EXCEPT ![t.q][t.conn] = v] /\ (v = "none" <=> t.conn = "none")
  BY DEF Voice
<1> QED
  BY <1>0, <1>1

\* The run that owes an answer goes on, leaves it to its block, or hands the
\* client on.
LEMMA OwingGoesOn ==
  ASSUME Rules, Core, NEW t \in threads, NEW N, NEW B, NEW E,
         Steps(t, N, B, E), Speaks(t, N, E),
         NEW f, NEW M, NEW S, Flow(<<"run", t>>, f, M, S),
         Place(t) \in Places.owes, said'[t.q]["client"] = "none"
  PROVE  \E x \in Parties' : Of(x)'.q = t.q /\ At(x)' \in Places.owes
<1> PICK p : p = Place(t)
  OBVIOUS
<1>1. /\ p \in Places.all /\ p.conn = "client" /\ t.conn = "client" /\ Head1(p) = Head1(t)
      /\ p.open = Open(t) /\ p \in Places.owes
  BY OweObey, PlaceFields
<1>2. t.q \in Request /\ Open(t)
  BY <1>1, ClientHears DEF Open, Core, Typed
<1>3. ~Voice(t, N, E)
  BY <1>1, ClientAnswered
<1>4. /\ Head1(t).op \notin {"say", "answer"} /\ N # {}
      /\ Head1(t).op = "relay" => E # {}
  BY <1>1, <1>2, <1>3 DEF Speaks, Mute, AsksMaster
<1>5. \A n : Kin(n, t) => Place(n)' = Seen(n, Open(t)') /\ n.q = t.q
  BY DEF Kin, Place, Open
<1>6. ASSUME NEW n \in threads', n.q = t.q, Place(n)' \in Places.owes
      PROVE  \E x \in Parties' : Of(x)'.q = t.q /\ At(x)' \in Places.owes
  <2> DEFINE x == <<"run", n>>
  <2>1. x \in Parties' /\ Of(x)' = n /\ At(x)' = Place(n)'
    BY RunParty
  <2> HIDE DEF x
  <2> QED
    BY <1>6, <2>1
<1>7. \A n : Place(n)'.rest = n.rest
  BY DEF Place, Seen
<1>8. \A n : Place(n)' \in Places.owes => n.rest # <<>>
  <2> SUFFICES ASSUME NEW n, Place(n)' \in Places.owes PROVE n.rest # <<>>
    OBVIOUS
  <2>1. PICK r : r = Place(n)'
    OBVIOUS
  <2>2. ~Ended(r)
    BY <2>1, OweObey, PlacesObey
  <2> QED
    BY <1>7, <2>1, <2>2 DEF Ended
<1>9. CASE Head1(p).op = "relay"
  <2>1. PICK e \in E : TRUE
    BY <1>1, <1>4, <1>9
  <2>2. e.q = t.q /\ Place(e)' \in Places.owes
    BY <1>1, <1>2, <1>9, HandedOn DEF Steps
  <2>3. e \in threads'
    BY <1>8, <2>2 DEF Steps
  <2> QED
    BY <1>6, <2>2, <2>3
<1>10. CASE Head1(p).op \in {"push", "requeue"}
  <2> DEFINE a == <<"run", t>>
  <2>1. Of(a) = t /\ At(a) = p
    BY RunParty
  <2> HIDE DEF a
  <2>2. Flow(a, f, M, S)
    BY DEF a
  <2>3. PICK x \in S : x \in Parties' /\ At(x)' \in Begun(p)
    BY <1>10, <2>1, <2>2 DEF Flow
  <2>4. Of(x)'.q = t.q
    BY <2>1, <2>2 DEF Flow, Arises
  <2>5. Begun(p) \subseteq Places.owes
    BY <1>1, <1>2, <1>10, HandedOn
  <2> QED
    BY <2>3, <2>4, <2>5
<1>11. CASE Head1(p).op \notin {"relay", "push", "requeue"}
  <2>1. CASE Same(p) \subseteq Places.owes
    <3>1. PICK n \in N : TRUE
      BY <1>4
    <3>2. Kin(n, t) /\ Seen(n, Open(t)') \in Same(p)
      BY DEF Steps
    <3>3. n.q = t.q /\ Place(n)' \in Places.owes
      BY <1>5, <2>1, <3>2
    <3>4. n \in threads'
      BY <1>8, <3>3 DEF Steps
    <3> QED
      BY <1>6, <3>3, <3>4
  <2>2. CASE Beside(p) # {} /\ Beside(p) \subseteq Places.owes
    <3>1. PICK n \in B : TRUE
      BY <2>2 DEF Steps
    <3>2. Kin(n, t) /\ Seen(n, Open(t)') \in Beside(p)
      BY DEF Steps
    <3>3. n.q = t.q /\ Place(n)' \in Places.owes
      BY <1>5, <2>2, <3>2
    <3>4. n \in threads'
      BY <1>8, <3>3 DEF Steps
    <3> QED
      BY <1>6, <3>3, <3>4
  <2> QED
    BY <1>1, <1>4, <1>11, <2>1, <2>2, OweObey
<1> QED
  BY <1>9, <1>10, <1>11

\* No step changes the route that is asked.
LEMMA StepKeepsRoute == ASSUME NEW t, StepOf(t) PROVE route' = route
BY DEF StepOf, Choose, Await, ThrowError, InspectError, RememberOutcome, LookAtJob,
   EnterTry, EnterFinally, Return, SpawnBlock, SayAnswer, GiveAnswer,
   SendTx, AwaitReceipt, WriteRow, RelayRequest, AskMaster, HearMaster,
   PostRequest, PushJob, PutBack, SetTimer, LookForSlot, BorrowSlot, TakeSlot, PollForSlot, GiveSlots

\* A step forgets nobody,
LEMMA StepKeepsWaited ==
  ASSUME Rules, Core, Waited, NEW t \in threads, StepOf(t)
  PROVE  Waited'
<1>1. PICK N, B, E : Steps(t, N, B, E) /\ Speaks(t, N, E)
  BY StepShape DEF Shape
<1>2. PICK f, S : Flow(<<"run", t>>, f, {"run"} \X N, S)
  BY <1>1, StepShape, StepFlows
<1>3. Asking' = Asking
  BY StepKeepsRoute DEF Asking
<1> SUFFICES ASSUME NEW q \in Asking, said'[q]["client"] = "none"
             PROVE  \E x \in Parties' : Of(x)'.q = q /\ At(x)' \in Places.owes
  BY <1>3 DEF Waited, Waiting
<1>4. q \in Request
  BY DEF Waited
<1>5. said[q]["client"] = "none"
  BY <1>1, <1>4, ClientHears
<1>6. PICK y \in Parties : Of(y).q = q /\ At(y) \in Places.owes
  BY <1>5 DEF Waited, Waiting
<1>7. CASE y = <<"run", t>>
  <2>1. t.q = q /\ Place(t) \in Places.owes
    BY <1>6, <1>7, RunParty
  <2> QED
    BY <1>1, <1>2, <2>1, OwingGoesOn
<1>8. CASE y # <<"run", t>>
  <2>1. PICK x \in Parties' : Keeps(x, y)
    BY <1>2, <1>8 DEF Flow
  <2>2. Of(y).conn = "client"
    BY <1>6, OweObey, PartyFields
  <2>3. At(x)' = At(y) /\ Of(x)'.q = q
    BY <1>5, <1>6, <2>1, <2>2 DEF Keeps, Open
  <2> QED
    BY <1>6, <2>3
<1> QED
  BY <1>7, <1>8

\* nor does a call;
LEMMA CallKeepsWaited ==
  ASSUME Rules, Core, Waited, NEW w \in Queue, CallWorker(w)
  PROVE  Waited'
<1>0. said' = said /\ route' = route /\ queue \in [Queue -> Seq(Job)] /\ queue[w] # <<>>
  BY CallShape DEF Core, Typed
<1>1. Asking' = Asking
  BY <1>0 DEF Asking
<1> SUFFICES ASSUME NEW y \in Parties, At(y) \in Places.owes
             PROVE  \E x \in Parties' : Of(x)'.q = Of(y).q /\ At(x)' \in Places.owes
  BY <1>0, <1>1 DEF Waited, Waiting
<1>2. /\ \A t : Place(t)' = Place(t)
      /\ \A v, x : JobPlace(v, x)' = JobPlace(v, x)
  BY <1>0 DEF Place, JobPlace, Open
<1>3. threads \subseteq threads'
  BY CallShape DEF Begin
<1>4. CASE \E t \in threads : y = <<"run", t>>
  <2>1. PICK t \in threads : y = <<"run", t>>
    BY <1>4
  <2>2. y \in Parties' /\ Of(y)' = Of(y) /\ At(y)' = At(y)
    BY <1>2, <1>3, <2>1, RunParty
  <2> QED
    BY <2>2
<1>5. CASE \E j \in Jobs : y = <<"job", j>>
  <2>1. PICK j \in Jobs : y = <<"job", j>>
    BY <1>5
  <2>2. Of(y) = queue[j[1]][j[2]] /\ At(y) = JobPlace(j[1], queue[j[1]][j[2]])
    BY <2>1, JobParty
  <2>3. CASE queue' = queue
    <3>1. y \in Parties' /\ Of(y)' = Of(y) /\ At(y)' = At(y)
      BY <1>2, <2>1, <2>3, JobParty DEF Jobs
    <3> QED
      BY <3>1
  <2>4. CASE Begin(w)
    <3>0. queue' = [queue EXCEPT ![w] = Tail(@)] /\ threads' = threads \cup {Called(w, Head(queue[w]))}
      BY <2>4 DEF Begin
    <3>1. CASE j = <<w, 1>>
      <4> PICK job : job = Head(queue[w])
        OBVIOUS
      <4> PICK c : c = Called(w, job)
        OBVIOUS
      <4>1. queue[w][1] = job
        BY <1>0
      <4>2. c \in threads' /\ c.q = job.q /\ Place(c)' = JobPlace(w, job)'
        BY <3>0, CalledRun
      <4>3. Of(y) = job /\ At(y) = JobPlace(w, job)
        BY <2>2, <3>1, <4>1
      <4> DEFINE x == <<"run", c>>
      <4>4. x \in Parties' /\ Of(x)' = c /\ At(x)' = Place(c)'
        BY <4>2, RunParty
      <4> HIDE DEF x
      <4>5. JobPlace(w, job)' = JobPlace(w, job)
        BY <1>2
      <4> QED
        BY <4>2, <4>3, <4>4, <4>5
    <3>2. CASE j # <<w, 1>>
      <4>1. \E k \in Jobs' : k[1] = j[1] /\ queue'[k[1]][k[2]] = queue[j[1]][j[2]]
        <5>1. CASE j[1] = w
          <6> DEFINE k == <<w, j[2] - 1>>
          <6>1. k \in Jobs' /\ queue'[w][j[2] - 1] = queue[j[1]][j[2]]
            <7>1. queue' = [queue EXCEPT ![w] = Tail(@)]
              BY <3>0
            <7>2. \A i \in Jobs : i[1] = w /\ i # <<w, 1>> =>
                    <<w, i[2] - 1>> \in Jobs' /\ queue'[w][i[2] - 1] = queue[i[1]][i[2]]
              BY ONLY <1>0, <7>1, w \in Queue, ShiftedJobs
            <7> QED
              BY <3>2, <5>1, <7>2
          <6>2. k[1] = j[1] /\ queue'[k[1]][k[2]] = queue[j[1]][j[2]]
            BY <5>1, <6>1
          <6> QED
            BY <6>1, <6>2
        <5>2. CASE j[1] # w
          BY <1>0, <3>0, <5>2, ShiftedJobs
        <5> QED
          BY <5>1, <5>2
      <4>2. PICK k \in Jobs' : k[1] = j[1] /\ queue'[k[1]][k[2]] = queue[j[1]][j[2]]
        BY <4>1
      <4> PICK job : job = queue[j[1]][j[2]]
        OBVIOUS
      <4> PICK v : v = j[1]
        OBVIOUS
      <4> DEFINE x == <<"job", k>>
      <4>3. Of(x)' = job /\ At(x)' = JobPlace(v, job)' /\ x \in Parties'
        BY <4>2, JobAt, JobParty
      <4> HIDE DEF x
      <4>4. JobPlace(v, job)' = JobPlace(v, job)
        BY <1>2
      <4> QED
        BY <2>2, <4>3, <4>4
    <3> QED
      BY <3>1, <3>2
  <2> QED
    BY <2>3, <2>4, CallShape
<1> QED
  BY <1>4, <1>5, PartyKinds

\* A restart leaves the Cluster's runs, which wait for something.
LEMMA RestartKeepsWaited ==
  ASSUME Rules, Core, Waited, Quiet, Restart
  PROVE  Waited'
<1> DEFINE alive == {u \in threads : ~OnMaster(u)}
           Lost(q, c) == /\ said[q][c] = "none"
                         /\ ~\E u \in alive : u.q = q /\ u.conn = c
                         /\ c = "inner" => \E u \in alive : u.q = q /\ Head1(u).op = "await"
                         /\ c # "none"
<1>1. /\ said' = [q \in Request |-> [c \in Conn |-> IF Lost(q, c) THEN "lost" ELSE said[q][c]]]
      /\ threads' = alive /\ route' = route
  BY DEF Restart
<1>2. Asking' = Asking
  BY <1>1 DEF Asking
<1> SUFFICES ASSUME NEW q \in Asking, said'[q]["client"] = "none"
             PROVE  \E x \in Parties' : Of(x)'.q = q /\ At(x)' \in Places.owes
  BY <1>2 DEF Waited, Waiting
<1>3. q \in Request /\ "client" \in Conn
  BY DEF Waited, Conn
<1>4. ~Lost(q, "client") /\ said[q]["client"] = "none"
  <2> HIDE DEF Lost
  <2>1. said'[q]["client"] = IF Lost(q, "client") THEN "lost" ELSE said[q]["client"]
    BY <1>1, <1>3
  <2> QED
    BY <2>1
<1>5. PICK u \in threads : ~OnMaster(u) /\ u.q = q /\ u.conn = "client"
  BY <1>4
<1>6. Place(u)' = Place(u)
  BY <1>5, AliveStays
<1> PICK p : p = Place(u)
  OBVIOUS
<1>7. /\ p \in Places.all /\ p.conn = "client" /\ p.open /\ ~OnMaster(p) /\ Head1(p) = Head1(u)
  <2>1. p.conn = u.conn /\ p.open = Open(u) /\ p.kind = u.kind /\ Head1(p) = Head1(u)
    BY PlaceFields
  <2>2. Open(u)
    BY <1>4, <1>5 DEF Open
  <2>3. p \in Places.all
    BY <1>5 DEF Core, Placed
  <2> QED
    BY <1>5, <2>1, <2>2, <2>3 DEF OnMaster
<1>8. ~Synchronous(p)
  BY <1>7 DEF Quiet, Synchronous
<1>9. p \in Places.owes
  BY <1>7, <1>8 DEF Rules, Obeyed, OweRules
<1> DEFINE x == <<"run", u>>
<1>10. u \in threads'
  BY <1>1, <1>5
<1>11. x \in Parties' /\ Of(x)' = u /\ At(x)' = Place(u)'
  BY <1>10, RunParty
<1> HIDE DEF x, alive, Lost
<1> QED
  BY <1>5, <1>6, <1>9, <1>11

\* at the start the run of each request owes its answer.
LEMMA InitHasWaited == ASSUME Rules, Init PROVE Waited
<1> SUFFICES ASSUME NEW q \in Asking
             PROVE  \E x \in Parties : Of(x).q = q /\ At(x) \in Places.owes
  BY MixAssumption DEF Waited, Waiting, Init, Asking
<1>0. q \in Request /\ "client" \in Conn
  BY MixAssumption DEF Asking, Conn, Init
<1> DEFINE run == Thread(q, route[q][1], route[q][2], "client")
           door == Entry(route[q][1], route[q][2], "client", NoJob, TRUE)
           x == <<"run", run>>
<1>1. run \in threads /\ said[q]["client"] = "none" /\ route \in Mixes
  BY <1>0 DEF Init
<1>2. door \in Places.owes
  <2>1. door \in Doors(Routes)
    BY RequestsHaveDoors
  <2> HIDE DEF door
  <2> QED
    BY <2>1 DEF Rules, Obeyed, DoorRules
<1>3. run.q = q /\ run.conn = "client" /\ Seen(run, TRUE) = door
  <2>1. \A o : Seen(run, o) = Entry(route[q][1], route[q][2], "client", NoJob, o)
    BY NewSeen
  <2>2. run.q = q /\ run.conn = "client"
    BY NewSeen
  <2> HIDE DEF run
  <2> QED
    BY <2>1, <2>2
<1> HIDE DEF run, door
<1>4. Place(run) = Seen(run, TRUE)
  BY <1>1, <1>3 DEF Place, Open
<1>5. x \in Parties /\ Of(x) = run /\ At(x) = Place(run)
  BY <1>1, RunParty
<1> HIDE DEF x
<1>6. Of(x).q = q /\ At(x) \in Places.owes
  BY <1>2, <1>3, <1>4, <1>5
<1> QED
  BY <1>5, <1>6

\* Nobody who waits is forgotten.
LEMMA WaitedForgetsNobody == ASSUME Rules, Core, Waited PROVE NobodyForgotten
<1> SUFFICES ASSUME NEW q \in Asking, said[q]["client"] = "none"
             PROVE  \/ \E t \in threads : t.q = q /\ t.conn = "client"
                    \/ \E w \in Queue : \E i \in DOMAIN queue[w] : queue[w][i].q = q /\ queue[w][i].conn = "client"
  BY DEF NobodyForgotten
<1>1. PICK x \in Parties : Of(x).q = q /\ At(x) \in Places.owes
  BY DEF Waited, Waiting
<1>2. Of(x).conn = "client"
  BY <1>1, OweObey, PartyFields
<1>3. CASE \E t \in threads : x = <<"run", t>>
  BY <1>1, <1>2, <1>3, RunParty
<1>4. CASE \E j \in Jobs : x = <<"job", j>>
  <2>1. PICK j \in Jobs : x = <<"job", j>>
    BY <1>4
  <2>2. Of(x) = queue[j[1]][j[2]] /\ j[1] \in Queue /\ j[2] \in DOMAIN queue[j[1]]
    BY <2>1, JobParty DEF Jobs
  <2> QED
    BY <1>1, <1>2, <2>2
<1> QED
  BY <1>3, <1>4, PartyKinds

\* If the scripts obey: while a client waits, a run or a queued job has its
\* response in hand, also when Master restarts under it.
THEOREM NobodyIsForgotten == ASSUME Rules PROVE Spec => []NobodyForgotten
<1>1. Init => Waited
  BY InitHasWaited
<1>2. Core /\ Waited /\ [Next]_vars => Waited'
  <2> SUFFICES ASSUME Core, Waited, [Next]_vars PROVE Waited'
    OBVIOUS
  <2>1. ASSUME NEW t \in threads, Turn(t), StepOf(t) PROVE Waited'
    BY <2>1, StepKeepsWaited
  <2>2. CASE FireTimer
    BY <2>2, CallKeepsWaited DEF FireTimer
  <2>3. CASE Quiet /\ Restart
    BY <2>3, RestartKeepsWaited
  <2>4. CASE UNCHANGED vars
    <3>1. /\ threads' = threads /\ queue' = queue /\ said' = said /\ route' = route
      BY <2>4 DEF vars
    <3>2. /\ \A x : Of(x)' = Of(x)
          /\ \A x : At(x)' = At(x)
          /\ Parties' = Parties
      BY <3>1 DEF Of, At, Parties, Jobs, Place, JobPlace, Open
    <3>3. Asking' = Asking
      BY <3>1 DEF Asking
    <3> QED
      BY <3>1, <3>2, <3>3 DEF Waited, Waiting
  <2> QED
    BY <2>1, <2>2, <2>3, <2>4 DEF Next
<1>3. Core /\ Waited => NobodyForgotten
  BY WaitedForgetsNobody
<1> QED
  BY <1>1, <1>2, <1>3, CoreInvariance, PTL DEF Spec

------------------------------------------------------------------------------
(* Who calls a worker again.                                               *)

\* A run of w that will call w again;
Ringing(w) == \E t \in threads : t.kind = "worker" /\ t.name = w /\ Place(t) \in Places.rings
\* one of a direct worker that is about to.
Returning(w) ==
  \E t \in threads : t.kind = "worker" /\ t.name = w /\ Place(t) \in Places.first /\ Head1(t).op = "again"

\* A worker that rings has a call for its jobs, or a run that will call it;
Rung == \A w \in Queue \ Places.direct : queue[w] # <<>> => calls[w] > 0 \/ Ringing(w)
\* a direct one has a call for each job, or is about to make the last one;
Matched ==
  \A w \in Queue \cap Places.direct :
    Len(queue[w]) <= calls[w] \/ (Returning(w) /\ Len(queue[w]) <= calls[w] + 1)
\* and one run at a time is in the first steps of a direct worker.
OneFirst == \A t, u \in threads : {Place(t), Place(u)} \subseteq Places.first => t = u

Attended == Rung /\ Matched /\ OneFirst

\* The rules that a ringing place obeys,
LEMMA RingObey ==
  ASSUME Rules, NEW p \in Places.rings
  PROVE  /\ p \in Places.all /\ p.kind = "worker"
         /\ Head1(p).op # "again" =>
              Same(p) \subseteq Places.rings \/ (Beside(p) # {} /\ Beside(p) \subseteq Places.rings)
         /\ \A open \in BOOLEAN : Flipped(p, open) \in Places.all => Flipped(p, open) \in Places.rings
BY DEF Rules, Obeyed, RingRules

\* where runs ring,
LEMMA RingBegins ==
  ASSUME Rules, NEW p \in Places.all, p.kind = "worker", p.name \notin Places.direct,
         \/ p.rest = Script["worker"][p.name]
         \/ Head1(p).op = "requeue"
         \/ p.name \in Single /\ ~Synchronous(p)
  PROVE  p \in Places.rings
BY DEF Rules, Obeyed, RingRules

\* and those of the first steps of a direct worker:
LEMMA FirstObey ==
  ASSUME Rules, NEW p \in Places.first
  PROVE  /\ p \in Places.all /\ p.kind = "worker" /\ Synchronous(p)
         /\ \A open \in BOOLEAN : Flipped(p, open) \in Places.all => Flipped(p, open) \in Places.first
BY DEF Rules, Obeyed, DirectRules

\* they are followed by such only,
LEMMA FirstComes ==
  ASSUME Rules, NEW p \in Places.all, NEW n \in Own(p), n \in Places.first
  PROVE  p \in Places.first /\ n \notin Beside(p)
BY DEF Rules, Obeyed, DirectRules

\* and a job put back is followed by a call.
LEMMA FirstReturns ==
  ASSUME Rules, NEW p \in Places.all, p.kind = "worker", p.name \in Places.direct, Head1(p).op = "requeue"
  PROVE  p \in Places.first /\ \A n \in Same(p) : n \in Places.first /\ Head1(n).op = "again"
BY DEF Rules, Obeyed, DirectRules

\* The place of a run that does not move.
LEMMA PlaceFlips ==
  ASSUME NEW u
  PROVE  /\ \E o \in BOOLEAN : Place(u)' = Flipped(Place(u), o)
         /\ \E o \in BOOLEAN : Place(u) = Flipped(Place(u)', o)
         /\ Head1(Place(u)') = Head1(u)
<1>1. \A o : Flipped(Place(u), o) = Seen(u, o) /\ Flipped(Place(u)', o) = Seen(u, o)
  <2> PICK a : a = Open(u)
    OBVIOUS
  <2> PICK b : b = Open(u)'
    OBVIOUS
  <2>1. Place(u) = Seen(u, a) /\ Place(u)' = Seen(u, b)
    BY DEF Place
  <2> QED
    BY <2>1, FlippedSeen
<1>2. Open(u) \in BOOLEAN /\ Open(u)' \in BOOLEAN
  BY DEF Open
<1>3. Place(u)' = Seen(u, Open(u)') /\ Place(u) = Seen(u, Open(u))
  BY DEF Place
<1>4. Head1(Place(u)') = Head1(u)
  BY <1>3 DEF Head1, Seen
<1> QED
  BY <1>1, <1>2, <1>3, <1>4

\* A run that does not move goes on ringing.
LEMMA RingEndures ==
  ASSUME Rules, Core, Core', NEW u \in threads, u \in threads'
  PROVE  /\ Place(u) \in Places.rings => Place(u)' \in Places.rings
         /\ Place(u) \in Places.first <=> Place(u)' \in Places.first
<1>1. Place(u) \in Places.all /\ Place(u)' \in Places.all
  BY DEF Core, Placed
<1> PICK p : p = Place(u)
  OBVIOUS
<1> PICK r : r = Place(u)'
  OBVIOUS
<1>2. PICK o \in BOOLEAN : r = Flipped(p, o)
  BY PlaceFlips
<1>3. PICK o2 \in BOOLEAN : p = Flipped(r, o2)
  BY PlaceFlips
<1>4. p \in Places.all /\ r \in Places.all
  BY <1>1
<1>5. p \in Places.rings => r \in Places.rings
  BY <1>2, <1>4, RingObey
<1>6. p \in Places.first => r \in Places.first
  BY <1>2, <1>4, FirstObey
<1>7. r \in Places.first => p \in Places.first
  BY <1>3, <1>4, FirstObey
<1> QED
  BY <1>5, <1>6, <1>7

\* A worker's run that moves is still there.
LEMMA WorkerGoesOn ==
  ASSUME Rules, Core, NEW t \in threads, NEW N, NEW B, NEW E, Steps(t, N, B, E), t.kind = "worker"
  PROVE  N # {}
<1>1. Place(t) \in Places.all /\ Place(t).kind = "worker"
  BY PlaceFields DEF Core, Placed
<1>2. ~IsHandler(Place(t))
  BY <1>1 DEF IsHandler
<1> QED
  BY <1>1, <1>2, PlacesObey DEF Steps

\* The place of a run that has moved.
LEMMA KinAfter ==
  ASSUME NEW n, NEW t, Kin(n, t)
  PROVE  /\ Place(n)' = Seen(n, Open(t)') /\ n.name = t.name /\ n.q = t.q
         /\ Place(n)'.kind = n.kind /\ Place(n)'.rest = n.rest
         /\ Head1(Place(n)') = Head1(n)
<1>1. Place(n)' = Seen(n, Open(t)') /\ n.name = t.name /\ n.q = t.q
  BY DEF Kin, Place, Open
<1> QED
  BY <1>1 DEF Seen, Head1

\* A run that will call its worker has called it, or still will.
LEMMA RingGoesOn ==
  ASSUME Rules, Core, NEW t \in threads, NEW N, NEW B, NEW E, Steps(t, N, B, E), Queues(t),
         Place(t) \in Places.rings, t.name \in Queue
  PROVE  queue'[t.name] # <<>> => calls'[t.name] > 0 \/ Ringing(t.name)'
<1> PICK p : p = Place(t)
  OBVIOUS
<1>1. p \in Places.rings /\ Head1(p) = Head1(t) /\ p.kind = t.kind /\ p.kind = "worker"
  BY PlaceFields, RingObey
<1>2. N # {}
  BY <1>1, WorkerGoesOn
<1>3. queue \in [Queue -> Seq(Job)] /\ calls \in [Queue -> Nat]
  BY DEF Core, Typed
<1>4. CASE Head1(t).op = "again"
  <2>1. Rings(t)
    BY <1>4 DEF Queues, Pushes, PutsBack
  <2>2. queue' = queue /\ calls'[t.name] = More(calls[t.name], queue[t.name])
    BY <1>3, <2>1 DEF Rings
  <2>3. queue[t.name] \in Seq(Job) /\ calls[t.name] \in Nat
    BY <1>3
  <2>4. queue[t.name] # <<>> => More(calls[t.name], queue[t.name]) > 0
    <3>1. queue[t.name] # <<>> => Len(queue[t.name]) > 0 /\ Len(queue[t.name]) \in Nat
      BY <2>3
    <3> QED
      BY <2>3, <3>1 DEF More
  <2> QED
    BY <2>2, <2>4
<1>5. ASSUME NEW n, Kin(n, t), n.rest # <<>> => n \in threads', Seen(n, Open(t)') \in Places.rings
      PROVE  Ringing(t.name)'
  <2> PICK r : r = Place(n)'
    OBVIOUS
  <2>1. r \in Places.rings /\ n.name = t.name /\ r.kind = n.kind /\ r.rest = n.rest
    BY <1>5, KinAfter
  <2>2. r.kind = "worker" /\ ~Ended(r)
    BY <2>1, RingObey, PlacesObey
  <2>3. n \in threads' /\ n.kind = "worker"
    BY <1>5, <2>1, <2>2 DEF Ended
  <2> QED
    BY <2>1, <2>3 DEF Ringing
<1>6. CASE Head1(t).op # "again" /\ Same(p) \subseteq Places.rings
  <2>1. PICK n \in N : TRUE
    BY <1>2
  <2>2. Kin(n, t) /\ Seen(n, Open(t)') \in Same(p) /\ (n.rest # <<>> => n \in threads')
    BY DEF Steps
  <2> QED
    BY <1>5, <1>6, <2>2
<1>7. CASE Head1(t).op # "again" /\ Beside(p) # {} /\ Beside(p) \subseteq Places.rings
  <2>1. PICK n \in B : TRUE
    BY <1>7 DEF Steps
  <2>2. Kin(n, t) /\ Seen(n, Open(t)') \in Beside(p) /\ (n.rest # <<>> => n \in threads')
    BY DEF Steps
  <2> QED
    BY <1>5, <1>7, <2>2
<1> QED
  BY <1>1, <1>4, <1>6, <1>7, RingObey

\* What a step does to queue w and its calls.
LEMMA QueueAfter ==
  ASSUME Rules, Core, NEW t \in threads, Queues(t), NEW w \in Queue
  PROVE  LET n == Len(queue[w])
             m == Len(queue'[w])
         IN /\ n \in Nat /\ m \in Nat /\ calls[w] \in Nat /\ calls'[w] \in Nat
            /\ queue[w] = <<>> <=> n = 0
            /\ queue'[w] = <<>> <=> m = 0
            /\ \/ m = n /\ calls'[w] = calls[w] /\ (Head1(t).op = "again" => t.name # w)
               \/ m = n + 1 /\ calls'[w] = calls[w] + 1 /\ Head1(t).op \in {"push", "pushsilent"}
               \/ m = n + 1 /\ calls'[w] = calls[w] /\ Head1(t).op = "requeue" /\ t.name = w
               \/ m = n /\ calls'[w] = (IF calls[w] < n THEN calls[w] + 1 ELSE calls[w])
                  /\ Head1(t).op = "again" /\ t.name = w
<1>0. queue \in [Queue -> Seq(Job)] /\ calls \in [Queue -> Nat]
  BY DEF Core, Typed
<1> DEFINE s == queue[w]
<1>1. s \in Seq(Job) /\ Len(s) \in Nat /\ calls[w] \in Nat /\ (s = <<>> <=> Len(s) = 0)
  BY <1>0
<1>2. CASE Head1(t).op \notin {"push", "pushsilent", "requeue", "again"}
  BY <1>1, <1>2 DEF Queues, Pushes, PutsBack, Rings
<1>3. CASE Pushes(t)
  <2>1. PICK job \in Job : queue' = [queue EXCEPT ![Head1(t).name] = Append(@, job)]
    BY <1>3 DEF Pushes
  <2>2. Head1(t).op \in {"push", "pushsilent"} /\ calls' = [calls EXCEPT ![Head1(t).name] = @ + 1]
    BY <1>3 DEF Pushes
  <2>3. CASE Head1(t).name = w
    <3>1. queue'[w] = Append(s, job) /\ calls'[w] = calls[w] + 1
      BY <1>0, <2>1, <2>2, <2>3
    <3>2. Len(Append(s, job)) = Len(s) + 1 /\ Append(s, job) # <<>>
      BY <1>1
    <3> QED
      BY <1>1, <2>2, <3>1, <3>2
  <2>4. CASE Head1(t).name # w
    BY <1>0, <1>1, <2>1, <2>2, <2>4
  <2> QED
    BY <2>3, <2>4
<1>4. CASE PutsBack(t)
  <2>1. PICK job \in Job : queue' = [queue EXCEPT ![t.name] = <<job>> \o @]
    BY <1>4 DEF PutsBack
  <2>2. Head1(t).op = "requeue" /\ calls' = calls
    BY <1>4 DEF PutsBack
  <2>3. CASE t.name = w
    <3>1. queue'[w] = <<job>> \o s
      BY <1>0, <2>1, <2>3
    <3>2. Len(<<job>> \o s) = Len(s) + 1 /\ <<job>> \o s # <<>>
      BY <1>1
    <3> QED
      BY <1>1, <2>2, <2>3, <3>1, <3>2
  <2>4. CASE t.name # w
    BY <1>0, <1>1, <2>1, <2>2, <2>4
  <2> QED
    BY <2>3, <2>4
<1>5. CASE Rings(t)
  <2>1. Head1(t).op = "again" /\ queue' = queue /\ calls' = [calls EXCEPT ![t.name] = More(@, queue[t.name])]
    BY <1>5 DEF Rings
  <2>2. CASE t.name = w
    <3>1. calls'[w] = More(calls[w], s)
      BY <1>0, <2>1, <2>2
    <3> QED
      BY <1>1, <2>1, <2>2, <3>1 DEF More
  <2>3. CASE t.name # w
    BY <1>0, <1>1, <2>1, <2>3
  <2> QED
    BY <2>2, <2>3
<1> QED
  BY <1>2, <1>3, <1>4, <1>5 DEF Queues

\* A step leaves no job of a worker that rings without a call,
LEMMA StepKeepsRung ==
  ASSUME Rules, Core, Core', Attended, NEW t \in threads, NEW N, NEW B, NEW E,
         Steps(t, N, B, E), Queues(t)
  PROVE  Rung'
<1> SUFFICES ASSUME NEW w \in Queue \ Places.direct, queue'[w] # <<>>
             PROVE  calls'[w] > 0 \/ Ringing(w)'
  BY DEF Rung
<1> DEFINE n == Len(queue[w])
           m == Len(queue'[w])
           k == calls[w]
           j == calls'[w]
<1>1. /\ n \in Nat /\ m \in Nat /\ k \in Nat /\ j \in Nat /\ m # 0
      /\ queue[w] = <<>> <=> n = 0
      /\ \/ m = n /\ j = k
         \/ m = n + 1 /\ j = k + 1
         \/ m = n + 1 /\ j = k /\ Head1(t).op = "requeue" /\ t.name = w
         \/ m = n /\ j = (IF k < n THEN k + 1 ELSE k) /\ t.name = w
  BY QueueAfter
<1>2. Rung
  BY DEF Attended
<1>3. CASE Head1(t).op = "requeue" /\ t.name = w
  <2> PICK p : p = Place(t)
    OBVIOUS
  <2>1. p \in Places.all /\ p.kind = t.kind /\ p.name = w /\ Head1(p) = Head1(t)
    BY <1>3, PlaceFields DEF Core, Placed
  <2>2. p.kind = "worker"
    BY <1>3, <2>1, PlacesObey
  <2>3. p \in Places.rings
    BY <1>3, <2>1, <2>2, RingBegins
  <2> QED
    BY <1>3, <2>3, RingGoesOn
<1>4. CASE Ringing(w)
  <2>1. PICK u \in threads : u.kind = "worker" /\ u.name = w /\ Place(u) \in Places.rings
    BY <1>4 DEF Ringing
  <2>2. CASE u = t
    BY <2>1, <2>2, RingGoesOn
  <2>3. CASE u # t
    <3>1. u \in threads'
      BY <2>3 DEF Steps
    <3>2. Place(u)' \in Places.rings
      BY <2>1, <3>1, RingEndures
    <3> QED
      BY <2>1, <3>1, <3>2 DEF Ringing
  <2> QED
    BY <2>2, <2>3
<1>5. CASE ~Ringing(w) /\ ~(Head1(t).op = "requeue" /\ t.name = w)
  <2>1. n = 0 \/ k > 0
    BY <1>1, <1>2, <1>5 DEF Rung
  <2> HIDE DEF n, m, k, j
  <2>2. j > 0
    BY <1>1, <1>5, <2>1
  <2> QED
    BY <2>2 DEF j
<1> QED
  BY <1>3, <1>4, <1>5

\* A run in its first steps after a step: it was so before, or has followed one.
LEMMA FirstAfter ==
  ASSUME Rules, Core, Core', NEW t \in threads, NEW N, NEW B, NEW E, Steps(t, N, B, E),
         NEW u \in threads', Place(u)' \in Places.first
  PROVE  \/ u \in threads /\ u # t /\ Place(u) \in Places.first
         \/ u \in N /\ Place(t) \in Places.first
<1>1. CASE u \in threads /\ u # t
  BY <1>1, RingEndures
<1>2. CASE u \in N \cup B
  <2> PICK p : p = Place(t)
    OBVIOUS
  <2> PICK r : r = Place(u)'
    OBVIOUS
  <2>1. Kin(u, t)
    BY <1>2 DEF Steps
  <2>2. r = Seen(u, Open(t)')
    BY <2>1, KinAfter
  <2>3. r \in Own(p) /\ (u \in B => r \in Beside(p)) /\ p \in Places.all
    BY <1>2, <2>2 DEF Steps, Own, Core, Placed
  <2>4. p \in Places.first /\ r \notin Beside(p)
    BY <2>3, FirstComes
  <2> QED
    BY <1>2, <2>3, <2>4
<1>3. CASE u \in E
  <2>1. E # {}
    BY <1>3
  <2> PICK p : p = Place(t)
    OBVIOUS
  <2> PICK r : r = Place(u)'
    OBVIOUS
  <2>2. Head1(p).op \in {"relay", "ask", "post"} /\ r \in Begun(p)
    BY <1>3, <2>1, PlaceFields DEF Steps
  <2>3. r.kind = "master"
    BY <2>2 DEF Begun, Entry
  <2>4. r.kind = "worker"
    BY FirstObey
  <2> QED
    BY <2>3, <2>4
<1> QED
  BY <1>1, <1>2, <1>3 DEF Steps

\* one direct run in its first steps,
LEMMA StepKeepsOneFirst ==
  ASSUME Rules, Core, Core', Attended, NEW t \in threads, NEW N, NEW B, NEW E, Steps(t, N, B, E)
  PROVE  OneFirst'
<1> SUFFICES ASSUME NEW u \in threads', NEW v \in threads',
                    Place(u)' \in Places.first, Place(v)' \in Places.first
             PROVE  u = v
  BY DEF OneFirst
<1>1. /\ (u \in threads /\ u # t /\ Place(u) \in Places.first) \/ (u \in N /\ Place(t) \in Places.first)
      /\ (v \in threads /\ v # t /\ Place(v) \in Places.first) \/ (v \in N /\ Place(t) \in Places.first)
  BY FirstAfter
<1>2. \A x, y \in threads : Place(x) \in Places.first /\ Place(y) \in Places.first => x = y
  BY DEF Attended, OneFirst
<1>3. \A x, y \in N : x = y
  BY DEF Steps
<1> QED
  BY <1>1, <1>2, <1>3

\* and a call for each job of a direct worker.
LEMMA StepKeepsMatched ==
  ASSUME Rules, Core, Core', Attended, NEW t \in threads, NEW N, NEW B, NEW E,
         Steps(t, N, B, E), Queues(t)
  PROVE  Matched'
<1> SUFFICES ASSUME NEW w \in Queue \cap Places.direct
             PROVE  \/ Len(queue'[w]) <= calls'[w]
                    \/ Returning(w)' /\ Len(queue'[w]) <= calls'[w] + 1
  BY DEF Matched
<1> DEFINE n == Len(queue[w])
           m == Len(queue'[w])
           k == calls[w]
           j == calls'[w]
<1>1. /\ n \in Nat /\ m \in Nat /\ k \in Nat /\ j \in Nat
      /\ \/ m = n /\ j = k /\ (Head1(t).op = "again" => t.name # w)
         \/ m = n + 1 /\ j = k + 1 /\ Head1(t).op \in {"push", "pushsilent"}
         \/ m = n + 1 /\ j = k /\ Head1(t).op = "requeue" /\ t.name = w
         \/ m = n /\ j = (IF k < n THEN k + 1 ELSE k) /\ Head1(t).op = "again" /\ t.name = w
  BY QueueAfter
<1>2. n <= k \/ (Returning(w) /\ n <= k + 1)
  BY DEF Attended, Matched
<1>3. ASSUME Returning(w), ~(Head1(t).op = "again" /\ t.name = w) PROVE Returning(w)'
  <2>1. PICK u \in threads : u.kind = "worker" /\ u.name = w /\ Place(u) \in Places.first /\ Head1(u).op = "again"
    BY <1>3 DEF Returning
  <2>2. u # t
    BY <1>3, <2>1
  <2>3. u \in threads'
    BY <2>2 DEF Steps
  <2>4. Place(u)' \in Places.first
    BY <2>1, <2>3, RingEndures
  <2> QED
    BY <2>1, <2>3, <2>4 DEF Returning
<1>4. ASSUME Head1(t).op = "requeue", t.name = w
      PROVE  Returning(w)' /\ ~Returning(w)
  <2> PICK p : p = Place(t)
    OBVIOUS
  <2>1. p \in Places.all /\ p.kind = t.kind /\ p.name = w /\ Head1(p) = Head1(t)
    BY <1>4, PlaceFields DEF Core, Placed
  <2>2. p.kind = "worker" /\ t.kind = "worker"
    BY <1>4, <2>1, PlacesObey
  <2>3. p \in Places.first /\ \A r \in Same(p) : r \in Places.first /\ Head1(r).op = "again"
    BY <1>4, <2>1, <2>2, FirstReturns
  <2>4. PICK u \in N : TRUE
    BY <2>2, WorkerGoesOn
  <2> PICK r : r = Place(u)'
    OBVIOUS
  <2>5. Kin(u, t) /\ Seen(u, Open(t)') \in Same(p) /\ (u.rest # <<>> => u \in threads')
    BY DEF Steps
  <2>6. r \in Places.first /\ Head1(r).op = "again" /\ u.name = w /\ r.kind = u.kind
        /\ r.rest = u.rest /\ Head1(r) = Head1(u)
    BY <1>4, <2>3, <2>5, KinAfter
  <2>7. r.kind = "worker" /\ ~Ended(r)
    BY <2>6, FirstObey, PlacesObey
  <2>8. Returning(w)'
    BY <2>5, <2>6, <2>7 DEF Returning, Ended
  <2>9. ~Returning(w)
    <3> SUFFICES ASSUME NEW x \in threads, Place(x) \in Places.first, Head1(x).op = "again" PROVE FALSE
      BY DEF Returning
    <3>1. x = t
      BY <2>3 DEF Attended, OneFirst
    <3> QED
      BY <1>4, <3>1
  <2> QED
    BY <2>8, <2>9
<1> HIDE DEF n, m, k, j
<1>5. m <= j \/ (Returning(w)' /\ m <= j + 1)
  <2>1. CASE m = n /\ j = k /\ (Head1(t).op = "again" => t.name # w)
    BY <1>2, <1>3, <2>1
  <2>2. CASE m = n + 1 /\ j = k + 1 /\ Head1(t).op \in {"push", "pushsilent"}
    BY <1>1, <1>2, <1>3, <2>2
  <2>3. CASE m = n + 1 /\ j = k /\ Head1(t).op = "requeue" /\ t.name = w
    <3>1. n <= k /\ Returning(w)'
      BY <1>2, <1>4, <2>3
    <3> QED
      BY <1>1, <2>3, <3>1
  <2>4. CASE m = n /\ j = (IF k < n THEN k + 1 ELSE k)
    BY <1>1, <1>2, <2>4
  <2> QED
    BY <1>1, <2>1, <2>2, <2>3, <2>4
<1> QED
  BY <1>5 DEF m, j

\* A step keeps Attended.
LEMMA StepKeepsAttended ==
  ASSUME Rules, Core, Attended, NEW t \in threads, StepOf(t)
  PROVE  Attended'
<1>1. Core'
  BY StepKeepsCore
<1>2. PICK N, B, E : Steps(t, N, B, E)
  BY StepShape DEF Shape
<1>3. Queues(t)
  BY StepShape
<1> QED
  BY <1>1, <1>2, <1>3, StepKeepsRung, StepKeepsOneFirst, StepKeepsMatched DEF Attended

\* A call takes a job, or finds a run that will call again.
LEMMA CallKeepsAttended ==
  ASSUME Rules, Core, Attended, Quiet, NEW w \in Queue, CallWorker(w)
  PROVE  Attended'
<1>0. /\ queue \in [Queue -> Seq(Job)] /\ calls \in [Queue -> Nat] /\ queue[w] # <<>> /\ calls[w] > 0
      /\ said' = said /\ calls' = [calls EXCEPT ![w] = @ - 1]
  BY CallShape DEF Core, Typed
<1>1. \A t : Place(t)' = Place(t)
  BY <1>0 DEF Place, Open
<1>2. Core'
  BY CallKeepsCore
<1>3. \A t \in threads : Place(t) \notin Places.first
  <2> SUFFICES ASSUME NEW t \in threads, Place(t) \in Places.first PROVE FALSE
    OBVIOUS
  <2> PICK p : p = Place(t)
    OBVIOUS
  <2>1. Synchronous(p) /\ Head1(p) = Head1(t)
    BY FirstObey, PlaceFields
  <2> QED
    BY <2>1 DEF Quiet, Synchronous
<1>4. \A v \in Queue \cap Places.direct : Len(queue[v]) <= calls[v]
  BY <1>3 DEF Attended, Matched, Returning
<1>5. CASE w \in Single /\ Runs(w) # {} /\ queue' = queue /\ threads' = threads
  <2>1. w \notin Places.direct
    BY <1>5 DEF Rules, Obeyed, DirectRules
  <2>2. Ringing(w)
    <3>1. PICK u \in threads : u.kind = "worker" /\ u.name = w
      BY <1>5 DEF Runs
    <3> PICK p : p = Place(u)
      OBVIOUS
    <3>2. p \in Places.all /\ p.kind = "worker" /\ p.name = w /\ Head1(p) = Head1(u)
      BY <3>1, PlaceFields DEF Core, Placed
    <3>3. ~Synchronous(p)
      BY <3>2 DEF Quiet, Synchronous
    <3>4. p \in Places.rings
      BY <1>5, <2>1, <3>2, <3>3, RingBegins
    <3> QED
      BY <3>1, <3>4 DEF Ringing
  <2>3. \A v : Ringing(v)' <=> Ringing(v)
    BY <1>1, <1>5 DEF Ringing
  <2>4. Rung'
    BY <1>0, <1>5, <2>2, <2>3 DEF Attended, Rung
  <2>5. Matched'
    <3> SUFFICES ASSUME NEW v \in Queue \cap Places.direct PROVE Len(queue'[v]) <= calls'[v]
      BY DEF Matched
    <3>1. v # w
      BY <2>1
    <3> QED
      BY <1>0, <1>4, <1>5, <3>1
  <2>6. OneFirst'
    BY <1>1, <1>3, <1>5 DEF OneFirst
  <2> QED
    BY <2>4, <2>5, <2>6 DEF Attended
<1>6. CASE Begin(w)
  <2> PICK job : job = Head(queue[w])
    OBVIOUS
  <2> PICK c : c = Called(w, job)
    OBVIOUS
  <2>1. queue' = [queue EXCEPT ![w] = Tail(@)] /\ threads' = threads \cup {c}
    BY <1>6 DEF Begin
  <2>2. c.kind = "worker" /\ c.name = w /\ c.rest = Script["worker"][w]
    BY CalledRun
  <2>3. ASSUME w \notin Places.direct PROVE Ringing(w)'
    <3> PICK p : p = Place(c)
      OBVIOUS
    <3>1. Place(c)' = p
      BY <1>1
    <3>2. p \in Places.all /\ p.kind = "worker" /\ p.name = w /\ p.rest = Script["worker"][w]
      BY <1>2, <2>1, <2>2, <3>1, PlaceFields DEF Core, Placed
    <3>3. p \in Places.rings
      BY <2>3, <3>2, RingBegins
    <3> QED
      BY <2>1, <2>2, <3>1, <3>3 DEF Ringing
  <2>4. \A v : Ringing(v) => Ringing(v)'
    BY <1>1, <2>1 DEF Ringing
  <2>5. Rung'
    BY <1>0, <2>1, <2>3, <2>4 DEF Attended, Rung
  <2>6. Matched'
    <3> SUFFICES ASSUME NEW v \in Queue \cap Places.direct PROVE Len(queue'[v]) <= calls'[v]
      BY DEF Matched
    <3>1. CASE v = w
      <4>1. queue'[w] = Tail(queue[w]) /\ calls'[w] = calls[w] - 1
        BY <1>0, <2>1
      <4>2. queue[w] \in Seq(Job) /\ Len(Tail(queue[w])) = Len(queue[w]) - 1 /\ Len(queue[w]) \in Nat
        BY <1>0
      <4> QED
        BY <1>0, <1>4, <3>1, <4>1, <4>2
    <3>2. CASE v # w
      BY <1>0, <1>4, <2>1, <3>2
    <3> QED
      BY <3>1, <3>2
  <2>7. OneFirst'
    BY <1>1, <1>3, <2>1 DEF OneFirst
  <2> QED
    BY <2>5, <2>6, <2>7 DEF Attended
<1> QED
  BY <1>5, <1>6, CallShape

\* Attended is inductive with Core.
LEMMA AttendedIsInductive ==
  ASSUME Rules, Core, Attended, [Next]_vars
  PROVE  Attended'
<1>1. ASSUME NEW t \in threads, Turn(t), StepOf(t) PROVE Attended'
  BY <1>1, StepKeepsAttended
<1>2. CASE FireTimer
  BY <1>2, CallKeepsAttended DEF FireTimer
<1>3. CASE Quiet /\ Restart
  <2>1. /\ threads' \subseteq threads /\ queue' = [w \in Queue |-> <<>>] /\ calls' = [w \in Queue |-> 0]
    BY <1>3 DEF Restart
  <2>2. \A t \in threads : Place(t) \notin Places.first
    <3> SUFFICES ASSUME NEW t \in threads, Place(t) \in Places.first PROVE FALSE
      OBVIOUS
    <3> PICK p : p = Place(t)
      OBVIOUS
    <3>1. Synchronous(p) /\ Head1(p) = Head1(t)
      BY FirstObey, PlaceFields
    <3> QED
      BY <1>3, <3>1 DEF Quiet, Synchronous
  <2>3. Core'
    BY <1>3, RestartKeepsCore
  <2>4. \A t \in threads' : Place(t)' \notin Places.first
    BY <2>1, <2>2, <2>3, RingEndures
  <2>5. Rung' /\ Matched'
    BY <2>1 DEF Rung, Matched
  <2>6. OneFirst'
    BY <2>4 DEF OneFirst
  <2> QED
    BY <2>5, <2>6 DEF Attended
<1>4. CASE UNCHANGED vars
  <2>1. threads' = threads /\ queue' = queue /\ calls' = calls /\ said' = said
    BY <1>4 DEF vars
  <2>2. \A t : Place(t)' = Place(t)
    BY <2>1 DEF Place, Open
  <2> QED
    BY <2>1, <2>2 DEF Attended, Rung, Matched, OneFirst, Ringing, Returning
<1> QED
  BY <1>1, <1>2, <1>3, <1>4 DEF Next

\* There is no job at the start.
LEMMA InitIsAttended == ASSUME Rules, Init PROVE Attended
<1>1. queue = [w \in Queue |-> <<>>] /\ calls = [w \in Queue |-> 0]
  BY DEF Init
<1>2. \A t \in threads : Place(t) \notin Places.first
  <2> SUFFICES ASSUME NEW t \in threads PROVE Place(t) \notin Places.first
    OBVIOUS
  <2>1. PICK q \in Asking : t = Thread(q, route[q][1], route[q][2], "client")
    BY DEF Init
  <2> DEFINE door == Entry(route[q][1], route[q][2], "client", NoJob, TRUE)
  <2>2. door \notin Places.first
    <3>1. door \in Doors(Routes)
      BY RequestsHaveDoors
    <3> HIDE DEF door
    <3> QED
      BY <3>1 DEF Rules, Obeyed, DoorRules
  <2>3. q \in Request /\ "client" \in Conn
    BY MixAssumption DEF Asking, Conn, Init
  <2>4. said[q]["client"] = "none"
    BY <2>3 DEF Init
  <2>5. Place(t) = door
    <3>1. PICK o : o = (said[q]["client"] = "none")
      OBVIOUS
    <3>2. Place(t) = Entry(route[q][1], route[q][2], "client", NoJob, o)
      BY <2>1, <3>1, NewPlace
    <3>3. o = TRUE
      BY <2>4, <3>1
    <3> QED
      BY <3>2, <3>3
  <2> QED
    BY <2>2, <2>5
<1>3. Rung /\ Matched
  BY <1>1 DEF Rung, Matched
<1> QED
  BY <1>2, <1>3 DEF Attended, OneFirst

\* Attended: no job is stranded.
LEMMA AttendedStrandsNoJob == ASSUME Core, Attended PROVE NoStrandedJob
<1> SUFFICES ASSUME NEW w \in Queue, queue[w] # <<>>, ~(calls[w] > 0)
             PROVE  \E t \in threads : t.kind = "worker" /\ t.name = w
  BY DEF NoStrandedJob, Runs
<1>1. queue[w] \in Seq(Job) /\ calls[w] \in Nat
  BY DEF Core, Typed
<1>2. CASE w \in Places.direct
  <2>1. Len(queue[w]) <= calls[w] \/ Returning(w)
    BY <1>2 DEF Attended, Matched
  <2>2. Len(queue[w]) > 0
    BY <1>1
  <2> QED
    BY <1>1, <2>1, <2>2 DEF Returning
<1>3. CASE w \notin Places.direct
  BY <1>3 DEF Attended, Rung, Ringing
<1> QED
  BY <1>2, <1>3

\* If the scripts obey: a queued job has a call coming, or a run of its worker
\* in progress.
THEOREM NoJobIsStranded == ASSUME Rules PROVE Spec => []NoStrandedJob
<1>1. Init => Attended
  BY InitIsAttended
<1>2. Core /\ Attended /\ [Next]_vars => Attended'
  BY AttendedIsInductive
<1>3. Core /\ Attended => NoStrandedJob
  BY AttendedStrandsNoJob
<1> QED
  BY <1>1, <1>2, <1>3, CoreInvariance, PTL DEF Spec

------------------------------------------------------------------------------
(* What becomes of the payment and of the fee.                             *)

CONSTANT Charges   \* places and ledgers, as ServiceEffects has them

\* The scripts take the payment and the fee as the rules of ServiceEffects say.
Charging == ChargeRules(Routes, Places, Charges)

\* What the program has seen is one of the states of an effect.
Tracked == fx \in [Request -> [Effect -> State]]

\* A step of t takes nothing twice, or the fee.
Retakes(t) ==
  \/ doubled' = doubled
  \/ /\ Head1(t).op \in {"send", "write"} /\ Head1(t).name \in Charged \ Unique
     /\ Head1(t).name = "fee" /\ Ledger(t.q)["fee"] \in OnChain
     /\ doubled' = doubled \cup {<<t.q, "fee", t.again>>}

\* What a step of t does to the ledgers: only that of its request changes, as its
\* place lets it.
Spent(t) ==
  /\ Tracked'
  /\ \A q \in Request : q # t.q => Ledger(q)' = Ledger(q)
  /\ IF Settles(Place(t))
     THEN \E o \in Outcomes(Place(t), Ledger(t.q)) : o[2] = Ledger(t.q)'
     ELSE Ledger(t.q)' = Ledger(t.q)
  /\ Retakes(t)

\* N is where t goes with that.
Spends(t, N) ==
  Spent(t) /\ \A n \in N : <<Seen(n, Open(t)'), Ledger(t.q)'>> \in Outcomes(Place(t), Ledger(t.q))

\* An effect that changes, in the ledger.
LEMMA LedgerBecomes ==
  ASSUME Tracked, Charging, NEW q \in Request, NEW e, NEW v \in State, Becomes(q, e, v)
  PROVE  /\ Tracked'
         /\ \A r \in Request : r # q => Ledger(r)' = Ledger(r)
         /\ Ledger(q)' = IF e \in Charged THEN [Ledger(q) EXCEPT ![e] = v] ELSE Ledger(q)
<1>1. Charged \subseteq Effect
  BY DEF Charging, ChargeRules
<1>2. CASE e \in Effect
  <2>1. fx' = [fx EXCEPT ![q][e] = v]
    BY <1>2 DEF Becomes
  <2>2. Tracked'
    BY <1>2, <2>1 DEF Tracked
  <2>3. \A r \in Request : r # q => fx'[r] = fx[r]
    BY <2>1 DEF Tracked
  <2>4. \A c \in Charged : fx'[q][c] = IF c = e THEN v ELSE fx[q][c]
    BY <1>1, <1>2, <2>1 DEF Tracked
  <2>5. Ledger(q)' = [c \in Charged |-> fx'[q][c]] /\ Ledger(q) = [c \in Charged |-> fx[q][c]]
    BY DEF Ledger
  <2>6. Ledger(q)' = IF e \in Charged THEN [Ledger(q) EXCEPT ![e] = v] ELSE Ledger(q)
    BY <2>4, <2>5
  <2> QED
    BY <2>2, <2>3, <2>6 DEF Ledger
<1>3. CASE e \notin Effect
  BY <1>1, <1>3 DEF Becomes, Tracked, Ledger
<1> QED
  BY <1>2, <1>3

\* Nothing changes.
LEMMA LedgerStays ==
  ASSUME Tracked, fx' = fx
  PROVE  Tracked' /\ \A r : Ledger(r)' = Ledger(r)
BY DEF Tracked, Ledger

\* What the ledger says is what the program has seen.
LEMMA LedgerReads ==
  ASSUME Tracked, Charging, NEW q \in Request, NEW e \in Charged
  PROVE  Ledger(q)[e] = fx[q][e] /\ e \in Effect /\ fx[q][e] \in State
BY DEF Ledger, Charging, ChargeRules, Tracked

\* Only the fee is taken twice.
LEMMA TakenTwice ==
  ASSUME Tracked, Charging, NEW t, t.q \in Request, NEW e, e \in Unique => ~Stands(t.q, e), Twice(t, e)
  PROVE  \/ doubled' = doubled
         \/ /\ e \in Charged \ Unique /\ e = "fee" /\ Ledger(t.q)["fee"] \in OnChain
            /\ doubled' = doubled \cup {<<t.q, "fee", t.again>>}
<1>1. CASE Stands(t.q, e)
  <2>1. e \in Effect \ Unique /\ fx[t.q][e] \in OnChain
    BY <1>1 DEF Stands
  <2>2. e = "fee"
    BY <2>1 DEF Charging, ChargeRules
  <2> QED
    BY <1>1, <2>1, <2>2, LedgerReads DEF Twice, Charged
<1>2. CASE ~Stands(t.q, e)
  BY <1>2 DEF Twice
<1> QED
  BY <1>1, <1>2

\* The outcomes of a step that does not settle,
LEMMA PlainOutcomes ==
  ASSUME NEW p, NEW v, Head1(p).op \notin {"send", "mined", "write", "ifdone"} \/ Head1(p).name \notin Charged
  PROVE  Outcomes(p, v) = Same(p) \X {v} /\ ~Settles(p)
BY DEF Outcomes, Settles

\* of a transaction,
LEMMA SendOutcomes ==
  ASSUME NEW p, NEW v, NEW e, e = Head1(p).name, Head1(p).op = "send", e \in Charged, NEW n
  PROVE  /\ Settles(p)
         /\ n \in Falls(p) /\ v[e] \in OnChain => <<n, v>> \in Outcomes(p, v)
         /\ n \in Falls(p) /\ v[e] \notin OnChain => <<n, [v EXCEPT ![e] = "failed"]>> \in Outcomes(p, v)
         /\ n \in Moved(p) \cup Falls(p) /\ ~(v[e] \in OnChain /\ e \in Unique)
              => <<n, [v EXCEPT ![e] = "sent"]>> \in Outcomes(p, v)
BY DEF Outcomes, Settles

\* of a receipt,
LEMMA MinedOutcomes ==
  ASSUME NEW p, NEW v, NEW e, e = Head1(p).name, Head1(p).op = "mined", e \in Charged, NEW n
  PROVE  /\ Settles(p)
         /\ n \in Moved(p) /\ v[e] \in OnChain => <<n, [v EXCEPT ![e] = "seen"]>> \in Outcomes(p, v)
         /\ n \in Falls(p) /\ v[e] = "sent" => <<n, [v EXCEPT ![e] = "failed"]>> \in Outcomes(p, v)
         /\ n \in Falls(p) /\ v[e] # "seen" => <<n, v>> \in Outcomes(p, v)
BY DEF Outcomes, Settles, OnChain

\* of a row,
LEMMA WriteOutcomes ==
  ASSUME NEW p, NEW v, NEW e, e = Head1(p).name, Head1(p).op = "write", e \in Charged, NEW n
  PROVE  /\ Settles(p)
         /\ n \in Moved(p) => <<n, [v EXCEPT ![e] = "seen"]>> \in Outcomes(p, v)
         /\ n \in Falls(p) /\ v[e] \in OnChain => <<n, v>> \in Outcomes(p, v)
         /\ n \in Falls(p) /\ v[e] \notin OnChain => <<n, [v EXCEPT ![e] = "failed"]>> \in Outcomes(p, v)
BY DEF Outcomes, Settles

\* and of a look at what is done.
LEMMA DoneOutcomes ==
  ASSUME NEW p, NEW v, NEW e, e = Head1(p).name, Head1(p).op = "ifdone", e \in Charged
  PROVE  /\ ~Settles(p)
         /\ <<With(p, (IF v[e] = "seen" THEN Head1(p).then ELSE Head1(p).else) \o Tail(p.rest)), v>> \in Outcomes(p, v)
BY DEF Outcomes, Settles, Goto

\* A run that throws falls somewhere.
LEMMA FallsSomewhere ==
  ASSUME NEW p, Head1(p).op \in {"send", "mined", "write"}
  PROVE  /\ \E n : n \in Falls(p)
         /\ Handler(p.rest) # 0 => Raised(p) = Falls(p)
         /\ Handler(p.rest) = 0 => Raised(p) = {}
<1>1. "other" \in Errors(p)
  BY DEF Errors
<1>2. Gone(p) \in {Gone(p)}
  OBVIOUS
<1>3. Handler(p.rest) # 0 => [With(p, Thrown(p.rest)) EXCEPT !.err = "other"] \in Raised(p)
  BY <1>1 DEF Raised
<1> QED
  BY <1>2, <1>3 DEF Falls, Raised

\* Where an error of a step goes.
LEMMA Falling ==
  ASSUME Rules, Core, NEW t \in threads, Head1(t).op \in {"send", "mined", "write"},
         NEW k \in Errors(Place(t)), Raise(t, k)
  PROVE  \E N, B, E : Shape(t, N, B, E) /\ \A n \in N : Seen(n, Open(t)') \in Falls(Place(t))
<1>1. PICK N, B, E : Shape(t, N, B, E) /\ \A n \in N : Seen(n, Open(t)') \in Raised(Place(t))
  BY RaisesTo
<1>2. Raised(Place(t)) \subseteq Falls(Place(t))
  BY FallsSomewhere, PlaceFields
<1> QED
  BY <1>1, <1>2

\* Where a step that succeeds goes.
LEMMA Succeeding ==
  ASSUME Rules, Core, NEW t \in threads, Head1(t).op \in {"send", "mined", "write"}, Go(t, Tail(t.rest)),
         said' = said, repeated' = repeated, escaped' = escaped
  PROVE  /\ \E N, B, E : Shape(t, N, B, E) /\ \A n \in N : Seen(n, Open(t)') \in Moved(Place(t))
         /\ \E n : n \in Moved(Place(t))
<1>1. With(Place(t), Tail(t.rest)) \in Moved(Place(t))
  BY PlaceFields DEF Moved, Next1
<1>2. PICK N, B, E : Shape(t, N, B, E) /\ \A n \in N : Seen(n, Open(t)') = With(Place(t), Tail(t.rest))
  BY <1>1, GoesTo DEF Core
<1> QED
  BY <1>1, <1>2

\* A step that settles: where it goes, and the ledger it leaves.
LEMMA Settling ==
  ASSUME NEW t, Settles(Place(t)), NEW N, NEW G, NEW w, \A n \in N : Seen(n, Open(t)') \in G, \E n : n \in G,
         Ledger(t.q)' = w, \A n \in G : <<n, w>> \in Outcomes(Place(t), Ledger(t.q)),
         Tracked', \A q \in Request : q # t.q => Ledger(q)' = Ledger(q),
         Retakes(t)
  PROVE  Spends(t, N)
<1>1. PICK n \in G : TRUE
  OBVIOUS
<1>2. \E o \in Outcomes(Place(t), Ledger(t.q)) : o[2] = Ledger(t.q)'
  <2>1. <<n, w>> \in Outcomes(Place(t), Ledger(t.q)) /\ <<n, w>>[2] = w
    OBVIOUS
  <2> QED
    BY <2>1
<1>3. \A m \in N : <<Seen(m, Open(t)'), Ledger(t.q)'>> \in Outcomes(Place(t), Ledger(t.q))
  OBVIOUS
<1> QED
  BY <1>2, <1>3 DEF Spends, Spent

\* A step that settles nothing.
LEMMA Sparing ==
  ASSUME NEW t, NEW N, NEW B, NEW E, Shape(t, N, B, E), t.q \in Request,
         Head1(t).op \notin {"send", "mined", "write", "ifdone"} \/ Head1(t).name \notin Charged,
         Tracked', \A q \in Request : Ledger(q)' = Ledger(q), doubled' = doubled
  PROVE  Spends(t, N)
<1>1. Outcomes(Place(t), Ledger(t.q)) = Same(Place(t)) \X {Ledger(t.q)} /\ ~Settles(Place(t))
  BY PlainOutcomes, PlaceFields
<1>2. \A n \in N : Seen(n, Open(t)') \in Same(Place(t))
  BY DEF Shape, Steps
<1>3. \A n \in N : <<Seen(n, Open(t)'), Ledger(t.q)'>> \in Outcomes(Place(t), Ledger(t.q))
  BY <1>1, <1>2
<1> QED
  BY <1>1, <1>3 DEF Spends, Spent, Retakes

\* A transaction.
LEMMA SendTxSpends ==
  ASSUME Rules, Core, Charging, Tracked, NEW t \in threads, SendTx(t)
  PROVE  \E N, B, E : Shape(t, N, B, E) /\ Spends(t, N)
<1> DEFINE e == Head1(t).name
           v == Ledger(t.q)
           p == Place(t)
<1>0. t.q \in Request /\ Head1(t).op = "send" /\ Head1(p).op = "send" /\ Head1(p).name = e
  BY PlaceFields DEF Core, Typed, SendTx
<1>1. CASE e \notin Charged
  <2>1. ~(e \in Unique /\ Stands(t.q, e)) /\ Twice(t, e) => doubled' = doubled
    BY <1>0, <1>1, TakenTwice
  <2>2. Tracked' /\ (\A q \in Request : Ledger(q)' = Ledger(q)) /\ doubled' = doubled
    <3>1. CASE fx' = fx /\ doubled' = doubled
      BY <3>1, LedgerStays
    <3>2. CASE \E x \in State : Becomes(t.q, e, x) /\ (doubled' = doubled \/ (~(e \in Unique /\ Stands(t.q, e)) /\ Twice(t, e)))
      BY <1>0, <1>1, <2>1, <3>2, LedgerBecomes
    <3> QED
      BY <3>1, <3>2 DEF SendTx, Fails, fxVars, State
  <2>3. PICK N, B, E : Shape(t, N, B, E)
    BY SendTxShape
  <2>4. Spends(t, N)
    BY <1>0, <1>1, <2>2, <2>3, Sparing
  <2> QED
    BY <2>3, <2>4
<1>2. CASE e \in Charged
  <2>0. (Stands(t.q, e) <=> v[e] \in OnChain) /\ Settles(p)
    BY <1>0, <1>2, LedgerReads, SendOutcomes DEF Stands
  <2>1. \A k \in {"exists", "gas", "nonce", "other"} : k \in Errors(p)
    BY <1>0 DEF Errors
  <2>2. \E n : n \in Falls(p)
    BY <1>0, FallsSomewhere
  <2>3. ASSUME fx' = fx, doubled' = doubled, v[e] \in OnChain, NEW k \in {"exists", "gas", "nonce", "other"}, Raise(t, k)
        PROVE  \E N, B, E : Shape(t, N, B, E) /\ Spends(t, N)
    <3>1. PICK N, B, E : Shape(t, N, B, E) /\ \A n \in N : Seen(n, Open(t)') \in Falls(p)
      BY <1>0, <2>1, <2>3, Falling
    <3>2. \A n \in Falls(p) : <<n, v>> \in Outcomes(p, v)
      BY <1>0, <1>2, <2>3, SendOutcomes
    <3>3. Tracked' /\ \A q \in Request : Ledger(q)' = Ledger(q)
      BY <2>3, LedgerStays
    <3>4. Spends(t, N)
      <4> HIDE DEF e
      <4> QED
        BY <1>0, <2>0, <2>2, <2>3, <3>1, <3>2, <3>3, Settling DEF Retakes
    <3> QED
      BY <3>1, <3>4
  <2>4. ASSUME Becomes(t.q, e, "failed"), doubled' = doubled, v[e] \notin OnChain,
               NEW k \in {"exists", "gas", "nonce", "other"}, Raise(t, k)
        PROVE  \E N, B, E : Shape(t, N, B, E) /\ Spends(t, N)
    <3> DEFINE w == [v EXCEPT ![e] = "failed"]
    <3>1. PICK N, B, E : Shape(t, N, B, E) /\ \A n \in N : Seen(n, Open(t)') \in Falls(p)
      BY <1>0, <2>1, <2>4, Falling
    <3>2. \A n \in Falls(p) : <<n, w>> \in Outcomes(p, v)
      BY <1>0, <1>2, <2>4, SendOutcomes
    <3>3. Tracked' /\ Ledger(t.q)' = w /\ \A q \in Request : q # t.q => Ledger(q)' = Ledger(q)
      <4>1. "failed" \in State
        BY DEF State
      <4> QED
        BY <1>0, <1>2, <2>4, <4>1, LedgerBecomes
    <3>4. Spends(t, N)
      <4> HIDE DEF e, w
      <4> QED
        BY <1>0, <2>0, <2>2, <2>4, <3>1, <3>2, <3>3, Settling DEF Retakes
    <3> QED
      BY <3>1, <3>4
  <2>5. ASSUME Becomes(t.q, e, "sent"), Twice(t, e), ~(Stands(t.q, e) /\ e \in Unique)
        PROVE  /\ Tracked' /\ Ledger(t.q)' = [v EXCEPT ![e] = "sent"]
               /\ \A q \in Request : q # t.q => Ledger(q)' = Ledger(q)
               /\ Retakes(t)
               /\ \A n \in Moved(p) \cup Falls(p) : <<n, [v EXCEPT ![e] = "sent"]>> \in Outcomes(p, v)
    <3>1. "sent" \in State
      BY DEF State
    <3>2. Tracked' /\ Ledger(t.q)' = [v EXCEPT ![e] = "sent"] /\ \A q \in Request : q # t.q => Ledger(q)' = Ledger(q)
      BY <1>0, <1>2, <2>5, <3>1, LedgerBecomes
    <3>3. \/ doubled' = doubled
          \/ /\ e \in Charged \ Unique /\ e = "fee" /\ Ledger(t.q)["fee"] \in OnChain
             /\ doubled' = doubled \cup {<<t.q, "fee", t.again>>}
      BY <1>0, <2>5, TakenTwice
    <3>3a. Retakes(t)
      BY <1>0, <3>3 DEF Retakes
    <3>4. \A n \in Moved(p) \cup Falls(p) : <<n, [v EXCEPT ![e] = "sent"]>> \in Outcomes(p, v)
      BY <1>0, <1>2, <2>0, <2>5, SendOutcomes
    <3> QED
      BY <3>2, <3>3a, <3>4
  <2>6. ASSUME Becomes(t.q, e, "sent"), Twice(t, e), ~(Stands(t.q, e) /\ e \in Unique),
               Go(t, Tail(t.rest)), UNCHANGED <<webVars, escaped>>
        PROVE  \E N, B, E : Shape(t, N, B, E) /\ Spends(t, N)
    <3> DEFINE w == [v EXCEPT ![e] = "sent"]
    <3>1. /\ \E N, B, E : Shape(t, N, B, E) /\ \A n \in N : Seen(n, Open(t)') \in Moved(p)
          /\ \E n : n \in Moved(p)
      BY <1>0, <2>6, Succeeding DEF webVars
    <3>2. PICK N, B, E : Shape(t, N, B, E) /\ \A n \in N : Seen(n, Open(t)') \in Moved(p)
      BY <3>1
    <3>3. /\ Tracked' /\ Ledger(t.q)' = w /\ \A q \in Request : q # t.q => Ledger(q)' = Ledger(q)
          /\ Retakes(t)
          /\ \A n \in Moved(p) : <<n, w>> \in Outcomes(p, v)
      BY <2>5, <2>6
    <3> HIDE DEF e, w
    <3>4. Spends(t, N)
      BY <2>0, <3>1, <3>2, <3>3, Settling
    <3> QED
      BY <3>2, <3>4
  <2>7. ASSUME Becomes(t.q, e, "sent"), Twice(t, e), ~(Stands(t.q, e) /\ e \in Unique), Raise(t, "other")
        PROVE  \E N, B, E : Shape(t, N, B, E) /\ Spends(t, N)
    <3> DEFINE w == [v EXCEPT ![e] = "sent"]
    <3>1. "other" \in Errors(p)
      BY <2>1
    <3>2. PICK N, B, E : Shape(t, N, B, E) /\ \A n \in N : Seen(n, Open(t)') \in Falls(p)
      BY <1>0, <2>7, <3>1, Falling
    <3>3. /\ Tracked' /\ Ledger(t.q)' = w /\ \A q \in Request : q # t.q => Ledger(q)' = Ledger(q)
          /\ Retakes(t)
          /\ \A n \in Falls(p) : <<n, w>> \in Outcomes(p, v)
      BY <2>5, <2>7
    <3> HIDE DEF e, w
    <3>4. Spends(t, N)
      BY <2>0, <2>2, <3>2, <3>3, Settling
    <3> QED
      BY <3>2, <3>4
  <2>8. CASE Stands(t.q, e) /\ e \in Unique /\ Raise(t, "exists") /\ UNCHANGED fxVars
    BY <2>0, <2>3, <2>8 DEF fxVars
  <2>9. CASE (\E kind \in {"gas", "nonce", "other"} : Raise(t, kind)) /\ Fails(t.q, e) /\ UNCHANGED doubled
    BY <2>0, <2>3, <2>4, <2>9 DEF Fails
  <2> QED
    BY <2>6, <2>7, <2>8, <2>9 DEF SendTx
<1> QED
  BY <1>1, <1>2

\* A receipt.
LEMMA AwaitReceiptSpends ==
  ASSUME Rules, Core, Charging, Tracked, NEW t \in threads, AwaitReceipt(t)
  PROVE  \E N, B, E : Shape(t, N, B, E) /\ Spends(t, N)
<1> DEFINE e == Head1(t).name
           v == Ledger(t.q)
           p == Place(t)
<1>0. /\ t.q \in Request /\ Head1(t).op = "mined" /\ Head1(p).op = "mined" /\ Head1(p).name = e
      /\ doubled' = doubled
  BY PlaceFields DEF Core, Typed, AwaitReceipt, fxVars
<1>1. CASE e \notin Charged
  <2>1. Tracked' /\ (\A q \in Request : Ledger(q)' = Ledger(q))
    <3>1. CASE fx' = fx
      BY <3>1, LedgerStays
    <3>2. CASE \E x \in State : Becomes(t.q, e, x)
      BY <1>0, <1>1, <3>2, LedgerBecomes
    <3> QED
      BY <3>1, <3>2 DEF AwaitReceipt, fxVars, State
  <2>2. PICK N, B, E : Shape(t, N, B, E)
    BY AwaitReceiptShape
  <2>3. Spends(t, N)
    BY <1>0, <1>1, <2>1, <2>2, Sparing
  <2> QED
    BY <2>2, <2>3
<1>2. CASE e \in Charged
  <2> DEFINE fate == IF e \in Effect THEN fx[t.q][e] ELSE "sent"
  <2>0. fate = v[e] /\ Settles(p)
    BY <1>0, <1>2, LedgerReads, MinedOutcomes
  <2>1. Retakes(t) /\ "other" \in Errors(p) /\ \E n : n \in Falls(p)
    BY <1>0, FallsSomewhere DEF Retakes, Errors
  <2>2. ASSUME NEW x \in State, Becomes(t.q, e, x)
        PROVE  Tracked' /\ Ledger(t.q)' = [v EXCEPT ![e] = x] /\ \A q \in Request : q # t.q => Ledger(q)' = Ledger(q)
    BY <1>0, <1>2, <2>2, LedgerBecomes
  <2>3. CASE fate \in OnChain /\ Becomes(t.q, e, "seen") /\ Go(t, Tail(t.rest)) /\ UNCHANGED <<webVars, escaped>>
    <3> DEFINE w == [v EXCEPT ![e] = "seen"]
    <3>1. /\ \E N, B, E : Shape(t, N, B, E) /\ \A n \in N : Seen(n, Open(t)') \in Moved(p)
          /\ \E n : n \in Moved(p)
      BY <1>0, <2>3, Succeeding DEF webVars
    <3>2. PICK N, B, E : Shape(t, N, B, E) /\ \A n \in N : Seen(n, Open(t)') \in Moved(p)
      BY <3>1
    <3>3. \A n \in Moved(p) : <<n, w>> \in Outcomes(p, v)
      BY <1>0, <1>2, <2>0, <2>3, MinedOutcomes
    <3>4. Tracked' /\ Ledger(t.q)' = w /\ \A q \in Request : q # t.q => Ledger(q)' = Ledger(q)
      BY <2>2, <2>3 DEF State
    <3> HIDE DEF e, w
    <3>5. Spends(t, N)
      BY <2>0, <2>1, <3>1, <3>2, <3>3, <3>4, Settling
    <3> QED
      BY <3>2, <3>5
  <2>4. CASE fate = "sent" /\ Becomes(t.q, e, "failed") /\ Raise(t, "other")
    <3> DEFINE w == [v EXCEPT ![e] = "failed"]
    <3>1. PICK N, B, E : Shape(t, N, B, E) /\ \A n \in N : Seen(n, Open(t)') \in Falls(p)
      BY <1>0, <2>1, <2>4, Falling
    <3>2. \A n \in Falls(p) : <<n, w>> \in Outcomes(p, v)
      BY <1>0, <1>2, <2>0, <2>4, MinedOutcomes
    <3>3. Tracked' /\ Ledger(t.q)' = w /\ \A q \in Request : q # t.q => Ledger(q)' = Ledger(q)
      BY <2>2, <2>4 DEF State
    <3> HIDE DEF e, w
    <3>4. Spends(t, N)
      BY <2>0, <2>1, <3>1, <3>2, <3>3, Settling
    <3> QED
      BY <3>1, <3>4
  <2>5. CASE fate # "seen" /\ fx' = fx /\ Raise(t, "other")
    <3>1. PICK N, B, E : Shape(t, N, B, E) /\ \A n \in N : Seen(n, Open(t)') \in Falls(p)
      BY <1>0, <2>1, <2>5, Falling
    <3>2. \A n \in Falls(p) : <<n, v>> \in Outcomes(p, v)
      BY <1>0, <1>2, <2>0, <2>5, MinedOutcomes
    <3>3. Tracked' /\ \A q \in Request : Ledger(q)' = Ledger(q)
      BY <2>5, LedgerStays
    <3> HIDE DEF e
    <3>4. Spends(t, N)
      BY <1>0, <2>0, <2>1, <3>1, <3>2, <3>3, Settling
    <3> QED
      BY <3>1, <3>4
  <2> QED
    BY <2>3, <2>4, <2>5 DEF AwaitReceipt, fxVars
<1> QED
  BY <1>1, <1>2

\* A row.
LEMMA WriteRowSpends ==
  ASSUME Rules, Core, Charging, Tracked, NEW t \in threads, WriteRow(t)
  PROVE  \E N, B, E : Shape(t, N, B, E) /\ Spends(t, N)
<1> DEFINE e == Head1(t).name
           v == Ledger(t.q)
           p == Place(t)
<1>0. t.q \in Request /\ Head1(t).op = "write" /\ Head1(p).op = "write" /\ Head1(p).name = e
  BY PlaceFields DEF Core, Typed, WriteRow
<1>1. (IF e \in Unique THEN UNCHANGED doubled ELSE Twice(t, e)) =>
        \/ doubled' = doubled
        \/ /\ e \in Charged \ Unique /\ e = "fee" /\ Ledger(t.q)["fee"] \in OnChain
           /\ doubled' = doubled \cup {<<t.q, "fee", t.again>>}
  BY <1>0, TakenTwice
<1>2. CASE e \notin Charged
  <2>1. Tracked' /\ (\A q \in Request : Ledger(q)' = Ledger(q))
    <3>1. CASE fx' = fx
      BY <3>1, LedgerStays
    <3>2. CASE \E x \in State : Becomes(t.q, e, x)
      BY <1>0, <1>2, <3>2, LedgerBecomes
    <3> QED
      BY <3>1, <3>2 DEF WriteRow, Fails, State
  <2>2. PICK N, B, E : Shape(t, N, B, E)
    BY WriteRowShape
  <2>3. doubled' = doubled
    BY <1>1, <1>2 DEF WriteRow
  <2>4. Spends(t, N)
    BY <1>0, <1>2, <2>1, <2>2, <2>3, Sparing
  <2> QED
    BY <2>2, <2>4
<1>3. CASE e \in Charged
  <2>0. (Stands(t.q, e) <=> v[e] \in OnChain) /\ Settles(p)
    BY <1>0, <1>3, LedgerReads, WriteOutcomes DEF Stands
  <2>1. "other" \in Errors(p) /\ \E n : n \in Falls(p)
    BY <1>0, FallsSomewhere DEF Errors
  <2>2. ASSUME NEW x \in State, Becomes(t.q, e, x)
        PROVE  Tracked' /\ Ledger(t.q)' = [v EXCEPT ![e] = x] /\ \A q \in Request : q # t.q => Ledger(q)' = Ledger(q)
    BY <1>0, <1>3, <2>2, LedgerBecomes
  <2>3. CASE /\ Becomes(t.q, e, "seen") /\ (IF e \in Unique THEN UNCHANGED doubled ELSE Twice(t, e))
             /\ Go(t, Tail(t.rest)) /\ UNCHANGED <<webVars, escaped>>
    <3> DEFINE w == [v EXCEPT ![e] = "seen"]
    <3>1. /\ \E N, B, E : Shape(t, N, B, E) /\ \A n \in N : Seen(n, Open(t)') \in Moved(p)
          /\ \E n : n \in Moved(p)
      BY <1>0, <2>3, Succeeding DEF webVars
    <3>2. PICK N, B, E : Shape(t, N, B, E) /\ \A n \in N : Seen(n, Open(t)') \in Moved(p)
      BY <3>1
    <3>3. \A n \in Moved(p) : <<n, w>> \in Outcomes(p, v)
      BY <1>0, <1>3, WriteOutcomes
    <3>4. Tracked' /\ Ledger(t.q)' = w /\ \A q \in Request : q # t.q => Ledger(q)' = Ledger(q)
      BY <2>2, <2>3 DEF State
    <3>5. Retakes(t)
      BY <1>0, <1>1, <2>3 DEF Retakes
    <3> HIDE DEF e, w
    <3>6. Spends(t, N)
      BY <2>0, <3>1, <3>2, <3>3, <3>4, <3>5, Settling
    <3> QED
      BY <3>2, <3>6
  <2>4. CASE Raise(t, "other") /\ Fails(t.q, e) /\ UNCHANGED doubled
    <3>1. PICK N, B, E : Shape(t, N, B, E) /\ \A n \in N : Seen(n, Open(t)') \in Falls(p)
      BY <1>0, <2>1, <2>4, Falling
    <3>2. Retakes(t)
      BY <2>4 DEF Retakes
    <3>3. CASE v[e] \in OnChain
      <4>1. \A n \in Falls(p) : <<n, v>> \in Outcomes(p, v)
        BY <1>0, <1>3, <3>3, WriteOutcomes
      <4>2. Tracked' /\ \A q \in Request : Ledger(q)' = Ledger(q)
        BY <2>0, <2>4, <3>3, LedgerStays DEF Fails
      <4> HIDE DEF e
      <4>3. Spends(t, N)
        BY <1>0, <2>0, <2>1, <3>1, <3>2, <4>1, <4>2, Settling
      <4> QED
        BY <3>1, <4>3
    <3>4. CASE v[e] \notin OnChain
      <4> DEFINE w == [v EXCEPT ![e] = "failed"]
      <4>1. \A n \in Falls(p) : <<n, w>> \in Outcomes(p, v)
        BY <1>0, <1>3, <3>4, WriteOutcomes
      <4>2. Tracked' /\ Ledger(t.q)' = w /\ \A q \in Request : q # t.q => Ledger(q)' = Ledger(q)
        BY <2>0, <2>2, <2>4, <3>4 DEF Fails, State
      <4> HIDE DEF e, w
      <4>3. Spends(t, N)
        BY <1>0, <2>0, <2>1, <3>1, <3>2, <4>1, <4>2, Settling
      <4> QED
        BY <3>1, <4>3
    <3> QED
      BY <3>3, <3>4
  <2> QED
    BY <2>3, <2>4 DEF WriteRow
<1> QED
  BY <1>2, <1>3

\* A look at what is done.
LEMMA RememberOutcomeSpends ==
  ASSUME Rules, Core, Charging, Tracked, NEW t \in threads, RememberOutcome(t)
  PROVE  \E N, B, E : Shape(t, N, B, E) /\ Spends(t, N)
<1> DEFINE e == Head1(t).name
           p == Place(t)
           v == Ledger(t.q)
           s == (IF fx[t.q][e] = "seen" THEN Head1(t).then ELSE Head1(t).else) \o Tail(t.rest)
<1>0. /\ t.q \in Request /\ Head1(t).op = "ifdone" /\ Head1(p) = Head1(t) /\ p.rest = t.rest
      /\ doubled' = doubled /\ fx' = fx /\ Go(t, s)
      /\ said' = said /\ repeated' = repeated /\ escaped' = escaped
  BY PlaceFields DEF Core, Typed, RememberOutcome, fxVars, webVars
<1>1. Tracked' /\ \A q \in Request : Ledger(q)' = Ledger(q)
  BY <1>0, LedgerStays
<1>2. With(p, s) \in Moved(p)
  BY <1>0, ForkMoves DEF Forks
<1>3. PICK N, B, E : Shape(t, N, B, E) /\ \A n \in N : Seen(n, Open(t)') = With(p, s)
  <2> HIDE DEF s
  <2> QED
    BY <1>0, <1>2, GoesTo DEF Core
<1>4. CASE e \notin Charged
  BY <1>0, <1>1, <1>3, <1>4, Sparing
<1>5. CASE e \in Charged
  <2>1. v[e] = fx[t.q][e]
    BY <1>0, <1>5, LedgerReads
  <2>2. ~Settles(p) /\ <<With(p, s), v>> \in Outcomes(p, v)
    <3>1. s = (IF v[e] = "seen" THEN Head1(p).then ELSE Head1(p).else) \o Tail(p.rest)
      BY <1>0, <2>1
    <3> HIDE DEF s
    <3> QED
      BY <1>0, <1>5, <3>1, DoneOutcomes
  <2> HIDE DEF s
  <2> QED
    BY <1>0, <1>1, <1>3, <2>2 DEF Spends, Spent, Retakes
<1> QED
  BY <1>4, <1>5

\* Every step spends as its place says.
LEMMA StepSpends ==
  ASSUME Rules, Core, Charging, Tracked, NEW t \in threads, StepOf(t)
  PROVE  \E N, B, E : Shape(t, N, B, E) /\ Spends(t, N)
<1>1. CASE SendTx(t) \/ AwaitReceipt(t) \/ WriteRow(t) \/ RememberOutcome(t)
  BY <1>1, SendTxSpends, AwaitReceiptSpends, WriteRowSpends, RememberOutcomeSpends
<1>2. CASE ~(SendTx(t) \/ AwaitReceipt(t) \/ WriteRow(t) \/ RememberOutcome(t))
  <2>1. PICK N, B, E : Shape(t, N, B, E)
    BY StepShape
  <2>2. fx' = fx /\ doubled' = doubled /\ Head1(t).op \notin {"send", "mined", "write", "ifdone"}
    <3>1. CASE \/ Choose(t) \/ Await(t) \/ ThrowError(t) \/ InspectError(t) \/ LookAtJob(t) \/ EnterTry(t)
               \/ EnterFinally(t) \/ Return(t)
      BY <3>1 DEF Choose, Await, ThrowError, InspectError, LookAtJob, EnterTry, EnterFinally, Return, fxVars
    <3>2. CASE SayAnswer(t) \/ GiveAnswer(t) \/ RelayRequest(t) \/ AskMaster(t) \/ HearMaster(t) \/ PostRequest(t)
      BY <3>2 DEF SayAnswer, GiveAnswer, RelayRequest, AskMaster, HearMaster, PostRequest, fxVars
    <3>3. CASE SpawnBlock(t)
      BY <3>3, Zenon DEF SpawnBlock, fxVars
    <3>4. CASE PushJob(t) \/ PutBack(t) \/ SetTimer(t)
      BY <3>4 DEF PushJob, PutBack, SetTimer, fxVars
    <3>5. CASE TakeSlot(t) \/ PollForSlot(t) \/ LookForSlot(t) \/ BorrowSlot(t) \/ GiveSlots(t)
      BY <3>5 DEF TakeSlot, PollForSlot, LookForSlot, BorrowSlot, GiveSlots, fxVars
    <3> QED
      BY <1>2, <3>1, <3>2, <3>3, <3>4, <3>5 DEF StepOf
  <2>3. t.q \in Request
    BY DEF Core, Typed
  <2>4. Spends(t, N)
    BY <2>1, <2>2, <2>3, LedgerStays, Sparing
  <2> QED
    BY <2>1, <2>4
<1> QED
  BY <1>1, <1>2

------------------------------------------------------------------------------
(* Who may spend.                                                          *)

\* The route of a request, and whether its payment is watched or its fee comes first.
Watched(q) == Entry(route[q][1], route[q][2], "client", NoJob, TRUE) \in Charges.watched
Ahead(q) == route[q][2] \in FeeFirst

\* One run or job of a request may still settle its payment or its fee,
OneSpender ==
  \A x, y \in Parties : Of(x).q = Of(y).q /\ {At(x), At(y)} \subseteq Charges.spends => x = y

\* with a ledger that the scripts expect there.
Kept ==
  \A x \in Parties : At(x) \in Charges.spends =>
    <<At(x), Of(x).again, Ledger(Of(x).q)>> \in Charges.ledger

\* Every run or job knows whether the payment of its request is watched.
Belongs ==
  \A x \in Parties : /\ At(x) \in Charges.watched <=> Watched(Of(x).q)
                     /\ At(x) \in Charges.ahead => Ahead(Of(x).q)

\* No fee without the payment.
EarnedFee == \A q \in Request : Earned(Ledger(q), Watched(q), Ahead(q))

\* The invariant of the payments and fees.
Paid == Asking \subseteq Request /\ Tracked /\ OneSpender /\ Kept /\ Belongs /\ EarnedFee /\ NeverTwice

\* The rules of SpendRules, of one place and what comes of it.
LEMMA SpendObey ==
  ASSUME Rules, Charging, NEW p \in Places.all
  PROVE  /\ Settles(p) => p \in Charges.spends \/ (p \in Charges.watched /\ Watches(p))
         /\ \A n \in Same(p) \cup News(p) \cup Turns(Places, p) : ~Ended(n) =>
              /\ n \in Charges.spends => p \in Charges.spends
              /\ n \in Charges.ahead => p \in Charges.ahead
              /\ n \in Charges.watched <=> p \in Charges.watched
         /\ \A n \in Same(p), b \in News(p) : ~(n \in Charges.spends /\ b \in Charges.spends)
<1>1. SpendRules(Places, Charges)
  BY DEF Charging, ChargeRules
<1>2. Same(p) \cup News(p) \subseteq Own(p) \cup Begun(p)
  BY DEF Own, News
<1>3. \A n \in Same(p), b \in News(p) : ~({n, b} \subseteq Charges.spends)
  BY <1>1 DEF SpendRules
<1>4. /\ Settles(p) => p \in Charges.spends \/ (p \in Charges.watched /\ Watches(p))
      /\ \A n \in Own(p) \cup Begun(p) \cup Turns(Places, p) : ~Ended(n) =>
           /\ n \in Charges.spends => p \in Charges.spends
           /\ n \in Charges.ahead => p \in Charges.ahead
           /\ n \in Charges.watched <=> p \in Charges.watched
  BY <1>1 DEF SpendRules
<1> QED
  BY <1>2, <1>3, <1>4

\* The rules of LedgerRules, of one place and ledger.
LEMMA LedgerObey ==
  ASSUME Charging, NEW p, NEW a, NEW v, <<p, a, v>> \in Charges.ledger
  PROVE  /\ Head1(p).op \in {"send", "write"} /\ Head1(p).name \in Charged \ Unique =>
              (v[Head1(p).name] \in OnChain => a = TRUE)
         /\ \A o \in Outcomes(p, v) :
              /\ o[1] \in Charges.spends => <<o[1], a, o[2]>> \in Charges.ledger
              /\ Earned(o[2], p \in Charges.watched, p \in Charges.ahead)
         /\ \A n \in News(p) : n \in Charges.spends => <<n, Repeats(p, a), v>> \in Charges.ledger
         /\ \A n \in Turns(Places, p) : n \in Charges.spends => <<n, a, v>> \in Charges.ledger
         /\ p \in Charges.watched /\ v["main"] = "sent" =>
              \A x \in {"seen", "failed"} : <<p, a, [v EXCEPT !["main"] = x]>> \in Charges.ledger
<1>1. <<p, a, v>>[1] = p /\ <<p, a, v>>[2] = a /\ <<p, a, v>>[3] = v
  OBVIOUS
<1>2. LedgerRules(Places, Charges)
  BY DEF Charging, ChargeRules
<1> QED
  BY <1>1, <1>2, Zenon DEF LedgerRules

\* A fee that is there already is taken only by a job that was put back.
LEMMA RetakeObey ==
  ASSUME Charging, NEW p, NEW a, NEW v, <<p, a, v>> \in Charges.ledger,
         Head1(p).op \in {"send", "write"}, Head1(p).name \in Charged \ Unique, v[Head1(p).name] \in OnChain
  PROVE  a = TRUE
BY LedgerObey

\* A step that settles begins nothing.
LEMMA SettlesAlone ==
  ASSUME NEW p, NEW n \in News(p)
  PROVE  ~Settles(p)
BY DEF News, Beside, Begun, Settles

\* What a wait for the payment's receipt makes of the ledger.
LEMMA WatchedLedger ==
  ASSUME NEW p, NEW q, Watches(p), NEW o \in Outcomes(p, Ledger(q))
  PROVE  \/ o[2] = Ledger(q)
         \/ /\ Ledger(q)["main"] = "sent"
            /\ \E x \in {"seen", "failed"} : o[2] = [Ledger(q) EXCEPT !["main"] = x]
<1> DEFINE v == Ledger(q)
<1>1. Head1(p).op = "mined" /\ Head1(p).name = "main" /\ "main" \in Charged
  BY DEF Watches, Charged
<1>2. v["main"] = "seen" => [v EXCEPT !["main"] = "seen"] = v
  BY <1>1 DEF Ledger
<1> HIDE DEF v
<1>3. Outcomes(p, v) \subseteq
        IF v["main"] = "seen" THEN Moved(p) \X {[v EXCEPT !["main"] = "seen"]}
        ELSE IF v["main"] = "sent"
        THEN (Moved(p) \X {[v EXCEPT !["main"] = "seen"]}) \cup (Falls(p) \X {[v EXCEPT !["main"] = "failed"]})
               \cup (Falls(p) \X {v})
        ELSE Falls(p) \X {v}
  BY <1>1 DEF Outcomes
<1>4. o \in Outcomes(p, v)
  BY DEF v
<1>5. \/ o[2] = v
      \/ /\ v["main"] = "sent"
         /\ \E x \in {"seen", "failed"} : o[2] = [v EXCEPT !["main"] = x]
  BY <1>2, <1>3, <1>4
<1> QED
  BY <1>5 DEF v

\* A party of the next state that t became, or that its step began.
Advances(x, t) ==
  /\ Of(x)'.q = t.q /\ Of(x)'.conn = t.conn /\ Of(x)'.again = t.again /\ ~Ended(At(x)')
  /\ At(x)' \in Same(Place(t)) /\ <<At(x)', Ledger(t.q)'>> \in Outcomes(Place(t), Ledger(t.q))
Springs(x, t) ==
  /\ Of(x)'.q = t.q /\ Of(x)'.again = Repeats(Place(t), t.again) /\ ~Ended(At(x)')
  /\ At(x)' \in News(Place(t)) /\ (At(x)' \in Beside(Place(t)) => Of(x)'.conn = t.conn)

\* Where the parties of the next state come from.
LEMMA Sources ==
  ASSUME Rules, Core, NEW t \in threads, NEW N, NEW B, NEW E, Steps(t, N, B, E), Speaks(t, N, E), Spends(t, N),
         NEW f, NEW S, Flow(<<"run", t>>, f, {"run"} \X N, S), NEW x \in Parties'
  PROVE  \/ Stays(x, f[x], <<"run", t>>)
         \/ f[x] = <<"run", t>> /\ x \in {"run"} \X N /\ Advances(x, t)
         \/ f[x] = <<"run", t>> /\ x \in S /\ Springs(x, t)
<1> DEFINE a == <<"run", t>>
           M == {"run"} \X N
<1>1. \/ Stays(x, f[x], a)
      \/ f[x] = a /\ ~Ended(At(x)') /\ (x \in M \/ x \in S)
  BY Origins
<1>2. At(a) = Place(t) /\ Of(a) = t
  BY RunParty
<1>3. ASSUME f[x] = a, ~Ended(At(x)'), x \in M PROVE Advances(x, t)
  <2>1. PICK n \in N : x = <<"run", n>>
    BY <1>3
  <2>2. Of(x)' = n /\ At(x)' = Place(n)'
    BY <2>1, RunParty
  <2>3. Kin(n, t)
    BY DEF Steps
  <2>4. Place(n)' = Seen(n, Open(t)')
    BY <2>3 DEF Kin, Place, Open
  <2>5. <<At(x)', Ledger(t.q)'>> \in Outcomes(Place(t), Ledger(t.q))
    <3>1. <<Seen(n, Open(t)'), Ledger(t.q)'>> \in Outcomes(Place(t), Ledger(t.q))
      BY DEF Spends
    <3> QED
      BY <2>2, <2>4, <3>1
  <2>6. At(x)' \in Same(Place(t))
    BY <2>2, <2>4 DEF Steps
  <2>7. Of(x)'.q = t.q /\ Of(x)'.conn = t.conn /\ Of(x)'.again = t.again
    BY <2>2, <2>3 DEF Kin
  <2> QED
    BY <1>3, <2>5, <2>6, <2>7 DEF Advances
<1>4. ASSUME f[x] = a, ~Ended(At(x)'), x \in S PROVE Springs(x, t)
  <2>1. Arises(x, a) /\ At(x)' \in News(At(a)) /\ (At(x)' \in Beside(At(a)) => Comes(x, a))
    BY <1>4 DEF Flow
  <2> QED
    BY <1>2, <1>4, <2>1 DEF Arises, Comes, Springs
<1> QED
  BY <1>1, <1>3, <1>4

\* The sources of all parties: f says where each comes from, M and S hold what
\* the step of t leaves.
Sourced(t, f, M, S) ==
  /\ \A x \in Parties' : \/ Stays(x, f[x], <<"run", t>>)
                         \/ f[x] = <<"run", t>> /\ x \in M /\ Advances(x, t)
                         \/ f[x] = <<"run", t>> /\ x \in S /\ Springs(x, t)
  /\ \A x, y \in Parties' : f[x] = f[y] /\ f[x] # <<"run", t>> => x = y
  /\ \A x, y \in M : x = y
  /\ \A x, y \in S : x = y

\* What the step says: nothing, an answer, or a question to Master.
Tells(t, M, S) ==
  \/ /\ said' = said
     /\ Head1(t).op = "ask" => \A x \in M : At(x)' \in Raised(Place(t))
  \/ /\ t.conn # "none"
     /\ \E c \in Speech(Place(t)) : said' = [said EXCEPT ![t.q][t.conn] = ClassOf(t.q, c)]
     /\ Escaping(Place(t)) => M = {}
     /\ Head1(t).op \in {"ask", "relay"} => S = {}
  \/ Head1(t).op = "ask" /\ said' = [said EXCEPT ![t.q]["inner"] = "none"]

\* A step tells what its shape speaks.
LEMMA SpeaksTells ==
  ASSUME Rules, Core, NEW t \in threads, NEW N, NEW B, NEW E, Steps(t, N, B, E), Speaks(t, N, E),
         NEW S, Head1(t).op \in {"ask", "relay"} /\ E = {} => S = {}
  PROVE  Tells(t, {"run"} \X N, S)
<1> DEFINE M == {"run"} \X N
<1>1. CASE Mute(t, N, E)
  <2>1. ASSUME Head1(t).op = "ask", NEW x \in M PROVE At(x)' \in Raised(Place(t))
    <3>1. PICK n \in N : x = <<"run", n>>
      OBVIOUS
    <3>2. At(x)' = Place(n)'
      BY <3>1, RunParty
    <3>3. Place(n)' = Seen(n, Open(t)')
      BY DEF Steps, Kin, Place, Open
    <3> QED
      BY <1>1, <2>1, <3>2, <3>3 DEF Mute
  <2> QED
    BY <1>1, <2>1 DEF Mute, Tells
<1>2. CASE Voice(t, N, E)
  <2>1. PICK a \in Said : /\ said' = [said EXCEPT ![t.q][t.conn] = a]
                          /\ a = "none" <=> t.conn = "none"
                          /\ t.conn # "none" => \E c \in Speech(Place(t)) : a = ClassOf(t.q, c)
    BY <1>2 DEF Voice
  <2>2. CASE t.conn = "none"
    <3>1. said' = said
      <4>1. said \in [Request -> [Conn -> Said]] /\ t.q \in Request /\ said[t.q]["none"] = "none"
        BY DEF Core, Typed
      <4> QED
        BY <2>1, <2>2, <4>1
    <3>2. Head1(t).op = "ask" => M = {}
      BY <1>2 DEF Voice
    <3> QED
      BY <3>1, <3>2 DEF Tells
  <2>3. CASE t.conn # "none"
    <3>1. Escaping(Place(t)) => N = {}
      BY <1>2, PlaceFields DEF Voice, Escaping, Errors
    <3>2. Head1(t).op \in {"ask", "relay"} => S = {}
      BY <1>2 DEF Voice
    <3> QED
      BY <2>1, <2>3, <3>1, <3>2 DEF Tells
  <2> QED
    BY <2>2, <2>3
<1>3. CASE AsksMaster(t, N)
  BY <1>3 DEF AsksMaster, Tells
<1> QED
  BY <1>1, <1>2, <1>3 DEF Speaks

\* Every step has them.
LEMMA StepSources ==
  ASSUME Rules, Core, Charging, Tracked, NEW t \in threads, StepOf(t)
  PROVE  Spent(t) /\ \E f, M, S : Sourced(t, f, M, S) /\ Tells(t, M, S)
<1>1. PICK N, B, E : Shape(t, N, B, E) /\ Spends(t, N)
  BY StepSpends
<1>2. Queues(t)
  BY StepShape
<1>3. Steps(t, N, B, E) /\ Speaks(t, N, E)
  BY <1>1 DEF Shape
<1>4. PICK f, S : /\ Flow(<<"run", t>>, f, {"run"} \X N, S)
                  /\ Head1(t).op \in {"ask", "relay"} /\ E = {} => S = {}
  BY <1>2, <1>3, StepFlows
<1> DEFINE M == {"run"} \X N
<1>5. \A x \in Parties' : \/ Stays(x, f[x], <<"run", t>>)
                          \/ f[x] = <<"run", t>> /\ x \in M /\ Advances(x, t)
                          \/ f[x] = <<"run", t>> /\ x \in S /\ Springs(x, t)
  BY <1>1, <1>3, <1>4, Sources
<1>6. Flow(<<"run", t>>, f, M, S) /\ Tells(t, M, S)
  BY <1>3, <1>4, SpeaksTells
<1> HIDE DEF M
<1>7. Sourced(t, f, M, S)
  BY <1>5, <1>6 DEF Sourced, Flow
<1> QED
  BY <1>1, <1>6, <1>7 DEF Spends

\* What a party of the next state was, whatever it is.
LEMMA SpendersWere ==
  ASSUME Rules, Core, Charging, NEW t \in threads, NEW f, NEW M, NEW S, Sourced(t, f, M, S), NEW x \in Parties'
  PROVE  \E y \in Parties :
           /\ y = (IF Stays(x, f[x], <<"run", t>>) THEN f[x] ELSE <<"run", t>>)
           /\ Of(x)'.q = Of(y).q /\ Of(x)'.q \in Request
           /\ At(x)' \in Charges.spends => At(y) \in Charges.spends
           /\ At(x)' \in Charges.ahead => At(y) \in Charges.ahead
           /\ At(x)' \in Charges.watched <=> At(y) \in Charges.watched
<1> DEFINE a == <<"run", t>>
<1>1. a \in Parties /\ At(a) = Place(t) /\ Of(a) = t /\ Place(t) \in Places.all /\ t.q \in Request
  BY RunParty, PartyTyped DEF Core, Typed
<1>2. CASE Stays(x, f[x], a)
  <2>1. f[x] \in Parties /\ Of(x)'.q = Of(f[x]).q /\ Endures(At(f[x]), At(x)')
    BY <1>2 DEF Stays
  <2>2. At(f[x]) \in Places.all /\ Of(f[x]).q \in Request
    BY <2>1, PartyTyped
  <2>3. At(x)' \in Places.all /\ (At(x)' = At(f[x]) \/ At(x)' \in Turns(Places, At(f[x])))
    BY <2>1 DEF Endures
  <2>4. ~Ended(At(x)')
    BY <2>3, PlacesObey
  <2>5. /\ At(x)' \in Charges.spends => At(f[x]) \in Charges.spends
        /\ At(x)' \in Charges.ahead => At(f[x]) \in Charges.ahead
        /\ At(x)' \in Charges.watched <=> At(f[x]) \in Charges.watched
    BY <2>2, <2>3, <2>4, SpendObey
  <2> QED
    BY <1>2, <2>1, <2>2, <2>5
<1>3. CASE ~Stays(x, f[x], a)
  <2>1. Of(x)'.q = t.q /\ ~Ended(At(x)') /\ At(x)' \in Same(Place(t)) \cup News(Place(t))
    BY <1>3 DEF Sourced, Advances, Springs
  <2>2. /\ At(x)' \in Charges.spends => Place(t) \in Charges.spends
        /\ At(x)' \in Charges.ahead => Place(t) \in Charges.ahead
        /\ At(x)' \in Charges.watched <=> Place(t) \in Charges.watched
    BY <1>1, <2>1, SpendObey
  <2> QED
    BY <1>1, <1>3, <2>1, <2>2
<1> QED
  BY <1>2, <1>3

\* After a step, too, one party of a request may spend,
LEMMA StepKeepsOneSpender ==
  ASSUME Rules, Core, Charging, Paid, NEW t \in threads, NEW f, NEW M, NEW S, Sourced(t, f, M, S)
  PROVE  OneSpender'
<1> DEFINE a == <<"run", t>>
<1> SUFFICES ASSUME NEW x \in Parties', NEW z \in Parties', Of(x)'.q = Of(z)'.q,
                    At(x)' \in Charges.spends, At(z)' \in Charges.spends
             PROVE  x = z
  BY DEF OneSpender
<1>1. PICK y \in Parties : /\ y = (IF Stays(x, f[x], a) THEN f[x] ELSE a)
                           /\ Of(x)'.q = Of(y).q /\ At(y) \in Charges.spends
  BY SpendersWere
<1>2. PICK w \in Parties : /\ w = (IF Stays(z, f[z], a) THEN f[z] ELSE a)
                           /\ Of(z)'.q = Of(w).q /\ At(w) \in Charges.spends
  BY SpendersWere
<1>3. y = w
  BY <1>1, <1>2 DEF Paid, OneSpender
<1>4. \A v \in Parties' : Stays(v, f[v], a) => f[v] # a
  BY DEF Stays
<1>5. CASE y # a
  <2>1. f[x] = f[z] /\ f[x] # a
    BY <1>1, <1>2, <1>3, <1>5
  <2> QED
    BY <2>1 DEF Sourced
<1>6. CASE y = a
  <2>1. /\ (x \in M /\ Advances(x, t)) \/ (x \in S /\ Springs(x, t))
        /\ (z \in M /\ Advances(z, t)) \/ (z \in S /\ Springs(z, t))
    BY <1>1, <1>2, <1>3, <1>4, <1>6 DEF Sourced
  <2>2. (\A v, u \in M : v = u) /\ (\A v, u \in S : v = u)
    BY DEF Sourced
  <2>3. ASSUME NEW v, NEW u, Advances(v, t), Springs(u, t), At(v)' \in Charges.spends, At(u)' \in Charges.spends
        PROVE  FALSE
    <3>1. At(v)' \in Same(Place(t)) /\ At(u)' \in News(Place(t)) /\ Place(t) \in Places.all
      BY <2>3 DEF Advances, Springs, Core, Placed
    <3> QED
      BY <2>3, <3>1, SpendObey
  <2> QED
    BY <2>1, <2>2, <2>3
<1> QED
  BY <1>5, <1>6

\* and every party belongs to its request.
LEMMA StepKeepsBelongs ==
  ASSUME Rules, Core, Charging, Paid, NEW t \in threads, StepOf(t), NEW f, NEW M, NEW S, Sourced(t, f, M, S)
  PROVE  Belongs'
<1>1. route' = route
  BY StepKeepsRoute
<1> SUFFICES ASSUME NEW x \in Parties'
             PROVE  /\ At(x)' \in Charges.watched <=> Watched(Of(x).q)'
                    /\ At(x)' \in Charges.ahead => Ahead(Of(x).q)'
  BY DEF Belongs
<1>2. PICK y \in Parties : /\ Of(x)'.q = Of(y).q
                           /\ At(x)' \in Charges.ahead => At(y) \in Charges.ahead
                           /\ At(x)' \in Charges.watched <=> At(y) \in Charges.watched
  BY SpendersWere
<1>3. PICK q : q = Of(y).q
  OBVIOUS
<1>4. (At(y) \in Charges.watched <=> Watched(q)) /\ (At(y) \in Charges.ahead => Ahead(q))
  BY <1>3 DEF Paid, Belongs
<1>5. (Watched(Of(x).q)' <=> Watched(q)) /\ (Ahead(Of(x).q)' <=> Ahead(q))
  BY <1>1, <1>2, <1>3 DEF Watched, Ahead
<1> QED
  BY <1>2, <1>4, <1>5

\* The ledger of a request, after the step, of a party that has it.
LEMMA LedgerOf ==
  ASSUME NEW x, NEW q, Of(x)'.q = q
  PROVE  Ledger(Of(x).q)' = Ledger(q)'
BY DEF Ledger

\* What a wait for the payment's receipt makes of the ledger of its request.
LEMMA WatcherSees ==
  ASSUME NEW t, Spent(t), Settles(Place(t)), Watches(Place(t)), NEW q, q = t.q
  PROVE  \/ Ledger(q)' = Ledger(q)
         \/ /\ Ledger(q)["main"] = "sent"
            /\ \E x \in {"seen", "failed"} : Ledger(q)' = [Ledger(q) EXCEPT !["main"] = x]
<1>1. PICK o \in Outcomes(Place(t), Ledger(q)) : o[2] = Ledger(q)'
  BY DEF Spent
<1>2. \/ o[2] = Ledger(q)
      \/ /\ Ledger(q)["main"] = "sent"
         /\ \E x \in {"seen", "failed"} : o[2] = [Ledger(q) EXCEPT !["main"] = x]
  BY <1>1, WatchedLedger
<1> QED
  BY <1>1, <1>2

\* A spender that stays where it is finds what the scripts expect,
LEMMA StayerKnows ==
  ASSUME Rules, Core, Charging, Paid, NEW t \in threads, Spent(t),
         NEW y \in Parties, y # <<"run", t>>, At(y) \in Charges.spends, NEW q, q = Of(y).q
  PROVE  <<At(y), Of(y).again, Ledger(q)'>> \in Charges.ledger
<1> DEFINE a == <<"run", t>>
<1>1. a \in Parties /\ At(a) = Place(t) /\ Of(a) = t /\ Place(t) \in Places.all /\ q \in Request
  BY RunParty, PartyTyped
<1>2. <<At(y), Of(y).again, Ledger(q)>> \in Charges.ledger
  BY DEF Paid, Kept
<1>3. CASE Ledger(q)' = Ledger(q)
  BY <1>2, <1>3
<1>4. CASE q = t.q /\ Settles(Place(t))
  <2>1. Place(t) \notin Charges.spends
    BY <1>1, <1>4 DEF Paid, OneSpender
  <2>2. Watches(Place(t)) /\ Place(t) \in Charges.watched
    BY <1>1, <1>4, <2>1, SpendObey
  <2>3. At(y) \in Charges.watched
    BY <1>1, <1>4, <2>2 DEF Paid, Belongs
  <2>4. \/ Ledger(q)' = Ledger(q)
        \/ /\ Ledger(q)["main"] = "sent"
           /\ \E x \in {"seen", "failed"} : Ledger(q)' = [Ledger(q) EXCEPT !["main"] = x]
    BY <1>4, <2>2, WatcherSees
  <2> QED
    BY <1>2, <2>3, <2>4, LedgerObey
<1> QED
  BY <1>1, <1>3, <1>4 DEF Spent

\* and so does every spender after the step.
LEMMA StepKeepsKept ==
  ASSUME Rules, Core, Charging, Paid, NEW t \in threads, Spent(t),
         NEW f, NEW M, NEW S, Sourced(t, f, M, S)
  PROVE  Kept'
<1> DEFINE a == <<"run", t>>
<1> SUFFICES ASSUME NEW x \in Parties', At(x)' \in Charges.spends
             PROVE  <<At(x)', Of(x)'.again, Ledger(Of(x).q)'>> \in Charges.ledger
  BY DEF Kept
<1>1. a \in Parties /\ At(a) = Place(t) /\ Of(a) = t /\ Place(t) \in Places.all /\ t.q \in Request
  BY RunParty, PartyTyped
<1>2. PICK y \in Parties : /\ y = (IF Stays(x, f[x], a) THEN f[x] ELSE a)
                           /\ Of(x)'.q = Of(y).q /\ At(y) \in Charges.spends
  BY SpendersWere
<1>3. PICK q : q = Of(y).q
  OBVIOUS
<1>4. Ledger(Of(x).q)' = Ledger(q)'
  BY <1>2, <1>3, LedgerOf
<1>5. CASE Stays(x, f[x], a)
  <2>1. y # a /\ Of(x)'.again = Of(y).again /\ (At(x)' = At(y) \/ At(x)' \in Turns(Places, At(y)))
    BY <1>2, <1>5 DEF Stays, Endures
  <2>2. <<At(y), Of(y).again, Ledger(q)'>> \in Charges.ledger
    BY <1>2, <1>3, <2>1, StayerKnows
  <2>3. <<At(x)', Of(y).again, Ledger(q)'>> \in Charges.ledger
    BY <2>1, <2>2, LedgerObey
  <2> QED
    BY <1>4, <2>1, <2>3
<1>6. CASE ~Stays(x, f[x], a)
  <2>1. y = a /\ q = t.q /\ Place(t) \in Charges.spends
    BY <1>1, <1>2, <1>3, <1>6
  <2>2. <<Place(t), t.again, Ledger(t.q)>> \in Charges.ledger
    BY <1>1, <2>1 DEF Paid, Kept
  <2>3. CASE Advances(x, t)
    <3>1. Of(x)'.again = t.again /\ <<At(x)', Ledger(t.q)'>> \in Outcomes(Place(t), Ledger(t.q))
      BY <2>3 DEF Advances
    <3>2. <<At(x)', t.again, Ledger(t.q)'>> \in Charges.ledger
      <4> DEFINE o == <<At(x)', Ledger(t.q)'>>
      <4>1. o[1] = At(x)' /\ o[2] = Ledger(t.q)' /\ o \in Outcomes(Place(t), Ledger(t.q))
        BY <3>1
      <4> HIDE DEF o
      <4>2. o[1] \in Charges.spends => <<o[1], t.again, o[2]>> \in Charges.ledger
        BY <2>2, <4>1, LedgerObey
      <4> QED
        BY <4>1, <4>2
    <3> QED
      BY <1>4, <2>1, <3>1, <3>2
  <2>4. CASE Springs(x, t)
    <3>1. At(x)' \in News(Place(t)) /\ Of(x)'.again = Repeats(Place(t), t.again)
      BY <2>4 DEF Springs
    <3>2. Ledger(t.q)' = Ledger(t.q)
      BY <3>1, SettlesAlone DEF Spent
    <3>3. <<At(x)', Repeats(Place(t), t.again), Ledger(t.q)>> \in Charges.ledger
      BY <2>2, <3>1, LedgerObey
    <3> QED
      BY <1>4, <2>1, <3>1, <3>2, <3>3
  <2> QED
    BY <1>6, <2>3, <2>4 DEF Sourced
<1> QED
  BY <1>5, <1>6

\* No fee without the payment, after the step.
LEMMA StepKeepsEarned ==
  ASSUME Rules, Core, Charging, Paid, NEW t \in threads, StepOf(t), Spent(t)
  PROVE  EarnedFee'
<1> SUFFICES ASSUME NEW q \in Request PROVE Earned(Ledger(q), Watched(q), Ahead(q))'
  BY DEF EarnedFee
<1>0. route' = route
  BY StepKeepsRoute
<1>1. Earned(Ledger(q), Watched(q), Ahead(q))
  BY DEF Paid, EarnedFee
<1>2. (Watched(q)' <=> Watched(q)) /\ (Ahead(q)' <=> Ahead(q))
  BY <1>0 DEF Watched, Ahead
<1>3. CASE Ledger(q)' = Ledger(q)
  BY <1>1, <1>2, <1>3 DEF Earned
<1>4. CASE q = t.q /\ Settles(Place(t))
  <2> DEFINE a == <<"run", t>>
             p == Place(t)
  <2>1. a \in Parties /\ At(a) = p /\ Of(a) = t /\ p \in Places.all
    BY RunParty, PartyTyped
  <2>2. (p \in Charges.watched <=> Watched(q)) /\ (p \in Charges.ahead => Ahead(q))
    BY <1>4, <2>1 DEF Paid, Belongs
  <2>3. PICK o \in Outcomes(p, Ledger(q)) : o[2] = Ledger(q)'
    BY <1>4 DEF Spent
  <2>4. CASE p \in Charges.spends
    <3>1. <<p, t.again, Ledger(q)>> \in Charges.ledger
      BY <1>4, <2>1, <2>4 DEF Paid, Kept
    <3>2. Earned(o[2], p \in Charges.watched, p \in Charges.ahead)
      <4> HIDE DEF p
      <4> QED
        BY <2>3, <3>1, LedgerObey
    <3> QED
      BY <1>2, <2>2, <2>3, <3>2 DEF Earned
  <2>5. CASE p \notin Charges.spends
    <3>1. Watches(p) /\ p \in Charges.watched
      BY <1>4, <2>1, <2>5, SpendObey
    <3>2. \/ Ledger(q)' = Ledger(q)
          \/ /\ Ledger(q)["main"] = "sent"
             /\ \E x \in {"seen", "failed"} : Ledger(q)' = [Ledger(q) EXCEPT !["main"] = x]
      BY <1>4, <3>1, WatcherSees
    <3>3. Ledger(q)'["fee"] = Ledger(q)["fee"] /\ Watched(q)
      BY <2>2, <3>1, <3>2 DEF Ledger, Charged
    <3>4. Ledger(q)["fee"] \in OnChain => Ledger(q)["main"] = "seen" \/ Ahead(q)
      BY <1>1, <3>3 DEF Earned
    <3>5. CASE Ledger(q)["main"] = "sent"
      BY <1>2, <3>3, <3>4, <3>5 DEF Earned
    <3> QED
      BY <1>3, <3>2, <3>5
  <2> QED
    BY <2>4, <2>5
<1> QED
  BY <1>3, <1>4 DEF Spent

\* The fee is not taken twice but by a job that was put back.
LEMMA StepKeepsNeverTwice ==
  ASSUME Rules, Core, Charging, Paid, NEW t \in threads, Spent(t)
  PROVE  NeverTwice'
<1>1. NeverTwice
  BY DEF Paid
<1>2. CASE doubled' = doubled
  BY <1>1, <1>2 DEF NeverTwice
<1>3. CASE /\ Head1(t).op \in {"send", "write"} /\ Head1(t).name \in Charged \ Unique
           /\ Head1(t).name = "fee" /\ Ledger(t.q)["fee"] \in OnChain
           /\ doubled' = doubled \cup {<<t.q, "fee", t.again>>}
  <2> DEFINE a == <<"run", t>>
             p == Place(t)
  <2>1. a \in Parties /\ At(a) = p /\ Of(a) = t /\ p \in Places.all /\ Head1(p) = Head1(t)
    BY RunParty, PartyTyped, PlaceFields
  <2>2. Settles(p) /\ ~Watches(p)
    BY <1>3, <2>1 DEF Settles, Watches
  <2>3. p \in Charges.spends
    BY <2>1, <2>2, SpendObey
  <2>4. <<p, t.again, Ledger(t.q)>> \in Charges.ledger
    BY <2>1, <2>3 DEF Paid, Kept
  <2>5. t.again = TRUE
    <3> HIDE DEF p
    <3>1. Head1(p).op \in {"send", "write"} /\ Head1(p).name \in Charged \ Unique
      BY <1>3, <2>1
    <3>2. Ledger(t.q)[Head1(p).name] \in OnChain
      BY <1>3, <2>1
    <3> QED
      BY <2>4, <3>1, <3>2, RetakeObey
  <2>6. ASSUME NEW d \in doubled', d[2] = "fee" PROVE d[3]
    <3>1. CASE d \in doubled
      BY <1>1, <2>6, <3>1 DEF NeverTwice
    <3>2. CASE d = <<t.q, "fee", t.again>>
      <4>1. d[3] = t.again
        BY <3>2
      <4> QED
        BY <2>5, <4>1
    <3> QED
      BY <1>3, <3>1, <3>2
  <2> QED
    BY <2>6 DEF NeverTwice
<1> QED
  BY <1>2, <1>3 DEF Spent, Retakes

\* A step of a run keeps the invariant.
LEMMA StepKeepsPaid ==
  ASSUME Rules, Core, Charging, Paid, NEW t \in threads, StepOf(t)
  PROVE  Paid'
<1>1. Tracked
  BY DEF Paid
<1>2. Spent(t) /\ \E f, M, S : Sourced(t, f, M, S)
  BY <1>1, StepSources
<1>3. PICK f, M, S : Sourced(t, f, M, S)
  BY <1>2
<1>4. OneSpender' /\ Belongs' /\ Kept'
  BY <1>2, <1>3, StepKeepsOneSpender, StepKeepsBelongs, StepKeepsKept
<1>5. EarnedFee' /\ NeverTwice'
  BY <1>2, StepKeepsEarned, StepKeepsNeverTwice
<1> QED
  BY <1>2, <1>4, <1>5, StepKeepsRoute DEF Paid, Spent, Asking

\* A call of a worker and a restart move no party and take nothing.
LEMMA RenamedKeepsPaid ==
  ASSUME Paid, NEW f, Renamed(f), fx' = fx, doubled' = doubled, route' = route
  PROVE  Paid'
<1>1. /\ \A x \in Parties' : /\ f[x] \in Parties /\ Of(x)'.q = Of(f[x]).q
                             /\ Of(x)'.again = Of(f[x]).again /\ At(x)' = At(f[x])
      /\ \A x, z \in Parties' : f[x] = f[z] => x = z
  BY DEF Renamed
<1>2. Tracked' /\ NeverTwice' /\ Asking' \subseteq Request
  BY DEF Paid, Tracked, NeverTwice, Asking
<1>3. OneSpender'
  <2> SUFFICES ASSUME NEW x \in Parties', NEW z \in Parties', Of(x)'.q = Of(z)'.q,
                      At(x)' \in Charges.spends, At(z)' \in Charges.spends
               PROVE  x = z
    BY DEF OneSpender
  <2>1. f[x] = f[z]
    BY <1>1 DEF Paid, OneSpender
  <2> QED
    BY <1>1, <2>1
<1>4. \A q : Ledger(q)' = Ledger(q) /\ (Watched(q)' <=> Watched(q)) /\ (Ahead(q)' <=> Ahead(q))
  BY DEF Ledger, Watched, Ahead
<1>5. ASSUME NEW x \in Parties'
      PROVE  /\ At(x)' \in Charges.spends => <<At(x)', Of(x)'.again, Ledger(Of(x).q)'>> \in Charges.ledger
             /\ At(x)' \in Charges.watched <=> Watched(Of(x).q)'
             /\ At(x)' \in Charges.ahead => Ahead(Of(x).q)'
  <2>1. PICK y \in Parties : y = f[x] /\ Of(x)'.q = Of(y).q /\ Of(x)'.again = Of(y).again /\ At(x)' = At(y)
    BY <1>1
  <2>2. PICK q : q = Of(y).q
    OBVIOUS
  <2>3. Ledger(Of(x).q)' = Ledger(q)
    BY <1>4, <2>1, <2>2, LedgerOf
  <2>4. (Watched(Of(x).q)' <=> Watched(q)) /\ (Ahead(Of(x).q)' <=> Ahead(q))
    BY <2>1, <2>2 DEF Watched, Ahead
  <2>5. /\ At(y) \in Charges.spends => <<At(y), Of(y).again, Ledger(q)>> \in Charges.ledger
        /\ At(y) \in Charges.watched <=> Watched(q)
        /\ At(y) \in Charges.ahead => Ahead(q)
    BY <2>2 DEF Paid, Kept, Belongs
  <2> QED
    BY <2>1, <2>3, <2>4, <2>5
<1>6. Kept' /\ Belongs'
  BY <1>5 DEF Kept, Belongs
<1>7. EarnedFee'
  BY <1>4 DEF Paid, EarnedFee, Earned
<1> QED
  BY <1>2, <1>3, <1>6, <1>7 DEF Paid

\* At the start every request is at its door, and nothing is sent.
LEMMA InitIsPaid == ASSUME Rules, Charging, Init PROVE Paid
<1>1. Core
  BY InitHasCore
<1>2. /\ threads = {Thread(q, route[q][1], route[q][2], "client") : q \in Asking}
      /\ queue = [w \in Queue |-> <<>>] /\ doubled = {}
      /\ fx = [q \in Request |-> [e \in Effect |-> "none"]]
      /\ said = [q \in Request |-> [c \in Conn |-> "none"]] /\ Asking \subseteq Request
  BY MixAssumption DEF Init, Asking
<1>3. Tracked /\ NeverTwice
  BY <1>2 DEF Tracked, State, NeverTwice
<1>4. \A q \in Request : Ledger(q) = Blank
  BY <1>2 DEF Charging, ChargeRules, Ledger, Blank
<1>5. EarnedFee
  BY <1>4 DEF EarnedFee, Earned, Blank, Charged, OnChain
<1>6. ASSUME NEW x \in Parties
      PROVE  \E q \in Asking : x = <<"run", Thread(q, route[q][1], route[q][2], "client")>>
                               /\ Of(x).q = q /\ Of(x).again = FALSE
                               /\ At(x) = Entry(route[q][1], route[q][2], "client", NoJob, TRUE)
  <2>1. Jobs = {}
    BY <1>2 DEF Jobs
  <2>2. PICK u \in threads : x = <<"run", u>>
    BY <2>1, PartyKinds
  <2>3. PICK q \in Asking : u = Thread(q, route[q][1], route[q][2], "client")
    BY <1>2
  <2>4. u.q = q /\ u.conn = "client" /\ Seen(u, TRUE) = Entry(route[q][1], route[q][2], "client", NoJob, TRUE)
    <3>1. \A o : Seen(u, o) = Entry(route[q][1], route[q][2], "client", NoJob, o)
      BY <2>3, NewSeen
    <3>2. u.q = q /\ u.conn = "client"
      BY <2>3, NewSeen
    <3> QED
      BY <3>1, <3>2
  <2>5. u.again = FALSE
    BY <2>3, NewAgain
  <2>6. Open(u)
    BY <1>2, <2>4 DEF Open, Conn
  <2>7. Place(u) = Seen(u, TRUE)
    BY <2>6 DEF Place
  <2> QED
    BY <2>2, <2>3, <2>4, <2>5, <2>7, RunParty
<1>7. OneSpender
  BY <1>6 DEF OneSpender
<1>8. ASSUME NEW x \in Parties
      PROVE  /\ At(x) \in Charges.spends => <<At(x), Of(x).again, Ledger(Of(x).q)>> \in Charges.ledger
             /\ At(x) \in Charges.watched <=> Watched(Of(x).q)
             /\ At(x) \in Charges.ahead => Ahead(Of(x).q)
  <2>1. PICK q \in Asking : /\ Of(x).q = q /\ Of(x).again = FALSE
                            /\ At(x) = Entry(route[q][1], route[q][2], "client", NoJob, TRUE)
    BY <1>6
  <2>2. route[q] \in Routes
    <3>1. route[q] \in {route[r] : r \in DOMAIN route} /\ route \in Mixes
      BY DEF Asking, Init
    <3> QED
      BY <3>1 DEF Routes
  <2>3. At(x) \in Doors({route[q]})
    BY <2>1 DEF Doors
  <2>4. /\ At(x) \in Charges.spends => <<At(x), FALSE, Blank>> \in Charges.ledger
        /\ At(x) \in Charges.ahead => route[q][2] \in FeeFirst
    BY <2>2, <2>3 DEF Charging, ChargeRules
  <2> QED
    BY <1>2, <1>4, <2>1, <2>4 DEF Watched, Ahead
<1>9. Kept /\ Belongs
  BY <1>8 DEF Kept, Belongs
<1> QED
  BY <1>2, <1>3, <1>5, <1>7, <1>9 DEF Paid

\* The payments and fees are inductive, with Core.
LEMMA PaidIsInductive == ASSUME Rules, Core, Charging, Paid, [Next]_vars PROVE Paid'
<1>1. ASSUME NEW t \in threads, StepOf(t) PROVE Paid'
  BY <1>1, StepKeepsPaid
<1>2. ASSUME NEW w \in Queue, CallWorker(w) PROVE Paid'
  <2>1. PICK f : Renamed(f)
    BY <1>2, CallRenames
  <2>2. fx' = fx /\ doubled' = doubled /\ route' = route
    BY <1>2 DEF CallWorker, fxVars
  <2> QED
    BY <2>1, <2>2, RenamedKeepsPaid
<1>3. CASE Restart
  <2>1. PICK f : Renamed(f)
    BY <1>3, RestartRenames
  <2>2. fx' = fx /\ doubled' = doubled /\ route' = route
    BY <1>3 DEF Restart, fxVars
  <2> QED
    BY <2>1, <2>2, RenamedKeepsPaid
<1>4. CASE UNCHANGED vars
  <2>1. /\ threads' = threads /\ queue' = queue /\ said' = said
        /\ fx' = fx /\ doubled' = doubled /\ route' = route
    BY <1>4 DEF vars
  <2>2. /\ \A x : Of(x)' = Of(x)
        /\ \A x : At(x)' = At(x)
        /\ Parties' = Parties
    BY <2>1 DEF Of, At, Parties, Jobs, Place, JobPlace, Open
  <2> DEFINE f == [x \in Parties' |-> x]
  <2>3. Renamed(f)
    BY <2>1, <2>2 DEF Renamed
  <2> HIDE DEF f
  <2> QED
    BY <2>1, <2>3, RenamedKeepsPaid
<1> QED
  BY <1>1, <1>2, <1>3, <1>4 DEF Next, FireTimer

\* If the scripts obey: what a run finds of the payment and the fee of its
\* request follows from where it is, and one run at a time may still send or
\* settle them (the workers of MemberCard.ts and their retry queues).
THEOREM PaidInvariance == ASSUME Rules, Charging PROVE Spec => [](Core /\ Paid)
<1>1. Init => Core /\ Paid
  BY InitHasCore, InitIsPaid
<1>2. (Core /\ Paid) /\ [Next]_vars => (Core /\ Paid)'
  BY CoreIsInductive, PaidIsInductive
<1> QED
  BY <1>1, <1>2, PTL DEF Spec

\* If the scripts obey: no retry, follow-up or other job of a request takes its
\* fee a second time, but a job that an error put back: not the workers that
\* hand a request on to the accounting, nor its rows (consumeFromUser of the
\* workers; the fee is the one effect that the chain would take twice).
THEOREM NothingIsTakenTwice == ASSUME Rules, Charging PROVE Spec => []NeverTwice
<1>1. Paid => NeverTwice
  BY DEF Paid
<1> QED
  BY <1>1, PaidInvariance, PTL

\* If the scripts obey: the fee of a request that fails is never on the chain,
\* except on the routes that take it first (the fee transfers of the workers).
THEOREM FeesAreEarned == ASSUME Rules, Charging PROVE Spec => []FeeOnlyForSuccess
<1>1. Core /\ Paid => FeeOnlyForSuccess
  <2> SUFFICES ASSUME Paid, NEW q \in Asking, fx[q]["fee"] \in OnChain
               PROVE  fx[q]["main"] \in OnChain \/ route[q][2] \in FeeFirst
    BY DEF FeeOnlyForSuccess
  <2>1. Earned(Ledger(q), Watched(q), Ahead(q)) /\ q \in Request
    BY DEF Paid, EarnedFee
  <2>2. Ledger(q)["fee"] = fx[q]["fee"] /\ Ledger(q)["main"] = fx[q]["main"]
    BY DEF Ledger, Charged
  <2> QED
    BY <2>1, <2>2 DEF Earned, Ahead, OnChain
<1> QED
  BY <1>1, PaidInvariance, PTL

------------------------------------------------------------------------------
(* What a request is told of its payment.                                  *)

CONSTANT Tales   \* what the runs may find of the payment, as ServiceAnswers has it

\* The scripts answer as the rules of ServiceAnswers say.
Telling == AnswerRules(Routes, Places, Charges, Tales)

Main(q) == Ledger(q)["main"]

\* Its route may answer an error for what has succeeded.
Late(q) == route[q][2] \in LateErrors

\* A run or a job may still settle its payment.
Heired(q) == \E x \in Parties : Of(x).q = q /\ At(x) \in Tales.pays

\* Answer a is true of the payment of q, and stays so.
IsTrue(a, q) == Safe(a, Main(q), Heired(q), Late(q))

\* Whatever a run at p will find of the payment of q, the scripts expect.
Knows(p, q) == {p} \X Fates(Main(q), Heired(q)) \subseteq Tales.aside

\* A run that says nothing to anybody.
Hushed(p) == p.conn = "none" \/ p \in Places.silent

\* Nobody will give Master's answer to q but those whose answer is true.
Unheard(q) == \A y \in Parties : Of(y).q = q =>
  At(y) \in Charges.spends \/ Knows(At(y), q) \/ Hushed(At(y))

\* Whoever will settle neither payment nor fee knows of the payment, or is asked in vain.
Bystanders == \A x \in Parties :
  At(x) \in Charges.spends \/ Knows(At(x), Of(x).q) \/ At(x) \in Tales.under

\* The client has been told the truth,
ClientTold == \A q \in Request : IsTrue(said[q]["client"], q)

\* and so has the Cluster's run that will hand Master's answer on, unless any
\* answer would be true.
MasterTold == \A x \in Parties : At(x) \in Tales.echoes \ Charges.spends =>
  \/ IsTrue("inner", Of(x).q)
  \/ IsTrue(said[Of(x).q]["inner"], Of(x).q) /\ Unheard(Of(x).q)

\* Runs of late routes are of late requests.
Lates == \A x \in Parties : At(x) \in Tales.late => Late(Of(x).q)

\* The invariant of the answers.
Told == Bystanders /\ ClientTold /\ MasterTold /\ Lates

\* The rules of AnswerRules, of one place and what comes of it: of its turns,
LEMMA TurnsObey ==
  ASSUME Telling, NEW p \in Places.all, NEW n \in Turns(Places, p)
  PROVE  /\ p \in Charges.spends => n \in Charges.spends
         /\ n \in Tales.echoes => p \in Tales.echoes
BY DEF Telling, AnswerRules, SpeechRules, EchoRules

\* of who settles the payment,
LEMMA PayObey ==
  ASSUME Telling
  PROVE  /\ Tales.pays \subseteq Charges.spends
         /\ \A p \in Charges.spends :
              /\ Settles(p) /\ Head1(p).name = "main" => p \in Tales.pays
              /\ \A n \in Nexts(Places, p) : n \in Tales.pays => p \in Tales.pays
BY DEF Telling, AnswerRules, PayRules

\* of who is asked in vain,
LEMMA UnderObey ==
  ASSUME Telling, NEW p \in Tales.under
  PROVE  /\ p \in Places.all /\ p \notin Charges.spends /\ p \notin Places.asks /\ p.conn # "client"
         /\ Nexts(Places, p) \subseteq Tales.under
BY DEF Telling, AnswerRules, UnderRules

\* of late routes,
LEMMA LateObey ==
  ASSUME Telling, NEW p \in Places.all
  PROVE  /\ p \in Charges.watched => p \in Tales.late
         /\ \A n \in Nexts(Places, p) : n \in Tales.late => p \in Tales.late
<1>1. Charges.watched \subseteq Tales.late
  BY DEF Telling, AnswerRules, LateRules
<1>2. Nexts(Places, p) \cap Tales.late # {} => p \in Tales.late
  BY DEF Telling, AnswerRules, LateRules
<1> QED
  BY <1>1, <1>2

\* of echoes,
LEMMA EchoObey ==
  ASSUME Telling, NEW p \in Places.all
  PROVE  /\ p \in Tales.echoes => p \in Places.asks
         /\ "inner" \in Speech(p) => p \in Tales.echoes
         /\ \A n \in Beside(p) : n \notin Tales.echoes
         /\ Head1(p).op = "ask" => \A n \in Raised(p) : n \notin Tales.echoes
         /\ \A n \in Same(p) : Head1(p).op # "ask" /\ n \in Tales.echoes => p \in Tales.echoes
<1>1. EchoRules(Places, Tales)
  BY DEF Telling, AnswerRules
<1>2. /\ "inner" \in Speech(p) => p \in Tales.echoes
      /\ Beside(p) \cap Tales.echoes = {}
      /\ Head1(p).op = "ask" => Raised(p) \cap Tales.echoes = {}
      /\ Head1(p).op # "ask" /\ Same(p) \cap Tales.echoes # {} => p \in Tales.echoes
  BY <1>1 DEF EchoRules
<1>3. Tales.echoes \subseteq Places.asks
  BY <1>1 DEF EchoRules
<1> QED
  BY <1>2, <1>3

\* of a run that cannot settle the payment and finds m of it,
LEMMA AsideObey ==
  ASSUME Telling, NEW p, NEW m, <<p, m>> \in Tales.aside
  PROVE  /\ p \in Places.all /\ p \notin Charges.spends
         /\ \A n \in Nexts(Places, p) :
              <<n, m>> \in Tales.aside \/ (n \in Begun(p) /\ n \in Tales.under /\ Consults(Charges, Tales, p))
         /\ \A a \in Speech(p) : a # "inner" => Safe(a, m, FALSE, p \in Tales.late)
         /\ p \in Charges.watched /\ m = "sent" => \A x \in {"seen", "failed"} : <<p, x>> \in Tales.aside
<1>1. <<p, m>>[1] = p /\ <<p, m>>[2] = m
  OBVIOUS
<1>2. AsideRules(Places, Charges, Tales)
  BY DEF Telling, AnswerRules
<1>3. /\ p \in Places.all /\ p \notin Charges.spends
      /\ \A n \in Nexts(Places, p) :
           <<n, m>> \in Tales.aside \/ (n \in Begun(p) \cap Tales.under /\ Consults(Charges, Tales, p))
      /\ \A a \in Speech(p) \ {"inner"} : Safe(a, m, FALSE, p \in Tales.late)
      /\ p \in Charges.watched /\ m = "sent" => {p} \X {"seen", "failed"} \subseteq Tales.aside
  BY <1>1, <1>2, Zenon DEF AsideRules
<1>4. p \in Charges.watched /\ m = "sent" => \A x \in {"seen", "failed"} : <<p, x>> \in Tales.aside
  BY <1>3
<1> QED
  BY <1>3, <1>4

\* and of the run that may settle payment or fee.
LEMMA HeirObey ==
  ASSUME Telling, NEW p, NEW a, NEW v, <<p, a, v>> \in Charges.ledger
  PROVE  /\ \A o \in Outcomes(p, v) : o[1] \notin Charges.spends /\ ~Ended(o[1]) =>
              /\ {o[1]} \X Fates(o[2]["main"], News(p) \cap Tales.pays # {}) \subseteq Tales.aside
              /\ o[1] \in Tales.echoes /\ Head1(p).op # "ask" =>
                   Safe("inner", o[2]["main"], News(p) \cap Tales.pays # {}, o[1] \in Tales.late)
         /\ \A b \in News(p) : b \notin Charges.spends /\ ~Ended(b) =>
              \/ {b} \X Fates(v["main"], (Same(p) \cup News(p)) \cap Tales.pays # {}) \subseteq Tales.aside
              \/ b \in Begun(p) /\ b \in Tales.under /\ Consults(Charges, Tales, p)
         /\ \A c \in Speech(p) :
              Safe(c, v["main"], Same(p) \cap Tales.pays # {} /\ ~Escaping(p), p \in Tales.late)
<1>1. <<p, a, v>>[1] = p /\ <<p, a, v>>[2] = a /\ <<p, a, v>>[3] = v
  OBVIOUS
<1>2. HeirRules(Charges, Tales)
  BY DEF Telling, AnswerRules
<1>3. /\ \A o \in Outcomes(p, v) : o[1] \notin Charges.spends /\ ~Ended(o[1]) =>
              /\ {o[1]} \X Fates(o[2]["main"], News(p) \cap Tales.pays # {}) \subseteq Tales.aside
              /\ o[1] \in Tales.echoes /\ Head1(p).op # "ask" =>
                   Safe("inner", o[2]["main"], News(p) \cap Tales.pays # {}, o[1] \in Tales.late)
      /\ \A b \in News(p) \ Charges.spends : ~Ended(b) =>
              \/ {b} \X Fates(v["main"], (Same(p) \cup News(p)) \cap Tales.pays # {}) \subseteq Tales.aside
              \/ b \in Begun(p) \cap Tales.under /\ Consults(Charges, Tales, p)
      /\ \A c \in Speech(p) :
              Safe(c, v["main"], Same(p) \cap Tales.pays # {} /\ ~Escaping(p), p \in Tales.late)
  BY <1>1, <1>2, Zenon DEF HeirRules
<1> QED
  BY <1>3

\* A handler that settles says nothing.
LEMMA SettlesInSilence ==
  ASSUME Telling, NEW p \in Places.all, Settles(p)
  PROVE  Speech(p) = {}
BY DEF Telling, AnswerRules, SpeechRules

------------------------------------------------------------------------------
(* What a step makes of the payment.                                       *)

\* A payment that has been seen stays seen.
LEMMA SeenStays ==
  ASSUME Charging, NEW p, Settles(p), NEW v \in [Charged -> State], v["main"] = "seen", NEW o \in Outcomes(p, v)
  PROVE  o[2]["main"] = "seen"
<1> DEFINE e == Head1(p).name
           To(x) == [v EXCEPT ![e] = x]
           sent == To("sent")
           seen == To("seen")
           failed == To("failed")
           F == Falls(p)
           G == Moved(p)
<1>1. e \in Charged /\ "main" \in Charged /\ "main" \in Unique /\ Head1(p).op \in {"send", "mined", "write"}
  BY DEF Settles, Charged, Charging, ChargeRules
<1>2. v["main"] \in OnChain
  BY DEF OnChain
<1>3. seen["main"] = "seen" /\ (e # "main" => sent["main"] = "seen" /\ failed["main"] = "seen")
  BY <1>1
<1>4. CASE Head1(p).op = "send"
  <2>1. Outcomes(p, v) \subseteq (F \X {v}) \cup ((G \cup F) \X {sent}) \cup (F \X {failed})
    BY <1>1, <1>4 DEF Outcomes
  <2>2. e = "main" => Outcomes(p, v) = F \X {v}
    BY <1>1, <1>2, <1>4 DEF Outcomes
  <2> HIDE DEF e, sent, failed, F, G
  <2>3. o[2] \in {v, sent, failed} /\ (e = "main" => o[2] = v)
    BY <2>1, <2>2
  <2> QED
    BY <1>3, <2>3
<1>5. CASE Head1(p).op = "mined"
  <2>1. Outcomes(p, v) \subseteq (F \X {v}) \cup (G \X {seen}) \cup (F \X {failed})
    BY <1>1, <1>5 DEF Outcomes
  <2>2. e = "main" => Outcomes(p, v) = G \X {seen}
    BY <1>1, <1>5 DEF Outcomes
  <2> HIDE DEF e, seen, failed, F, G
  <2>3. o[2] \in {v, seen, failed} /\ (e = "main" => o[2] = seen)
    BY <2>1, <2>2
  <2> QED
    BY <1>3, <2>3
<1>6. CASE Head1(p).op = "write"
  <2>1. Outcomes(p, v) \subseteq (F \X {v}) \cup (G \X {seen}) \cup (F \X {failed})
    BY <1>1, <1>6 DEF Outcomes
  <2>2. e = "main" => Outcomes(p, v) \subseteq (F \X {v}) \cup (G \X {seen})
    BY <1>1, <1>2, <1>6 DEF Outcomes
  <2> HIDE DEF e, seen, failed, F, G
  <2>3. o[2] \in {v, seen, failed} /\ (e = "main" => o[2] \in {v, seen})
    BY <2>1, <2>2
  <2> QED
    BY <1>3, <2>3
<1> QED
  BY <1>1, <1>4, <1>5, <1>6

\* Who settles the fee leaves the payment alone.
LEMMA FeeLeavesMain ==
  ASSUME Charging, NEW p, Settles(p), Head1(p).name # "main", NEW v, NEW o \in Outcomes(p, v)
  PROVE  o[2]["main"] = v["main"]
<1> DEFINE e == Head1(p).name
           To(x) == [v EXCEPT ![e] = x]
           sent == To("sent")
           seen == To("seen")
           failed == To("failed")
           F == Falls(p)
           G == Moved(p)
<1>1. e \in Charged /\ e # "main" /\ Head1(p).op \in {"send", "mined", "write"}
  BY DEF Settles
<1>2. sent["main"] = v["main"] /\ seen["main"] = v["main"] /\ failed["main"] = v["main"]
  BY <1>1
<1>3. Outcomes(p, v) \subseteq (F \X {v}) \cup ((G \cup F) \X {sent}) \cup (G \X {seen}) \cup (F \X {failed})
  BY <1>1 DEF Outcomes
<1> HIDE DEF e, sent, seen, failed, F, G
<1>4. o[2] \in {v, sent, seen, failed}
  BY <1>3
<1> QED
  BY <1>2, <1>4

\* The payment of q changes only by a run that may settle it, and not once it
\* has been seen, or under the eyes of a block that was left to watch it.
Eased(q) ==
  /\ Heired(q)' => Heired(q)
  /\ Late(q)' <=> Late(q)
  /\ Main(q)' \in State
  /\ \/ Main(q)' = Main(q)
     \/ Heired(q) /\ Main(q) # "seen"
     \/ Main(q) = "sent" /\ Main(q)' \in {"seen", "failed"} /\ Watched(q) /\ Late(q)

\* An answer that was true stays true.
LEMMA TrueStays ==
  ASSUME NEW q, Eased(q), NEW a, IsTrue(a, q)
  PROVE  IsTrue(a, q)'
<1>1. Late(q)' <=> Late(q)
  BY DEF Eased
<1>2. CASE Main(q)' = Main(q)
  BY <1>2 DEF Eased, IsTrue, Safe
<1>3. CASE Heired(q) /\ Main(q) # "seen"
  BY <1>1, <1>3 DEF IsTrue, Safe
<1>4. CASE Main(q) = "sent" /\ Late(q)
  BY <1>1, <1>4 DEF IsTrue, Safe
<1> QED
  BY <1>2, <1>3, <1>4 DEF Eased

\* Who knew of the payment of its request still does.
LEMMA KnowsStays ==
  ASSUME Telling, Paid, NEW q, Eased(q), NEW y \in Parties, Of(y).q = q, NEW p, p = At(y), Knows(p, q)
  PROVE  Knows(p, q)'
<1>1. CASE Main(q)' = Main(q)
  <2>1. Fates(Main(q), Heired(q))' \subseteq Fates(Main(q), Heired(q))
    BY <1>1 DEF Eased, Fates
  <2> QED
    BY <2>1 DEF Knows
<1>2. CASE Heired(q) /\ Main(q) # "seen"
  <2>1. Fates(Main(q), Heired(q)) = State
    BY <1>2 DEF Fates
  <2>2. Fates(Main(q), Heired(q))' \subseteq State
    BY DEF Eased, Fates
  <2> QED
    BY <2>1, <2>2 DEF Knows
<1>3. CASE ~Heired(q) /\ Main(q) = "sent" /\ Main(q)' \in {"seen", "failed"} /\ Watched(q)
  <2>1. Fates(Main(q), Heired(q)) = {"sent"} /\ Fates(Main(q), Heired(q))' = {Main(q)'}
    BY <1>3 DEF Eased, Fates
  <2>2. <<p, "sent">> \in Tales.aside
    BY <2>1 DEF Knows
  <2>3. p \in Charges.watched
    BY <1>3 DEF Paid, Belongs
  <2>4. \A x \in {"seen", "failed"} : <<p, x>> \in Tales.aside
    BY <2>2, <2>3, AsideObey
  <2> QED
    BY <1>3, <2>1, <2>4 DEF Knows
<1> QED
  BY <1>1, <1>2, <1>3 DEF Eased

\* What a run expects of the payment, F, it leaves to whatever comes of it, or
\* to a run that is asked in vain.
LEMMA PassesOn ==
  ASSUME Telling, NEW p, NEW F, {p} \X F \subseteq Tales.aside, NEW n \in Nexts(Places, p)
  PROVE  \/ {n} \X F \subseteq Tales.aside
         \/ n \in Begun(p) /\ n \in Tales.under /\ Consults(Charges, Tales, p)
<1>1. \A m \in F : <<p, m>> \in Tales.aside
  OBVIOUS
<1>2. \A m \in F : <<n, m>> \in Tales.aside \/ (n \in Begun(p) /\ n \in Tales.under /\ Consults(Charges, Tales, p))
  BY <1>1, AsideObey
<1>3. (\A m \in F : <<n, m>> \in Tales.aside) => {n} \X F \subseteq Tales.aside
  OBVIOUS
<1> QED
  BY <1>2, <1>3

\* It keeps it when somebody else answers or asks anew.
LEMMA TurnsKnow ==
  ASSUME Rules, Telling, NEW p \in Places.all, NEW F, {p} \X F \subseteq Tales.aside,
         NEW n, ~Ended(n), n = p \/ n \in Turns(Places, p)
  PROVE  {n} \X F \subseteq Tales.aside
<1>1. CASE n = p
  BY <1>1
<1>2. CASE n \in Turns(Places, p)
  <2>1. n \in Nexts(Places, p)
    BY <1>2 DEF Nexts
  <2>2. OnMaster(n) <=> OnMaster(p)
    <3>1. \A o : Flipped(p, o).kind = p.kind
      BY DEF Flipped
    <3>2. \E o : n = Flipped(p, o)
      BY <1>2 DEF Turns
    <3> QED
      BY <3>1, <3>2 DEF OnMaster
  <2>3. ASSUME n \in Begun(p), Consults(Charges, Tales, p) PROVE FALSE
    <3>1. Head1(p).op = "ask"
      BY <2>3 DEF Consults
    <3>2. p \in Places.asks
      BY <3>1, AskObey
    <3> QED
      BY <2>2, <2>3, <3>2, BegunDoNotAsk, OnlyClusterAsks
  <2> QED
    BY <2>1, <2>3, PassesOn
<1> QED
  BY <1>1, <1>2

\* What may settle the payment after a step could before it.
LEMMA HeirsWere ==
  ASSUME Rules, Core, Charging, Telling, NEW t \in threads, NEW f, NEW M, NEW S, Sourced(t, f, M, S),
         NEW q, Heired(q)'
  PROVE  Heired(q)
<1> DEFINE a == <<"run", t>>
<1>1. PICK x \in Parties' : Of(x)'.q = q /\ At(x)' \in Tales.pays
  BY DEF Heired
<1>2. At(x)' \in Charges.spends
  BY <1>1, PayObey
<1>3. PICK y \in Parties : /\ y = (IF Stays(x, f[x], a) THEN f[x] ELSE a)
                           /\ Of(x)'.q = Of(y).q /\ At(y) \in Charges.spends
  BY <1>2, SpendersWere
<1>4. At(y) \in Places.all
  BY PartyTyped
<1>5. At(x)' = At(y) \/ At(x)' \in Nexts(Places, At(y))
  <2>1. CASE Stays(x, f[x], a)
    <3>1. Endures(At(y), At(x)')
      BY <1>3, <2>1 DEF Stays
    <3>2. At(x)' \in Places.all
      BY <3>1 DEF Endures
    <3>3. ~Ended(At(x)')
      BY <3>2, PlacesObey
    <3> QED
      BY <3>1, <3>3 DEF Endures, Nexts
  <2>2. CASE ~Stays(x, f[x], a)
    <3>1. At(y) = Place(t)
      BY <1>3, <2>2, RunParty
    <3> QED
      BY <2>2, <3>1 DEF Sourced, Advances, Springs, Nexts, Own, News
  <2> QED
    BY <2>1, <2>2
<1>6. At(y) \in Tales.pays
  BY <1>1, <1>3, <1>5, PayObey
<1> QED
  BY <1>1, <1>3, <1>6 DEF Heired

\* When t may settle payment or fee, only what comes of t may settle it after its step.
LEMMA HeirsOfSpender ==
  ASSUME Rules, Core, Charging, Paid, Telling, NEW t \in threads, NEW f, NEW M, NEW S, Sourced(t, f, M, S),
         Place(t) \in Charges.spends, NEW q, q = t.q, Heired(q)'
  PROVE  \/ \E x \in M : Advances(x, t) /\ At(x)' \in Tales.pays
         \/ \E x \in S : Springs(x, t) /\ At(x)' \in Tales.pays
<1> DEFINE a == <<"run", t>>
<1>1. PICK x \in Parties' : Of(x)'.q = q /\ At(x)' \in Tales.pays /\ At(x)' \in Charges.spends
  BY PayObey DEF Heired
<1>2. PICK y \in Parties : /\ y = (IF Stays(x, f[x], a) THEN f[x] ELSE a)
                           /\ Of(x)'.q = Of(y).q /\ At(y) \in Charges.spends
  BY <1>1, SpendersWere
<1>3. a \in Parties /\ At(a) = Place(t) /\ Of(a) = t
  BY RunParty
<1>4. y = a
  BY <1>1, <1>2, <1>3 DEF Paid, OneSpender
<1>5. ~Stays(x, f[x], a)
  BY <1>2, <1>4 DEF Stays
<1> QED
  BY <1>1, <1>5 DEF Sourced

\* Every step eases every payment.
LEMMA StepEases ==
  ASSUME Rules, Core, Charging, Paid, Telling, Lates, NEW t \in threads, StepOf(t), Spent(t),
         NEW f, NEW M, NEW S, Sourced(t, f, M, S), NEW q \in Request
  PROVE  Eased(q)
<1> DEFINE a == <<"run", t>>
           p == Place(t)
<1>1. a \in Parties /\ At(a) = p /\ Of(a) = t /\ p \in Places.all
  BY RunParty, PartyTyped
<1>2. Heired(q)' => Heired(q)
  BY HeirsWere
<1>3. Late(q)' <=> Late(q)
  BY StepKeepsRoute DEF Late
<1>4. Tracked /\ Tracked' /\ "main" \in Charged /\ "main" \in Effect
  BY DEF Paid, Spent, Charged, Charging, ChargeRules
<1>5. Main(q)' \in State /\ Ledger(q) \in [Charged -> State]
  <2>1. Main(q)' = fx'[q]["main"]
    BY <1>4 DEF Main, Ledger
  <2>2. \A e \in Charged : fx[q][e] \in State
    BY <1>4 DEF Tracked, Charging, ChargeRules
  <2> QED
    BY <1>4, <2>1, <2>2 DEF Tracked, Ledger
<1>6. CASE Ledger(q)' = Ledger(q)
  BY <1>2, <1>3, <1>5, <1>6 DEF Eased, Main
<1>7. CASE q = t.q /\ Settles(p)
  <2>1. CASE p \in Charges.spends
    <3>1. PICK o \in Outcomes(p, Ledger(q)) : o[2] = Ledger(q)'
      BY <1>7 DEF Spent
    <3>2. PICK v : v = Ledger(q)
      OBVIOUS
    <3>3. CASE p \in Tales.pays
      <4>1. Heired(q)
        BY <1>1, <1>7, <3>3 DEF Heired
      <4>2. v["main"] = "seen" => o[2]["main"] = "seen"
        BY <1>5, <1>7, <3>1, <3>2, SeenStays
      <4>3. Main(q) = "seen" => Main(q)' = Main(q)
        BY <3>1, <3>2, <4>2 DEF Main
      <4> QED
        BY <1>2, <1>3, <1>5, <4>1, <4>3 DEF Eased
    <3>4. CASE p \notin Tales.pays
      <4>1. Head1(p).name # "main"
        BY <1>7, <2>1, <3>4, PayObey
      <4>2. o[2]["main"] = v["main"]
        BY <1>7, <3>1, <3>2, <4>1, FeeLeavesMain
      <4>3. Main(q)' = Main(q)
        BY <3>1, <3>2, <4>2 DEF Main
      <4> QED
        BY <1>2, <1>3, <1>5, <4>3 DEF Eased
    <3> QED
      BY <3>3, <3>4
  <2>2. CASE p \notin Charges.spends
    <3>1. Watches(p) /\ p \in Charges.watched
      BY <1>1, <1>7, <2>2, SpendObey
    <3>2. Watched(q)
      BY <1>1, <1>7, <3>1 DEF Paid, Belongs
    <3>3. Late(q)
      BY <1>1, <1>7, <3>1, LateObey DEF Lates
    <3>4. \/ Ledger(q)' = Ledger(q)
          \/ /\ Ledger(q)["main"] = "sent"
             /\ \E x \in {"seen", "failed"} : Ledger(q)' = [Ledger(q) EXCEPT !["main"] = x]
      BY <1>7, <3>1, WatcherSees
    <3>5. CASE /\ Ledger(q)["main"] = "sent"
               /\ \E x \in {"seen", "failed"} : Ledger(q)' = [Ledger(q) EXCEPT !["main"] = x]
      <4>1. Main(q) = "sent" /\ Main(q)' \in {"seen", "failed"}
        BY <1>4, <1>5, <3>5 DEF Main
      <4> QED
        BY <1>2, <1>3, <1>5, <3>2, <3>3, <4>1 DEF Eased
    <3> QED
      BY <1>6, <3>4, <3>5
  <2> QED
    BY <2>1, <2>2
<1> QED
  BY <1>6, <1>7 DEF Spent

------------------------------------------------------------------------------
(* Who knows what after a step.                                            *)

\* What may still be found of the payment is within what m and A leave open.
LEMMA FatesWithin ==
  ASSUME NEW q, Eased(q), NEW m, Main(q)' = m, NEW A, Heired(q)' => A
  PROVE  Fates(Main(q), Heired(q))' \subseteq Fates(m, A)
<1>1. m \in State
  BY DEF Eased
<1>2. CASE ~A
  <2>1. Fates(m, A) = {m}
    BY <1>2 DEF Fates
  <2>2. Fates(Main(q), Heired(q))' = {m}
    BY <1>2 DEF Fates
  <2> QED
    BY <2>1, <2>2
<1>3. CASE A /\ m = "seen"
  <2>1. Fates(m, A) = {m}
    BY <1>3 DEF Fates
  <2>2. Fates(Main(q), Heired(q))' = {m}
    BY <1>3 DEF Fates
  <2> QED
    BY <2>1, <2>2
<1>4. CASE A /\ m # "seen"
  <2>1. Fates(m, A) = State
    BY <1>4 DEF Fates
  <2>2. Fates(Main(q), Heired(q))' \subseteq State
    BY <1>1 DEF Fates
  <2> QED
    BY <2>1, <2>2
<1> QED
  BY <1>2, <1>3, <1>4

\* What comes of a run that may settle the payment or the fee.
LEMMA HeirsLeaveKnowledge ==
  ASSUME Rules, Core, Charging, Paid, Telling, NEW t \in threads, Spent(t),
         NEW f, NEW M, NEW S, Sourced(t, f, M, S), Place(t) \in Charges.spends, NEW q, q = t.q, Eased(q),
         NEW x \in Parties', ~Stays(x, f[x], <<"run", t>>), NEW n, n = At(x)', n \notin Charges.spends
  PROVE  \/ Knows(n, q)'
         \/ n \in Tales.under /\ n \in Begun(Place(t)) /\ Consults(Charges, Tales, Place(t))
<1> DEFINE a == <<"run", t>>
<1> PICK p : p = Place(t)
  OBVIOUS
<1> PICK v : v = Ledger(q)
  OBVIOUS
<1>1. a \in Parties /\ At(a) = p /\ Of(a) = t
  BY RunParty
<1>2. <<p, t.again, v>> \in Charges.ledger
  BY <1>1 DEF Paid, Kept
<1> DEFINE Comers == Same(p) \cup News(p)
<1>3. Heired(q)' => Comers \cap Tales.pays # {}
  BY HeirsOfSpender DEF Advances, Springs
<1>4. CASE x \in M /\ Advances(x, t)
  <2>1. n \in Same(p) /\ ~Ended(n) /\ <<n, Ledger(q)'>> \in Outcomes(p, v)
    BY <1>4 DEF Advances
  <2>2. PICK w : w = Ledger(q)'
    OBVIOUS
  <2> DEFINE o == <<n, w>>
  <2>3. o \in Outcomes(p, v) /\ o[1] = n /\ o[2] = w
    BY <2>1, <2>2
  <2> HIDE DEF o
  <2>4. {n} \X Fates(w["main"], News(p) \cap Tales.pays # {}) \subseteq Tales.aside
    BY <1>2, <2>1, <2>3, HeirObey
  <2>5. Heired(q)' => News(p) \cap Tales.pays # {}
    <3>1. \A y \in M : y = x
      BY <1>4 DEF Sourced
    <3>2. \A y \in M : At(y)' \notin Tales.pays
      BY <3>1, PayObey
    <3> QED
      BY <3>2, HeirsOfSpender DEF Springs
  <2>6. Main(q)' = w["main"]
    BY <2>2 DEF Main
  <2>7. Fates(Main(q), Heired(q))' \subseteq Fates(w["main"], News(p) \cap Tales.pays # {})
    BY <2>5, <2>6, FatesWithin
  <2> QED
    BY <2>4, <2>7 DEF Knows
<1>5. CASE Springs(x, t)
  <2>1. n \in News(p) /\ ~Ended(n)
    BY <1>5 DEF Springs
  <2>2. Main(q)' = v["main"]
    BY <2>1, SettlesAlone DEF Spent, Main
  <2>3. \/ {n} \X Fates(v["main"], Comers \cap Tales.pays # {}) \subseteq Tales.aside
        \/ n \in Begun(p) /\ n \in Tales.under /\ Consults(Charges, Tales, p)
    BY <1>2, <2>1, HeirObey
  <2>4. Fates(Main(q), Heired(q))' \subseteq Fates(v["main"], Comers \cap Tales.pays # {})
    BY <1>3, <2>2, FatesWithin
  <2> QED
    BY <2>3, <2>4 DEF Knows
<1> QED
  BY <1>4, <1>5 DEF Sourced

\* What comes of a run that knows of it.
LEMMA KnowersLeaveKnowledge ==
  ASSUME Telling, Paid, NEW t \in threads, NEW q, q = t.q, Eased(q), Knows(Place(t), q),
         NEW n \in Nexts(Places, Place(t))
  PROVE  \/ Knows(n, q)'
         \/ n \in Tales.under /\ n \in Begun(Place(t)) /\ Consults(Charges, Tales, Place(t))
<1> DEFINE a == <<"run", t>>
<1> PICK p : p = Place(t)
  OBVIOUS
<1>1. a \in Parties /\ At(a) = p /\ Of(a) = t
  BY RunParty
<1>2. Knows(p, q)'
  BY <1>1, KnowsStays
<1>3. PICK F : F = Fates(Main(q), Heired(q))'
  OBVIOUS
<1>4. {p} \X F \subseteq Tales.aside
  BY <1>2, <1>3 DEF Knows
<1>5. \/ {n} \X F \subseteq Tales.aside
      \/ n \in Begun(p) /\ n \in Tales.under /\ Consults(Charges, Tales, p)
  BY <1>4, PassesOn
<1> QED
  BY <1>3, <1>5 DEF Knows

\* What comes of any run.
LEMMA NewcomersKnow ==
  ASSUME Rules, Core, Charging, Paid, Telling, Bystanders, NEW t \in threads, Spent(t),
         NEW f, NEW M, NEW S, Sourced(t, f, M, S), NEW q, q = t.q, Eased(q),
         NEW x \in Parties', ~Stays(x, f[x], <<"run", t>>), NEW n, n = At(x)'
  PROVE  \/ n \in Charges.spends \/ Knows(n, q)'
         \/ /\ n \in Tales.under
            /\ \/ Place(t) \in Tales.under
               \/ n \in Begun(Place(t)) /\ Consults(Charges, Tales, Place(t))
<1> DEFINE a == <<"run", t>>
<1> PICK p : p = Place(t)
  OBVIOUS
<1>1. a \in Parties /\ At(a) = p /\ Of(a) = t
  BY RunParty
<1>2. n \in Nexts(Places, p)
  BY DEF Sourced, Advances, Springs, Nexts, Own, News
<1>3. CASE p \in Charges.spends
  BY <1>3, HeirsLeaveKnowledge
<1>4. CASE p \in Tales.under
  BY <1>2, <1>4, UnderObey
<1>5. CASE Knows(p, q)
  BY <1>2, <1>5, KnowersLeaveKnowledge
<1>6. p \in Charges.spends \/ p \in Tales.under \/ Knows(p, q)
  <2>1. At(a) \in Charges.spends \/ Knows(At(a), Of(a).q) \/ At(a) \in Tales.under
    BY <1>1 DEF Bystanders
  <2> QED
    BY <1>1, <2>1
<1> QED
  BY <1>3, <1>4, <1>5, <1>6

\* Whoever stays.
LEMMA StayersKnow ==
  ASSUME Rules, Core, Charging, Paid, Telling, NEW q, Eased(q), NEW y \in Parties, Of(y).q = q,
         NEW x, NEW a, Stays(x, y, a), NEW n, n = At(x)'
  PROVE  /\ ~Ended(n) /\ n \in Places.all
         /\ At(y) \in Charges.spends => n \in Charges.spends
         /\ Knows(At(y), q) => Knows(n, q)'
         /\ At(y) \in Tales.under => n \in Tales.under
         /\ Hushed(At(y)) => Hushed(n)
         /\ n \in Tales.echoes => At(y) \in Tales.echoes
         /\ n \in Tales.late => At(y) \in Tales.late
<1> PICK p : p = At(y)
  OBVIOUS
<1>1. Endures(p, n) /\ p \in Places.all
  BY PartyTyped DEF Stays
<1>2. n \in Places.all /\ n.conn = p.conn /\ (n = p \/ n \in Turns(Places, p)) /\ (p \in Places.silent => n \in Places.silent)
  BY <1>1 DEF Endures
<1>3. ~Ended(n)
  BY <1>2, PlacesObey
<1>4. n \in Turns(Places, p) => n \in Nexts(Places, p)
  BY <1>3 DEF Nexts
<1>5. /\ p \in Charges.spends => n \in Charges.spends
      /\ n \in Tales.echoes => p \in Tales.echoes
  BY <1>1, <1>2, TurnsObey
<1>6. p \in Tales.under => n \in Tales.under
  BY <1>2, <1>4, UnderObey
<1>7. n \in Tales.late => p \in Tales.late
  BY <1>1, <1>2, <1>4, LateObey
<1>8. Hushed(p) => Hushed(n)
  BY <1>2 DEF Hushed
<1>9. ASSUME Knows(p, q) PROVE Knows(n, q)'
  <2>1. Knows(p, q)'
    BY <1>9, KnowsStays
  <2>2. PICK F : F = Fates(Main(q), Heired(q))'
    OBVIOUS
  <2>3. {p} \X F \subseteq Tales.aside
    BY <2>1, <2>2 DEF Knows
  <2>4. {n} \X F \subseteq Tales.aside
    BY <1>1, <1>2, <1>3, <2>3, TurnsKnow
  <2> QED
    BY <2>2, <2>4 DEF Knows
<1> QED
  BY <1>2, <1>3, <1>5, <1>6, <1>7, <1>8, <1>9

\* After a step all the others know what they must.
LEMMA StepKeepsBystanders ==
  ASSUME Rules, Core, Charging, Paid, Telling, Bystanders, NEW t \in threads, Spent(t),
         NEW f, NEW M, NEW S, Sourced(t, f, M, S), \A q \in Request : Eased(q)
  PROVE  Bystanders'
<1> DEFINE a == <<"run", t>>
<1> SUFFICES ASSUME NEW x \in Parties'
             PROVE  At(x)' \in Charges.spends \/ Knows(At(x), Of(x).q)' \/ At(x)' \in Tales.under
  BY DEF Bystanders
<1> PICK n : n = At(x)'
  OBVIOUS
<1> PICK q : q = Of(x)'.q
  OBVIOUS
<1>1. q \in Request /\ Eased(q)
  BY SpendersWere
<1>2. Knows(n, q)' => Knows(At(x), Of(x).q)'
  BY DEF Knows, Main, Heired
<1>3. CASE Stays(x, f[x], a)
  <2>1. PICK y \in Parties : y = f[x]
    BY <1>3 DEF Stays
  <2>2. Of(y).q = q
    BY <1>3, <2>1 DEF Stays
  <2>3. At(y) \in Charges.spends \/ Knows(At(y), q) \/ At(y) \in Tales.under
    BY <2>2 DEF Bystanders
  <2>4. n \in Charges.spends \/ Knows(n, q)' \/ n \in Tales.under
    BY <1>1, <1>3, <2>1, <2>2, <2>3, StayersKnow
  <2> QED
    BY <1>2, <2>4
<1>4. CASE ~Stays(x, f[x], a)
  <2>1. q = t.q
    BY <1>4 DEF Sourced, Advances, Springs
  <2>2. n \in Charges.spends \/ Knows(n, q)' \/ n \in Tales.under
    BY <1>1, <1>4, <2>1, NewcomersKnow
  <2> QED
    BY <1>2, <2>2
<1> QED
  BY <1>3, <1>4

\* and the runs of late routes are of late requests.
LEMMA StepKeepsLates ==
  ASSUME Rules, Core, Charging, Paid, Telling, Lates, NEW t \in threads,
         NEW f, NEW M, NEW S, Sourced(t, f, M, S), \A q \in Request : Eased(q)
  PROVE  Lates'
<1> DEFINE a == <<"run", t>>
<1> SUFFICES ASSUME NEW x \in Parties', At(x)' \in Tales.late PROVE Late(Of(x).q)'
  BY DEF Lates
<1> PICK n : n = At(x)'
  OBVIOUS
<1> PICK q : q = Of(x)'.q
  OBVIOUS
<1>1. q \in Request /\ Eased(q)
  BY SpendersWere
<1>2. Late(q) => Late(Of(x).q)'
  BY <1>1 DEF Eased, Late
<1>3. CASE Stays(x, f[x], a)
  <2>1. PICK y \in Parties : y = f[x]
    BY <1>3 DEF Stays
  <2>2. Of(y).q = q
    BY <1>3, <2>1 DEF Stays
  <2>3. At(y) \in Tales.late
    BY <1>1, <1>3, <2>1, <2>2, StayersKnow
  <2> QED
    BY <1>2, <2>2, <2>3 DEF Lates
<1>4. CASE ~Stays(x, f[x], a)
  <2>1. q = t.q /\ n \in Nexts(Places, Place(t))
    BY <1>4 DEF Sourced, Advances, Springs, Nexts, Own, News
  <2>2. a \in Parties /\ At(a) = Place(t) /\ Of(a) = t /\ Place(t) \in Places.all
    BY RunParty, PartyTyped
  <2>3. Place(t) \in Tales.late
    BY <2>1, <2>2, LateObey
  <2> QED
    BY <1>2, <2>1, <2>2, <2>3 DEF Lates
<1> QED
  BY <1>3, <1>4

------------------------------------------------------------------------------
(* What a step says.                                                       *)

\* A silent run says nothing.
LEMMA SilentSaysNothing ==
  ASSUME Rules, NEW p \in Places.silent, p.conn # "none"
  PROVE  Speech(p) = {}
BY SilentObey DEF Speech

\* An answer is true if it is safe when more is open than there is.
LEMMA SafeWithin ==
  ASSUME NEW q, NEW b, NEW m, Main(q)' = m, NEW A, Heired(q)' => A, NEW L, L => Late(q)', Safe(b, m, A, L)
  PROVE  IsTrue(b, q)'
BY DEF IsTrue, Safe

\* If any answer of Master is true, the one it has given is.
LEMMA InnerIsAny == ASSUME NEW q, IsTrue("inner", q), NEW b PROVE IsTrue(b, q)
BY DEF IsTrue, Safe, Bad

\* The same after a step.
LEMMA InnerWillBeAny == ASSUME NEW q, IsTrue("inner", q)', NEW b PROVE IsTrue(b, q)'
BY DEF IsTrue, Safe, Bad

\* Who knows of the payment, says what is true.
LEMMA KnowersAreTrue ==
  ASSUME Telling, Charging, Paid, NEW q \in Request, NEW p, Knows(p, q), p \in Tales.late => Late(q)
  PROVE  /\ p \notin Charges.spends
         /\ \A c \in Speech(p) : c # "inner" => IsTrue(c, q)
<1>1. Main(q) \in State
  <2>1. "main" \in Charged /\ "main" \in Effect
    BY DEF Charged, Charging, ChargeRules
  <2> QED
    BY <2>1 DEF Paid, Tracked, Main, Ledger
<1>2. Main(q) \in Fates(Main(q), Heired(q))
  BY <1>1 DEF Fates
<1>3. \A m \in Fates(Main(q), Heired(q)) : <<p, m>> \in Tales.aside
  BY DEF Knows
<1>4. p \notin Charges.spends
  BY <1>2, <1>3, AsideObey
<1>5. ASSUME NEW c \in Speech(p), c # "inner" PROVE IsTrue(c, q)
  <2>1. \A m \in Fates(Main(q), Heired(q)) : Safe(c, m, FALSE, p \in Tales.late)
    BY <1>3, <1>5, AsideObey
  <2>2. CASE Heired(q) /\ Main(q) # "seen"
    <3>1. Safe(c, "sent", FALSE, p \in Tales.late) /\ Safe(c, "seen", FALSE, p \in Tales.late)
      BY <2>1, <2>2 DEF Fates, State
    <3> QED
      BY <1>5, <3>1 DEF IsTrue, Safe
  <2>3. CASE ~(Heired(q) /\ Main(q) # "seen")
    <3>1. Safe(c, Main(q), FALSE, p \in Tales.late)
      BY <1>2, <2>1
    <3> QED
      BY <1>5, <2>3, <3>1 DEF IsTrue, Safe
  <2> QED
    BY <2>2, <2>3
<1> QED
  BY <1>4, <1>5

\* Who speaks and is not asked in vain, says what is true.
LEMMA SpeakerIsTrue ==
  ASSUME Rules, Core, Charging, Paid, Telling, Told, NEW t \in threads, Spent(t),
         NEW f, NEW M, NEW S, Sourced(t, f, M, S), NEW q \in Request, q = t.q, Eased(q),
         NEW c \in Speech(Place(t)), Escaping(Place(t)) => M = {}, Head1(t).op \in {"ask", "relay"} => S = {},
         Place(t) \in Charges.spends \/ Knows(Place(t), q), NEW v, v = ClassOf(q, c)
  PROVE  IsTrue(v, q)'
<1> DEFINE a == <<"run", t>>
<1> PICK p : p = Place(t)
  OBVIOUS
<1>1. a \in Parties /\ At(a) = p /\ Of(a) = t /\ p \in Places.all /\ Head1(p) = Head1(t)
  BY RunParty, PartyTyped, PlaceFields
<1>2. p \in Tales.late => Late(q)
  BY <1>1 DEF Told, Lates
<1>3. c # "inner" => v = c
  BY DEF ClassOf
<1>4. CASE p \in Charges.spends
  <2>1. PICK w : w = Ledger(q)
    OBVIOUS
  <2>2. <<p, t.again, w>> \in Charges.ledger
    BY <1>1, <1>4, <2>1 DEF Paid, Kept
  <2>3. Safe(c, w["main"], Same(p) \cap Tales.pays # {} /\ ~Escaping(p), p \in Tales.late)
    BY <2>2, HeirObey
  <2>4. ~Settles(p)
    BY <1>1, SettlesInSilence
  <2>5. Main(q)' = w["main"]
    BY <2>1, <2>4 DEF Spent, Main
  <2>6. S = {} \/ \A x \in S : ~Springs(x, t)
    <3>1. Head1(p).op \in {"say", "answer", "relay"} \/ Escaping(p)
      BY DEF Speech
    <3>2. CASE Head1(p).op \in {"ask", "relay"}
      BY <1>1, <3>2
    <3>3. CASE Head1(p).op \notin {"ask", "relay"}
      <4>1. Escaping(p) => Head1(p).op \in {"risk", "mined", "write", "await", "poll", "throw", "send"}
        BY <3>3 DEF Escaping, Errors
      <4>2. News(p) = {}
        BY <3>1, <3>3, <4>1 DEF News, Beside, Begun
      <4> QED
        BY <4>2 DEF Springs
    <3> QED
      BY <3>2, <3>3
  <2>7. Heired(q)' => Same(p) \cap Tales.pays # {} /\ ~Escaping(p)
    BY <1>4, <2>6, HeirsOfSpender DEF Advances
  <2>8. p \in Tales.late => Late(q)'
    BY <1>2 DEF Eased
  <2>9. IsTrue(c, q)'
    BY <2>3, <2>5, <2>7, <2>8, SafeWithin
  <2> QED
    BY <1>3, <2>9, InnerWillBeAny
<1>5. CASE Knows(p, q)
  <2>1. p \notin Charges.spends /\ (c # "inner" => IsTrue(c, q))
    BY <1>2, <1>5, KnowersAreTrue
  <2>2. CASE c = "inner"
    <3>1. p \in Tales.echoes
      BY <1>1, <2>2, EchoObey
    <3>2. IsTrue("inner", q) \/ IsTrue(said[q]["inner"], q)
      <4>1. IsTrue("inner", Of(a).q) \/ IsTrue(said[Of(a).q]["inner"], Of(a).q)
        BY <1>1, <2>1, <3>1 DEF Told, MasterTold
      <4> QED
        BY <1>1, <4>1
    <3>3. v = said[q]["inner"]
      BY <2>2 DEF ClassOf
    <3>4. IsTrue(v, q)
      BY <3>2, <3>3, InnerIsAny
    <3> QED
      BY <3>4, TrueStays
  <2>3. CASE c # "inner"
    <3>1. IsTrue(c, q)
      BY <2>1, <2>3
    <3> QED
      BY <1>3, <2>3, <3>1, TrueStays
  <2> QED
    BY <2>2, <2>3
<1> QED
  BY <1>4, <1>5

\* What the client is told is true.
LEMMA StepKeepsClientTold ==
  ASSUME Rules, Core, Charging, Paid, Telling, Told, NEW t \in threads, Spent(t),
         NEW f, NEW M, NEW S, Sourced(t, f, M, S), Tells(t, M, S), \A q \in Request : Eased(q)
  PROVE  ClientTold'
<1> DEFINE a == <<"run", t>>
<1> SUFFICES ASSUME NEW q \in Request, NEW b, b = said'[q]["client"] PROVE IsTrue(b, q)'
  BY DEF ClientTold, IsTrue
<1>1. Eased(q) /\ said \in [Request -> [Conn -> Said]] /\ "client" \in Conn /\ "inner" \in Conn
  BY DEF Core, Typed, Conn
<1>2. CASE b = said[q]["client"]
  <2>1. IsTrue(b, q)
    BY <1>2 DEF Told, ClientTold
  <2> QED
    BY <1>1, <2>1, TrueStays
<1>3. CASE b # said[q]["client"]
  <2>1. /\ t.conn # "none"
        /\ \E c \in Speech(Place(t)) : said' = [said EXCEPT ![t.q][t.conn] = ClassOf(t.q, c)]
        /\ Escaping(Place(t)) => M = {}
        /\ Head1(t).op \in {"ask", "relay"} => S = {}
    BY <1>1, <1>3 DEF Tells
  <2>2. PICK c \in Speech(Place(t)) : said' = [said EXCEPT ![t.q][t.conn] = ClassOf(t.q, c)]
    BY <2>1
  <2>3. q = t.q /\ t.conn = "client" /\ b = ClassOf(q, c)
    <3>1. PICK d : d = ClassOf(t.q, c)
      OBVIOUS
    <3>2. said' = [said EXCEPT ![t.q][t.conn] = d]
      BY <2>2, <3>1
    <3>3. q = t.q /\ t.conn = "client"
      BY <1>1, <1>3, <3>2
    <3> QED
      BY <1>1, <3>1, <3>2, <3>3
  <2>4. a \in Parties /\ At(a) = Place(t) /\ Of(a) = t /\ Place(t).conn = "client"
    BY <2>3, RunParty, PlaceFields
  <2>5. Place(t) \notin Tales.under
    BY <2>4, UnderObey
  <2>6. Place(t) \in Charges.spends \/ Knows(Place(t), q)
    <3>1. At(a) \in Charges.spends \/ Knows(At(a), Of(a).q) \/ At(a) \in Tales.under
      BY <2>4 DEF Told, Bystanders
    <3> QED
      BY <2>3, <2>4, <2>5, <3>1
  <2> QED
    BY <1>1, <2>1, <2>3, <2>6, SpeakerIsTrue
<1> QED
  BY <1>2, <1>3

------------------------------------------------------------------------------
(* What Master is heard to say.                                            *)

\* Unless it asks, what comes of a silent run is silent.
LEMMA HushedStay ==
  ASSUME Rules, Core, NEW t \in threads, Head1(t).op # "ask", Hushed(Place(t)),
         NEW x, Advances(x, t) \/ Springs(x, t), NEW n, n = At(x)'
  PROVE  Hushed(n)
<1> DEFINE a == <<"run", t>>
<1> PICK p : p = Place(t)
  OBVIOUS
<1>1. a \in Parties /\ At(a) = p /\ Of(a) = t /\ p \in Places.all /\ Head1(p) = Head1(t) /\ p.conn = t.conn
  BY RunParty, PartyTyped, PlaceFields
<1>2. n.conn = Of(x)'.conn
  BY PartyFields
<1>3. ~Ended(n) /\ \/ n \in Same(p) /\ n.conn = p.conn
                   \/ n \in Beside(p) /\ n.conn = p.conn
                   \/ n \in Begun(p)
  BY <1>1, <1>2 DEF Advances, Springs, News
<1>4. n \in Begun(p) => n.conn = p.conn \/ n.conn = "none"
  BY <1>1, BegunDoNotAsk
<1>5. CASE p.conn = "none"
  BY <1>3, <1>4, <1>5 DEF Hushed
<1>6. CASE p.conn # "none" /\ p \in Places.silent
  <2>1. CASE n \in Same(p) \cup Sharing(p)
    BY <1>1, <1>3, <1>6, <2>1, SharingObey DEF Hushed
  <2>2. CASE n \notin Same(p) \cup Sharing(p)
    BY <1>3, <1>4, <2>2 DEF Hushed, Sharing
  <2> QED
    BY <2>1, <2>2
<1> QED
  BY <1>5, <1>6 DEF Hushed

\* Unless its Cluster asks again, nobody gets Master's answer to q that had none to give.
LEMMA StepKeepsUnheard ==
  ASSUME Rules, Core, Charging, Paid, Telling, NEW t \in threads, Spent(t),
         NEW f, NEW M, NEW S, Sourced(t, f, M, S), NEW q, Eased(q),
         q # t.q \/ Head1(t).op # "ask", Unheard(q)
  PROVE  Unheard(q)'
<1> DEFINE a == <<"run", t>>
<1> SUFFICES ASSUME NEW x \in Parties', Of(x)'.q = q, NEW n, n = At(x)'
             PROVE  n \in Charges.spends \/ Knows(n, q)' \/ Hushed(n)
  BY DEF Unheard, Knows
<1>1. CASE Stays(x, f[x], a)
  <2>1. PICK y \in Parties : y = f[x]
    BY <1>1 DEF Stays
  <2>2. Of(y).q = q
    BY <1>1, <2>1 DEF Stays
  <2>3. At(y) \in Charges.spends \/ Knows(At(y), q) \/ Hushed(At(y))
    BY <2>2 DEF Unheard
  <2> QED
    BY <1>1, <2>1, <2>2, <2>3, StayersKnow
<1>2. CASE ~Stays(x, f[x], a)
  <2> PICK p : p = Place(t)
    OBVIOUS
  <2>1. a \in Parties /\ At(a) = p /\ Of(a) = t /\ Head1(p) = Head1(t)
    BY RunParty, PlaceFields
  <2>2. q = t.q /\ n \in Nexts(Places, p) /\ (Advances(x, t) \/ Springs(x, t))
    BY <1>2 DEF Sourced, Advances, Springs, Nexts, Own, News
  <2>3. ~Consults(Charges, Tales, p)
    BY <2>1, <2>2 DEF Consults
  <2>4. p \in Charges.spends \/ Knows(p, q) \/ Hushed(p)
    <3>1. At(a) \in Charges.spends \/ Knows(At(a), q) \/ Hushed(At(a))
      BY <2>1, <2>2 DEF Unheard
    <3> QED
      BY <2>1, <3>1
  <2>5. CASE p \in Charges.spends
    BY <1>2, <2>2, <2>3, <2>5, HeirsLeaveKnowledge
  <2>6. CASE Knows(p, q)
    BY <2>2, <2>3, <2>6, KnowersLeaveKnowledge
  <2>7. CASE Hushed(p)
    BY <2>2, <2>7, HushedStay
  <2> QED
    BY <2>4, <2>5, <2>6, <2>7
<1> QED
  BY <1>1, <1>2

\* What Master has said and the Cluster may hand on.
Handed(q) == IsTrue("inner", q) \/ (IsTrue(said[q]["inner"], q) /\ Unheard(q))

\* It stays true, unless its Cluster asks again.
LEMMA HandedStays ==
  ASSUME Rules, Core, Charging, Paid, Telling, Told, NEW t \in threads, Spent(t),
         NEW f, NEW M, NEW S, Sourced(t, f, M, S), Tells(t, M, S), NEW q \in Request, Eased(q),
         q # t.q \/ Head1(t).op # "ask", Handed(q)
  PROVE  Handed(q)'
<1> DEFINE a == <<"run", t>>
<1>1. CASE IsTrue("inner", q)
  <2>1. IsTrue("inner", q)'
    BY <1>1, TrueStays
  <2> QED
    BY <2>1 DEF Handed
<1>2. CASE IsTrue(said[q]["inner"], q) /\ Unheard(q)
  <2>1. Unheard(q)'
    BY <1>2, StepKeepsUnheard
  <2>2. PICK b : b = said'[q]["inner"]
    OBVIOUS
  <2>3. IsTrue(b, q)' => Handed(q)'
    BY <2>1, <2>2 DEF Handed, IsTrue
  <2>4. said \in [Request -> [Conn -> Said]] /\ "inner" \in Conn
    BY DEF Core, Typed, Conn
  <2>5. CASE b = said[q]["inner"]
    <3>1. IsTrue(b, q)
      BY <1>2, <2>5
    <3> QED
      BY <2>3, <3>1, TrueStays
  <2>6. CASE b # said[q]["inner"]
    <3>1. /\ t.conn # "none"
          /\ \E c \in Speech(Place(t)) : said' = [said EXCEPT ![t.q][t.conn] = ClassOf(t.q, c)]
          /\ Escaping(Place(t)) => M = {}
          /\ Head1(t).op \in {"ask", "relay"} => S = {}
      BY <2>2, <2>4, <2>6 DEF Tells
    <3>2. PICK c \in Speech(Place(t)) : said' = [said EXCEPT ![t.q][t.conn] = ClassOf(t.q, c)]
      BY <3>1
    <3>3. q = t.q /\ b = ClassOf(q, c)
      <4>1. PICK d : d = ClassOf(t.q, c)
        OBVIOUS
      <4>2. said' = [said EXCEPT ![t.q][t.conn] = d]
        BY <3>2, <4>1
      <4>3. q = t.q /\ t.conn = "inner"
        BY <2>2, <2>4, <2>6, <4>2
      <4> QED
        BY <2>2, <2>4, <4>1, <4>2, <4>3
    <3>4. a \in Parties /\ At(a) = Place(t) /\ Of(a) = t /\ Place(t).conn = t.conn
      BY RunParty, PlaceFields
    <3>5. ~Hushed(Place(t))
      BY <3>1, <3>4, SilentSaysNothing DEF Hushed
    <3>6. Place(t) \in Charges.spends \/ Knows(Place(t), q)
      <4>1. At(a) \in Charges.spends \/ Knows(At(a), q) \/ Hushed(At(a))
        BY <1>2, <3>3, <3>4 DEF Unheard
      <4> QED
        BY <3>4, <3>5, <4>1
    <3> QED
      BY <2>3, <3>1, <3>3, <3>6, SpeakerIsTrue
  <2> QED
    BY <2>5, <2>6
<1> QED
  BY <1>1, <1>2 DEF Handed

\* When the Cluster asks anew to hand the answer on, nobody has one to give
\* that is not true.
LEMMA AskersAreUnheard ==
  ASSUME Rules, Core, Charging, Paid, Telling, Told, NEW t \in threads, Spent(t),
         NEW f, NEW M, NEW S, Sourced(t, f, M, S), NEW q \in Request, q = t.q, Eased(q),
         Head1(t).op = "ask", ~Consults(Charges, Tales, Place(t))
  PROVE  Unheard(q)'
<1> DEFINE a == <<"run", t>>
<1> SUFFICES ASSUME NEW x \in Parties', Of(x)'.q = q, NEW n, n = At(x)'
             PROVE  n \in Charges.spends \/ Knows(n, q)' \/ Hushed(n)
  BY DEF Unheard, Knows
<1>1. Unasked(q) /\ Place(t) \in Places.asks
  BY AskingAlone
<1>2. CASE Stays(x, f[x], a)
  <2>1. PICK y \in Parties : y = f[x]
    BY <1>2 DEF Stays
  <2>2. Of(y).q = q
    BY <1>2, <2>1 DEF Stays
  <2>3. At(y) \in Charges.spends \/ Knows(At(y), q) \/ At(y) \in Tales.under
    BY <2>2 DEF Told, Bystanders
  <2>4. At(y) \in Tales.under => Hushed(At(y))
    <3>1. At(y).conn = Of(y).conn /\ Of(y).conn \in Conn
      BY PartyTyped, PartyFields
    <3>2. At(y) \in Tales.under => At(y).conn # "client"
      BY UnderObey
    <3>3. At(y).conn = "inner" => At(y) \in Places.silent
      BY <1>1, <2>2, <3>1 DEF Unasked
    <3> QED
      BY <3>1, <3>2, <3>3 DEF Conn, Hushed
  <2> QED
    BY <1>2, <2>1, <2>2, <2>3, <2>4, StayersKnow
<1>3. CASE ~Stays(x, f[x], a)
  <2>1. Place(t) \notin Tales.under
    BY <1>1, UnderObey
  <2> QED
    BY <1>3, <2>1, NewcomersKnow DEF Told
<1> QED
  BY <1>2, <1>3

\* What the Cluster's run will hand on is true.
LEMMA StepKeepsMasterTold ==
  ASSUME Rules, Core, Charging, Paid, Telling, Told, NEW t \in threads, Spent(t),
         NEW f, NEW M, NEW S, Sourced(t, f, M, S), Tells(t, M, S), \A q \in Request : Eased(q)
  PROVE  MasterTold'
<1> DEFINE a == <<"run", t>>
<1> PICK p : p = Place(t)
  OBVIOUS
<1> SUFFICES ASSUME NEW x \in Parties', NEW n, n = At(x)', n \in Tales.echoes, n \notin Charges.spends,
                    NEW q, q = Of(x)'.q
             PROVE  Handed(q)'
  BY DEF MasterTold, Handed, IsTrue, Unheard, Main, Heired, Late, Knows
<1>1. q \in Request /\ Eased(q)
  BY SpendersWere
<1>2. a \in Parties /\ At(a) = p /\ Of(a) = t /\ p \in Places.all /\ Head1(p) = Head1(t)
  BY RunParty, PartyTyped, PlaceFields
<1>3. \A y \in Parties : Of(y).q = q /\ At(y) \in Tales.echoes /\ At(y) \notin Charges.spends => Handed(q)
  BY DEF Told, MasterTold, Handed
<1>4. Head1(t).op = "ask" => p \in Places.asks
  BY AskingAlone
<1>5. CASE Stays(x, f[x], a)
  <2>1. PICK y \in Parties : y = f[x] /\ y # a
    BY <1>5 DEF Stays
  <2>2. Of(y).q = q
    BY <1>5, <2>1 DEF Stays
  <2>3. At(y) \in Tales.echoes /\ At(y) \notin Charges.spends
    BY <1>1, <1>5, <2>1, <2>2, StayersKnow
  <2>4. At(y) \in Places.asks
    BY <2>3, PartyTyped, EchoObey
  <2>5. q # t.q \/ Head1(t).op # "ask"
    BY <1>2, <1>4, <2>1, <2>2, <2>4 DEF Core, Asked
  <2>6. Handed(q)
    BY <1>3, <2>2, <2>3
  <2> QED
    BY <1>1, <2>5, <2>6, HandedStays
<1>6. CASE ~Stays(x, f[x], a)
  <2>1. q = t.q /\ ((x \in M /\ Advances(x, t)) \/ Springs(x, t))
    BY <1>6 DEF Sourced, Advances, Springs
  <2>2. ~Springs(x, t)
    <3>1. n \notin Beside(p) /\ n \in Places.asks
      <4>1. n \in Places.all
        BY <1>2 DEF Telling, AnswerRules, EchoRules, Rules, Obeyed, AskRules
      <4> QED
        BY <1>2, <4>1, EchoObey
    <3>2. n \notin Begun(p)
      BY <3>1, BegunDoNotAsk
    <3> QED
      BY <3>1, <3>2 DEF Springs, News
  <2>3. x \in M /\ Advances(x, t)
    BY <2>1, <2>2
  <2>4. PICK w : w = Ledger(q)'
    OBVIOUS
  <2>5. PICK v : v = Ledger(q)
    OBVIOUS
  <2>6. n \in Same(p) /\ ~Ended(n) /\ <<n, w>> \in Outcomes(p, v)
    BY <2>1, <2>3, <2>4, <2>5 DEF Advances
  <2>7. CASE Head1(t).op # "ask"
    <3>1. p \in Tales.echoes
      BY <1>2, <2>6, <2>7, EchoObey
    <3>2. CASE p \notin Charges.spends
      BY <1>1, <1>2, <1>3, <2>1, <2>7, <3>1, <3>2, HandedStays
    <3>3. CASE p \in Charges.spends
      <4>1. <<p, t.again, v>> \in Charges.ledger
        BY <1>2, <2>1, <2>5, <3>3 DEF Paid, Kept
      <4> DEFINE o == <<n, w>>
      <4>2. o \in Outcomes(p, v) /\ o[1] = n /\ o[2] = w
        BY <2>6
      <4> HIDE DEF o
      <4>3. Safe("inner", w["main"], News(p) \cap Tales.pays # {}, n \in Tales.late)
        BY <1>2, <2>6, <2>7, <4>1, <4>2, HeirObey
      <4>4. Heired(q)' => News(p) \cap Tales.pays # {}
        <5>1. \A y \in M : y = x
          BY <2>3 DEF Sourced
        <5>2. \A y \in M : At(y)' \notin Tales.pays
          BY <5>1, PayObey
        <5> QED
          BY <2>1, <3>3, <5>2, HeirsOfSpender DEF Springs
      <4>5. n \in Tales.late => Late(q)'
        <5>1. n \in Nexts(Places, p)
          BY <2>6 DEF Nexts, Own
        <5>2. n \in Tales.late => p \in Tales.late
          BY <1>2, <5>1, LateObey
        <5>3. p \in Tales.late => Late(q)
          BY <1>2, <2>1 DEF Told, Lates
        <5> QED
          BY <1>1, <5>2, <5>3 DEF Eased
      <4>6. Main(q)' = w["main"]
        BY <2>4 DEF Main
      <4>7. IsTrue("inner", q)'
        BY <4>3, <4>4, <4>5, <4>6, SafeWithin
      <4> QED
        BY <4>7 DEF Handed
    <3> QED
      BY <3>2, <3>3
  <2>8. CASE Head1(t).op = "ask"
    <3>1. n \notin Raised(p) /\ n \in Moved(p)
      BY <1>2, <2>6, <2>8, EchoObey DEF Same
    <3>2. ~Consults(Charges, Tales, p)
      BY <3>1 DEF Consults
    <3>3. Unheard(q)'
      BY <1>1, <2>1, <2>8, <3>2, AskersAreUnheard
    <3>4. said' = [said EXCEPT ![t.q]["inner"] = "none"]
      <4>1. \A c \in Speech(p) : Escaping(p)
        BY <1>2, <2>8 DEF Speech
      <4> QED
        BY <2>3, <2>8, <3>1, <4>1 DEF Tells
    <3>5. said'[q]["inner"] = "none"
      <4>1. said \in [Request -> [Conn -> Said]] /\ "inner" \in Conn
        BY DEF Core, Typed, Conn
      <4> QED
        BY <1>1, <2>1, <3>4, <4>1
    <3>6. IsTrue("none", q)'
      BY DEF IsTrue, Safe, Bad
    <3>7. IsTrue(said[q]["inner"], q)'
      BY <3>5, <3>6 DEF IsTrue
    <3> QED
      BY <3>3, <3>7 DEF Handed
  <2> QED
    BY <2>7, <2>8
<1> QED
  BY <1>5, <1>6

\* Told, after a step.
LEMMA StepKeepsTold ==
  ASSUME Rules, Core, Charging, Paid, Telling, Told, NEW t \in threads, StepOf(t)
  PROVE  Told'
<1>1. Tracked
  BY DEF Paid
<1>2. Spent(t) /\ \E f, M, S : Sourced(t, f, M, S) /\ Tells(t, M, S)
  BY <1>1, StepSources
<1>3. PICK f, M, S : Sourced(t, f, M, S) /\ Tells(t, M, S)
  BY <1>2
<1>4. \A q \in Request : Eased(q)
  BY <1>2, <1>3, StepEases DEF Told
<1>5. Bystanders' /\ Lates'
  BY <1>2, <1>3, <1>4, StepKeepsBystanders, StepKeepsLates DEF Told
<1>6. ClientTold' /\ MasterTold'
  BY <1>2, <1>3, <1>4, StepKeepsClientTold, StepKeepsMasterTold
<1> QED
  BY <1>5, <1>6 DEF Told

------------------------------------------------------------------------------
(* Calls, restarts and the start.                                          *)

\* A call of a worker and a restart tell nobody anything but that its
\* connection is lost.
LEMMA RenamedKeepsTold ==
  ASSUME Charging, Paid, Told, NEW f, Renamed(f), fx' = fx, route' = route,
         \A q \in Request : \A c \in Conn : said'[q][c] \in {said[q][c], "lost"},
         \A x \in Parties : Of(x).q \in Request
  PROVE  Told'
<1>1. /\ \A x \in Parties' : f[x] \in Parties /\ Of(x)'.q = Of(f[x]).q /\ At(x)' = At(f[x])
      /\ "inner" \in Conn /\ "client" \in Conn
  BY DEF Renamed, Conn
<1>2. \A q : Main(q)' = Main(q) /\ (Late(q)' <=> Late(q)) /\ (Heired(q)' => Heired(q))
  BY <1>1 DEF Main, Ledger, Late, Heired
<1>3. \A q \in Request : Main(q) \in State
  <2>1. "main" \in Charged /\ "main" \in Effect
    BY DEF Charged, Charging, ChargeRules
  <2> QED
    BY <2>1 DEF Paid, Tracked, Main, Ledger
<1>4. ASSUME NEW q, NEW b, IsTrue(b, q) \/ b = "lost" PROVE IsTrue(b, q)'
  BY <1>2, <1>4 DEF IsTrue, Safe, Bad
<1>5. ASSUME NEW q \in Request, NEW p, Knows(p, q) PROVE Knows(p, q)'
  <2>1. Eased(q)
    BY <1>2, <1>3 DEF Eased
  <2>2. PICK m : m = Main(q)
    OBVIOUS
  <2>3. Fates(Main(q), Heired(q))' \subseteq Fates(m, Heired(q))
    BY <1>2, <2>1, <2>2, FatesWithin
  <2>4. {p} \X Fates(m, Heired(q)) \subseteq Tales.aside
    BY <1>5, <2>2 DEF Knows
  <2>5. PICK F : F = Fates(m, Heired(q))
    OBVIOUS
  <2>6. {p} \X (Fates(Main(q), Heired(q))') \subseteq Tales.aside
    BY <2>3, <2>4, <2>5
  <2> QED
    BY <2>6 DEF Knows
<1>6. ASSUME NEW q \in Request, NEW c \in Conn, IsTrue(said[q][c], q) PROVE IsTrue(said[q][c], q)'
  <2>1. PICK b : b = said'[q][c]
    OBVIOUS
  <2>2. IsTrue(b, q) \/ b = "lost"
    BY <1>6, <2>1
  <2>3. IsTrue(b, q)'
    BY <1>4, <2>2
  <2> QED
    BY <2>1, <2>3 DEF IsTrue
<1>7. ASSUME NEW q \in Request, Unheard(q) PROVE Unheard(q)'
  <2> SUFFICES ASSUME NEW x \in Parties', Of(x)'.q = q
               PROVE  At(x)' \in Charges.spends \/ Knows(At(x), q)' \/ Hushed(At(x)')
    BY DEF Unheard, Hushed
  <2>1. PICK y \in Parties : Of(x)'.q = Of(y).q /\ At(x)' = At(y)
    BY <1>1
  <2>2. PICK n : n = At(y)
    OBVIOUS
  <2>3. n \in Charges.spends \/ Knows(n, q) \/ Hushed(n)
    BY <1>7, <2>1, <2>2 DEF Unheard
  <2>4. Knows(n, q)' => Knows(At(x), q)'
    BY <2>1, <2>2 DEF Knows
  <2> QED
    BY <1>5, <2>1, <2>2, <2>3, <2>4
<1>8. ASSUME NEW x \in Parties'
      PROVE  /\ At(x)' \in Charges.spends \/ Knows(At(x), Of(x).q)' \/ At(x)' \in Tales.under
             /\ At(x)' \in Tales.echoes /\ At(x)' \notin Charges.spends => Handed(Of(x).q)'
             /\ At(x)' \in Tales.late => Late(Of(x).q)'
  <2>1. PICK y \in Parties : Of(x)'.q = Of(y).q /\ At(x)' = At(y)
    BY <1>1
  <2>2. PICK n : n = At(y)
    OBVIOUS
  <2>3. PICK q \in Request : q = Of(y).q
    OBVIOUS
  <2>4. /\ n \in Charges.spends \/ Knows(n, q) \/ n \in Tales.under
        /\ n \in Tales.echoes /\ n \notin Charges.spends => Handed(q)
        /\ n \in Tales.late => Late(q)
    BY <2>2, <2>3 DEF Told, Bystanders, MasterTold, Lates, Handed
  <2>5. (Knows(n, q)' => Knows(At(x), Of(x).q)') /\ (Late(q)' => Late(Of(x).q)')
    BY <2>1, <2>2, <2>3 DEF Knows, Main, Heired, Late
  <2>6. Handed(q) => Handed(q)'
    <3>1. IsTrue("inner", q) => IsTrue("inner", q)'
      BY <1>4
    <3>2. IsTrue(said[q]["inner"], q) => IsTrue(said[q]["inner"], q)'
      BY <1>1, <1>6
    <3> QED
      BY <1>7, <3>1, <3>2 DEF Handed
  <2>7. Handed(q)' => Handed(Of(x).q)'
    BY <2>1, <2>3 DEF Handed, IsTrue, Main, Heired, Late, Unheard, Knows
  <2> QED
    BY <1>2, <1>5, <2>1, <2>2, <2>3, <2>4, <2>5, <2>6, <2>7
<1>9. ClientTold'
  BY <1>1, <1>6 DEF Told, ClientTold
<1>10. Bystanders' /\ MasterTold' /\ Lates'
  BY <1>8 DEF Bystanders, MasterTold, Lates, Handed
<1> QED
  BY <1>9, <1>10 DEF Told

\* At the start nobody has been told anything, and the request at its door
\* may settle its payment or its fee, or knows that there is no payment.
LEMMA InitIsTold == ASSUME Rules, Charging, Telling, Init PROVE Told
<1>1. Core /\ Paid
  BY InitHasCore, InitIsPaid
<1>2. /\ threads = {Thread(q, route[q][1], route[q][2], "client") : q \in Asking}
      /\ queue = [w \in Queue |-> <<>>]
      /\ fx = [q \in Request |-> [e \in Effect |-> "none"]]
      /\ said = [q \in Request |-> [c \in Conn |-> "none"]] /\ Asking \subseteq Request
  BY MixAssumption DEF Init, Asking
<1>3. \A q \in Request : Main(q) = "none"
  BY <1>2 DEF Charging, ChargeRules, Charged, Main, Ledger
<1>4. ASSUME NEW x \in Parties
      PROVE  \E q \in Asking : x = <<"run", Thread(q, route[q][1], route[q][2], "client")>>
                               /\ Of(x).q = q
                               /\ At(x) = Entry(route[q][1], route[q][2], "client", NoJob, TRUE)
  <2>1. Jobs = {}
    BY <1>2 DEF Jobs
  <2>2. PICK u \in threads : x = <<"run", u>>
    BY <2>1, PartyKinds
  <2>3. PICK q \in Asking : u = Thread(q, route[q][1], route[q][2], "client")
    BY <1>2
  <2>4. \A o : Seen(u, o) = Entry(route[q][1], route[q][2], "client", NoJob, o)
    BY <2>3, NewSeen
  <2>5. u.q = q /\ u.conn = "client"
    BY <2>3, NewSeen
  <2>6. Open(u)
    BY <1>2, <2>5 DEF Open, Conn
  <2>7. Place(u) = Seen(u, TRUE)
    BY <2>6 DEF Place
  <2> QED
    BY <2>2, <2>3, <2>4, <2>5, <2>7, RunParty
<1>5. ASSUME NEW x \in Parties
      PROVE  /\ At(x) \in Charges.spends \/ Knows(At(x), Of(x).q)
             /\ At(x) \in Tales.late => Late(Of(x).q)
  <2>1. PICK q \in Asking : /\ x = <<"run", Thread(q, route[q][1], route[q][2], "client")>> /\ Of(x).q = q
                            /\ At(x) = Entry(route[q][1], route[q][2], "client", NoJob, TRUE)
    BY <1>4
  <2>2. PICK p : p = At(x)
    OBVIOUS
  <2>3. route[q] \in Routes
    <3>1. route[q] \in {route[r] : r \in DOMAIN route} /\ route \in Mixes
      BY DEF Asking, Init
    <3> QED
      BY <3>1 DEF Routes
  <2>4. p \in Doors({route[q]})
    BY <2>1, <2>2 DEF Doors
  <2>5. /\ p \notin Charges.spends => <<p, "none">> \in Tales.aside
        /\ p \in Tales.late => route[q][2] \in LateErrors
    BY <2>3, <2>4 DEF Telling, AnswerRules
  <2>6. ASSUME p \notin Charges.spends PROVE Knows(p, q)
    <3>1. ~Heired(q)
      <4> SUFFICES ASSUME NEW y \in Parties, Of(y).q = q, At(y) \in Charges.spends PROVE FALSE
        BY PayObey DEF Heired
      <4>1. y = x
        BY <1>4, <2>1
      <4> QED
        BY <2>2, <2>6, <4>1
    <3>2. Fates(Main(q), Heired(q)) = {"none"}
      BY <1>2, <1>3, <3>1 DEF Fates
    <3> QED
      BY <2>5, <2>6, <3>2 DEF Knows
  <2>7. p \in Tales.late => Late(q)
    BY <2>5 DEF Late
  <2> QED
    BY <2>1, <2>2, <2>6, <2>7
<1>6. \A q : IsTrue("none", q)
  BY DEF IsTrue, Safe, Bad
<1>7. ClientTold
  BY <1>2, <1>6 DEF ClientTold, Conn
<1>8. Bystanders /\ Lates
  BY <1>5 DEF Bystanders, Lates
<1>9. MasterTold
  <2> SUFFICES ASSUME NEW x \in Parties, At(x) \in Tales.echoes, At(x) \notin Charges.spends
               PROVE  IsTrue(said[Of(x).q]["inner"], Of(x).q) /\ Unheard(Of(x).q)
    BY DEF MasterTold
  <2>1. PICK q \in Request : q = Of(x).q
    BY <1>2, <1>4
  <2>2. said[q]["inner"] = "none"
    BY <1>2 DEF Conn
  <2>3. Unheard(q)
    <3> SUFFICES ASSUME NEW y \in Parties, Of(y).q = q PROVE At(y) \in Charges.spends \/ Knows(At(y), q)
      BY DEF Unheard
    <3> QED
      BY <1>5
  <2> QED
    BY <1>6, <2>1, <2>2, <2>3
<1> QED
  BY <1>7, <1>8, <1>9 DEF Told

\* What is told stays true, with Core and Paid.
LEMMA ToldIsInductive ==
  ASSUME Rules, Core, Charging, Paid, Telling, Told, [Next]_vars
  PROVE  Told'
<1>0. /\ \A x \in Parties : Of(x).q \in Request
      /\ said \in [Request -> [Conn -> Said]]
  BY PartyTyped DEF Core, Typed
<1>1. ASSUME NEW t \in threads, StepOf(t) PROVE Told'
  BY <1>1, StepKeepsTold
<1>2. ASSUME NEW w \in Queue, CallWorker(w) PROVE Told'
  <2>1. PICK f : Renamed(f)
    BY <1>2, CallRenames
  <2>2. fx' = fx /\ said' = said /\ route' = route
    BY <1>2 DEF CallWorker, fxVars, webVars
  <2> QED
    BY <1>0, <2>1, <2>2, RenamedKeepsTold
<1>3. CASE Restart
  <2>1. PICK f : Renamed(f)
    BY <1>3, RestartRenames
  <2>2. fx' = fx /\ route' = route
    BY <1>3 DEF Restart, fxVars
  <2>3. \A q \in Request : \A c \in Conn : said'[q][c] \in {said[q][c], "lost"}
    <3> SUFFICES ASSUME NEW q \in Request, NEW c \in Conn PROVE said'[q][c] \in {said[q][c], "lost"}
      OBVIOUS
    <3> DEFINE alive == {u \in threads : ~OnMaster(u)}
               Lost(r, d) == /\ said[r][d] = "none"
                             /\ ~\E u \in alive : u.q = r /\ u.conn = d
                             /\ d = "inner" => \E u \in alive : u.q = r /\ Head1(u).op = "await"
                             /\ d # "none"
    <3>1. said' = [r \in Request |-> [d \in Conn |-> IF Lost(r, d) THEN "lost" ELSE said[r][d]]]
      BY <1>3 DEF Restart
    <3> HIDE DEF Lost
    <3>2. said'[q] = [d \in Conn |-> IF Lost(q, d) THEN "lost" ELSE said[q][d]]
      BY <3>1
    <3> QED
      BY <3>2
  <2> QED
    BY <1>0, <2>1, <2>2, <2>3, RenamedKeepsTold
<1>4. CASE UNCHANGED vars
  <2>1. threads' = threads /\ queue' = queue /\ said' = said /\ fx' = fx /\ route' = route
    BY <1>4 DEF vars
  <2>2. /\ \A x : Of(x)' = Of(x)
        /\ \A x : At(x)' = At(x)
        /\ Parties' = Parties
    BY <2>1 DEF Of, At, Parties, Jobs, Place, JobPlace, Open
  <2> DEFINE f == [x \in Parties' |-> x]
  <2>3. Renamed(f)
    BY <2>1, <2>2 DEF Renamed
  <2> HIDE DEF f
  <2> QED
    BY <1>0, <2>1, <2>3, RenamedKeepsTold
<1> QED
  BY <1>1, <1>2, <1>3, <1>4 DEF Next, FireTimer

\* If the scripts obey: once no run of a request can settle its payment, every
\* run that is left finds of it what it was, and what the client has been told
\* is true of it and stays so (the answers of the routes and workers).
THEOREM AnswersInvariance == ASSUME Rules, Charging, Telling PROVE Spec => [](Core /\ Paid /\ Told)
<1>1. Init => Core /\ Paid /\ Told
  BY InitHasCore, InitIsPaid, InitIsTold
<1>2. (Core /\ Paid /\ Told) /\ [Next]_vars => (Core /\ Paid /\ Told)'
  BY CoreIsInductive, PaidIsInductive, ToldIsInductive
<1> QED
  BY <1>1, <1>2, PTL DEF Spec

\* What fx has of the payment of a request.
LEMMA MainOf == ASSUME NEW q PROVE Main(q) = fx[q]["main"]
BY DEF Main, Ledger, Charged

\* If the scripts obey: a client that is told its payment is done is not told
\* so of one that failed or is still on its way (the success answers of the
\* routes and workers).
THEOREM DoneMeansDone == ASSUME Rules, Charging, Telling PROVE Spec => []DoneIsDone
<1>1. Core /\ Paid /\ Told => DoneIsDone
  <2> SUFFICES ASSUME Paid, Told, NEW q \in Asking, said[q]["client"] = "done"
               PROVE  fx[q]["main"] \notin {"sent", "failed"}
    BY DEF DoneIsDone
  <2>1. IsTrue("done", q)
    BY DEF Paid, Told, ClientTold
  <2> QED
    BY <2>1, MainOf DEF IsTrue, Safe
<1> QED
  BY <1>1, AnswersInvariance, PTL

\* If the scripts obey: a client that is told of a failure may ask again, as
\* what it asked for was not seen to succeed, except on the routes in
\* LateErrors (the catch blocks of the routes and workers).
THEOREM ErrorsAreTrue == ASSUME Rules, Charging, Telling PROVE Spec => []ErrorIsTrue
<1>1. Core /\ Paid /\ Told => ErrorIsTrue
  <2> SUFFICES ASSUME Paid, Told, NEW q \in Asking, said[q]["client"] \in {"refused", "failed"}
               PROVE  fx[q]["main"] # "seen" \/ route[q][2] \in LateErrors
    BY DEF ErrorIsTrue
  <2>1. IsTrue(said[q]["client"], q)
    BY DEF Paid, Told, ClientTold
  <2> QED
    BY <2>1, MainOf DEF IsTrue, Safe, Bad, Late
<1> QED
  BY <1>1, AnswersInvariance, PTL

================================================================================
