------------------------------ MODULE ServiceRuns ------------------------------
(***************************************************************************)
(* How the handlers and workers run.  A request makes a thread of the      *)
(* Cluster (or of Master, for a request of a local process); the thread    *)
(* carries the rest of its script.  Relay and Ask make a thread of Master,  *)
(* Push a job; a call of a worker takes the head job and makes a thread of  *)
(* it.  Threads interleave at every step.                                  *)
(*                                                                         *)
(* Faults are refused or reverted transactions, failed reads and writes,   *)
(* lost receipts, refused connections, timed-out waits for a key and       *)
(* restarts of Master; a behaviour has at most MaxFaults of them, and at    *)
(* most SaleFaults when it has a sale of points, which tries again.        *)
(***************************************************************************)
EXTENDS ServiceScript, FiniteSets, SequencesExt

CONSTANTS
  Request,
  Mixes,       \* the mixes of requests: a route <<kind, name>> for each request
  Script,      \* Script[kind][name], kind being "cluster", "master" or "worker"
  Queue,       \* the workers
  Single,      \* the workers of which only one run is in progress
  Effect,      \* the effects a run of TLC keeps; others are points of failure
  Unique,      \* effects the chain or the database accepts only once
  KeyOf,       \* KeyOf[ch]: the settle-admin keys of chain ch
  MaxFaults, SaleFaults,
  MayRestart,  \* whether Master may restart
  Purchases,   \* the routes that sell points
  LateErrors,  \* routes that may answer an error for what has succeeded
  FeeFirst,    \* routes that may take a fee for what does not succeed
  Borrowers    \* runs that may send from a wallet whose key another run uses

Chain == DOMAIN KeyOf
Slot == UNION {{ch} \X KeyOf[ch] : ch \in Chain}

ASSUME MixAssumption == \A m \in Mixes : DOMAIN m \subseteq Request

VARIABLES
  route,     \* route[q]: the route of request q; one of Mixes
  threads,   \* the runs in progress
  queue,     \* queue[w]: the jobs of worker w
  calls,     \* calls[w]: timers and pushes that will call worker w; one that
             \* would find no job for it is not counted
  idle,      \* idle[ch]: the idle keys
  said,      \* said[q][c]: the answer given on connection c, the client's or
             \* the one between the servers
  repeated,  \* requests a second answer was written for
  fx,        \* fx[q][e]: what the program has seen of effect e of request q
  doubled,   \* <<q, e, a>>: effect e was put on the chain a second time; a: by a
             \* job that an error had put back
  escaped,   \* names of workers and background blocks that let an exception escape
  faults

vars == <<route, threads, queue, calls, idle, said, repeated, fx, doubled,
          escaped, faults>>
runVars == <<queue, calls, idle>>
webVars == <<said, repeated>>
fxVars == <<fx, doubled>>

\* The client's connection, one between the servers, one of a background post.
Conn == {"client", "inner", "none"}
Said == {"none", "ok", "done", "sent", "accepted", "already", "refused", "failed", "lost"}
State == {"none", "sent", "seen", "failed"}
NoJob == ""

\* A key on one chain, or the same key on Base and CoNET.
KeysOf(ch) ==
  IF ch = "both"
  THEN {ks \in {{<<"base", s[2]>>, <<"conet", s[2]>>} : s \in Slot} : ks \subseteq Slot}
  ELSE {{s} : s \in {x \in Slot : x[1] = ch}}

IdleKeys(ch) == {ks \in KeysOf(ch) : \A p \in ks : p[2] \in idle[p[1]]}

Thread(q, k, n, c) ==
  [q |-> q, kind |-> k, name |-> n, conn |-> c, job |-> NoJob, rest |-> Script[k][n],
   again |-> FALSE, keys |-> {}, lent |-> {}, err |-> "none"]

Asking == DOMAIN route
Routes == UNION {{m[q] : q \in DOMAIN m} : m \in Mixes}

Init ==
  /\ route \in Mixes
  /\ threads = {Thread(q, route[q][1], route[q][2], "client") : q \in Asking}
  /\ queue = [w \in Queue |-> <<>>]
  /\ calls = [w \in Queue |-> 0]
  /\ idle = KeyOf
  /\ said = [q \in Request |-> [c \in Conn |-> "none"]]
  /\ repeated = {}
  /\ fx = [q \in Request |-> [e \in Effect |-> "none"]]
  /\ doubled = {}
  /\ escaped = {}
  /\ faults = 0

------------------------------------------------------------------------------
(* Moving a thread.                                                        *)

Head1(t) == Head(t.rest)

\* Steps up to the next await run without interruption.
Synchronous(t) ==
  Head1(t).op \notin {"risk", "send", "mined", "write", "relay", "ask", "post", "await", "poll"}
Turn(t) == Synchronous(t) \/ ~\E u \in threads : Synchronous(u)

\* Reaching the end of a try block skips its catch.
AfterTry(s) ==
  LET i == SelectInSeq(s, LAMBDA x : x.op # "catch")
  IN IF i = 0 THEN <<>> ELSE SubSeq(s, i, Len(s))

Replace(t, new) == threads' = (threads \ {t}) \cup {n \in new : n.rest # <<>>}

With(t, s) == [t EXCEPT !.rest = AfterTry(s)]
Go(t, s) == Replace(t, {With(t, s)})
Next1(t) == With(t, Tail(t.rest))

\* return: the finally blocks around the step, from the inside out.
Returned(s) ==
  LET i == SelectInSeq(s, LAMBDA x : x.op = "finally")
  IN IF i = 0 THEN <<>> ELSE s[i].then \o Stop \o SubSeq(s, i + 1, Len(s))

\* throw: the nearest catch or finally; a finally throws on.
Handler(s) == SelectInSeq(s, LAMBDA x : x.op \in {"catch", "finally"})
Thrown(s) ==
  LET i == Handler(s)
      after == SubSeq(s, i + 1, Len(s))
  IN IF s[i].op = "catch" THEN s[i].then \o after ELSE s[i].then \o Throw \o after

OnMaster(t) == t.kind \notin {"cluster", "clusterblock"}
IsHandler(t) == t.kind \in {"cluster", "master"}

\* res.json on connection c of q; a second one throws and is recorded.
Answered(q, c) == said[q][c] # "none"
ClassOf(q, a) == IF a = "inner" THEN said[q]["inner"] ELSE a   \* an echo of Master
WriteAnswer(q, c, a) == said' = [said EXCEPT ![q][c] = IF c = "none" THEN "none" ELSE ClassOf(q, a)]

\* Nobody catches: a route's exception is answered by Express, a worker's or
\* a block's becomes an unhandled rejection of the process.
Escapes(t) ==
  /\ Handler(t.rest) = 0
  /\ Replace(t, {})
  /\ IF IsHandler(t)
     THEN /\ IF Answered(t.q, t.conn) THEN UNCHANGED said ELSE WriteAnswer(t.q, t.conn, "failed")
          /\ UNCHANGED <<escaped, repeated>>
     ELSE escaped' = escaped \cup {t.name} /\ UNCHANGED webVars

Caught(t, kind) ==
  /\ Handler(t.rest) # 0
  /\ Replace(t, {[With(t, Thrown(t.rest)) EXCEPT !.err = kind]})
  /\ UNCHANGED <<escaped, webVars>>

Raise(t, kind) == Caught(t, kind) \/ Escapes(t)

Sells(q) == q \in Asking /\ route[q][2] \in Purchases

Fault ==
  /\ faults < (IF \E q \in Request : Sells(q) THEN SaleFaults ELSE MaxFaults)
  /\ faults' = faults + 1

------------------------------------------------------------------------------
(* Control steps.                                                          *)

Choose(t) ==
  /\ Head1(t).op = "either"
  /\ Go(t, Head1(t).then \o Tail(t.rest)) \/ Go(t, Head1(t).else \o Tail(t.rest))
  /\ UNCHANGED <<route, runVars, webVars, fxVars, escaped, faults>>

Await(t) ==
  /\ Head1(t).op = "risk"
  /\ \/ Go(t, Tail(t.rest)) /\ UNCHANGED <<webVars, escaped, faults>>
     \/ Fault /\ Raise(t, "other")
  /\ UNCHANGED <<route, runVars, fxVars>>

ThrowError(t) ==
  /\ Head1(t).op = "throw"
  /\ Raise(t, t.err)
  /\ UNCHANGED <<route, runVars, fxVars, faults>>

InspectError(t) ==
  /\ Head1(t).op = "iferror"
  /\ Go(t, (IF t.err = Head1(t).name THEN Head1(t).then ELSE Head1(t).else) \o Tail(t.rest))
  /\ UNCHANGED <<route, runVars, webVars, fxVars, escaped, faults>>

RememberOutcome(t) ==
  /\ Head1(t).op = "ifdone"
  /\ Go(t, (IF fx[t.q][Head1(t).name] = "seen" THEN Head1(t).then ELSE Head1(t).else) \o Tail(t.rest))
  /\ UNCHANGED <<route, runVars, webVars, fxVars, escaped, faults>>

LookAtJob(t) ==
  /\ Head1(t).op = "ifjob"
  /\ Go(t, (IF t.job = Head1(t).name THEN Head1(t).then ELSE Head1(t).else) \o Tail(t.rest))
  /\ UNCHANGED <<route, runVars, webVars, fxVars, escaped, faults>>

EnterTry(t) ==
  /\ Head1(t).op = "try"
  /\ Go(t, Head1(t).then \o Head1(t).else \o Tail(t.rest))
  /\ UNCHANGED <<route, runVars, webVars, fxVars, escaped, faults>>

EnterFinally(t) ==
  /\ Head1(t).op = "finally"
  /\ Go(t, Head1(t).then \o Tail(t.rest))
  /\ UNCHANGED <<route, runVars, webVars, fxVars, escaped, faults>>

Return(t) ==
  /\ Head1(t).op = "stop"
  /\ Go(t, Returned(Tail(t.rest)))
  /\ UNCHANGED <<route, runVars, webVars, fxVars, escaped, faults>>

\* The keys go with the block when the block returns them, and the block is
\* the rest of the run; otherwise it is no part of the run, and may go on
\* using the wallet (on CoNET) the run is about to return.
SpawnBlock(t) ==
  /\ Head1(t).op = "spawn"
  /\ LET takes == \E i \in DOMAIN Head1(t).then : Head1(t).then[i].op = "give"
         kind == IF takes THEN t.kind ELSE IF OnMaster(t) THEN "block" ELSE "clusterblock"
         block == [With(t, Head1(t).then) EXCEPT !.kind = kind]
         sends == [block EXCEPT !.lent = IF takes THEN {} ELSE {p \in t.keys : p[1] = "conet"}]
         child == [sends EXCEPT !.keys = IF takes THEN t.keys ELSE {}]
         self == [Next1(t) EXCEPT !.keys = IF takes THEN {} ELSE t.keys]
     IN Replace(t, {child, self})
  /\ UNCHANGED <<route, runVars, webVars, fxVars, escaped, faults>>

------------------------------------------------------------------------------
(* Answers.                                                                *)

SayAnswer(t) ==
  /\ Head1(t).op = "say"
  /\ Go(t, Tail(t.rest))
  /\ IF Answered(t.q, t.conn) THEN UNCHANGED said ELSE WriteAnswer(t.q, t.conn, Head1(t).name)
  /\ UNCHANGED <<route, runVars, repeated, fxVars, escaped, faults>>

GiveAnswer(t) ==
  /\ Head1(t).op = "answer"
  /\ IF Answered(t.q, t.conn)
     THEN /\ repeated' = repeated \cup {t.q}
          /\ IF Handler(t.rest) # 0
             THEN Replace(t, {[With(t, Thrown(t.rest)) EXCEPT !.err = "other"]}) /\ UNCHANGED escaped
             ELSE Replace(t, {}) /\ escaped' = escaped \cup {n \in {t.name} : ~IsHandler(t)}
          /\ UNCHANGED said
     ELSE /\ WriteAnswer(t.q, t.conn, Head1(t).name)
          /\ Go(t, Tail(t.rest))
          /\ UNCHANGED <<repeated, escaped>>
  /\ UNCHANGED <<route, runVars, fxVars, faults>>

------------------------------------------------------------------------------
(* Effects.                                                                *)

OnChain == {"sent", "seen"}

Stands(q, e) == e \in Effect /\ fx[q][e] \in OnChain
Becomes(q, e, v) == fx' = IF e \in Effect THEN [fx EXCEPT ![q][e] = v] ELSE fx
Fails(q, e) == IF Stands(q, e) THEN UNCHANGED fx ELSE Becomes(q, e, "failed")
Twice(t, e) == doubled' = IF Stands(t.q, e) THEN doubled \cup {<<t.q, e, t.again>>} ELSE doubled

SendTx(t) ==
  LET q == t.q
      e == Head1(t).name
      exists == Stands(q, e) /\ e \in Unique
  IN /\ Head1(t).op = "send"
     /\ \/ /\ exists                                   \* the contract refuses it
           /\ Raise(t, "exists")
           /\ UNCHANGED <<fxVars, faults>>
        \/ /\ ~exists
           /\ Becomes(q, e, "sent") /\ Twice(t, e)
           /\ Go(t, Tail(t.rest))
           /\ UNCHANGED <<webVars, escaped, faults>>
        \/ /\ Fault                                     \* the node refuses it
           /\ \E kind \in {"gas", "nonce", "other"} : Raise(t, kind)
           /\ Fails(q, e) /\ UNCHANGED doubled
        \/ /\ ~exists                                   \* accepted, the reply is lost
           /\ Becomes(q, e, "sent") /\ Twice(t, e)
           /\ Fault /\ Raise(t, "other")
     /\ UNCHANGED <<route, runVars>>

\* Mutant: the status of the receipt is not looked at.
AwaitReceipt_IgnoresStatus(t) ==
  LET q == t.q
      e == Head1(t).name
      fate == IF e \in Effect THEN fx[q][e] ELSE "sent"
  IN /\ Head1(t).op = "mined"
     /\ \/ /\ fate \in OnChain
           /\ Becomes(q, e, "seen")
           /\ Go(t, Tail(t.rest))
           /\ UNCHANGED <<doubled, webVars, escaped, faults>>
        \/ /\ fate = "sent"
           /\ Becomes(q, e, "failed")
           /\ Fault /\ Go(t, Tail(t.rest))
           /\ UNCHANGED <<doubled, webVars, escaped>>
        \/ /\ fate = "failed"
           /\ Raise(t, "other")
           /\ UNCHANGED <<fxVars, faults>>
     /\ UNCHANGED <<route, runVars>>

AwaitReceipt(t) ==
  LET q == t.q
      e == Head1(t).name
      fate == IF e \in Effect THEN fx[q][e] ELSE "sent"
  IN /\ Head1(t).op = "mined"
     /\ \/ /\ fate \in OnChain
           /\ Becomes(q, e, "seen")
           /\ Go(t, Tail(t.rest))
           /\ UNCHANGED <<doubled, webVars, escaped, faults>>
        \/ /\ fate = "sent"                             \* it reverts
           /\ Becomes(q, e, "failed")
           /\ Fault /\ Raise(t, "other")
           /\ UNCHANGED doubled
        \/ /\ fate = "failed"
           /\ Raise(t, "other")
           /\ UNCHANGED <<fxVars, faults>>
        \/ /\ fate = "sent"                             \* the RPC loses it
           /\ Fault /\ Raise(t, "other")
           /\ UNCHANGED fxVars
     /\ UNCHANGED <<route, runVars>>

\* A row that is there already is written over when it is unique.
WriteRow(t) ==
  LET q == t.q
      e == Head1(t).name
  IN /\ Head1(t).op = "write"
     /\ \/ /\ Becomes(q, e, "seen")
           /\ IF e \in Unique THEN UNCHANGED doubled ELSE Twice(t, e)
           /\ Go(t, Tail(t.rest))
           /\ UNCHANGED <<webVars, escaped, faults>>
        \/ /\ Fault /\ Raise(t, "other")
           /\ Fails(q, e) /\ UNCHANGED doubled
     /\ UNCHANGED <<route, runVars>>

------------------------------------------------------------------------------
(* Master's routes, queues and keys.                                       *)

RelayRequest(t) ==
  /\ Head1(t).op = "relay"
  /\ \/ /\ Replace(t, {Next1(t), Thread(t.q, "master", Head1(t).name, t.conn)})
        /\ UNCHANGED <<said, faults>>
     \/ /\ Fault                                       \* 502
        /\ WriteAnswer(t.q, t.conn, "failed")
        /\ Go(t, Tail(t.rest))
  /\ UNCHANGED <<route, runVars, repeated, fxVars, escaped>>

AskMaster(t) ==
  /\ Head1(t).op = "ask"
  /\ \/ /\ Replace(t, {With(t, Step("await", "inner", Head1(t).then, Head1(t).else) \o Tail(t.rest)),
                       Thread(t.q, "master", Head1(t).name, "inner")})
        /\ said' = [said EXCEPT ![t.q]["inner"] = "none"]
        /\ UNCHANGED <<repeated, escaped, faults>>
     \/ Fault /\ Raise(t, "other")
  /\ UNCHANGED <<route, runVars, fxVars>>

HearMaster(t) ==
  LET a == said[t.q][Head1(t).name]
  IN /\ Head1(t).op = "await"
     /\ a # "none"
     /\ \/ a = "lost" /\ Raise(t, "other")
        \/ /\ a # "lost"
           /\ Go(t, (IF a \notin {"refused", "failed"} THEN Head1(t).then ELSE Head1(t).else)
                      \o Tail(t.rest))
           /\ UNCHANGED <<webVars, escaped>>
     /\ UNCHANGED <<route, runVars, fxVars, faults>>

\* Nobody hears whether this one arrives.
PostRequest(t) ==
  /\ Head1(t).op = "post"
  /\ \/ /\ Replace(t, {Next1(t), Thread(t.q, "master", Head1(t).name, "none")})
        /\ UNCHANGED faults
     \/ Fault /\ Go(t, Tail(t.rest))
  /\ UNCHANGED <<route, runVars, webVars, fxVars, escaped>>

More(n, jobs) == IF n < Len(jobs) THEN n + 1 ELSE n

PushJob(t) ==
  /\ Head1(t).op \in {"push", "pushsilent"}
  /\ LET w == Head1(t).name
         job == [q |-> t.q, conn |-> IF Head1(t).op = "push" THEN t.conn ELSE "none",
                job |-> IF Head1(t).then = Nothing THEN NoJob ELSE Head(Head1(t).then).name,
                again |-> FALSE]
     IN /\ queue' = [queue EXCEPT ![w] = Append(@, job)]
        /\ calls' = [calls EXCEPT ![w] = @ + 1]
  /\ Go(t, Tail(t.rest))
  /\ UNCHANGED <<route, idle, webVars, fxVars, escaped, faults>>

PutBack(t) ==
  /\ Head1(t).op = "requeue"
  /\ LET job == [q |-> t.q, conn |-> t.conn, job |-> t.job, again |-> t.again \/ t.err # "none"]
     IN queue' = [queue EXCEPT ![t.name] = <<job>> \o @]
  /\ Go(t, Tail(t.rest))
  /\ UNCHANGED <<route, calls, idle, webVars, fxVars, escaped, faults>>

\* Mutant: the timer is not set.
SetTimer_NoCall(t) ==
  /\ Head1(t).op = "again"
  /\ Go(t, Tail(t.rest))
  /\ UNCHANGED <<route, runVars, webVars, fxVars, escaped, faults>>

SetTimer(t) ==
  /\ Head1(t).op = "again"
  /\ calls' = [calls EXCEPT ![t.name] = More(@, queue[t.name])]
  /\ Go(t, Tail(t.rest))
  /\ UNCHANGED <<route, queue, idle, webVars, fxVars, escaped, faults>>

Runs(w) == {t \in threads : t.kind = "worker" /\ t.name = w}

\* Mutant: the job is shifted before the worker looks whether it is running.
CallWorker_ShiftsFirst(w) ==
  /\ calls[w] > 0
  /\ calls' = [calls EXCEPT ![w] = @ - 1]
  /\ LET job == Head(queue[w])
     IN /\ queue' = [queue EXCEPT ![w] = Tail(@)]
        /\ threads' = threads \cup
             {n \in {[[Thread(job.q, "worker", w, job.conn) EXCEPT !.job = job.job] EXCEPT !.again = job.again]} :
                w \notin Single \/ Runs(w) = {}}
  /\ UNCHANGED <<route, idle, webVars, fxVars, escaped, faults>>

\* A call that finds a run of a single worker in progress does nothing.
CallWorker(w) ==
  /\ calls[w] > 0
  /\ calls' = [calls EXCEPT ![w] = @ - 1]
  /\ IF w \in Single /\ Runs(w) # {}
     THEN UNCHANGED <<queue, threads>>
     ELSE LET job == Head(queue[w])
          IN /\ queue' = [queue EXCEPT ![w] = Tail(@)]
             /\ threads' = threads \cup
                  {[[Thread(job.q, "worker", w, job.conn) EXCEPT !.job = job.job] EXCEPT !.again = job.again]}
  /\ UNCHANGED <<route, idle, webVars, fxVars, escaped, faults>>

\* Mutant: a shift function returns the first key and leaves it in the pool.
Take_LeavesKey(ks) == idle' = [ch \in Chain |-> idle[ch]]

\* The pools of keys are in Master's memory.
Take(ks) == idle' = [ch \in Chain |-> idle[ch] \ {k \in KeyOf[ch] : <<ch, k>> \in ks}]

TakeSlot(t) ==
  /\ Head1(t).op = "take" /\ OnMaster(t)
  /\ \/ /\ IdleKeys(Head1(t).name) = {}
        /\ Go(t, Head1(t).then \o Tail(t.rest))
        /\ UNCHANGED idle
     \/ \E ks \in IdleKeys(Head1(t).name) :
          /\ Take(ks)
          /\ Replace(t, {[Next1(t) EXCEPT !.keys = @ \cup ks]})
  /\ UNCHANGED <<route, queue, calls, webVars, fxVars, escaped, faults>>

\* shiftSettleContractForWrite: polls for a key and throws after 120 s.
PollForSlot(t) ==
  /\ Head1(t).op = "poll" /\ OnMaster(t)
  /\ \/ /\ \E ks \in IdleKeys(Head1(t).name) :
             /\ Take(ks)
             /\ Replace(t, {[Next1(t) EXCEPT !.keys = @ \cup ks]})
        /\ UNCHANGED <<webVars, escaped, faults>>
     \/ /\ IdleKeys(Head1(t).name) = {}
        /\ Raise(t, "other")
        /\ UNCHANGED <<idle, faults>>
  /\ UNCHANGED <<route, queue, calls, fxVars>>

LookForSlot(t) ==
  /\ Head1(t).op = "idle"
  /\ Go(t, (IF IdleKeys(Head1(t).name) = {} THEN Head1(t).then ELSE <<>>) \o Tail(t.rest))
  /\ UNCHANGED <<route, runVars, webVars, fxVars, escaped, faults>>

BorrowSlot(t) ==
  /\ Head1(t).op = "borrow"
  /\ Replace(t, {[Next1(t) EXCEPT
       !.lent = {<<Head1(t).name, CHOOSE k \in KeyOf[Head1(t).name] : TRUE>>}]})
  /\ UNCHANGED <<route, runVars, webVars, fxVars, escaped, faults>>

GiveSlots(t) ==
  /\ Head1(t).op = "give"
  /\ idle' = [ch \in Chain |-> idle[ch] \cup {k \in KeyOf[ch] : <<ch, k>> \in t.keys}]
  /\ Replace(t, {[Next1(t) EXCEPT !.keys = {}]})
  /\ UNCHANGED <<route, queue, calls, webVars, fxVars, escaped, faults>>

\* Master restarts: its threads, queues and timers are gone, its sockets
\* close, and Cluster answers 502 for the requests it had relayed.
Restart ==
  LET alive == {t \in threads : ~OnMaster(t)}
      Lost(q, c) == /\ said[q][c] = "none"
                    /\ ~\E t \in alive : t.q = q /\ t.conn = c
                    /\ c = "inner" => \E t \in alive : t.q = q /\ Head1(t).op = "await"
                    /\ c # "none"
  IN /\ MayRestart /\ Fault
     /\ threads' = alive
     /\ queue' = [w \in Queue |-> <<>>]
     /\ calls' = [w \in Queue |-> 0]
     /\ idle' = KeyOf
     /\ said' = [q \in Request |-> [c \in Conn |-> IF Lost(q, c) THEN "lost" ELSE said[q][c]]]
     /\ UNCHANGED <<route, repeated, fxVars, escaped>>

------------------------------------------------------------------------------
StepOf(t) ==
  \/ Choose(t) \/ Await(t) \/ ThrowError(t) \/ InspectError(t) \/ RememberOutcome(t) \/ LookAtJob(t)
  \/ EnterTry(t)
  \/ EnterFinally(t) \/ Return(t) \/ SpawnBlock(t) \/ SayAnswer(t) \/ GiveAnswer(t)
  \/ SendTx(t) \/ AwaitReceipt(t) \/ WriteRow(t)
  \/ RelayRequest(t) \/ AskMaster(t) \/ HearMaster(t) \/ PostRequest(t) \/ PushJob(t) \/ PutBack(t)
  \/ SetTimer(t) \/ TakeSlot(t) \/ PollForSlot(t) \/ LookForSlot(t)
  \/ BorrowSlot(t) \/ GiveSlots(t)

Quiet == ~\E t \in threads : Synchronous(t)

FireTimer == Quiet /\ \E w \in Queue : CallWorker(w)

Next ==
  \/ \E t \in threads : Turn(t) /\ StepOf(t)
  \/ FireTimer
  \/ Quiet /\ Restart

Spec == Init /\ [][Next]_vars

\* The event loop takes every ready continuation in turn: no request, no
\* run that holds a key and no timer is passed over for ever, however often others run.
StepsOf(q) == \E t \in threads : t.q = q /\ Turn(t) /\ StepOf(t)
HolderSteps == \E t \in threads : t.keys # {} /\ Turn(t) /\ StepOf(t)

Fairness ==
  /\ \A q \in Request : SF_vars(StepsOf(q))
  /\ SF_vars(HolderSteps)
  /\ SF_vars(FireTimer)

FairSpec == Spec /\ Fairness

------------------------------------------------------------------------------
(* Properties.                                                             *)

\* Every settle-admin key that is not in the pool is held by exactly one run,
\* and none that is in the pool is held: through every catch, early return,
\* background block and wait for a second key, no run ends with a key in hand
\* (shiftSettle*, unshiftSettle* and the finally blocks of the workers).
KeysKept ==
  \A ch \in Chain : \A k \in KeyOf[ch] :
    Cardinality({t \in threads : <<ch, k>> \in t.keys}) = IF k \in idle[ch] THEN 0 ELSE 1

\* The wallets a run sends from: those of its keys, or one it has not taken.
Wallets(t) == IF t.keys # {} THEN t.keys ELSE IF Head1(t).op = "send" THEN t.lent ELSE {}

\* No two runs send from one wallet at once, which would make their nonces
\* collide, unless one is in Borrowers: those send from the wallet of the first
\* key or of a key they have returned (Settle_ContractPool[0], and the fee of
\* AAtoEOAProcess that nobody awaits).
WalletAlone ==
  \A t, u \in threads :
    t # u /\ Wallets(t) \cap Wallets(u) # {} => {t.name, u.name} \cap Borrowers # {}

\* No handler, worker or background block writes a second answer to a response
\* that has one, which would throw ERR_HTTP_HEADERS_SENT: the answers of the
\* body, of its catch, of the worker and of Master's piped answer exclude each
\* other on every path.
AnsweredOnce == repeated = {}

\* No exception of a worker or of a background block goes unhandled, which
\* would end Master and with it every queue and every held connection.
NoEscape == escaped = {}

\* The service fee of one request is not taken twice: not by the run that makes
\* the transfer and the worker that books it, nor by the rows of a bill and of its
\* tip, each of which has a fee of its own to decide on (consumeFromUser accepts
\* as many as it is sent).  A job that an error has put back takes it again,
\* which is what the code does (MemberCard.ts:5293); no other job may.
NeverTwice == \A d \in doubled : d[2] = "fee" => d[3]

\* A queued job has a call coming, or a run in progress that will make one:
\* no early return of a worker leaves a job until somebody else's request.
NoStrandedJob ==
  \A w \in Queue : queue[w] # <<>> => calls[w] > 0 \/ Runs(w) # {}

\* While a client waits, a run or a queued job has its response in hand, also
\* when Master restarts under it.
NobodyForgotten ==
  \A q \in Asking :
    \/ said[q]["client"] # "none"
    \/ \E t \in threads : t.q = q /\ t.conn = "client"
    \/ \E w \in Queue : \E i \in DOMAIN queue[w] : queue[w][i].q = q /\ queue[w][i].conn = "client"

\* Every request is answered, however its transactions, reads and keys fail.
EveryRequestAnswered ==
  \A q \in Request : q \in Asking ~> said[q]["client"] # "none"

\* The third attempt from the retry queue has met an error: the last one.
GivesUp(q) ==
  \E t \in threads :
    t.q = q /\ t.name = "purchasingCardAccountingRetry" /\ t.job = "third" /\ t.err # "none"

\* A sale whose service fee was taken is booked in the end and stays so, or all
\* of its attempts have been made: what the first could not write goes to the
\* retry queue, which tries three times and then drops it (MemberCard.ts:10039).
\* Without restarts only: the queue is in Master's memory.
PaidSaleIsBooked ==
  \A q \in Request :
    <>(~MayRestart /\ Sells(q) /\ fx[q]["fee"] = "seen")
      => <>[](fx[q]["book"] \in OnChain) \/ <>GivesUp(q)

\* A client that is told that what it asked for is done can rely on it: the
\* program has seen it on the chain, whatever it only sent or lost sight of.
DoneIsDone == \A q \in Asking : said[q]["client"] = "done" => fx[q]["main"] \notin {"sent", "failed"}

\* A client that is told of a failure may ask again: what it asked for was not
\* seen to succeed, except on the routes in LateErrors, whose follow-ups can
\* turn a success into an error answer.
ErrorIsTrue ==
  \A q \in Asking :
    said[q]["client"] \in {"refused", "failed"} => fx[q]["main"] # "seen" \/ route[q][2] \in LateErrors

\* A service fee is taken only for what succeeded or may still do so, except
\* on the routes in FeeFirst.
FeeOnlyForSuccess ==
  \A q \in Asking :
    fx[q]["fee"] \in OnChain => fx[q]["main"] \in OnChain \/ route[q][2] \in FeeFirst

====
