-------------------------- MODULE UsdcFulfillProofs --------------------------
(***************************************************************************)
(* For any payments, requests, keys and number of errors and restarts: the *)
(* record files and the answers are never ahead of the chain, and a        *)
(* deposit is locked once, and once more per error or restart at most.     *)
(*                                                                         *)
(* The first rests on the order of a workflow's steps (InOrder).  For the  *)
(* second, a request that locks has found no record, and nobody else of    *)
(* its payment can have written one since, as the Base slot of the         *)
(* initiator admits one request at a time (OneOnBase, FileFits); the count *)
(* includes the lock mints that may still be mined late (Budget).          *)
(***************************************************************************)
EXTENDS UsdcFulfill, FiniteSetTheorems, TLAPS

StepsOf == [seat   |-> {"vault", "bind", "lock", "nonce", "create", "claim"},
            wallet |-> {"lock"},
            bridge |-> {"lock", "stage", "points", "fee"},
            fuel   |-> {"paid", "free", "ket"}]

\* A worker's queue has requests of its own kind, and they take its steps.
Queued == \A w \in Kind : \A i \in DOMAIN queue[w] : kind[payment[queue[w][i]]] = w
Kindly == \A r \in Request : step[r] \in Tx \cup {"vault", "nonce"} =>
                               step[r] \in StepsOf[kind[payment[r]]]

\* What the chain has when a request is at a step.
InOrder(r) ==
  LET c == count[payment[r]]
  IN  /\ step[r] = "lock" /\ kind[payment[r]] = "seat" => c["bind"] > 0
      /\ step[r] \in {"nonce", "create", "claim"} => c["bind"] > 0 /\ c["lock"] > 0
      /\ step[r] = "claim" => c["create"] > 0
      /\ step[r] \in {"stage", "points", "fee"} => c["lock"] > 0
      /\ step[r] \in {"free", "ket"} => c["paid"] > 0
AllInOrder == \A r \in Request : InOrder(r)

OneOnBase == \A q, r \in Request : step[q] \in OnBase /\ step[r] \in OnBase => q = r

\* What the file says of a request's payment while it locks, and behind that.
FileFits ==
  \A r \in Request :
    /\ step[r] = "lock" /\ kind[payment[r]] # "seat" => record[payment[r]] = "none"
    /\ step[r] \in {"stage", "points", "fee"} => record[payment[r]] # "none"

\* Only a bridge records its lock mint alone.
LockedIsBridge == \A p \in Payment : record[p] = "locked" => kind[p] = "bridge"

\* Lock mints of p that may still be mined although nobody awaits them.
LateLocks(p) == {r \in Request : payment[r] = p /\ <<r, "lock">> \in orphans}
LockSum(p) == Locks(p) + Cardinality(LateLocks(p))
Budget ==
  \A p \in Payment : kind[p] \in {"wallet", "bridge"} =>
    /\ LockSum(p) <= 1 + faults
    /\ record[p] = "none" => LockSum(p) <= faults

Flow == Queued /\ Kindly /\ AllInOrder /\ OneOnBase /\ FileFits /\ LockedIsBridge
IInv == TypeOK /\ Flow /\ FulfilledIsDelivered /\ Budget

------------------------------------------------------------------------------
(* Helpers.                                                                *)

Grow == /\ count' \in [Payment -> [Tx -> Nat]]
        /\ \A p \in Payment, t \in Tx : count'[p][t] >= count[p][t]

LEMMA OwedType == \A p \in Payment : Owed[kind[p]] \subseteq Tx
BY FulfillAssumption DEF Owed, Kind, Tx, OnBase

\* What is on chain stays.
LEMMA DeliveredStays ==
  ASSUME TypeOK, Grow, NEW p \in Payment
  PROVE  /\ Delivered(p) => Delivered(p)'
         /\ Locks(p) > 0 => Locks(p)' > 0
<1>1. \A t \in Tx : count[p][t] > 0 => count'[p][t] > 0
  BY DEF TypeOK, Grow
<1> QED BY <1>1, OwedType DEF Delivered, Locks, Tx, OnBase

LEMMA OrderStays ==
  ASSUME TypeOK, Grow, NEW r \in Request, InOrder(r),
         step'[r] = step[r] \/ step'[r] \notin Tx \cup {"nonce"}, payment' = payment
  PROVE  InOrder(r)'
<1>1. payment[r] \in Payment BY DEF TypeOK
<1>2. \A t \in Tx : count[payment[r]][t] > 0 => count'[payment[r]][t] > 0
  BY <1>1 DEF TypeOK, Grow
<1>3. CASE step'[r] = step[r] BY <1>2, <1>3 DEF InOrder, Tx, OnBase
<1>4. CASE step'[r] \notin Tx \cup {"nonce"} BY <1>4 DEF InOrder, Tx, OnBase
<1> QED BY <1>3, <1>4

LEMMA MineEffect ==
  ASSUME TypeOK, NEW r \in Request, NEW t \in Tx, CanMine(r, t), Mine(r, t)
  PROVE  /\ Grow /\ count'[payment[r]][t] > 0
         /\ usdc' \in Nat /\ adminNonce' \in Nat
         /\ \A p \in Payment : count'[p]["lock"] =
              IF p = payment[r] /\ t = "lock" THEN count[p]["lock"] + 1 ELSE count[p]["lock"]
<1>1. payment[r] \in Payment /\ "lock" \in Tx BY DEF TypeOK, Tx, OnBase
<1>2. count' = [count EXCEPT ![payment[r]][t] = @ + 1] BY DEF Mine
<1>3. /\ count' \in [Payment -> [Tx -> Nat]]
      /\ \A p \in Payment, u \in Tx :
           count'[p][u] = IF p = payment[r] /\ u = t THEN count[p][u] + 1 ELSE count[p][u]
  BY <1>1, <1>2 DEF TypeOK
<1>4. \A p \in Payment, u \in Tx : count[p][u] \in Nat BY DEF TypeOK
<1>5. usdc' \in Nat /\ adminNonce' \in Nat
  <2>1. Amount + Fee \in Nat BY FulfillAssumption
  <2>2. t = "lock" => usdc - (Amount + Fee) \in Nat BY <2>1 DEF CanMine, TypeOK
  <2> QED BY <2>2 DEF Mine, TypeOK
<1> QED BY <1>1, <1>3, <1>4, <1>5 DEF Grow

LEMMA LateLocksFinite ==
  ASSUME NEW p \in Payment
  PROVE  /\ IsFiniteSet(LateLocks(p)) /\ Cardinality(LateLocks(p)) \in Nat
         /\ IsFiniteSet(LateLocks(p)') /\ Cardinality(LateLocks(p)') \in Nat
<1>1. IsFiniteSet(Request) BY FulfillAssumption
<1>2. LateLocks(p) \subseteq Request /\ LateLocks(p)' \subseteq Request BY DEF LateLocks
<1> QED BY <1>1, <1>2, FS_Subset, FS_CardinalityType

\* Without a transaction mined, sent or given up, the sums stay.
LEMMA BudgetStays ==
  ASSUME TypeOK, Budget, UNCHANGED <<payment, orphans, faults>>,
         \A p \in Payment : count'[p]["lock"] = count[p]["lock"],
         \A p \in Payment : record'[p] = "none" => record[p] = "none"
  PROVE  Budget'
<1>1. \A p \in Payment : LockSum(p)' = LockSum(p) BY DEF LockSum, Locks, LateLocks
<1> QED BY <1>1 DEF Budget

LEMMA SameGrows == ASSUME TypeOK, count' = count PROVE Grow
BY DEF TypeOK, Grow

\* Steps that leave requests, chain and file as the invariant sees them.
LEMMA Untouched ==
  ASSUME IInv, TypeOK',
         UNCHANGED <<queue, payment, step, answer, count, orphans, record, faults>>
  PROVE  IInv'
<1>1. TypeOK /\ Budget BY DEF IInv
<1>2. Grow BY <1>1, SameGrows
<1>3. Flow'
  BY DEF IInv, Flow, Queued, Kindly, AllInOrder, InOrder, OneOnBase, FileFits, LockedIsBridge
<1>4. FulfilledIsDelivered' BY DEF IInv, FulfilledIsDelivered, Delivered, Locks
<1>5. Budget' BY <1>1, BudgetStays
<1> QED BY <1>3, <1>4, <1>5 DEF IInv

\* One request goes on, the others stay where they are.
LEMMA FlowStays ==
  ASSUME IInv, Grow, payment' = payment, Queued', NEW r \in Request,
         \A q \in Request : q # r => step'[q] = step[q],
         step'[r] \in Tx \cup {"vault", "nonce"} => step'[r] \in StepsOf[kind[payment[r]]],
         InOrder(r)',
         step'[r] \in OnBase => step[r] \in OnBase \/ BaseIdle,
         step'[r] = "lock" /\ kind[payment[r]] # "seat" => record'[payment[r]] = "none",
         step'[r] \in {"stage", "points", "fee"} => record'[payment[r]] # "none",
         \A p \in Payment :
           \/ record'[p] = record[p]
           \/ /\ record'[p] # "none" /\ (record'[p] = "locked" => kind[p] = "bridge")
              /\ \A q \in Request : q # r /\ payment[q] = p /\ kind[p] # "seat" => step[q] # "lock"
  PROVE  Flow'
<1>0. TypeOK /\ \A q \in Request : payment[q] \in Payment BY DEF IInv, TypeOK
<1>1. Kindly' BY DEF IInv, Flow, Kindly
<1>2. AllInOrder'
  <2>1. ASSUME NEW q \in Request, q # r PROVE InOrder(q)'
    <3>1. InOrder(q) /\ step'[q] = step[q] BY <2>1 DEF IInv, Flow, AllInOrder
    <3> QED BY <1>0, <3>1, OrderStays
  <2> QED BY <2>1 DEF AllInOrder
<1>3. OneOnBase' BY DEF IInv, Flow, OneOnBase, BaseIdle
<1>4. FileFits'
  <2>1. ASSUME NEW q \in Request, q # r, step[q] = "lock", kind[payment[q]] # "seat"
        PROVE record'[payment[q]] = "none"
    BY <1>0, <2>1 DEF IInv, Flow, FileFits
  <2>2. ASSUME NEW q \in Request, q # r, step[q] \in {"stage", "points", "fee"}
        PROVE record'[payment[q]] # "none"
    BY <1>0, <2>2 DEF IInv, Flow, FileFits
  <2> QED BY <2>1, <2>2 DEF FileFits
<1>5. LockedIsBridge' BY DEF IInv, Flow, LockedIsBridge
<1> QED BY <1>1, <1>2, <1>3, <1>4, <1>5 DEF Flow

\* What is recorded and answered stays true.
LEMMA FulfilledStays ==
  ASSUME IInv, Grow, payment' = payment,
         \A p \in Payment : record'[p] = record[p] \/ record'[p] = "none",
         \A r \in Request : answer'[r] = "ok" => answer[r] = "ok"
                                \/ record[payment[r]] = "full"
  PROVE  FulfilledIsDelivered'
<1>1. TypeOK /\ \A q \in Request : payment[q] \in Payment BY DEF IInv, TypeOK
<1>2. ASSUME NEW p \in Payment
      PROVE  /\ record'[p] = "full" => Delivered(p)'
             /\ record'[p] = "locked" => Locks(p)' > 0
  BY <1>1, DeliveredStays DEF IInv, FulfilledIsDelivered
<1>3. ASSUME NEW r \in Request, answer'[r] = "ok" PROVE Delivered(payment[r])'
  <2>1. payment[r] \in Payment /\ Delivered(payment[r])
    BY <1>1, <1>3 DEF IInv, FulfilledIsDelivered
  <2>2. \A t \in Tx : count[payment[r]][t] > 0 => count'[payment[r]][t] > 0
    BY <1>1, <2>1 DEF TypeOK, Grow
  <2> QED BY <2>1, <2>2, OwedType DEF Delivered
<1> QED BY <1>2, <1>3 DEF FulfilledIsDelivered

------------------------------------------------------------------------------
(* The steps before a transaction.                                         *)

LEMMA PostStep ==
  ASSUME IInv, NEW r \in Request, Post(r)
  PROVE  IInv'
<1> DEFINE w == kind[payment[r]]
<1>1. TypeOK /\ Budget /\ w \in Kind /\ payment[r] \in Payment
  BY FulfillAssumption DEF IInv, TypeOK
<1>2. /\ queue' = [queue EXCEPT ![w] = Append(@, r)]
      /\ step' = [step EXCEPT ![r] = "queued"]
      /\ UNCHANGED <<payment, key, nonceRead, answer, paid, usdc, adminNonce, count, orphans,
                     record, faults>>
  BY DEF Post, chainVars
<1> HIDE DEF w
<1>3. TypeOK' BY <1>1, <1>2 DEF TypeOK
<1>4. Grow BY <1>1, <1>2, SameGrows
<1>5. Queued'
  <2>1. ASSUME NEW v \in Kind, NEW i \in DOMAIN queue'[v]
        PROVE  kind[payment[queue'[v][i]]] = v
    <3>1. CASE v # w BY <1>1, <1>2, <2>1, <3>1 DEF IInv, Flow, Queued, TypeOK
    <3>2. CASE v = w
      <4>1. queue[w] \in Seq(Request) /\ queue'[w] = Append(queue[w], r)
        BY <1>1, <1>2 DEF TypeOK
      <4>2. CASE i \in DOMAIN queue[w]
        BY <1>1, <3>2, <4>1, <4>2 DEF IInv, Flow, Queued
      <4>3. CASE i \notin DOMAIN queue[w]
        <5>1. queue'[w][i] = r BY <2>1, <3>2, <4>1, <4>3
        <5> QED BY <3>2, <5>1 DEF w
      <4> QED BY <4>2, <4>3
    <3> QED BY <3>1, <3>2
  <2> QED BY <1>2, <2>1 DEF Queued
<1>6. /\ step'[r] = "queued" /\ \A q \in Request : q # r => step'[q] = step[q]
  BY <1>1, <1>2 DEF TypeOK
<1>7. InOrder(r)' BY <1>1, <1>2, <1>4, <1>6, OrderStays DEF InOrder
<1>8. Flow' BY <1>2, <1>4, <1>5, <1>6, <1>7, FlowStays DEF Tx, OnBase
<1>9. FulfilledIsDelivered' BY <1>2, <1>4, FulfilledStays
<1>10. Budget' BY <1>1, <1>2, BudgetStays
<1> QED BY <1>3, <1>8, <1>9, <1>10 DEF IInv

\* Taking the head of a queue, or putting it back, keeps the queues apart.
LEMMA QueueTail ==
  ASSUME TypeOK, Queued, NEW w \in Kind, queue[w] # <<>>, payment' = payment,
         queue' = [queue EXCEPT ![w] = Tail(@)]
  PROVE  /\ Queued' /\ queue' \in [Kind -> Seq(Request)]
         /\ Head(queue[w]) \in Request /\ kind[payment[Head(queue[w])]] = w
<1>1. queue[w] \in Seq(Request) BY DEF TypeOK
<1>2. /\ Tail(queue[w]) \in Seq(Request) /\ Head(queue[w]) = queue[w][1]
      /\ 1 \in DOMAIN queue[w] /\ Head(queue[w]) \in Request
      /\ \A i \in DOMAIN Tail(queue[w]) : i + 1 \in DOMAIN queue[w] /\ Tail(queue[w])[i] = queue[w][i + 1]
  BY <1>1
<1>3. queue' \in [Kind -> Seq(Request)] /\ queue'[w] = Tail(queue[w])
  BY <1>2 DEF TypeOK
<1>4. \A v \in Kind : v # w => queue'[v] = queue[v] BY DEF TypeOK
<1> QED BY <1>2, <1>3, <1>4 DEF Queued

LEMMA QueueHead ==
  ASSUME TypeOK, Queued, NEW r \in Request, kind[payment[r]] = "seat", payment' = payment,
         queue' = [queue EXCEPT !["seat"] = <<r>> \o @]
  PROVE  Queued' /\ queue' \in [Kind -> Seq(Request)]
<1> DEFINE q == queue["seat"]
<1>1. "seat" \in Kind /\ q \in Seq(Request) BY DEF TypeOK, Kind
<1>2. /\ <<r>> \o q \in Seq(Request)
      /\ \A i \in DOMAIN (<<r>> \o q) :
           (i = 1 /\ (<<r>> \o q)[i] = r) \/ (i - 1 \in DOMAIN q /\ (<<r>> \o q)[i] = q[i - 1])
  BY <1>1
<1>3. queue' \in [Kind -> Seq(Request)] /\ queue'["seat"] = <<r>> \o q
  BY <1>1, <1>2 DEF TypeOK
<1>4. \A v \in Kind : v # "seat" => queue'[v] = queue[v] BY DEF TypeOK
<1>5. \A i \in DOMAIN q : kind[payment[q[i]]] = "seat" BY <1>1 DEF Queued
<1> QED BY <1>1, <1>2, <1>3, <1>4, <1>5 DEF Queued

LEMMA ProcessStep ==
  ASSUME IInv, NEW w \in Kind, Process(w)
  PROVE  IInv'
<1>1. /\ TypeOK /\ Budget /\ Queued /\ queue[w] # <<>>
      /\ queue' = [queue EXCEPT ![w] = Tail(@)]
      /\ UNCHANGED <<payment, nonceRead, paid, usdc, adminNonce, count, orphans, record, faults>>
  BY DEF IInv, Flow, Process, chainVars
<1>2. /\ Queued' /\ queue' \in [Kind -> Seq(Request)]
      /\ Head(queue[w]) \in Request /\ kind[payment[Head(queue[w])]] = w
  BY <1>1, QueueTail
<1>3. PICK r \in Request : r = Head(queue[w]) /\ kind[payment[r]] = w BY <1>2
<1>4. PICK p \in Payment : p = payment[r] /\ kind[p] = w BY <1>1, <1>3 DEF TypeOK
<1>5. Grow BY <1>1, SameGrows
<1>6. PICK s : step' = [step EXCEPT ![r] = s]
               /\ \/ /\ record[p] = "full" /\ s = "done" /\ key' = key
                     /\ answer' = [answer EXCEPT ![r] = "ok"]
                  \/ /\ record[p] = "locked" /\ s = "stage" /\ UNCHANGED <<key, answer>>
                  \/ /\ record[p] \notin {"full", "locked"} /\ w \in {"wallet", "bridge"}
                     /\ s = "lock" /\ UNCHANGED <<key, answer>>
                  \/ /\ w = "seat" /\ s = "bind" /\ answer' = answer
                     /\ key' = [key EXCEPT ![r] = Initiator]
                  \/ /\ w = "seat" /\ s = "vault" /\ UNCHANGED <<key, answer>>
                  \/ /\ w = "fuel" /\ s = "paid" /\ answer' = answer
                     /\ \E k \in Key : key' = [key EXCEPT ![r] = k]
  BY <1>3, <1>4 DEF Process, Resumes, IdleConet
<1>7. /\ s \in {"done", "stage", "lock", "bind", "vault", "paid"}
      /\ step' \in [Request -> Tx \cup {"unsent", "queued", "vault", "nonce", "done", "lost"}]
      /\ step'[r] = s /\ \A q \in Request : q # r => step'[q] = step[q]
  BY <1>1, <1>6 DEF TypeOK, Tx, OnBase
<1>8. TypeOK'
  <2>1. \/ key' = key \/ \E k \in Key : key' = [key EXCEPT ![r] = k]
    BY <1>6, FulfillAssumption
  <2>2. key' \in [Request -> Key \cup {NoKey}] BY <1>1, <2>1 DEF TypeOK
  <2>3. answer' \in [Request -> {"none", "ok", "error"}] BY <1>1, <1>6 DEF TypeOK
  <2> QED BY <1>1, <1>2, <1>7, <2>2, <2>3 DEF TypeOK
<1>9. s \in OnBase => BaseIdle
  <2>1. w # "fuel" => BaseIdle BY <1>1 DEF Process, BothIdle, Kind
  <2>2. s \in OnBase => w # "fuel" BY <1>6 DEF OnBase
  <2> QED BY <2>1, <2>2
<1>10. /\ record[p] = "locked" => count[p]["lock"] > 0 /\ w = "bridge"
       /\ record[p] \in {"none", "locked", "full"}
  BY <1>1, <1>4 DEF IInv, Flow, FulfilledIsDelivered, Locks, LockedIsBridge, TypeOK
<1>11. InOrder(r)'
  <2>1. s = "lock" => w # "seat" BY <1>6
  <2>2. s = "stage" => count[p]["lock"] > 0 BY <1>6, <1>10
  <2> QED BY <1>1, <1>3, <1>4, <1>7, <2>1, <2>2 DEF InOrder
<1>12. s \in Tx \cup {"vault", "nonce"} => s \in StepsOf[w]
  BY <1>6, <1>7, <1>10 DEF StepsOf, Tx, OnBase
<1>13. /\ s = "lock" => record[p] = "none"
       /\ s \in {"stage", "points", "fee"} => record[p] # "none"
  BY <1>6, <1>7, <1>10
<1>14. Flow' BY <1>1, <1>2, <1>3, <1>4, <1>5, <1>7, <1>9, <1>11, <1>12, <1>13, FlowStays
<1>15. FulfilledIsDelivered'
  <2>1. \A q \in Request : answer'[q] = "ok" => answer[q] = "ok" \/ record[payment[q]] = "full"
    BY <1>1, <1>4, <1>6 DEF TypeOK
  <2> QED BY <1>1, <1>5, <2>1, FulfilledStays
<1>16. Budget' BY <1>1, BudgetStays
<1> QED BY <1>8, <1>14, <1>15, <1>16 DEF IInv

LEMMA VaultStep ==
  ASSUME IInv, NEW r \in Request, VaultAnswers(r)
  PROVE  IInv'
<1>1. /\ TypeOK /\ Budget /\ Queued /\ step[r] = "vault"
      /\ UNCHANGED <<payment, nonceRead, answer, paid, usdc, adminNonce, count, orphans, record,
                     faults>>
  BY DEF IInv, Flow, VaultAnswers, chainVars
<1>2. kind[payment[r]] = "seat" /\ payment[r] \in Payment
  <2>1. payment[r] \in Payment BY <1>1 DEF TypeOK
  <2>2. "vault" \in StepsOf[kind[payment[r]]] BY <1>1 DEF IInv, Flow, Kindly
  <2> QED BY <2>1, <2>2, FulfillAssumption DEF StepsOf, Kind
<1>3. Grow BY <1>1, SameGrows
<1>4. PICK s : /\ step' = [step EXCEPT ![r] = s]
               /\ \/ s = "bind" /\ BaseIdle /\ key' = [key EXCEPT ![r] = Initiator]
                     /\ queue' = queue
                  \/ s = "queued" /\ key' = key /\ queue' = [queue EXCEPT !["seat"] = <<r>> \o @]
  BY DEF VaultAnswers, BothIdle
<1>5. Queued' /\ queue' \in [Kind -> Seq(Request)]
  <2>1. CASE queue' = queue BY <1>1, <2>1 DEF Queued, TypeOK
  <2>2. CASE queue' = [queue EXCEPT !["seat"] = <<r>> \o @] BY <1>1, <1>2, <2>2, QueueHead
  <2> QED BY <1>4, <2>1, <2>2
<1>6. /\ s \in {"bind", "queued"}
      /\ step' \in [Request -> Tx \cup {"unsent", "queued", "vault", "nonce", "done", "lost"}]
      /\ step'[r] = s /\ \A q \in Request : q # r => step'[q] = step[q]
  BY <1>1, <1>4 DEF TypeOK, Tx, OnBase
<1>7. key' \in [Request -> Key \cup {NoKey}]
  BY <1>1, <1>4, FulfillAssumption DEF TypeOK
<1>8. TypeOK' BY <1>1, <1>5, <1>6, <1>7 DEF TypeOK
<1>9. InOrder(r)' BY <1>1, <1>6 DEF InOrder
<1>10. s \in Tx \cup {"vault", "nonce"} => s \in StepsOf["seat"]
  BY <1>6 DEF StepsOf, Tx, OnBase
<1>11. s \in OnBase => BaseIdle BY <1>4 DEF OnBase
<1>12. Flow' BY <1>1, <1>2, <1>3, <1>5, <1>6, <1>9, <1>10, <1>11, FlowStays
<1>13. FulfilledIsDelivered' BY <1>1, <1>3, FulfilledStays
<1>14. Budget' BY <1>1, BudgetStays
<1> QED BY <1>8, <1>12, <1>13, <1>14 DEF IInv

LEMMA NonceStep ==
  ASSUME IInv, NEW r \in Request, ReadNonce(r)
  PROVE  IInv'
<1>1. /\ TypeOK /\ Budget /\ Queued /\ step[r] = "nonce"
      /\ step' = [step EXCEPT ![r] = "create"]
      /\ nonceRead' = [nonceRead EXCEPT ![r] = adminNonce]
      /\ UNCHANGED <<queue, payment, key, answer, paid, usdc, adminNonce, count, orphans, record,
                     faults>>
  BY DEF IInv, Flow, ReadNonce, chainVars
<1>2. Grow BY <1>1, SameGrows
<1>3. /\ step' \in [Request -> Tx \cup {"unsent", "queued", "vault", "nonce", "done", "lost"}]
      /\ step'[r] = "create" /\ \A q \in Request : q # r => step'[q] = step[q]
  BY <1>1 DEF TypeOK, Tx, OnBase
<1>4. TypeOK' BY <1>1, <1>3 DEF TypeOK
<1>5. InOrder(r) /\ "nonce" \in StepsOf[kind[payment[r]]] /\ payment[r] \in Payment
  BY <1>1 DEF IInv, Flow, AllInOrder, Kindly, TypeOK
<1>6. InOrder(r)' BY <1>1, <1>3, <1>5 DEF InOrder
<1>7. "create" \in StepsOf[kind[payment[r]]]
  BY <1>5, FulfillAssumption DEF StepsOf, Kind
<1>8. Queued' BY <1>1 DEF Queued
<1>9. Flow' BY <1>1, <1>2, <1>3, <1>6, <1>7, <1>8, FlowStays DEF OnBase
<1>10. FulfilledIsDelivered' BY <1>1, <1>2, FulfilledStays
<1>11. Budget' BY <1>1, BudgetStays
<1> QED BY <1>4, <1>9, <1>10, <1>11 DEF IInv

LEMMA QuietSteps ==
  ASSUME IInv, (\E p \in Payment : Settle(p)) \/ (\E r \in Request : TakeKey(r))
  PROVE  IInv'
<1>1. TypeOK BY DEF IInv
<1>2. ASSUME NEW p \in Payment, Settle(p) PROVE IInv'
  <2>1. usdc' \in Nat BY <1>1, <1>2, FulfillAssumption DEF Settle, TypeOK
  <2>2. TypeOK' BY <1>1, <1>2, <2>1 DEF Settle, requestVars, TypeOK
  <2> QED BY <1>2, <2>2, Untouched DEF Settle, requestVars
<1>3. ASSUME NEW r \in Request, TakeKey(r) PROVE IInv'
  <2>1. PICK k \in Key : key' = [key EXCEPT ![r] = k] BY <1>3 DEF TakeKey, IdleConet
  <2>2. TypeOK' BY <1>1, <1>3, <2>1 DEF TakeKey, chainVars, TypeOK
  <2> QED BY <1>3, <2>2, Untouched DEF TakeKey, chainVars
<1> QED BY <1>2, <1>3

------------------------------------------------------------------------------
(* A step is over.                                                         *)

\* The table of the workflows: where a request goes from its step, and what the
\* file says then.
LEMMA Table ==
  ASSUME IInv, NEW r \in Request, step[r] \in Tx, NEW p \in Payment, p = payment[r]
  PROVE  \/ /\ kind[p] = "seat" /\ step[r] = "bind" /\ NextStep(r) = "lock"
            /\ Records(r) = record[p]
         \/ /\ kind[p] = "seat" /\ step[r] = "lock" /\ NextStep(r) = "nonce"
            /\ Records(r) = record[p]
         \/ /\ kind[p] = "seat" /\ step[r] = "create" /\ NextStep(r) = "claim"
            /\ Records(r) = record[p]
         \/ /\ kind[p] = "seat" /\ step[r] = "claim" /\ NextStep(r) = "done"
            /\ Records(r) = "full"
         \/ /\ kind[p] = "wallet" /\ step[r] = "lock" /\ NextStep(r) = "done"
            /\ Records(r) = "full"
         \/ /\ kind[p] = "bridge" /\ step[r] = "lock" /\ NextStep(r) = "stage"
            /\ Records(r) = "locked"
         \/ /\ kind[p] = "bridge" /\ step[r] = "stage" /\ NextStep(r) = "points"
            /\ Records(r) = record[p]
         \/ /\ kind[p] = "bridge" /\ step[r] = "points" /\ NextStep(r) = "fee"
            /\ Records(r) = "full"
         \/ /\ kind[p] = "bridge" /\ step[r] = "fee" /\ NextStep(r) = "done"
            /\ Records(r) = record[p]
         \/ /\ kind[p] = "fuel" /\ step[r] = "paid" /\ NextStep(r) = "free"
            /\ Records(r) = record[p]
         \/ /\ kind[p] = "fuel" /\ step[r] = "free" /\ NextStep(r) = "ket"
            /\ Records(r) = record[p]
         \/ /\ kind[p] = "fuel" /\ step[r] = "ket" /\ NextStep(r) = "done"
            /\ Records(r) = "full"
<1>1. step[r] \in StepsOf[kind[p]] /\ kind[p] \in Kind
  BY FulfillAssumption DEF IInv, Flow, Kindly
<1>2. CASE kind[p] = "seat"
  <2>1. step[r] \in {"bind", "lock", "create", "claim"} BY <1>1, <1>2 DEF StepsOf, Tx, OnBase
  <2> QED BY <1>2, <2>1 DEF NextStep, Records
<1>3. CASE kind[p] = "wallet"
  <2>1. step[r] = "lock" BY <1>1, <1>3 DEF StepsOf
  <2> QED BY <1>3, <2>1 DEF NextStep, Records
<1>4. CASE kind[p] = "bridge"
  <2>1. step[r] \in {"lock", "stage", "points", "fee"} BY <1>1, <1>4 DEF StepsOf
  <2> QED BY <1>4, <2>1 DEF NextStep, Records
<1>5. CASE kind[p] = "fuel"
  <2>1. step[r] \in {"paid", "free", "ket"} BY <1>1, <1>5 DEF StepsOf
  <2> QED BY <1>5, <2>1 DEF NextStep, Records
<1> QED BY <1>1, <1>2, <1>3, <1>4, <1>5 DEF Kind

\* What Advance needs to know of the step: nothing is skipped that was paid for.
LEMMA AdvanceStep ==
  ASSUME IInv, NEW r \in Request, step[r] \in Tx, Advance(r), Grow,
         UNCHANGED <<queue, payment>>,
         count'[payment[r]][step[r]] > 0 \/ step[r] \in {"stage", "free", "ket"}
  PROVE  /\ Flow' /\ FulfilledIsDelivered'
         /\ step' \in [Request -> Tx \cup {"unsent", "queued", "vault", "nonce", "done", "lost"}]
         /\ key' \in [Request -> Key \cup {NoKey}]
         /\ record' \in [Payment -> {"none", "locked", "full"}]
         /\ answer' \in [Request -> {"none", "ok", "error"}]
         /\ \A p \in Payment : record'[p] = "none" => record[p] = "none"
         /\ step[r] = "lock" /\ kind[payment[r]] # "seat" => record'[payment[r]] # "none"
<1>1. TypeOK /\ payment[r] \in Payment BY DEF IInv, TypeOK
<1>2. PICK p \in Payment : p = payment[r] BY <1>1
<1>3. PICK s \in Tx : s = step[r] OBVIOUS
<1>4. PICK n : n = NextStep(r) OBVIOUS
<1>5. PICK f : f = Records(r) OBVIOUS
<1> DEFINE Row == \/ kind[p] = "seat" /\ s = "bind" /\ n = "lock" /\ f = record[p]
                  \/ kind[p] = "seat" /\ s = "lock" /\ n = "nonce" /\ f = record[p]
                  \/ kind[p] = "seat" /\ s = "create" /\ n = "claim" /\ f = record[p]
                  \/ kind[p] = "seat" /\ s = "claim" /\ n = "done" /\ f = "full"
                  \/ kind[p] = "wallet" /\ s = "lock" /\ n = "done" /\ f = "full"
                  \/ kind[p] = "bridge" /\ s = "lock" /\ n = "stage" /\ f = "locked"
                  \/ kind[p] = "bridge" /\ s = "stage" /\ n = "points" /\ f = record[p]
                  \/ kind[p] = "bridge" /\ s = "points" /\ n = "fee" /\ f = "full"
                  \/ kind[p] = "bridge" /\ s = "fee" /\ n = "done" /\ f = record[p]
                  \/ kind[p] = "fuel" /\ s = "paid" /\ n = "free" /\ f = record[p]
                  \/ kind[p] = "fuel" /\ s = "free" /\ n = "ket" /\ f = record[p]
                  \/ kind[p] = "fuel" /\ s = "ket" /\ n = "done" /\ f = "full"
<1>6. Row BY <1>2, <1>3, <1>4, <1>5, Table
<1> HIDE DEF Row
<1>7. /\ step' = [step EXCEPT ![r] = n] /\ record' = [record EXCEPT ![p] = f]
      /\ key' = [key EXCEPT ![r] = IF step[r] \in KeepsKey THEN @ ELSE NoKey]
      /\ answer' = [answer EXCEPT ![r] = IF @ = "none" /\ f = "full" THEN "ok" ELSE @]
      /\ UNCHANGED <<queue, payment>>
  BY <1>2, <1>4, <1>5 DEF Advance
<1>8. record[p] \in {"none", "locked", "full"} BY <1>1 DEF TypeOK
<1>9. f \in {"none", "locked", "full"} /\ (f = "none" => record[p] = "none")
  BY <1>6, <1>8 DEF Row
<1>10. n \in {"lock", "nonce", "claim", "done", "stage", "points", "fee", "free", "ket"}
  BY <1>6 DEF Row
<1>11. /\ step' \in [Request -> Tx \cup {"unsent", "queued", "vault", "nonce", "done", "lost"}]
       /\ step'[r] = n /\ \A q \in Request : q # r => step'[q] = step[q]
  BY <1>1, <1>7, <1>10 DEF TypeOK, Tx, OnBase
<1>12. /\ record' \in [Payment -> {"none", "locked", "full"}]
       /\ record'[p] = f /\ \A q \in Payment : q # p => record'[q] = record[q]
  BY <1>1, <1>7, <1>9 DEF TypeOK
<1>13. /\ key' \in [Request -> Key \cup {NoKey}]
       /\ answer' \in [Request -> {"none", "ok", "error"}]
  BY <1>1, <1>7 DEF TypeOK
<1>14. \A t \in Tx : count[p][t] > 0 => count'[p][t] > 0 BY <1>1 DEF TypeOK, Grow
<1>15. /\ s = "lock" /\ kind[p] = "seat" => count'[p]["bind"] > 0
       /\ s \in {"nonce", "create", "claim"} => count'[p]["bind"] > 0 /\ count'[p]["lock"] > 0
       /\ s = "claim" => count'[p]["create"] > 0
       /\ s \in {"stage", "points", "fee"} => count'[p]["lock"] > 0
       /\ s \in {"free", "ket"} => count'[p]["paid"] > 0
  BY <1>2, <1>3, <1>14 DEF IInv, Flow, AllInOrder, InOrder, Tx, OnBase
<1>16. count'[p][s] > 0 \/ s \in {"stage", "free", "ket"} BY <1>2, <1>3
<1>17. InOrder(r)'
  <2>1. /\ n = "lock" /\ kind[p] = "seat" => count'[p]["bind"] > 0
        /\ n \in {"nonce", "create", "claim"} => count'[p]["bind"] > 0 /\ count'[p]["lock"] > 0
        /\ n = "claim" => count'[p]["create"] > 0
        /\ n \in {"stage", "points", "fee"} => count'[p]["lock"] > 0
        /\ n \in {"free", "ket"} => count'[p]["paid"] > 0
    BY <1>6, <1>15, <1>16 DEF Row
  <2> QED BY <1>2, <1>7, <1>11, <2>1 DEF InOrder
<1>18. /\ n \in Tx \cup {"vault", "nonce"} => n \in StepsOf[kind[p]]
       /\ n \in OnBase => s \in OnBase
       /\ ~(n = "lock" /\ kind[p] # "seat")
  BY <1>6 DEF StepsOf, Tx, OnBase, Row
<1>19. n \in {"stage", "points", "fee"} => f # "none"
  <2>1. s \in {"stage", "points", "fee"} => record[p] # "none"
    BY <1>2, <1>3 DEF IInv, Flow, FileFits
  <2> QED BY <1>6, <2>1 DEF Row
<1>20. \/ f = record[p]
       \/ /\ f # "none" /\ (f = "locked" => kind[p] = "bridge")
          /\ \A q \in Request : q # r /\ payment[q] = p /\ kind[p] # "seat" => step[q] # "lock"
  <2> SUFFICES ASSUME f # record[p],
                      NEW q \in Request, q # r, payment[q] = p, kind[p] # "seat", step[q] = "lock"
               PROVE  FALSE
    BY <1>6 DEF Row
  <2>1. record[p] = "none" BY DEF IInv, Flow, FileFits
  <2>2. CASE s = "lock" BY <1>3, <2>2 DEF IInv, Flow, OneOnBase, OnBase
  <2>3. CASE s = "points" BY <1>2, <1>3, <2>1, <2>3 DEF IInv, Flow, FileFits
  <2>4. CASE s = "ket"
    <3>1. kind[p] = "fuel" BY <1>6, <2>4 DEF Row
    <3>2. step[q] \in StepsOf["fuel"] BY <3>1 DEF IInv, Flow, Kindly, Tx, OnBase
    <3> QED BY <3>2 DEF StepsOf
  <2> QED BY <1>6, <2>2, <2>3, <2>4 DEF Row
<1>21. Queued' BY <1>7 DEF IInv, Flow, Queued
<1>22. Flow'
  <2>1. \A q \in Payment :
          \/ record'[q] = record[q]
          \/ /\ record'[q] # "none" /\ (record'[q] = "locked" => kind[q] = "bridge")
             /\ \A u \in Request : u # r /\ payment[u] = q /\ kind[q] # "seat" => step[u] # "lock"
    BY <1>12, <1>20
  <2> QED BY <1>2, <1>3, <1>7, <1>11, <1>12, <1>17, <1>18, <1>19, <1>21, <2>1, FlowStays
<1>23. /\ f = "full" => \A t \in Owed[kind[p]] : count'[p][t] > 0
       /\ f = "locked" => count'[p]["lock"] > 0
  <2>1. CASE f = record[p]
    <3>1. /\ f = "full" => Delivered(p)
          /\ f = "locked" => Locks(p) > 0
      BY <2>1 DEF IInv, FulfilledIsDelivered
    <3>2. "lock" \in Tx /\ Owed[kind[p]] \subseteq Tx BY OwedType DEF Tx, OnBase
    <3> QED BY <1>14, <3>1, <3>2 DEF Delivered, Locks
  <2>2. CASE f # record[p]
    BY <1>6, <1>15, <1>16, <2>2 DEF Owed, Row
  <2> QED BY <2>1, <2>2
<1>24. FulfilledIsDelivered'
  <2>1. ASSUME NEW q \in Payment
        PROVE  (record'[q] = "full" => Delivered(q)') /\ (record'[q] = "locked" => Locks(q)' > 0)
    <3>1. CASE q = p BY <1>12, <1>23, <3>1 DEF Delivered, Locks
    <3>2. CASE q # p
      BY <1>1, <1>12, <3>2, DeliveredStays DEF IInv, FulfilledIsDelivered
    <3> QED BY <3>1, <3>2
  <2>2. ASSUME NEW q \in Request, answer'[q] = "ok" PROVE Delivered(payment[q])'
    <3>1. PICK o \in Payment : o = payment[q] BY <1>1 DEF TypeOK
    <3>2. (answer[q] = "ok" /\ Delivered(o)) \/ (q = r /\ f = "full")
      BY <1>1, <1>7, <2>2, <3>1 DEF TypeOK, IInv, FulfilledIsDelivered
    <3>3. \A t \in Owed[kind[o]] : count'[o][t] > 0
      <4>1. CASE q = r /\ f = "full" BY <1>2, <1>23, <3>1, <4>1
      <4>2. CASE Delivered(o)
        <5>1. \A t \in Tx : count[o][t] \in Nat /\ count'[o][t] >= count[o][t]
                           /\ count'[o][t] \in Nat
          BY <1>1 DEF TypeOK, Grow
        <5> QED BY <4>2, <5>1, OwedType DEF Delivered
      <4> QED BY <3>2, <4>1, <4>2
    <3> QED BY <1>7, <3>1, <3>3 DEF Delivered
  <2> QED BY <2>1, <2>2 DEF FulfilledIsDelivered
<1>25. \A q \in Payment : record'[q] = "none" => record[q] = "none" BY <1>9, <1>12
<1>26. s = "lock" /\ kind[p] # "seat" => f # "none" BY <1>6 DEF Row
<1> QED BY <1>2, <1>3, <1>11, <1>12, <1>13, <1>22, <1>24, <1>25, <1>26

LEMMA SendingType == ASSUME TypeOK, NEW r \in Request, Sending(r) PROVE step[r] \in Tx
BY DEF Sending

LEMMA MinedStep ==
  ASSUME IInv, NEW r \in Request, Mined(r)
  PROVE  IInv'
<1>1. /\ TypeOK /\ Budget /\ Sending(r) /\ CanMine(r, step[r]) /\ Mine(r, step[r]) /\ Advance(r)
      /\ UNCHANGED <<queue, payment, nonceRead, paid, orphans, faults>>
  BY DEF IInv, Mined
<1>2. PICK t \in Tx : t = step[r] BY <1>1, SendingType
<1>3. CanMine(r, t) /\ Mine(r, t) BY <1>1, <1>2
<1>4. /\ Grow /\ count'[payment[r]][t] > 0
      /\ usdc' \in Nat /\ adminNonce' \in Nat
      /\ \A p \in Payment : count'[p]["lock"] =
           IF p = payment[r] /\ t = "lock" THEN count[p]["lock"] + 1 ELSE count[p]["lock"]
  BY <1>1, <1>3, MineEffect
<1>5. /\ Flow' /\ FulfilledIsDelivered'
      /\ step' \in [Request -> Tx \cup {"unsent", "queued", "vault", "nonce", "done", "lost"}]
      /\ key' \in [Request -> Key \cup {NoKey}]
      /\ record' \in [Payment -> {"none", "locked", "full"}]
      /\ answer' \in [Request -> {"none", "ok", "error"}]
      /\ \A p \in Payment : record'[p] = "none" => record[p] = "none"
      /\ t = "lock" /\ kind[payment[r]] # "seat" => record'[payment[r]] # "none"
  BY <1>1, <1>2, <1>4, AdvanceStep
<1>6. TypeOK' BY <1>1, <1>4, <1>5 DEF TypeOK, Grow
<1>7. Budget'
  <2>1. ASSUME NEW p \in Payment, kind[p] \in {"wallet", "bridge"}
        PROVE  LockSum(p)' <= 1 + faults /\ (record'[p] = "none" => LockSum(p)' <= faults)
    <3>1. LateLocks(p)' = LateLocks(p) BY <1>1 DEF LateLocks
    <3>2. Locks(p) \in Nat /\ faults \in Nat BY <1>1 DEF TypeOK, Locks, Tx, OnBase
    <3>3. Cardinality(LateLocks(p)) \in Nat BY LateLocksFinite
    <3>4. /\ LockSum(p) <= 1 + faults
          /\ record[p] = "none" => LockSum(p) <= faults
      BY <2>1, <1>1 DEF Budget
    <3>5. CASE p = payment[r] /\ t = "lock"
      <4>1. record[p] = "none" BY <1>2, <2>1, <3>5 DEF IInv, Flow, FileFits
      <4>2. record'[p] # "none" BY <1>5, <2>1, <3>5
      <4>3. Locks(p)' = Locks(p) + 1 BY <1>4, <3>5 DEF Locks
      <4> QED BY <3>1, <3>2, <3>3, <3>4, <4>1, <4>2, <4>3 DEF LockSum
    <3>6. CASE ~(p = payment[r] /\ t = "lock")
      <4>1. Locks(p)' = Locks(p) BY <1>4, <3>6 DEF Locks
      <4> QED BY <1>5, <3>1, <3>4, <4>1 DEF LockSum
    <3> QED BY <3>5, <3>6
  <2> QED BY <1>1, <2>1 DEF Budget
<1> QED BY <1>5, <1>6, <1>7 DEF IInv

LEMMA SkippedStep ==
  ASSUME IInv, NEW r \in Request, Skipped(r)
  PROVE  IInv'
<1>1. /\ TypeOK /\ Budget /\ step[r] \in {"stage", "free", "ket"} /\ step[r] \in Tx /\ Advance(r)
      /\ UNCHANGED <<queue, payment, nonceRead, paid, usdc, adminNonce, count, orphans, faults>>
  BY DEF IInv, Skipped, Sending, chainVars
<1>2. Grow BY <1>1, SameGrows
<1>3. /\ Flow' /\ FulfilledIsDelivered'
      /\ step' \in [Request -> Tx \cup {"unsent", "queued", "vault", "nonce", "done", "lost"}]
      /\ key' \in [Request -> Key \cup {NoKey}]
      /\ record' \in [Payment -> {"none", "locked", "full"}]
      /\ answer' \in [Request -> {"none", "ok", "error"}]
      /\ \A p \in Payment : record'[p] = "none" => record[p] = "none"
  BY <1>1, <1>2, AdvanceStep
<1>4. TypeOK' BY <1>1, <1>3 DEF TypeOK
<1>5. Budget' BY <1>1, <1>3, BudgetStays
<1> QED BY <1>3, <1>4, <1>5 DEF IInv

------------------------------------------------------------------------------
(* Failures and restarts.                                                  *)

LEMMA LateGrows ==
  ASSUME TypeOK, NEW p \in Payment, count'[p]["lock"] = count[p]["lock"]
  PROVE  /\ LockSum(p)' \in Nat
         /\ LateLocks(p)' \subseteq LateLocks(p) => LockSum(p)' <= LockSum(p)
         /\ \A r \in Request : LateLocks(p)' \subseteq LateLocks(p) \cup {r}
                               => LockSum(p)' <= LockSum(p) + 1
<1>1. /\ IsFiniteSet(LateLocks(p)) /\ Cardinality(LateLocks(p)) \in Nat
      /\ IsFiniteSet(LateLocks(p)') /\ Cardinality(LateLocks(p)') \in Nat
  BY LateLocksFinite
<1>2. Locks(p) \in Nat /\ Locks(p)' = Locks(p) BY DEF TypeOK, Locks, Tx, OnBase
<1>3. LateLocks(p)' \subseteq LateLocks(p) => LockSum(p)' <= LockSum(p)
  <2>1. LateLocks(p)' \subseteq LateLocks(p)
          => Cardinality(LateLocks(p)') <= Cardinality(LateLocks(p))
    BY <1>1, FS_Subset
  <2> QED BY <1>1, <1>2, <2>1 DEF LockSum
<1>4. ASSUME NEW r \in Request, LateLocks(p)' \subseteq LateLocks(p) \cup {r}
      PROVE  LockSum(p)' <= LockSum(p) + 1
  <2>0. /\ IsFiniteSet(LateLocks(p) \cup {r})
        /\ \/ Cardinality(LateLocks(p) \cup {r}) = Cardinality(LateLocks(p))
           \/ Cardinality(LateLocks(p) \cup {r}) = Cardinality(LateLocks(p)) + 1
    BY <1>1, FS_AddElement
  <2>1. /\ IsFiniteSet(LateLocks(p) \cup {r})
        /\ Cardinality(LateLocks(p) \cup {r}) \in Nat
        /\ Cardinality(LateLocks(p) \cup {r}) <= Cardinality(LateLocks(p)) + 1
    BY <1>1, <2>0
  <2>2. Cardinality(LateLocks(p)') <= Cardinality(LateLocks(p) \cup {r})
    BY <1>4, <2>1, FS_Subset
  <2> QED BY <1>1, <1>2, <2>1, <2>2 DEF LockSum
<1>5. LockSum(p)' \in Nat BY <1>1, <1>2 DEF LockSum
<1> QED BY <1>3, <1>4, <1>5

\* An error or a restart pays for one lock mint of a payment without a record,
\* and for the loss of any record.
LEMMA FaultBudget ==
  ASSUME TypeOK, Budget, faults' = faults + 1,
         \A p \in Payment : kind[p] \in {"wallet", "bridge"} =>
           /\ LockSum(p)' \in Nat
           /\ \/ LockSum(p)' <= LockSum(p)
              \/ LockSum(p)' <= LockSum(p) + 1 /\ record[p] = "none"
  PROVE  Budget'
<1>1. faults \in Nat BY DEF TypeOK
<1>2. ASSUME NEW p \in Payment, kind[p] \in {"wallet", "bridge"} PROVE LockSum(p)' <= faults'
  <2>1. LockSum(p) \in Nat
    BY LateLocksFinite DEF TypeOK, LockSum, Locks, Tx, OnBase
  <2>2. /\ LockSum(p) <= 1 + faults
        /\ record[p] = "none" => LockSum(p) <= faults
    BY <1>2 DEF Budget
  <2> QED BY <1>1, <1>2, <2>1, <2>2
<1>3. ASSUME NEW p \in Payment, kind[p] \in {"wallet", "bridge"}
      PROVE LockSum(p)' <= 1 + faults' /\ LockSum(p)' <= faults'
  <2>1. LockSum(p)' \in Nat BY <1>3
  <2> QED BY <1>1, <1>2, <1>3, <2>1
<1> QED BY <1>3 DEF Budget

\* A sum that stays, or grows by what only a request locking now may add.
Within(p) == /\ LockSum(p)' \in Nat
             /\ \/ LockSum(p)' <= LockSum(p)
                \/ LockSum(p)' <= LockSum(p) + 1 /\ record[p] = "none"

LEMMA LateWithin ==
  ASSUME IInv, NEW p \in Payment, kind[p] \in {"wallet", "bridge"}, NEW r \in Request,
         count'[p]["lock"] = count[p]["lock"],
         LateLocks(p)' \subseteq LateLocks(p)
           \cup {q \in {r} : step[q] = "lock" /\ payment[q] = p}
  PROVE  Within(p)
<1>1. TypeOK BY DEF IInv
<1>2. CASE step[r] = "lock" /\ payment[r] = p
  <2>1. record[p] = "none" BY <1>2 DEF IInv, Flow, FileFits
  <2>2. LateLocks(p)' \subseteq LateLocks(p) \cup {r} OBVIOUS
  <2> QED BY <1>1, <2>1, <2>2, LateGrows DEF Within
<1>3. CASE ~(step[r] = "lock" /\ payment[r] = p)
  <2>1. LateLocks(p)' \subseteq LateLocks(p) BY <1>3
  <2> QED BY <1>1, <2>1, LateGrows DEF Within
<1> QED BY <1>2, <1>3

LEMMA BonusStep ==
  ASSUME IInv, NEW r \in Request, BonusFails(r)
  PROVE  IInv'
<1>1. /\ TypeOK /\ Budget /\ step[r] = "free" /\ step[r] \in Tx /\ Advance(r)
      /\ faults < MaxFaults /\ faults' = faults + 1
      /\ orphans' = orphans \/ orphans' = orphans \cup {<<r, "free">>}
      /\ UNCHANGED <<queue, payment, nonceRead, paid, usdc, adminNonce, count>>
  BY DEF IInv, BonusFails, Sending
<1>2. Grow BY <1>1, SameGrows
<1>3. /\ Flow' /\ FulfilledIsDelivered'
      /\ step' \in [Request -> Tx \cup {"unsent", "queued", "vault", "nonce", "done", "lost"}]
      /\ key' \in [Request -> Key \cup {NoKey}]
      /\ record' \in [Payment -> {"none", "locked", "full"}]
      /\ answer' \in [Request -> {"none", "ok", "error"}]
  BY <1>1, <1>2, AdvanceStep
<1>4. TypeOK'
  <2>1. orphans' \in SUBSET (Request \X Tx) BY <1>1 DEF TypeOK
  <2>2. faults' \in 0 .. MaxFaults BY <1>1, FulfillAssumption DEF TypeOK
  <2> QED BY <1>1, <1>3, <2>1, <2>2 DEF TypeOK
<1>5. Budget'
  <2>1. ASSUME NEW p \in Payment, kind[p] \in {"wallet", "bridge"} PROVE Within(p)
    <3>1. LateLocks(p)' = LateLocks(p) BY <1>1 DEF LateLocks
    <3> QED BY <1>1, <2>1, <3>1, LateWithin
  <2> QED BY <1>1, <2>1, FaultBudget DEF Within
<1> QED BY <1>3, <1>4, <1>5 DEF IInv

\* A request given up keeps what is on chain and on file.
LEMMA AbortKeeps ==
  ASSUME IInv, NEW r \in Request, step[r] # "unsent", Abort(r), count' = count
  PROVE  /\ Flow' /\ FulfilledIsDelivered'
         /\ queue' \in [Kind -> Seq(Request)] /\ payment' \in [Request -> Payment]
         /\ step' \in [Request -> Tx \cup {"unsent", "queued", "vault", "nonce", "done", "lost"}]
         /\ key' \in [Request -> Key \cup {NoKey}]
         /\ nonceRead' \in [Request -> Nat]
         /\ record' \in [Payment -> {"none", "locked", "full"}]
         /\ answer' \in [Request -> {"none", "ok", "error"}]
<1>1. /\ TypeOK
      /\ step' = [step EXCEPT ![r] = "done"] /\ key' = [key EXCEPT ![r] = NoKey]
      /\ answer' = [answer EXCEPT ![r] = IF @ = "none" THEN "error" ELSE @]
      /\ UNCHANGED <<queue, payment, nonceRead, record>>
  BY DEF IInv, Abort
<1>2. Grow BY <1>1, SameGrows
<1>3. /\ step' \in [Request -> Tx \cup {"unsent", "queued", "vault", "nonce", "done", "lost"}]
      /\ step'[r] = "done" /\ \A q \in Request : q # r => step'[q] = step[q]
      /\ key' \in [Request -> Key \cup {NoKey}]
      /\ answer' \in [Request -> {"none", "ok", "error"}]
      /\ \A q \in Request : answer'[q] = "ok" => answer[q] = "ok"
  BY <1>1 DEF TypeOK
<1>4. InOrder(r)' BY <1>3 DEF InOrder
<1>5. Queued' BY <1>1 DEF IInv, Flow, Queued
<1>6. Flow' BY <1>1, <1>2, <1>3, <1>4, <1>5, FlowStays DEF Tx, OnBase
<1>7. FulfilledIsDelivered' BY <1>1, <1>2, <1>3, FulfilledStays
<1> QED BY <1>1, <1>3, <1>6, <1>7 DEF TypeOK

LEMMA AbortStep ==
  ASSUME IInv, NEW r \in Request, NoIdleKey(r) \/ Refused(r)
  PROVE  IInv'
<1>1. /\ TypeOK /\ Budget /\ Abort(r) /\ step[r] # "unsent"
      /\ UNCHANGED <<paid, usdc, adminNonce, count, orphans, faults>>
  BY DEF IInv, NoIdleKey, Refused, Keyless, Sending, chainVars, Tx, OnBase
<1>2. UNCHANGED <<payment, record>> BY <1>1 DEF Abort
<1>3. Budget' BY <1>1, <1>2, BudgetStays
<1> QED BY <1>1, <1>3, AbortKeeps DEF IInv, TypeOK

LEMMA FailStep ==
  ASSUME IInv, NEW r \in Request, StepFails(r)
  PROVE  IInv'
<1>1. /\ TypeOK /\ Budget /\ Abort(r) /\ step[r] # "unsent"
      /\ faults < MaxFaults /\ faults' = faults + 1
      /\ orphans' = orphans \/ (Sending(r) /\ orphans' = orphans \cup {<<r, step[r]>>})
      /\ UNCHANGED <<paid, usdc, adminNonce, count>>
  BY DEF IInv, StepFails, Keyless, Sending, Tx, OnBase
<1>2. UNCHANGED <<payment, record>> BY <1>1 DEF Abort
<1>3. TypeOK'
  <2>1. orphans' \in SUBSET (Request \X Tx) BY <1>1, SendingType DEF TypeOK
  <2>2. faults' \in 0 .. MaxFaults BY <1>1, FulfillAssumption DEF TypeOK
  <2> QED BY <1>1, <2>1, <2>2, AbortKeeps DEF TypeOK
<1>4. Budget'
  <2>1. ASSUME NEW p \in Payment, kind[p] \in {"wallet", "bridge"} PROVE Within(p)
    <3>1. LateLocks(p)' \subseteq LateLocks(p)
            \cup {q \in {r} : step[q] = "lock" /\ payment[q] = p}
      BY <1>1, <1>2 DEF LateLocks
    <3> QED BY <1>1, <2>1, <3>1, LateWithin
  <2> QED BY <1>1, <2>1, FaultBudget DEF Within
<1> QED BY <1>1, <1>3, <1>4, AbortKeeps DEF IInv

\* A transaction mined late was in its sum before.
LEMMA LateStep ==
  ASSUME IInv, NEW r \in Request, NEW t \in Tx, MinedLate(r, t)
  PROVE  IInv'
<1>1. /\ TypeOK /\ Budget /\ <<r, t>> \in orphans /\ CanMine(r, t) /\ Mine(r, t)
      /\ orphans' = orphans \ {<<r, t>>}
      /\ UNCHANGED <<queue, payment, step, key, nonceRead, answer, paid, record, faults>>
  BY DEF IInv, MinedLate, requestVars
<1>2. /\ Grow /\ usdc' \in Nat /\ adminNonce' \in Nat
      /\ \A p \in Payment : count'[p]["lock"] =
           IF p = payment[r] /\ t = "lock" THEN count[p]["lock"] + 1 ELSE count[p]["lock"]
  BY <1>1, MineEffect
<1>3. TypeOK' BY <1>1, <1>2 DEF TypeOK, Grow
<1>4. Flow'
  <2>1. AllInOrder' BY <1>1, <1>2, OrderStays DEF IInv, Flow, AllInOrder
  <2> QED BY <1>1, <2>1 DEF IInv, Flow, Queued, Kindly, OneOnBase, FileFits, LockedIsBridge
<1>5. FulfilledIsDelivered' BY <1>1, <1>2, FulfilledStays
<1>6. Budget'
  <2>1. ASSUME NEW p \in Payment PROVE LockSum(p)' = LockSum(p)
    <3>1. CASE p = payment[r] /\ t = "lock"
      <4>1. r \in LateLocks(p) /\ LateLocks(p)' = LateLocks(p) \ {r}
        BY <1>1, <3>1 DEF LateLocks
      <4>2. Cardinality(LateLocks(p)') = Cardinality(LateLocks(p)) - 1
        BY <4>1, LateLocksFinite, FS_RemoveElement
      <4>3. Locks(p)' = Locks(p) + 1 /\ Locks(p) \in Nat
        BY <1>1, <1>2, <3>1 DEF Locks, TypeOK, Tx, OnBase
      <4>4. Cardinality(LateLocks(p)) \in Nat BY LateLocksFinite
      <4> QED BY <4>2, <4>3, <4>4 DEF LockSum
    <3>2. CASE ~(p = payment[r] /\ t = "lock")
      <4>1. LateLocks(p)' = LateLocks(p) BY <1>1, <3>2 DEF LateLocks
      <4> QED BY <1>2, <3>2, <4>1 DEF LockSum, Locks
    <3> QED BY <3>1, <3>2
  <2> QED BY <1>1, <2>1 DEF Budget
<1> QED BY <1>3, <1>4, <1>5, <1>6 DEF IInv

\* A restart leaves no request under way and forgets records at most.
LEMMA ForgetKeeps ==
  ASSUME IInv, NEW S \in SUBSET Senders, Forget(S), Grow,
         record' \in [Payment -> {"none", "locked", "full"}],
         \A p \in Payment : record'[p] = record[p] \/ record'[p] = "none",
         usdc' \in Nat, adminNonce' \in Nat
  PROVE  TypeOK' /\ Flow' /\ FulfilledIsDelivered'
<1>1. /\ TypeOK /\ faults < MaxFaults /\ faults' = faults + 1
      /\ queue' = [w \in Kind |-> <<>>] /\ key' = [r \in Request |-> NoKey]
      /\ step' = [r \in Request |-> IF step[r] \in {"unsent", "done"} THEN step[r] ELSE "lost"]
      /\ orphans' = orphans \cup {<<r, step[r]>> : r \in S}
      /\ UNCHANGED <<payment, nonceRead, answer, paid>>
  BY DEF IInv, Forget
<1>2. \A r \in Request : step'[r] \in {"unsent", "done", "lost"} BY <1>1
<1>3. TypeOK'
  <2>1. orphans' \in SUBSET (Request \X Tx) BY <1>1, SendingType DEF TypeOK, Senders
  <2>2. faults' \in 0 .. MaxFaults BY <1>1, FulfillAssumption DEF TypeOK
  <2>3. step' \in [Request -> Tx \cup {"unsent", "queued", "vault", "nonce", "done", "lost"}]
    BY <1>1
  <2>4. queue' \in [Kind -> Seq(Request)] BY <1>1
  <2>5. key' \in [Request -> Key \cup {NoKey}] BY <1>1
  <2> QED BY <1>1, <2>1, <2>2, <2>3, <2>4, <2>5 DEF TypeOK, Grow
<1>4. Flow'
  <2>1. Queued' BY <1>1 DEF Queued
  <2>2. Kindly' /\ AllInOrder' /\ OneOnBase' /\ FileFits'
    BY <1>2 DEF Kindly, AllInOrder, InOrder, OneOnBase, FileFits, Tx, OnBase
  <2>3. LockedIsBridge' BY DEF IInv, Flow, LockedIsBridge
  <2> QED BY <2>1, <2>2, <2>3 DEF Flow
<1>5. FulfilledIsDelivered' BY <1>1, FulfilledStays
<1> QED BY <1>3, <1>4, <1>5

LEMMA RestartStep ==
  ASSUME IInv, Restart
  PROVE  IInv'
<1>1. PICK S \in SUBSET Senders : Forget(S) BY DEF Restart
<1>2. /\ TypeOK /\ Budget /\ UNCHANGED <<usdc, adminNonce, count, record>>
      /\ faults' = faults + 1 /\ payment' = payment
      /\ orphans' = orphans \cup {<<r, step[r]>> : r \in S}
  BY <1>1 DEF IInv, Restart, Forget
<1>3. Grow BY <1>2, SameGrows
<1>4. TypeOK' /\ Flow' /\ FulfilledIsDelivered' BY <1>1, <1>2, <1>3, ForgetKeeps DEF TypeOK
<1>5. Budget'
  <2>1. ASSUME NEW p \in Payment, kind[p] \in {"wallet", "bridge"} PROVE Within(p)
    <3>1. CASE \E r \in Request : step[r] = "lock" /\ payment[r] = p
      <4>1. PICK r \in Request : step[r] = "lock" /\ payment[r] = p BY <3>1
      <4>2. \A q \in Request : step[q] = "lock" => q = r
        BY <4>1 DEF IInv, Flow, OneOnBase, OnBase
      <4>3. LateLocks(p)' \subseteq LateLocks(p)
              \cup {q \in {r} : step[q] = "lock" /\ payment[q] = p}
        BY <1>2, <4>1, <4>2 DEF LateLocks, Senders
      <4> QED BY <1>2, <2>1, <4>3, LateWithin
    <3>2. CASE ~\E r \in Request : step[r] = "lock" /\ payment[r] = p
      <4>1. LateLocks(p)' \subseteq LateLocks(p) BY <1>2, <3>2 DEF LateLocks, Senders
      <4> QED BY <1>2, <4>1, LateGrows DEF Within
    <3> QED BY <3>1, <3>2
  <2> QED BY <1>2, <2>1, FaultBudget DEF Within
<1> QED BY <1>4, <1>5 DEF IInv

\* The file of r's worker is lost in the write: its payments may be locked
\* again, at the price of this restart.
LEMMA RestartInWriteStep ==
  ASSUME IInv, NEW r \in Request, RestartInWrite(r)
  PROVE  IInv'
<1>1. PICK S \in SUBSET (Senders \ {r}) : Forget(S) BY DEF RestartInWrite
<1>2. /\ TypeOK /\ Budget /\ Sending(r) /\ CanMine(r, step[r]) /\ Mine(r, step[r])
      /\ faults' = faults + 1 /\ payment' = payment
      /\ orphans' = orphans \cup {<<q, step[q]>> : q \in S}
  BY <1>1 DEF IInv, RestartInWrite, Forget
<1>3. PICK t \in Tx : t = step[r] BY <1>2, SendingType
<1>4. CanMine(r, t) /\ Mine(r, t) BY <1>2, <1>3
<1>5. /\ Grow /\ usdc' \in Nat /\ adminNonce' \in Nat
      /\ \A p \in Payment : count'[p]["lock"] =
           IF p = payment[r] /\ t = "lock" THEN count[p]["lock"] + 1 ELSE count[p]["lock"]
  BY <1>2, <1>4, MineEffect
<1>6. /\ record' \in [Payment -> {"none", "locked", "full"}]
      /\ \A p \in Payment : record'[p] = record[p] \/ record'[p] = "none"
  BY <1>2 DEF RestartInWrite, TypeOK
<1>7. TypeOK' /\ Flow' /\ FulfilledIsDelivered' BY <1>1, <1>5, <1>6, ForgetKeeps
<1>8. Budget'
  <2>1. ASSUME NEW p \in Payment, kind[p] \in {"wallet", "bridge"}, t = "lock" PROVE Within(p)
    <3>1. \A q \in S : step[q] # "lock"
      BY <1>3, <2>1 DEF IInv, Flow, OneOnBase, OnBase, Senders
    <3>2. LateLocks(p)' = LateLocks(p) BY <1>2, <3>1 DEF LateLocks
    <3>3. /\ Cardinality(LateLocks(p)) \in Nat
          /\ Locks(p) \in Nat
      BY <1>2, LateLocksFinite DEF Locks, TypeOK, Tx, OnBase
    <3>4. CASE p = payment[r]
      <4>1. record[p] = "none" BY <1>3, <2>1, <3>4 DEF IInv, Flow, FileFits
      <4>2. Locks(p)' = Locks(p) + 1 BY <1>5, <2>1, <3>4 DEF Locks
      <4> QED BY <3>2, <3>3, <4>1, <4>2 DEF Within, LockSum
    <3>5. CASE p # payment[r]
      <4>1. Locks(p)' = Locks(p) BY <1>5, <3>5 DEF Locks
      <4> QED BY <3>2, <3>3, <4>1 DEF Within, LockSum
    <3> QED BY <3>4, <3>5
  <2>2. ASSUME NEW p \in Payment, kind[p] \in {"wallet", "bridge"}, t # "lock" PROVE Within(p)
    <3>0. count'[p]["lock"] = count[p]["lock"] BY <1>5, <2>2
    <3>1. CASE \E q \in Request : step[q] = "lock" /\ payment[q] = p
      <4>1. PICK q \in Request : step[q] = "lock" /\ payment[q] = p BY <3>1
      <4>2. \A u \in Request : step[u] = "lock" => u = q
        BY <4>1 DEF IInv, Flow, OneOnBase, OnBase
      <4>3. LateLocks(p)' \subseteq LateLocks(p)
              \cup {u \in {q} : step[u] = "lock" /\ payment[u] = p}
        BY <1>2, <4>1, <4>2 DEF LateLocks, Senders
      <4> QED BY <2>2, <3>0, <4>3, LateWithin
    <3>2. CASE ~\E q \in Request : step[q] = "lock" /\ payment[q] = p
      <4>1. LateLocks(p)' \subseteq LateLocks(p) BY <1>2, <3>2 DEF LateLocks, Senders
      <4> QED BY <1>2, <3>0, <4>1, LateGrows DEF Within
    <3> QED BY <3>1, <3>2
  <2> QED BY <1>2, <2>1, <2>2, FaultBudget DEF Within
<1> QED BY <1>7, <1>8 DEF IInv

------------------------------------------------------------------------------
(* The invariant and what follows from it.                                 *)

LEMMA InitIInv == Init => IInv
<1> SUFFICES ASSUME Init PROVE IInv OBVIOUS
<1>1. payment \in [Request -> Payment] BY FulfillAssumption DEF Init
<1>2. TypeOK BY <1>1, FulfillAssumption DEF Init, TypeOK
<1>3. Flow
  <2>1. Queued BY DEF Init, Queued
  <2>2. \A r \in Request : step[r] = "unsent" BY DEF Init
  <2>3. Kindly /\ AllInOrder /\ OneOnBase /\ FileFits
    BY <2>2 DEF Kindly, AllInOrder, InOrder, OneOnBase, FileFits, Tx, OnBase
  <2> QED BY <2>1, <2>3 DEF Init, Flow, LockedIsBridge
<1>4. FulfilledIsDelivered BY DEF Init, FulfilledIsDelivered
<1>5. Budget
  <2>1. ASSUME NEW p \in Payment PROVE LockSum(p) = 0
    <3>1. LateLocks(p) = {} BY DEF Init, LateLocks
    <3>2. Locks(p) = 0 BY DEF Init, Locks, Tx, OnBase
    <3> QED BY <3>1, <3>2, FS_EmptySet DEF LockSum
  <2> QED BY <2>1 DEF Budget, Init
<1> QED BY <1>2, <1>3, <1>4, <1>5 DEF IInv

LEMMA StepIInv == IInv /\ [Next]_vars => IInv'
<1> SUFFICES ASSUME IInv, [Next]_vars PROVE IInv' OBVIOUS
<1>1. CASE UNCHANGED vars
  <2>1. TypeOK' BY <1>1 DEF IInv, TypeOK, vars, requestVars, chainVars
  <2> QED BY <1>1, <2>1, Untouched DEF vars, requestVars, chainVars
<1>2. CASE \E p \in Payment : Settle(p) BY <1>2, QuietSteps
<1>3. ASSUME NEW r \in Request, Post(r) PROVE IInv' BY <1>3, PostStep
<1>4. ASSUME NEW w \in Kind, Process(w) PROVE IInv' BY <1>4, ProcessStep
<1>5. ASSUME NEW r \in Request, Worker(r) PROVE IInv'
  BY <1>5, VaultStep, MinedStep, SkippedStep, BonusStep, NonceStep, QuietSteps, AbortStep, FailStep
     DEF Worker
<1>6. ASSUME NEW r \in Request, NEW t \in Tx, MinedLate(r, t) PROVE IInv' BY <1>6, LateStep
<1>7. CASE Restart BY <1>7, RestartStep
<1>8. ASSUME NEW r \in Request, RestartInWrite(r) PROVE IInv' BY <1>8, RestartInWriteStep
<1> QED BY <1>1, <1>2, <1>3, <1>4, <1>5, <1>6, <1>7, <1>8 DEF Next

\* The workflows keep their order, one request has the initiator's Base slot, the
\* files are true and no payment is locked beyond its budget.
THEOREM Invariance == Spec => []IInv
<1>1. Spec => Init /\ [][Next]_vars BY PTL DEF Spec
<1> QED BY <1>1, InitIInv, StepIInv, PTL

\* Type correctness.
THEOREM TypeCorrect == Spec => []TypeOK
<1>1. IInv => TypeOK BY DEF IInv
<1> QED BY <1>1, Invariance, PTL

\* The files of fulfilled payments, and the answers given from them, are never
\* ahead of the chain, whichever step fails or is cut off by a restart.
THEOREM FilesAreTrue == Spec => []FulfilledIsDelivered
<1>1. IInv => FulfilledIsDelivered BY DEF IInv
<1> QED BY <1>1, Invariance, PTL

\* However many requests come for it, a wallet deposit or a treasury bridge is
\* locked once, and once more at most for every error or restart.
THEOREM LocksAreBounded == Spec => []LockedOnce
<1>1. IInv => LockedOnce
  <2> SUFFICES ASSUME IInv, NEW p \in Payment, kind[p] \in {"wallet", "bridge"}
               PROVE  Locks(p) <= 1 + faults
    BY DEF LockedOnce
  <2>1. TypeOK /\ LockSum(p) <= 1 + faults BY DEF IInv, Budget
  <2>2. Cardinality(LateLocks(p)) \in Nat /\ Locks(p) \in Nat /\ faults \in Nat
    BY <2>1, LateLocksFinite DEF TypeOK, Locks, Tx, OnBase
  <2> QED BY <2>1, <2>2 DEF LockSum
<1> QED BY <1>1, Invariance, PTL
==============================================================================
