-------------------------- MODULE UsdcChargeProofs --------------------------
(***************************************************************************)
(* For every number of payments, attempts, patches in flight, errors and   *)
(* restarts: the POS is told success only when the merchant has points,    *)
(* and points are minted only on the signature made for their payment.     *)
(*                                                                         *)
(* What makes the first one inductive is that a success on its way is as   *)
(* good as one that has arrived: whoever sends the patch has seen the      *)
(* transfer done, and a transfer that is done stays done.                  *)
(*                                                                         *)
(* The last part is about the POS's signatures: a payload is asked for in  *)
(* one patch, its signature goes to one payment, and neither comes back.   *)
(***************************************************************************)
EXTENDS UsdcCharge, SequenceTheorems, FiniteSetTheorems, TLAPS

Settled == \E p \in Pay : Charged(p)

\* A patch in flight that reports success tells the truth.
TruthUnderWay == \A i \in 1..Len(net) : net[i].state = "success" => Settled

\* Before its mint is posted a payment has none.
Before == {"new", "check", "challenge", "settle", "prepare", "await", "topup"}
NothingPosted == \A p \in Pay : pc[p] \in Before => mint[p] = "none"

Inv == /\ TypeOK /\ SuccessMeansCharged /\ TruthUnderWay
       /\ MintedOnlyAsSigned /\ NothingPosted

-----------------------------------------------------------------------------
(* Patches.                                                                *)

\* What is sent joins what was in flight.
LEMMA SendPatches ==
  ASSUME NEW n \in Seq(Patch), NEW new \in Seq(Patch)
  PROVE  /\ n \o new \in Seq(Patch)
         /\ \A i \in 1..Len(n \o new) :
              \/ \E j \in 1..Len(n) : (n \o new)[i] = n[j]
              \/ \E j \in 1..Len(new) : (n \o new)[i] = new[j]
<1>1. /\ n \o new \in Seq(Patch) /\ Len(n \o new) = Len(n) + Len(new)
      /\ \A i \in 1..Len(n) + Len(new) :
           (n \o new)[i] = IF i <= Len(n) THEN n[i] ELSE new[i - Len(n)]
  BY ConcatProperties
<1>2. Len(n) \in Nat /\ Len(new) \in Nat BY LenProperties
<1>3. ASSUME NEW i \in 1..Len(n) + Len(new)
      PROVE  \/ \E j \in 1..Len(n) : (n \o new)[i] = n[j]
             \/ \E j \in 1..Len(new) : (n \o new)[i] = new[j]
  <2>1. CASE i <= Len(n)
    <3>1. i \in 1..Len(n) /\ (n \o new)[i] = n[i] BY <1>1, <1>2, <2>1
    <3> QED BY <3>1
  <2>2. CASE ~(i <= Len(n))
    <3>1. i - Len(n) \in 1..Len(new) /\ (n \o new)[i] = new[i - Len(n)]
      BY <1>1, <1>2, <2>2
    <3> QED BY <3>1
  <2> QED BY <2>1, <2>2
<1> QED BY <1>1, <1>3

\* What is left after one has arrived was in flight before.
LEMMA TakePatch ==
  ASSUME NEW n \in Seq(Patch), NEW i \in 1..Len(n)
  PROVE  /\ n[i] \in Patch
         /\ RemoveAt(n, i) \in Seq(Patch)
         /\ \A j \in 1..Len(RemoveAt(n, i)) : \E m \in 1..Len(n) : RemoveAt(n, i)[j] = n[m]
<1>1. Len(n) \in Nat /\ n \in [1..Len(n) -> Patch] BY LenProperties
<1> DEFINE a == SubSeq(n, 1, i - 1)
           b == SubSeq(n, i + 1, Len(n))
<1>2. RemoveAt(n, i) = a \o b BY DEF RemoveAt
<1>3. /\ a \in Seq(Patch) /\ Len(a) = i - 1
      /\ \A j \in 1..Len(a) : a[j] = n[j]
  <2>1. \A j \in 1..i - 1 : n[j] \in Patch BY <1>1
  <2>2. i - 1 \in Int /\ 1 \in Int /\ i - 1 >= 0 BY <1>1
  <2>3. /\ a \in Seq(Patch)
        /\ Len(a) = IF 1 <= i - 1 THEN (i - 1) - 1 + 1 ELSE 0
        /\ \A j \in 1..(i - 1) - 1 + 1 : a[j] = n[1 + j - 1]
    BY <2>1, <2>2, SubSeqProperties
  <2> QED BY <2>2, <2>3
<1>4. /\ b \in Seq(Patch) /\ Len(b) = Len(n) - i
      /\ \A j \in 1..Len(b) : i + j \in 1..Len(n) /\ b[j] = n[i + j]
  <2>1. \A j \in i + 1..Len(n) : n[j] \in Patch BY <1>1
  <2>2. i + 1 \in Int /\ Len(n) \in Int /\ i <= Len(n) /\ i >= 1 BY <1>1
  <2>3. /\ b \in Seq(Patch)
        /\ Len(b) = IF i + 1 <= Len(n) THEN Len(n) - (i + 1) + 1 ELSE 0
        /\ \A j \in 1..Len(n) - (i + 1) + 1 : b[j] = n[i + 1 + j - 1]
    BY <2>1, <2>2, SubSeqProperties
  <2> QED BY <2>2, <2>3
<1> HIDE DEF a, b
<1>5. \A j \in 1..Len(a) : j \in 1..Len(n) BY <1>1, <1>3
<1>6. /\ a \o b \in Seq(Patch)
      /\ \A j \in 1..Len(a \o b) :
           \/ \E m \in 1..Len(a) : (a \o b)[j] = a[m]
           \/ \E m \in 1..Len(b) : (a \o b)[j] = b[m]
  BY <1>3, <1>4, SendPatches
<1>7. ASSUME NEW j \in 1..Len(a \o b) PROVE \E m \in 1..Len(n) : (a \o b)[j] = n[m]
  <2>1. CASE \E m \in 1..Len(a) : (a \o b)[j] = a[m] BY <2>1, <1>3, <1>5
  <2>2. CASE \E m \in 1..Len(b) : (a \o b)[j] = b[m] BY <2>2, <1>4
  <2> QED BY <2>1, <2>2, <1>6
<1>8. n[i] \in Patch BY <1>1
<1> QED BY <1>2, <1>6, <1>7, <1>8

-----------------------------------------------------------------------------
(* One step of a POST.                                                     *)

\* A POST moved on, and no untrue success was sent.
MoveOK ==
  /\ pc' \in [Pay -> Waiting \cup Ended]
  /\ \A p \in Pay : pc'[p] \in Before => pc[p] \in Before
  /\ net' \in Seq(Patch)
  /\ \A i \in 1..Len(net') : net'[i].state = "success" => Settled

LEMMA StatePatch ==
  \A s \in SessionState \ {"none"} : State(s) \in Patch /\ State(s).state = s
BY DEF State, Patch

LEMMA SendOne ==
  ASSUME TypeOK, TruthUnderWay, NEW a \in Patch, sessionUpdate(<<a>>),
         a.state = "success" => Settled
  PROVE  /\ net' \in Seq(Patch)
         /\ \A i \in 1..Len(net') : net'[i].state = "success" => Settled
<1>1. net \in Seq(Patch) /\ net' = net \o <<a>> BY DEF TypeOK, sessionUpdate
<1>2. <<a>> \in Seq(Patch) /\ Len(<<a>>) = 1 /\ <<a>>[1] = a OBVIOUS
<1>3. /\ net' \in Seq(Patch)
      /\ \A i \in 1..Len(net') :
           \/ \E j \in 1..Len(net) : net'[i] = net[j]
           \/ \E j \in 1..1 : net'[i] = <<a>>[j]
  BY <1>1, <1>2, SendPatches
<1>4. ASSUME NEW i \in 1..Len(net'), net'[i].state = "success" PROVE Settled
  <2>1. CASE \E j \in 1..Len(net) : net'[i] = net[j] BY <1>4, <2>1 DEF TruthUnderWay
  <2>2. CASE \E j \in 1..1 : net'[i] = <<a>>[j]
    <3>1. net'[i] = a BY <1>2, <2>2
    <3> QED BY <1>4, <3>1
  <2> QED BY <1>3, <2>1, <2>2
<1> QED BY <1>3, <1>4

LEMMA QuietMove ==
  ASSUME TypeOK, TruthUnderWay, NEW p \in Pay, NEW from, NEW to \in Waiting \cup Ended,
         Goto(p, from, to), to \in Before => from \in Before, Quiet
  PROVE  MoveOK
BY DEF TypeOK, TruthUnderWay, Goto, Quiet, MoveOK

LEMMA SendMove ==
  ASSUME TypeOK, TruthUnderWay, NEW p \in Pay, NEW from, NEW to \in Waiting \cup Ended,
         Goto(p, from, to), to \in Before => from \in Before,
         NEW a \in Patch, sessionUpdate(<<a>>),
         a.state = "success" => Settled
  PROVE  MoveOK
BY SendOne DEF TypeOK, Goto, MoveOK

LEMMA AbortMove ==
  ASSUME TypeOK, TruthUnderWay, NEW p \in Pay, NEW from, NEW outcome \in Ended,
         Abort(p, from, outcome)
  PROVE  MoveOK
<1>1. State("error") \in Patch /\ State("error").state # "success"
  BY StatePatch DEF SessionState
<1>2. Goto(p, from, outcome) /\ sessionUpdate(<<State("error")>>) BY DEF Abort
<1>3. outcome \notin Before BY DEF Ended, Before
<1> QED BY <1>1, <1>2, <1>3, SendMove

LEMMA TwoPatchMove ==
  ASSUME TypeOK, TruthUnderWay, NEW p \in Pay, TopupConfirmed(p)
  PROVE  MoveOK
<1> DEFINE a == State("topup_confirmed")
           b == State("charge_pending")
<1>1. a \in Patch /\ b \in Patch /\ a.state # "success" /\ b.state # "success"
  BY StatePatch DEF SessionState
<1>2. net \in Seq(Patch) /\ net' = net \o <<a, b>>
  BY DEF TypeOK, TopupConfirmed, sessionUpdate
<1> HIDE DEF a, b
<1>3. <<a, b>> \in Seq(Patch) /\ Len(<<a, b>>) = 2 /\ <<a, b>>[1] = a /\ <<a, b>>[2] = b
  BY <1>1
<1>4. \A j \in 1..2 : <<a, b>>[j].state # "success"
  <2>1. \A j \in 1..2 : j = 1 \/ j = 2 OBVIOUS
  <2> QED BY <1>1, <1>3, <2>1
<1>5. /\ net' \in Seq(Patch)
      /\ \A i \in 1..Len(net') :
           \/ \E j \in 1..Len(net) : net'[i] = net[j]
           \/ \E j \in 1..2 : net'[i] = <<a, b>>[j]
  BY <1>2, <1>3, SendPatches
<1>6. ASSUME NEW i \in 1..Len(net'), net'[i].state = "success" PROVE Settled
  <2>1. PICK j \in 1..Len(net) : net'[i] = net[j] BY <1>4, <1>5, <1>6
  <2> QED BY <1>6, <2>1 DEF TruthUnderWay
<1>7. /\ pc' \in [Pay -> Waiting \cup Ended]
      /\ \A q \in Pay : pc'[q] \in Before => pc[q] \in Before
  BY DEF TypeOK, TopupConfirmed, Goto, Waiting, Before
<1> QED BY <1>5, <1>6, <1>7 DEF MoveOK

LEMMA AttemptMove ==
  ASSUME TypeOK, TruthUnderWay, NEW p \in Pay, NEW from, AttemptFails(p, from)
  PROVE  MoveOK /\ attempt' \in [Pay -> 1..MaxAttempts]
<1>1. CASE /\ attempt[p] < MaxAttempts /\ Goto(p, from, "read") /\ Quiet
           /\ attempt' = [attempt EXCEPT ![p] = @ + 1]
  <2>1. "read" \in Waiting \cup Ended /\ "read" \notin Before BY DEF Waiting, Before
  <2>2. MoveOK BY <1>1, <2>1, QuietMove
  <2>3. attempt[p] + 1 \in 1..MaxAttempts BY <1>1, ChargeAssumption DEF TypeOK
  <2> QED BY <1>1, <2>2, <2>3 DEF TypeOK
<1>2. CASE Abort(p, from, "ghost dust") /\ UNCHANGED attempt
  <2>1. "ghost dust" \in Ended BY DEF Ended
  <2> QED BY <1>2, <2>1, AbortMove DEF TypeOK
<1> QED BY <1>1, <1>2 DEF AttemptFails

LEMMA FaultCount ==
  ASSUME TypeOK, Fault \/ UNCHANGED faults
  PROVE  faults' \in Nat
<1>1. faults \in Nat BY DEF TypeOK
<1>2. CASE Fault
  <2>1. faults' = faults + 1 BY <1>2 DEF Fault
  <2> QED BY <1>1, <2>1
<1>3. CASE UNCHANGED faults BY <1>1, <1>3
<1> QED BY <1>2, <1>3

-----------------------------------------------------------------------------
(* What keeps the invariant.                                               *)

\* Nothing that is done is undone, no success is invented, and no mint leaves
\* without its signature.
LEMMA Keeps ==
  ASSUME Inv, TypeOK', MoveOK,
         \A p \in Pay, k \in 1..MaxAttempts : charge[p][k] = "ok" => charge'[p][k] = "ok",
         session'.state = "success" => Settled,
         \A p \in Pay : mint'[p] \in {"sent", "ok", "reverted"} => got'[p] = p,
         \A p \in Pay : pc'[p] \in Before /\ mint[p] = "none" => mint'[p] = "none"
  PROVE  Inv'
<1>1. Settled => Settled' BY DEF Settled, Charged
<1>2. SuccessMeansCharged' BY <1>1 DEF SuccessMeansCharged, Settled
<1>3. TruthUnderWay' BY <1>1 DEF TruthUnderWay, MoveOK
<1>4. MintedOnlyAsSigned' BY DEF MintedOnlyAsSigned
<1>5. NothingPosted' BY DEF NothingPosted, Inv, MoveOK
<1> QED BY <1>2, <1>3, <1>4, <1>5 DEF Inv

\* A step that leaves the session and the jobs alone.
LEMMA BesideJobs ==
  ASSUME Inv, MoveOK, UNCHANGED <<session, got, mint, charge>>,
         posSig' \in Pay \cup {None},
         attempt' \in [Pay -> 1..MaxAttempts], cut' \in SUBSET Pay, endLost' \in BOOLEAN,
         faults' \in Nat, restarts' \in Nat
  PROVE  Inv'
<1>1. TypeOK' BY DEF Inv, TypeOK, MoveOK
<1>2. session'.state = "success" => Settled BY DEF Inv, SuccessMeansCharged, Settled
<1>3. \A p \in Pay : mint'[p] \in {"sent", "ok", "reverted"} => got'[p] = p
  BY DEF Inv, MintedOnlyAsSigned
<1> QED BY <1>1, <1>2, <1>3, Keeps

LEMMA HandlerStep ==
  ASSUME Inv, NEW p \in Pay, Handler(p)
  PROVE  Inv'
<1> USE DEF Inv
<1>1. \A s \in {"verifying", "settling", "topup_pending"} :
        State(s) \in Patch /\ State(s).state # "success"
  BY StatePatch DEF SessionState
<1>2. \A l \in {"check", "challenge", "settle", "prepare", "unpaid", "refused"} :
        l \in Waiting \cup Ended
  BY DEF Waiting, Ended
<1>3. "refused" \in Ended /\ "unpaid" \notin Before BY DEF Ended, Before
<1>3a. \A l \in {"new", "check", "challenge", "settle", "prepare"} : l \in Before
  BY DEF Before
<1>4. MoveOK
  <2>1. CASE Arrive(p) BY <1>1, <1>2, <1>3a, <2>1, SendMove DEF Arrive
  <2>2. CASE StartSettle(p) BY <1>1, <1>2, <1>3a, <2>2, SendMove DEF StartSettle
  <2>3. CASE Refuse(p) BY <1>3, <2>3, AbortMove DEF Refuse
  <2>4. CASE NoPayment(p) BY <1>2, <1>3, <2>4, QuietMove DEF NoPayment
  <2>5. CASE PaymentRejected(p) BY <1>3, <2>5, AbortMove DEF PaymentRejected
  <2>6. CASE PaymentVerified(p) BY <1>2, <1>3a, <2>6, QuietMove DEF PaymentVerified
  <2>7. CASE SettleFails(p) BY <1>3, <2>7, AbortMove DEF SettleFails
  <2>8. CASE Settle(p) BY <1>1, <1>2, <1>3a, <2>8, SendMove DEF Settle
  <2> QED BY <2>1, <2>2, <2>3, <2>4, <2>5, <2>6, <2>7, <2>8 DEF Handler
<1>5. UNCHANGED <<session, got, mint, charge, posSig, attempt, cut, endLost, faults, restarts>>
  BY DEF Handler, Arrive, StartSettle, Refuse, NoPayment, PaymentRejected, PaymentVerified,
         SettleFails, Settle, LocalOnly, masterVars, legVars, TypeOK
<1> QED BY <1>4, <1>5, BesideJobs DEF TypeOK

LEMMA ConsumeStep ==
  ASSUME Inv, NEW p \in Pay, ConsumePosSig(p)
  PROVE  Inv'
<1>1. /\ session' = [session EXCEPT !.sig = None, !.pending = None]
      /\ UNCHANGED <<posSig, endLost, restarts, mint, attempt, charge, cut, net>>
      /\ pc[p] = "await" /\ session.sig \in Pay \cup {None} /\ session.sig # None
  BY DEF ConsumePosSig, Quiet, Inv, TypeOK
<1>2. MoveOK
  <2>1. CASE Goto(p, "await", "topup")
    <3>1. "topup" \in Waiting \cup Ended /\ "await" \in Before BY DEF Waiting, Before
    <3> QED BY <1>1, <2>1, <3>1, QuietMove DEF Inv, Quiet
  <2>2. CASE UNCHANGED pc
    BY <1>1, <2>2 DEF MoveOK, Inv, TypeOK, TruthUnderWay
  <2> QED BY <2>1, <2>2 DEF ConsumePosSig
<1>3. faults' \in Nat
  BY FaultCount DEF ConsumePosSig, Inv
<1>3a. /\ got' \in [Pay -> Pay \cup {None}]
       /\ \A q \in Pay \ {p} : got'[q] = got[q]
  <2>1. got' = [got EXCEPT ![p] = session.sig] \/ got' = got BY DEF ConsumePosSig
  <2>2. got \in [Pay -> Pay \cup {None}] BY DEF Inv, TypeOK
  <2> QED BY <1>1, <2>1, <2>2
<1>4. TypeOK' BY <1>1, <1>2, <1>3, <1>3a DEF Inv, TypeOK, MoveOK
<1>5. mint[p] = "none" BY <1>1 DEF Inv, NothingPosted, Before
<1>6. \A q \in Pay : mint'[q] \in {"sent", "ok", "reverted"} => got'[q] = q
  BY <1>1, <1>3a, <1>5 DEF Inv, MintedOnlyAsSigned
<1>7. session'.state = "success" => Settled
  BY <1>1 DEF Inv, TypeOK, SuccessMeansCharged, Settled
<1> QED BY <1>1, <1>2, <1>4, <1>6, <1>7, Keeps

LEMMA TopupLegStep ==
  ASSUME Inv, NEW p \in Pay, TopupLeg(p)
  PROVE  Inv'
<1>1. TypeOK /\ TruthUnderWay BY DEF Inv
<1>2. CASE ConsumePosSig(p) BY <1>2, ConsumeStep
<1>3. CASE PostTopup(p)
  <2>1. "minting" \in Waiting \cup Ended /\ "minting" \notin Before
    BY DEF Waiting, Before
  <2>2. MoveOK BY <1>1, <1>3, <2>1, QuietMove DEF PostTopup
  <2>3. /\ mint' = [mint EXCEPT ![p] = "queued"] /\ pc'[p] = "minting"
        /\ UNCHANGED <<session, posSig, endLost, restarts, got, attempt, charge, cut, faults>>
    BY <1>1, <1>3 DEF PostTopup, Goto, masterVars, TypeOK
  <2>4. TypeOK' BY <1>1, <2>2, <2>3 DEF TypeOK, MoveOK
  <2>5. \A q \in Pay : mint'[q] \in {"sent", "ok", "reverted"} => got'[q] = q
    BY <1>1, <2>3 DEF Inv, MintedOnlyAsSigned, TypeOK
  <2>6. \A q \in Pay : pc'[q] \in Before /\ mint[q] = "none" => mint'[q] = "none"
    BY <1>1, <2>1, <2>3 DEF TypeOK
  <2>7. session'.state = "success" => Settled
    BY <2>3 DEF Inv, SuccessMeansCharged, Settled
  <2> QED BY <2>2, <2>3, <2>4, <2>5, <2>6, <2>7, Keeps
<1>4. CASE ~ConsumePosSig(p) /\ ~PostTopup(p)
  <2>1. "topup error" \in Ended BY DEF Ended
  <2>2. /\ "await" \in Waiting /\ "confirm" \in Waiting /\ "confirm" \notin Before
        /\ "prepare" \in Before
    BY DEF Waiting, Before
  <2>3. CASE PrepareFails(p)
    <3>1. MoveOK BY <1>1, <2>1, <2>3, AbortMove DEF PrepareFails
    <3> QED BY <1>1, <2>3, <3>1, BesideJobs DEF PrepareFails, LocalOnly, masterVars, legVars, TypeOK
  <2>4. CASE AskPos(p)
    <3>1. [state |-> "awaiting_topup_auth", pending |-> p] \in Patch
      BY DEF Patch, SessionState
    <3>2. MoveOK BY <1>1, <2>2, <2>4, <3>1, SendMove DEF AskPos
    <3> QED BY <1>1, <2>4, <3>2, BesideJobs DEF AskPos, LocalOnly, masterVars, legVars, TypeOK
  <2>5. CASE AuthTimeout(p)
    <3>1. MoveOK BY <1>1, <2>1, <2>5, AbortMove DEF AuthTimeout
    <3> QED BY <1>1, <2>5, <3>1, BesideJobs DEF AuthTimeout, LocalOnly, masterVars, legVars, TypeOK
  <2>6. CASE PostTopupFails(p)
    <3>1. MoveOK BY <1>1, <2>1, <2>6, AbortMove DEF PostTopupFails
    <3>2. faults' \in Nat BY <1>1, <2>6, FaultCount DEF PostTopupFails
    <3> QED BY <1>1, <2>6, <3>1, <3>2, BesideJobs
            DEF PostTopupFails, LocalOnly, masterVars, legVars, TypeOK
  <2>7. CASE TopupAnswered(p)
    <3>1. Goto(p, "minting", "confirm") /\ Quiet => MoveOK BY <1>1, <2>2, QuietMove
    <3>2. Abort(p, "minting", "topup error") => MoveOK BY <1>1, <2>1, AbortMove
    <3>3. MoveOK BY <2>7, <3>1, <3>2 DEF TopupAnswered
    <3> QED BY <1>1, <2>7, <3>3, BesideJobs
            DEF TopupAnswered, LocalOnly, masterVars, legVars, TypeOK
  <2>8. CASE TopupAnswerFails(p)
    <3>1. MoveOK BY <1>1, <2>1, <2>8, AbortMove DEF TopupAnswerFails
    <3>2. faults' \in Nat BY <1>1, <2>8, FaultCount DEF TopupAnswerFails
    <3> QED BY <1>1, <2>8, <3>1, <3>2, BesideJobs DEF TopupAnswerFails, masterVars, legVars, TypeOK
  <2>9. CASE TopupConfirmed(p)
    <3>1. MoveOK BY <1>1, <2>9, TwoPatchMove
    <3> QED BY <1>1, <2>9, <3>1, BesideJobs DEF TopupConfirmed, LocalOnly, masterVars, legVars, TypeOK
  <2>10. CASE ConfirmTimesOut(p)
    <3>1. MoveOK BY <1>1, <2>1, <2>10, AbortMove DEF ConfirmTimesOut
    <3>2. faults' \in Nat BY <1>1, <2>10, FaultCount DEF ConfirmTimesOut
    <3> QED BY <1>1, <2>10, <3>1, <3>2, BesideJobs
            DEF ConfirmTimesOut, LocalOnly, masterVars, legVars, TypeOK
  <2> QED BY <1>4, <2>3, <2>4, <2>5, <2>6, <2>7, <2>8, <2>9, <2>10 DEF TopupLeg
<1> QED BY <1>2, <1>3, <1>4

LEMMA ChargeLegStep ==
  ASSUME Inv, NEW p \in Pay, ChargeLeg(p)
  PROVE  Inv'
<1>1. TypeOK /\ TruthUnderWay BY DEF Inv
<1>2. CASE ResolveAccounts(p)
  <2>1. "read" \in Waiting \cup Ended /\ "read" \notin Before BY DEF Waiting, Before
  <2>2. MoveOK BY <1>1, <1>2, <2>1, QuietMove DEF ResolveAccounts
  <2> QED BY <1>1, <1>2, <2>2, BesideJobs
          DEF ResolveAccounts, LocalOnly, masterVars, legVars, TypeOK
<1>3. CASE ResolveFails(p)
  <2>1. "ghost dust" \in Ended BY DEF Ended
  <2>2. MoveOK BY <1>1, <1>3, <2>1, AbortMove DEF ResolveFails
  <2>3. faults' \in Nat BY <1>1, <1>3, FaultCount DEF ResolveFails
  <2> QED BY <1>1, <1>3, <2>2, <2>3, BesideJobs
          DEF ResolveFails, LocalOnly, masterVars, legVars, TypeOK
<1>4. CASE PostCharge(p)
  <2>1. "charging" \in Waiting \cup Ended /\ "charging" \notin Before
    BY DEF Waiting, Before
  <2>2. MoveOK BY <1>1, <1>4, <2>1, QuietMove DEF PostCharge
  <2>3. /\ charge' = [charge EXCEPT ![p] = [charge[p] EXCEPT ![attempt[p]] = "queued"]]
        /\ UNCHANGED <<session, posSig, endLost, restarts, got, mint, attempt, cut, faults>>
        /\ ~Charged(p)
    BY <1>1, <1>4 DEF PostCharge, masterVars, TypeOK
  <2>4. TypeOK' BY <1>1, <2>2, <2>3 DEF TypeOK, MoveOK
  <2>5. \A q \in Pay, k \in 1..MaxAttempts : charge[q][k] = "ok" => charge'[q][k] = "ok"
    BY <1>1, <2>3 DEF TypeOK, Charged
  <2>6. \A q \in Pay : mint'[q] \in {"sent", "ok", "reverted"} => got'[q] = q
    BY <2>3 DEF Inv, MintedOnlyAsSigned
  <2>7. session'.state = "success" => Settled
    BY <2>3 DEF Inv, SuccessMeansCharged, Settled
  <2> QED BY <2>2, <2>3, <2>4, <2>5, <2>6, <2>7, Keeps
<1>5. CASE AttemptNotPosted(p)
  <2>1. MoveOK /\ attempt' \in [Pay -> 1..MaxAttempts]
    BY <1>1, <1>5, AttemptMove DEF AttemptNotPosted
  <2>2. faults' \in Nat BY <1>1, <1>5, FaultCount DEF AttemptNotPosted
  <2> QED BY <1>1, <1>5, <2>1, <2>2, BesideJobs DEF AttemptNotPosted, masterVars, TypeOK
<1>6. CASE ChargeAnswered(p)
  <2>1. MoveOK /\ attempt' \in [Pay -> 1..MaxAttempts]
    <3>1. CASE AttemptFails(p, "charging") BY <1>1, <3>1, AttemptMove
    <3>2. CASE /\ charge[p][attempt[p]] = "ok"
               /\ Goto(p, "charging", "success") /\ sessionUpdate(<<State("success")>>)
               /\ UNCHANGED attempt
      <4>1. attempt[p] \in 1..MaxAttempts BY <1>1 DEF TypeOK
      <4>2. Settled BY <3>2, <4>1 DEF Settled, Charged
      <4>3. State("success") \in Patch BY StatePatch DEF SessionState
      <4>4. "success" \in Waiting \cup Ended /\ "success" \notin Before
        BY DEF Ended, Before
      <4>5. MoveOK BY <1>1, <3>2, <4>2, <4>3, <4>4, SendMove
      <4> QED BY <1>1, <3>2, <4>5 DEF TypeOK
    <3> QED BY <1>6, <3>1, <3>2 DEF ChargeAnswered
  <2> QED BY <1>1, <1>6, <2>1, BesideJobs DEF ChargeAnswered, masterVars, TypeOK
<1>7. CASE ChargeAnswerFails(p)
  <2>1. MoveOK /\ attempt' \in [Pay -> 1..MaxAttempts]
    BY <1>1, <1>7, AttemptMove DEF ChargeAnswerFails
  <2>2. faults' \in Nat BY <1>1, <1>7, FaultCount DEF ChargeAnswerFails
  <2> QED BY <1>1, <1>7, <2>1, <2>2, BesideJobs DEF ChargeAnswerFails, masterVars, TypeOK
<1> QED BY <1>2, <1>3, <1>4, <1>5, <1>6, <1>7 DEF ChargeLeg

LEMMA WorkerStep ==
  ASSUME Inv, NEW p \in Pay, Worker(p)
  PROVE  Inv'
<1>1. TypeOK /\ TruthUnderWay BY DEF Inv
<1>2. /\ UNCHANGED <<pc, session, net, posSig, got, attempt, cut, endLost, restarts>>
      /\ Fault \/ UNCHANGED faults
  BY DEF Worker, executeForAdmin, MineMint, ContainerRelay, MineCharge, WorkerOnly
<1>3. faults' \in Nat BY <1>1, <1>2, FaultCount
<1>4. MoveOK BY <1>1, <1>2 DEF MoveOK, TypeOK, TruthUnderWay
<1>5. session'.state = "success" => Settled
  BY <1>2 DEF Inv, SuccessMeansCharged, Settled
<1>6. CASE executeForAdmin(p) \/ MineMint(p)
  <2>1. \E s \in {"sent", "refused", "ok", "reverted"} :
          /\ mint' = [mint EXCEPT ![p] = s]
          /\ s \in {"sent", "ok", "reverted"} => got[p] = p
    BY <1>1, <1>6 DEF executeForAdmin, MineMint, Inv, MintedOnlyAsSigned, TypeOK
  <2>2. mint[p] # "none" /\ UNCHANGED charge BY <1>6 DEF executeForAdmin, MineMint
  <2>3. TypeOK' BY <1>1, <1>2, <1>3, <2>1, <2>2 DEF TypeOK
  <2>4. \A q \in Pay : mint'[q] \in {"sent", "ok", "reverted"} => got'[q] = q
    BY <1>1, <1>2, <2>1 DEF Inv, MintedOnlyAsSigned, TypeOK
  <2>5. \A q \in Pay : pc'[q] \in Before /\ mint[q] = "none" => mint'[q] = "none"
    BY <1>1, <2>1, <2>2 DEF TypeOK
  <2> QED BY <1>4, <1>5, <2>2, <2>3, <2>4, <2>5, Keeps
<1>7. CASE \E k \in 1..MaxAttempts : ContainerRelay(p, k) \/ MineCharge(p, k)
  <2>1. PICK k \in 1..MaxAttempts : ContainerRelay(p, k) \/ MineCharge(p, k) BY <1>7
  <2>2. \E s \in {"sent", "bad", "ok"} :
          charge' = [charge EXCEPT ![p] = [charge[p] EXCEPT ![k] = s]]
    BY <1>1, <2>1 DEF ContainerRelay, MineCharge, TypeOK
  <2>3. charge[p][k] # "ok" /\ UNCHANGED mint BY <2>1 DEF ContainerRelay, MineCharge
  <2>4. TypeOK' BY <1>1, <1>2, <1>3, <2>2, <2>3 DEF TypeOK
  <2>5. \A q \in Pay, m \in 1..MaxAttempts : charge[q][m] = "ok" => charge'[q][m] = "ok"
    BY <1>1, <2>2, <2>3 DEF TypeOK
  <2>6. \A q \in Pay : mint'[q] \in {"sent", "ok", "reverted"} => got'[q] = q
    BY <1>2, <2>3 DEF Inv, MintedOnlyAsSigned
  <2> QED BY <1>4, <1>5, <2>3, <2>4, <2>5, <2>6, Keeps
<1> QED BY <1>6, <1>7 DEF Worker

LEMMA SessionStep ==
  ASSUME Inv, Sessions
  PROVE  Inv'
<1>1. TypeOK /\ TruthUnderWay BY DEF Inv
<1>2. UNCHANGED <<pc, got, mint, attempt, charge, cut, endLost, faults, restarts>>
  BY DEF Sessions, chargeSessionUpsert, PosSigns, nfcUsdcChargeTopupAuth, Expire, SessionOnly,
         legVars
<1>3. ASSUME /\ session' \in [state : SessionState, pending : Pay \cup {None},
                              sig : Pay \cup {None}]
             /\ posSig' \in Pay \cup {None}, MoveOK,
             session'.state = "success" => Settled
      PROVE  Inv'
  <2>1. TypeOK' BY <1>1, <1>2, <1>3 DEF TypeOK, MoveOK
  <2>2. \A q \in Pay : mint'[q] \in {"sent", "ok", "reverted"} => got'[q] = q
    BY <1>2 DEF Inv, MintedOnlyAsSigned
  <2> QED BY <1>2, <1>3, <2>1, <2>2, Keeps
<1>4. session.state = "success" => Settled BY DEF Inv, SuccessMeansCharged, Settled
<1>5. CASE \E i \in 1..MaxInFlight : chargeSessionUpsert(i)
  <2>1. PICK i \in 1..MaxInFlight : chargeSessionUpsert(i) BY <1>5
  <2>2. /\ i \in 1..Len(net) /\ net' = RemoveAt(net, i) /\ UNCHANGED posSig
        /\ session' = [session EXCEPT !.state = net[i].state,
                         !.pending = IF net[i].pending = None THEN @ ELSE net[i].pending]
    BY <2>1 DEF chargeSessionUpsert
  <2>3. net \in Seq(Patch) BY <1>1 DEF TypeOK
  <2>4. /\ net[i] \in Patch /\ net' \in Seq(Patch)
        /\ \A j \in 1..Len(net') : \E m \in 1..Len(net) : net'[j] = net[m]
    BY <2>2, <2>3, TakePatch
  <2>5. MoveOK BY <1>1, <1>2, <2>4 DEF MoveOK, TruthUnderWay, TypeOK
  <2>6. net[i].state = "success" => Settled BY <1>1, <2>2 DEF TruthUnderWay
  <2>7. net[i].state \in SessionState /\ net[i].pending \in Pay \cup {None}
    BY <2>4 DEF Patch
  <2>8. session \in [state : SessionState, pending : Pay \cup {None}, sig : Pay \cup {None}]
    BY <1>1 DEF TypeOK
  <2>9. /\ session' \in [state : SessionState, pending : Pay \cup {None},
                         sig : Pay \cup {None}]
        /\ session'.state = net[i].state
    BY <2>2, <2>7, <2>8
  <2>10. posSig' \in Pay \cup {None} BY <1>1, <2>2 DEF TypeOK
  <2> QED BY <1>3, <2>5, <2>6, <2>9, <2>10
<1>6. CASE PosSigns
  <2>1. MoveOK BY <1>1, <1>2, <1>6 DEF PosSigns, MoveOK, TruthUnderWay, TypeOK
  <2> QED BY <1>1, <1>3, <1>4, <1>6, <2>1 DEF PosSigns, TypeOK
<1>7. CASE nfcUsdcChargeTopupAuth
  <2>1. MoveOK
    BY <1>1, <1>2, <1>7 DEF nfcUsdcChargeTopupAuth, MoveOK, TruthUnderWay, TypeOK
  <2>2. /\ session' = [session EXCEPT !.sig = posSig] \/ session' = session
        /\ posSig \in Pay \cup {None} /\ posSig' = None
    BY <1>1, <1>7 DEF nfcUsdcChargeTopupAuth, TypeOK
  <2>3. session' \in [state : SessionState, pending : Pay \cup {None},
                      sig : Pay \cup {None}] /\ session'.state = session.state
    BY <1>1, <2>2 DEF TypeOK
  <2> QED BY <1>3, <1>4, <2>1, <2>2, <2>3
<1>8. CASE Expire
  <2>1. MoveOK BY <1>1, <1>2, <1>8 DEF Expire, MoveOK, TruthUnderWay, TypeOK
  <2>2. session' = Fresh BY <1>8 DEF Expire
  <2>3. /\ session' \in [state : SessionState, pending : Pay \cup {None},
                         sig : Pay \cup {None}]
        /\ session'.state # "success"
    BY <2>2 DEF Fresh, SessionState
  <2>4. posSig' \in Pay \cup {None} BY <1>1, <1>8 DEF Expire, TypeOK
  <2> QED BY <1>3, <2>1, <2>3, <2>4
<1> QED BY <1>5, <1>6, <1>7, <1>8 DEF Sessions

LEMMA PatchLostStep ==
  ASSUME Inv, NEW i \in 1..MaxInFlight, PatchLost(i)
  PROVE  Inv'
<1>1. TypeOK /\ TruthUnderWay BY DEF Inv
<1>2. /\ i \in 1..Len(net) /\ net' = RemoveAt(net, i) /\ endLost' \in BOOLEAN /\ Fault
      /\ UNCHANGED <<pc, session, posSig, got, mint, attempt, charge, cut, restarts>>
  BY DEF PatchLost, legVars
<1>3. net \in Seq(Patch) BY <1>1 DEF TypeOK
<1>4. /\ net' \in Seq(Patch)
      /\ \A j \in 1..Len(net') : \E m \in 1..Len(net) : net'[j] = net[m]
  BY <1>2, <1>3, TakePatch
<1>5. MoveOK BY <1>1, <1>2, <1>4 DEF MoveOK, TruthUnderWay, TypeOK
<1>6. faults' \in Nat BY <1>1, <1>2, FaultCount
<1> QED BY <1>1, <1>2, <1>5, <1>6, BesideJobs DEF TypeOK

LEMMA RestartStep ==
  ASSUME Inv, MasterRestart \/ \E p \in Pay : WorkerCrash(p)
  PROVE  Inv'
<1>1. TypeOK /\ TruthUnderWay BY DEF Inv
<1>2. restarts' \in Nat
  <2>1. restarts \in Nat /\ restarts' = restarts + 1
    BY <1>1 DEF TypeOK, MasterRestart, WorkerCrash, Restart
  <2> QED BY <2>1
<1>3. CASE MasterRestart
  <2>1. /\ session' = Fresh /\ net' = <<>>
        /\ mint' = [q \in Pay |-> IF mint[q] = "queued" THEN "refused" ELSE mint[q]]
        /\ charge' = [q \in Pay |-> [k \in 1..MaxAttempts |->
                        IF charge[q][k] = "queued" THEN "bad" ELSE charge[q][k]]]
        /\ cut' \in SUBSET Pay
        /\ UNCHANGED <<pc, posSig, got, attempt, endLost, faults>>
    BY <1>3 DEF MasterRestart
  <2>2. net' \in Seq(Patch) /\ Len(net') = 0 BY <2>1
  <2>3. MoveOK BY <1>1, <2>1, <2>2 DEF MoveOK, TypeOK
  <2>4. /\ session' \in [state : SessionState, pending : Pay \cup {None},
                         sig : Pay \cup {None}]
        /\ session'.state # "success"
    BY <2>1 DEF Fresh, SessionState
  <2>5. mint' \in [Pay -> {"none", "queued", "sent", "refused", "ok", "reverted"}]
    BY <1>1, <2>1 DEF TypeOK
  <2>6. charge' \in [Pay -> [1..MaxAttempts -> {"none", "queued", "sent", "ok", "bad"}]]
    BY <1>1, <2>1 DEF TypeOK
  <2>7. TypeOK' BY <1>1, <1>2, <2>1, <2>2, <2>4, <2>5, <2>6 DEF TypeOK
  <2>8. \A q \in Pay, k \in 1..MaxAttempts : charge[q][k] = "ok" => charge'[q][k] = "ok"
    BY <2>1
  <2>9. \A q \in Pay : mint'[q] \in {"sent", "ok", "reverted"} => got'[q] = q
    BY <2>1 DEF Inv, MintedOnlyAsSigned
  <2>10. \A q \in Pay : pc'[q] \in Before /\ mint[q] = "none" => mint'[q] = "none"
    BY <2>1
  <2> QED BY <2>3, <2>4, <2>7, <2>8, <2>9, <2>10, Keeps
<1>4. CASE \E p \in Pay : WorkerCrash(p)
  <2>1. PICK p \in Pay : WorkerCrash(p) BY <1>4
  <2>2. /\ pc' = [pc EXCEPT ![p] = "dead"] /\ cut' = cut \ {p}
        /\ UNCHANGED <<session, net, posSig, got, mint, attempt, charge, endLost, faults>>
    BY <2>1 DEF WorkerCrash, legVars
  <2>3. "dead" \in Ended /\ "dead" \notin Before BY DEF Ended, Before
  <2>4. MoveOK BY <1>1, <2>2, <2>3 DEF MoveOK, TypeOK, TruthUnderWay
  <2> QED BY <1>1, <1>2, <2>2, <2>4, BesideJobs DEF TypeOK
<1> QED BY <1>3, <1>4

-----------------------------------------------------------------------------
LEMMA InitInv == Init => Inv
<1> SUFFICES ASSUME Init PROVE Inv OBVIOUS
<1>1. session = Fresh /\ net = <<>> BY DEF Init
<1>2. TypeOK
  <2>1. /\ session \in [state : SessionState, pending : Pay \cup {None},
                        sig : Pay \cup {None}]
        /\ net \in Seq(Patch)
    BY <1>1 DEF Fresh, SessionState
  <2>2. /\ pc \in [Pay -> Waiting \cup Ended] /\ cut \subseteq Pay /\ endLost \in BOOLEAN
        /\ posSig \in Pay \cup {None} /\ got \in [Pay -> Pay \cup {None}]
        /\ faults \in Nat /\ restarts \in Nat
    BY DEF Init, Waiting
  <2>3. /\ mint \in [Pay -> {"none", "queued", "sent", "refused", "ok", "reverted"}]
        /\ charge \in [Pay -> [1..MaxAttempts -> {"none", "queued", "sent", "ok", "bad"}]]
    BY DEF Init
  <2>4. attempt \in [Pay -> 1..MaxAttempts] BY ChargeAssumption DEF Init
  <2> QED BY <2>1, <2>2, <2>3, <2>4 DEF TypeOK
<1>3. SuccessMeansCharged BY <1>1 DEF SuccessMeansCharged, Fresh
<1>4. TruthUnderWay BY <1>1 DEF TruthUnderWay
<1>5. MintedOnlyAsSigned /\ NothingPosted BY DEF Init, MintedOnlyAsSigned, NothingPosted
<1> QED BY <1>2, <1>3, <1>4, <1>5 DEF Inv

LEMMA NextInv == Inv /\ [Next]_vars => Inv'
<1> SUFFICES ASSUME Inv, [Next]_vars PROVE Inv' OBVIOUS
<1>1. CASE \E p \in Pay : Handler(p) \/ TopupLeg(p) \/ ChargeLeg(p) \/ Worker(p)
  BY <1>1, HandlerStep, TopupLegStep, ChargeLegStep, WorkerStep
<1>2. CASE Sessions BY <1>2, SessionStep
<1>3. CASE MasterRestart \/ \E p \in Pay : WorkerCrash(p) BY <1>3, RestartStep
<1>4. CASE \E i \in 1..MaxInFlight : PatchLost(i) BY <1>4, PatchLostStep
<1>5. CASE UNCHANGED vars
  BY <1>5 DEF vars, Inv, TypeOK, SuccessMeansCharged, TruthUnderWay, MintedOnlyAsSigned,
              NothingPosted, Charged, Settled
<1> QED BY <1>1, <1>2, <1>3, <1>4, <1>5 DEF Next

LEMMA Invariance == Spec => []Inv
BY InitInv, NextInv, PTL DEF Spec

\* The variables keep their kinds, whatever is lost, retried or restarted.
THEOREM TypeCorrect == Spec => []TypeOK
<1>1. Inv => TypeOK BY DEF Inv
<1> QED BY <1>1, Invariance, PTL

\* The POS sees success only when the points of a payment of its session are with
\* the merchant (the last patch of runUsdcChargeOrchestrator).
THEOREM SuccessIsCharged == Spec => []SuccessMeansCharged
<1>1. Inv => SuccessMeansCharged BY DEF Inv
<1> QED BY <1>1, Invariance, PTL

\* A payment's points are minted only on the POS's signature over its own payload,
\* although the session hands a signature to whoever polls first
\* (masterSessionConsumePosSig, executeForAdminProcess).
THEOREM MintsAreSigned == Spec => []MintedOnlyAsSigned
<1>1. Inv => MintedOnlyAsSigned BY DEF Inv
<1> QED BY <1>1, Invariance, PTL

-----------------------------------------------------------------------------
(* Signatures.                                                             *)

\* The payload of s has been asked for: the POS may see it, the session has its
\* signature, or a payment has consumed it.
Unasked == {"new", "check", "challenge", "settle", "prepare"}
Spent(s) == \E p \in Pay : got[p] = s
Known(s) == session.pending = s \/ session.sig = s \/ Spent(s)

\* A payload is asked for in one patch, before anybody knows it.
AskedOnce ==
  /\ \A i, j \in 1..Len(net) : net[i].pending \in Pay /\ net[i].pending = net[j].pending => i = j
  /\ \A s \in Pay, i \in 1..Len(net) : net[i].pending = s => pc[s] \notin Unasked /\ ~Known(s)

\* Nobody knows a payload before it is asked for, and what a payment has
\* consumed is neither shown nor stored any more, nor with another payment.
Once ==
  /\ AskedOnce
  /\ \A s \in Pay : Known(s) => pc[s] \notin Unasked
  /\ \A s \in Pay : Spent(s) => session.pending # s /\ session.sig # s
  /\ \A p, q \in Pay : got[p] = got[q] /\ got[p] \in Pay => p = q

SigInv == TypeOK /\ Once

\* Whatever joins the patches in flight asks for no payload.
PlainNet ==
  \A i \in 1..Len(net') : net'[i].pending \in Pay => i \in 1..Len(net) /\ net'[i] = net[i]

Progress == \A p \in Pay : pc'[p] \in Unasked => pc[p] \in Unasked

\* A step that asks for nothing and leaves the signatures where they are.
LEMMA PlainStep ==
  ASSUME SigInv, PlainNet, Progress, UNCHANGED <<session, got>>
  PROVE  Once'
<1>1. \A s : Known(s)' <=> Known(s) BY DEF Known, Spent
<1>2. \A s : Spent(s)' <=> Spent(s) BY DEF Spent
<1>3. AskedOnce'
  <2>1. \A i, j \in 1..Len(net') :
          net'[i].pending \in Pay /\ net'[i].pending = net'[j].pending => i = j
    BY DEF SigInv, Once, AskedOnce, PlainNet
  <2>2. \A s \in Pay, i \in 1..Len(net') : net'[i].pending = s =>
          pc'[s] \notin Unasked /\ ~Known(s)
    BY DEF SigInv, Once, AskedOnce, PlainNet, Progress
  <2> QED BY <1>1, <2>1, <2>2 DEF AskedOnce
<1>4. \A s \in Pay : Known(s)' => pc'[s] \notin Unasked
  BY <1>1 DEF SigInv, Once, Progress
<1> QED BY <1>2, <1>3, <1>4 DEF SigInv, Once

\* Patches without a payload that are sent after what is in flight.
LEMMA PlainSend ==
  ASSUME NEW n \in Seq(Patch), NEW new \in Seq(Patch),
         \A j \in 1..Len(new) : new[j].pending = None
  PROVE  \A i \in 1..Len(n \o new) :
           (n \o new)[i].pending \in Pay => i \in 1..Len(n) /\ (n \o new)[i] = n[i]
<1>1. /\ Len(n \o new) = Len(n) + Len(new)
      /\ \A i \in 1..Len(n) + Len(new) :
           (n \o new)[i] = IF i <= Len(n) THEN n[i] ELSE new[i - Len(n)]
  BY ConcatProperties
<1>2. Len(n) \in Nat /\ Len(new) \in Nat BY LenProperties
<1>3. ASSUME NEW i \in 1..Len(n) + Len(new), (n \o new)[i].pending \in Pay
      PROVE  i \in 1..Len(n) /\ (n \o new)[i] = n[i]
  <2>1. CASE i <= Len(n) BY <1>1, <1>2, <2>1
  <2>2. CASE ~(i <= Len(n))
    <3>1. i - Len(n) \in 1..Len(new) /\ (n \o new)[i] = new[i - Len(n)] BY <1>1, <1>2, <2>2
    <3> QED BY <1>3, <3>1, ChargeAssumption
  <2> QED BY <2>1, <2>2
<1> QED BY <1>1, <1>3

LEMMA StatesAskNothing ==
  ASSUME TypeOK, NEW a \in SessionState \ {"none"}, sessionUpdate(<<State(a)>>)
  PROVE  PlainNet
<1>1. State(a) \in Patch /\ State(a).pending = None BY DEF State, Patch
<1>2. net \in Seq(Patch) /\ net' = net \o <<State(a)>> BY DEF TypeOK, sessionUpdate
<1> DEFINE new == <<State(a)>>
<1>3. new \in Seq(Patch) /\ \A j \in 1..Len(new) : new[j].pending = None BY <1>1
<1> HIDE DEF new
<1> QED BY <1>2, <1>3, PlainSend DEF new, PlainNet

LEMMA TwoStatesAskNothing ==
  ASSUME TypeOK, sessionUpdate(<<State("topup_confirmed"), State("charge_pending")>>)
  PROVE  PlainNet
<1> DEFINE a == State("topup_confirmed")
           b == State("charge_pending")
           new == <<a, b>>
<1>1. a \in Patch /\ b \in Patch /\ a.pending = None /\ b.pending = None
  BY DEF State, Patch, SessionState
<1>2. net \in Seq(Patch) /\ net' = net \o new BY DEF TypeOK, sessionUpdate
<1> HIDE DEF a, b
<1>3. new \in Seq(Patch) /\ Len(new) = 2 /\ new[1] = a /\ new[2] = b BY <1>1
<1>4. \A j \in 1..2 : j = 1 \/ j = 2 OBVIOUS
<1> HIDE DEF new
<1>5. \A j \in 1..Len(new) : new[j].pending = None BY <1>1, <1>3, <1>4
<1> QED BY <1>2, <1>3, <1>5, PlainSend DEF PlainNet

LEMMA QuietAsksNothing ==
  ASSUME Quiet PROVE PlainNet
BY DEF Quiet, PlainNet

\* A move of one payment that ends in no earlier place.
LEMMA Moves ==
  ASSUME TypeOK, NEW p \in Pay, NEW from, NEW to, Goto(p, from, to),
         to \in Unasked => from \in Unasked
  PROVE  Progress
BY DEF TypeOK, Goto, Progress

LEMMA AbortIsPlain ==
  ASSUME TypeOK, NEW p \in Pay, NEW from, NEW to \in Ended, Abort(p, from, to)
  PROVE  PlainNet /\ Progress
<1>1. to \notin Unasked BY DEF Ended, Unasked
<1>2. "error" \in SessionState \ {"none"} BY DEF SessionState
<1> QED BY <1>1, <1>2, StatesAskNothing, Moves DEF Abort

LEMMA AttemptIsPlain ==
  ASSUME TypeOK, NEW p \in Pay, NEW from, AttemptFails(p, from)
  PROVE  PlainNet /\ Progress
<1>1. "ghost dust" \in Ended /\ "read" \notin Unasked BY DEF Ended, Unasked
<1>2. CASE Goto(p, from, "read") /\ Quiet BY <1>1, <1>2, Moves, QuietAsksNothing
<1>3. CASE Abort(p, from, "ghost dust") BY <1>1, <1>3, AbortIsPlain
<1> QED BY <1>2, <1>3 DEF AttemptFails

\* All steps of a POST and of Master's workers but three.
LEMMA PlainSteps ==
  ASSUME SigInv, NEW p \in Pay,
         \/ Handler(p) \/ ChargeLeg(p) \/ Worker(p) \/ WorkerCrash(p)
         \/ TopupLeg(p) /\ ~AskPos(p) /\ ~ConsumePosSig(p)
  PROVE  Once'
<1>1. TypeOK BY DEF SigInv
<1>2. /\ {"refused", "topup error", "ghost dust"} \subseteq Ended
      /\ {"verifying", "settling", "topup_pending", "success"} \subseteq SessionState \ {"none"}
      /\ {"new", "check", "challenge", "settle", "prepare"} \subseteq Unasked
      /\ \A l \in {"unpaid", "minting", "confirm", "resolve", "read", "charging", "success", "dead"} :
           l \notin Unasked
  BY DEF Ended, SessionState, Unasked
<1>3. UNCHANGED <<session, got>>
  BY DEF Handler, Arrive, StartSettle, Refuse, NoPayment, PaymentRejected, PaymentVerified,
         SettleFails, Settle, ChargeLeg, ResolveAccounts, ResolveFails, PostCharge,
         AttemptNotPosted, ChargeAnswered, ChargeAnswerFails, Worker, executeForAdmin, MineMint,
         ContainerRelay, MineCharge, WorkerOnly, WorkerCrash, TopupLeg, PrepareFails, AuthTimeout,
         PostTopup, PostTopupFails, TopupAnswered, TopupAnswerFails, TopupConfirmed,
         ConfirmTimesOut, LocalOnly, masterVars, legVars
<1>4. CASE Handler(p)
  <2>1. CASE Arrive(p) \/ StartSettle(p) \/ Settle(p)
    <3>1. PlainNet BY <1>1, <1>2, <2>1, StatesAskNothing DEF Arrive, StartSettle, Settle
    <3>2. Progress BY <1>1, <1>2, <2>1, Moves DEF Arrive, StartSettle, Settle
    <3> QED BY <1>3, <3>1, <3>2, PlainStep
  <2>2. CASE Refuse(p) \/ PaymentRejected(p) \/ SettleFails(p)
    <3>1. PlainNet /\ Progress
      BY <1>1, <1>2, <2>2, AbortIsPlain DEF Refuse, PaymentRejected, SettleFails
    <3> QED BY <1>3, <3>1, PlainStep
  <2>3. CASE NoPayment(p) \/ PaymentVerified(p)
    <3>1. PlainNet BY <2>3, QuietAsksNothing DEF NoPayment, PaymentVerified
    <3>2. Progress BY <1>1, <1>2, <2>3, Moves DEF NoPayment, PaymentVerified
    <3> QED BY <1>3, <3>1, <3>2, PlainStep
  <2> QED BY <1>4, <2>1, <2>2, <2>3 DEF Handler
<1>5. CASE TopupLeg(p) /\ ~AskPos(p) /\ ~ConsumePosSig(p)
  <2>1. CASE PostTopup(p)
    <3>1. PlainNet /\ Progress BY <1>1, <1>2, <2>1, Moves, QuietAsksNothing DEF PostTopup
    <3> QED BY <1>3, <3>1, PlainStep
  <2>2. CASE TopupConfirmed(p)
    <3>1. PlainNet /\ Progress BY <1>1, <1>2, <2>2, Moves, TwoStatesAskNothing DEF TopupConfirmed
    <3> QED BY <1>3, <3>1, PlainStep
  <2>3. CASE TopupAnswered(p) /\ Goto(p, "minting", "confirm") /\ Quiet
    <3>1. PlainNet /\ Progress BY <1>1, <1>2, <2>3, Moves, QuietAsksNothing
    <3> QED BY <1>3, <3>1, PlainStep
  <2>4. CASE \E from : Abort(p, from, "topup error")
    <3>1. PlainNet /\ Progress BY <1>1, <1>2, <2>4, AbortIsPlain
    <3> QED BY <1>3, <3>1, PlainStep
  <2> QED BY <1>5, <2>1, <2>2, <2>3, <2>4
          DEF TopupLeg, PrepareFails, AuthTimeout, PostTopupFails, TopupAnswered, TopupAnswerFails,
              ConfirmTimesOut
<1>6. CASE ChargeLeg(p)
  <2>1. CASE ResolveAccounts(p) \/ PostCharge(p)
    <3>1. PlainNet BY <2>1, QuietAsksNothing DEF ResolveAccounts, PostCharge
    <3>2. Progress BY <1>1, <1>2, <2>1, Moves DEF ResolveAccounts, PostCharge
    <3> QED BY <1>3, <3>1, <3>2, PlainStep
  <2>2. CASE ResolveFails(p)
    <3>1. PlainNet /\ Progress BY <1>1, <1>2, <2>2, AbortIsPlain DEF ResolveFails
    <3> QED BY <1>3, <3>1, PlainStep
  <2>3. CASE Goto(p, "charging", "success") /\ sessionUpdate(<<State("success")>>)
    <3>1. PlainNet /\ Progress BY <1>1, <1>2, <2>3, Moves, StatesAskNothing
    <3> QED BY <1>3, <3>1, PlainStep
  <2>4. CASE \E from : AttemptFails(p, from)
    <3>1. PlainNet /\ Progress BY <1>1, <2>4, AttemptIsPlain
    <3> QED BY <1>3, <3>1, PlainStep
  <2> QED BY <1>6, <2>1, <2>2, <2>3, <2>4
          DEF ChargeLeg, AttemptNotPosted, ChargeAnswered, ChargeAnswerFails
<1>7. CASE Worker(p)
  <2>1. UNCHANGED <<pc, net>>
    BY <1>7 DEF Worker, executeForAdmin, MineMint, ContainerRelay, MineCharge, WorkerOnly
  <2>2. PlainNet /\ Progress BY <2>1 DEF PlainNet, Progress
  <2> QED BY <1>3, <2>2, PlainStep
<1>8. CASE WorkerCrash(p)
  <2>1. net' = net /\ pc' = [pc EXCEPT ![p] = "dead"] BY <1>8 DEF WorkerCrash
  <2>2. PlainNet /\ Progress BY <1>1, <1>2, <2>1 DEF PlainNet, Progress, TypeOK
  <2> QED BY <1>3, <2>2, PlainStep
<1> QED BY <1>4, <1>5, <1>6, <1>7, <1>8

\* The payload of p goes out for the first and only time.
LEMMA AskStep ==
  ASSUME SigInv, NEW p \in Pay, AskPos(p)
  PROVE  Once'
<1> DEFINE a == [state |-> "awaiting_topup_auth", pending |-> p]
<1>1. TypeOK /\ pc[p] = "prepare" /\ pc' = [pc EXCEPT ![p] = "await"] /\ net' = net \o <<a>>
      /\ UNCHANGED <<session, got>>
  BY DEF SigInv, AskPos, Goto, sessionUpdate, LocalOnly, masterVars, legVars
<1>2. a \in Patch /\ a.pending = p BY DEF Patch, SessionState
<1> HIDE DEF a
<1>3. net \in Seq(Patch) /\ <<a>> \in Seq(Patch) /\ Len(<<a>>) = 1 /\ <<a>>[1] = a
  BY <1>1, <1>2 DEF TypeOK
<1>4. Len(net) \in Nat BY <1>3, LenProperties
<1>5. /\ Len(net') = Len(net) + 1
      /\ \A i \in 1..Len(net) : net'[i] = net[i]
      /\ net'[Len(net) + 1] = a
  <2>1. /\ Len(net \o <<a>>) = Len(net) + Len(<<a>>)
        /\ \A i \in 1..Len(net) + Len(<<a>>) :
             (net \o <<a>>)[i] = IF i <= Len(net) THEN net[i] ELSE <<a>>[i - Len(net)]
    BY <1>3, ConcatProperties
  <2> QED BY <1>1, <1>3, <1>4, <2>1
<1>6. \A i \in 1..Len(net') : i \in 1..Len(net) \/ i = Len(net) + 1 BY <1>4, <1>5
<1>7. "prepare" \in Unasked /\ "await" \notin Unasked BY DEF Unasked
<1>8. ~Known(p) /\ \A i \in 1..Len(net) : net[i].pending # p
  BY <1>1, <1>7 DEF SigInv, Once, AskedOnce
<1>9. /\ \A s : Known(s)' <=> Known(s)
      /\ \A s : Spent(s)' <=> Spent(s)
  BY <1>1 DEF Known, Spent
<1>10. \A s \in Pay : pc'[s] \in Unasked => pc[s] \in Unasked BY <1>1, <1>7 DEF TypeOK
<1>11. AskedOnce'
  <2>1. \A i, j \in 1..Len(net') :
          net'[i].pending \in Pay /\ net'[i].pending = net'[j].pending => i = j
    BY <1>2, <1>5, <1>6, <1>8 DEF SigInv, Once, AskedOnce
  <2>2. ASSUME NEW s \in Pay, NEW i \in 1..Len(net'), net'[i].pending = s
        PROVE  pc'[s] \notin Unasked /\ ~Known(s)
    <3>1. CASE i \in 1..Len(net)
      BY <1>5, <1>10, <2>2, <3>1 DEF SigInv, Once, AskedOnce
    <3>2. CASE i = Len(net) + 1
      <4>1. s = p BY <1>2, <1>5, <2>2, <3>2
      <4> QED BY <1>1, <1>7, <1>8, <4>1 DEF TypeOK
    <3> QED BY <1>6, <3>1, <3>2
  <2> QED BY <1>9, <2>1, <2>2 DEF AskedOnce
<1> QED BY <1>1, <1>9, <1>10, <1>11 DEF SigInv, Once

\* The signature leaves the session, with the payload it is for or with another.
LEMMA ConsumeOnce ==
  ASSUME SigInv, NEW p \in Pay, ConsumePosSig(p)
  PROVE  Once'
<1>1. /\ session.sig \in Pay /\ net' = net
      /\ session' = [session EXCEPT !.sig = None, !.pending = None]
      /\ session \in [state : SessionState, pending : Pay \cup {None}, sig : Pay \cup {None}]
      /\ pc \in [Pay -> Waiting \cup Ended] /\ got \in [Pay -> Pay \cup {None}]
  BY DEF SigInv, TypeOK, ConsumePosSig, Quiet
<1>2. session'.sig = None /\ session'.pending = None /\ None \notin Pay
  BY <1>1, ChargeAssumption
<1>3. \A s \in Pay : pc'[s] \in Unasked => pc[s] \in Unasked
  BY <1>1 DEF ConsumePosSig, Goto, Unasked
<1>4. \/ got' = got
      \/ /\ \A q \in Pay : got'[q] = IF q = p THEN session.sig ELSE got[q]
  BY <1>1 DEF ConsumePosSig
<1>5. \A s \in Pay : Spent(s)' => Spent(s) \/ s = session.sig BY <1>4 DEF Spent
<1>6. \A s \in Pay : Known(s)' => Known(s) BY <1>2, <1>5 DEF Known
<1>7. AskedOnce' BY <1>1, <1>3, <1>6 DEF SigInv, Once, AskedOnce
<1>8. \A q, r \in Pay : got'[q] = got'[r] /\ got'[q] \in Pay => q = r
  <2>1. \A q \in Pay : got[q] # session.sig BY <1>1 DEF SigInv, Once, Spent
  <2> QED BY <1>4, <2>1 DEF SigInv, Once
<1> QED BY <1>2, <1>3, <1>6, <1>7, <1>8 DEF SigInv, Once

\* Taking a patch out leaves the others, each in one place.
LEMMA TakeAway ==
  ASSUME NEW n \in Seq(Patch), NEW i \in 1..Len(n)
  PROVE  \E from \in [1..Len(RemoveAt(n, i)) -> (1..Len(n)) \ {i}] :
            /\ \A j \in 1..Len(RemoveAt(n, i)) : RemoveAt(n, i)[j] = n[from[j]]
            /\ \A j, k \in 1..Len(RemoveAt(n, i)) : from[j] = from[k] => j = k
<1>1. Len(n) \in Nat /\ n \in [1..Len(n) -> Patch] BY LenProperties
<1> DEFINE a == SubSeq(n, 1, i - 1)
           b == SubSeq(n, i + 1, Len(n))
           from == [j \in 1..Len(n) - 1 |-> IF j < i THEN j ELSE j + 1]
<1>2. RemoveAt(n, i) = a \o b BY DEF RemoveAt
<1>3. /\ a \in Seq(Patch) /\ Len(a) = i - 1
      /\ \A j \in 1..i - 1 : a[j] = n[j]
  <2>1. \A j \in 1..i - 1 : n[j] \in Patch BY <1>1
  <2>2. i - 1 \in Int /\ 1 \in Int /\ i - 1 >= 0 BY <1>1
  <2>3. /\ a \in Seq(Patch)
        /\ Len(a) = IF 1 <= i - 1 THEN (i - 1) - 1 + 1 ELSE 0
        /\ \A j \in 1..(i - 1) - 1 + 1 : a[j] = n[1 + j - 1]
    BY <2>1, <2>2, SubSeqProperties
  <2> QED BY <2>2, <2>3
<1>4. /\ b \in Seq(Patch) /\ Len(b) = Len(n) - i
      /\ \A j \in 1..Len(n) - i : b[j] = n[i + j]
  <2>1. \A j \in i + 1..Len(n) : n[j] \in Patch BY <1>1
  <2>2. i + 1 \in Int /\ Len(n) \in Int /\ i <= Len(n) /\ i >= 1 BY <1>1
  <2>3. /\ b \in Seq(Patch)
        /\ Len(b) = IF i + 1 <= Len(n) THEN Len(n) - (i + 1) + 1 ELSE 0
        /\ \A j \in 1..Len(n) - (i + 1) + 1 : b[j] = n[i + 1 + j - 1]
    BY <2>1, <2>2, SubSeqProperties
  <2> QED BY <2>2, <2>3
<1> HIDE DEF a, b
<1>5. /\ Len(a \o b) = Len(a) + Len(b)
      /\ \A j \in 1..Len(a) + Len(b) :
           (a \o b)[j] = IF j <= Len(a) THEN a[j] ELSE b[j - Len(a)]
  BY <1>3, <1>4, ConcatProperties
<1>6. Len(a \o b) = Len(n) - 1 BY <1>1, <1>3, <1>4, <1>5
<1>7. from \in [1..Len(n) - 1 -> (1..Len(n)) \ {i}] BY <1>1
<1>8. ASSUME NEW j \in 1..Len(n) - 1 PROVE (a \o b)[j] = n[from[j]]
  <2>1. j \in 1..Len(a) + Len(b) BY <1>5, <1>6
  <2>2. CASE j < i
    <3>1. j <= Len(a) /\ j \in 1..i - 1 BY <1>1, <1>3, <2>2
    <3> QED BY <1>3, <1>5, <2>1, <2>2, <3>1
  <2>3. CASE ~(j < i)
    <3>1. ~(j <= Len(a)) /\ j - Len(a) \in 1..Len(n) - i /\ i + (j - Len(a)) = j + 1
      BY <1>1, <1>3, <2>3
    <3>2. (a \o b)[j] = b[j - Len(a)] BY <1>5, <2>1, <3>1
    <3>3. b[j - Len(a)] = n[i + (j - Len(a))] BY <1>4, <3>1
    <3>4. from[j] = j + 1 BY <2>3
    <3>5. n[i + (j - Len(a))] = n[j + 1] BY <3>1
    <3> HIDE DEF from
    <3> QED BY <3>2, <3>3, <3>4, <3>5
  <2> QED BY <2>2, <2>3
<1>9. \A j, k \in 1..Len(n) - 1 : from[j] = from[k] => j = k BY <1>1
<1> HIDE DEF from
<1>10. Len(RemoveAt(n, i)) = Len(n) - 1 BY <1>2, <1>6
<1>11. \A j \in 1..Len(n) - 1 : RemoveAt(n, i)[j] = n[from[j]] BY <1>2, <1>8
<1> QED BY <1>7, <1>9, <1>10, <1>11, Zenon

\* A patch arrives: what it asks for was unknown until now.
LEMMA UpsertOnce ==
  ASSUME SigInv, NEW i \in 1..Len(net), chargeSessionUpsert(i)
  PROVE  Once'
<1>1. /\ net' = RemoveAt(net, i) /\ net \in Seq(Patch) /\ UNCHANGED <<pc, got>>
      /\ session' = [session EXCEPT !.state = net[i].state,
                       !.pending = IF net[i].pending = None THEN @ ELSE net[i].pending]
      /\ session \in [state : SessionState, pending : Pay \cup {None}, sig : Pay \cup {None}]
  BY DEF SigInv, TypeOK, chargeSessionUpsert, SessionOnly, legVars
<1>2. /\ session'.sig = session.sig
      /\ session'.pending = session.pending \/ session'.pending = net[i].pending
  BY <1>1
<1>3. PICK from \in [1..Len(net') -> (1..Len(net)) \ {i}] :
             /\ \A j \in 1..Len(net') : net'[j] = net[from[j]]
             /\ \A j, k \in 1..Len(net') : from[j] = from[k] => j = k
  BY <1>1, TakeAway
<1>4. \A j \in 1..Len(net') : from[j] \in 1..Len(net) /\ from[j] # i BY <1>3
<1>5. \A s \in Pay : Spent(s)' <=> Spent(s) BY <1>1 DEF Spent
<1>6. \A s \in Pay : Known(s)' => Known(s) \/ net[i].pending = s BY <1>2, <1>5 DEF Known
<1>7. AskedOnce'
  <2>1. \A j, k \in 1..Len(net') :
          net'[j].pending \in Pay /\ net'[j].pending = net'[k].pending => j = k
    BY <1>3, <1>4 DEF SigInv, Once, AskedOnce
  <2>2. \A s \in Pay, j \in 1..Len(net') : net'[j].pending = s =>
          pc'[s] \notin Unasked /\ ~Known(s) /\ net[i].pending # s
    BY <1>1, <1>3, <1>4 DEF SigInv, Once, AskedOnce
  <2> QED BY <1>6, <2>1, <2>2 DEF AskedOnce
<1>8. \A s \in Pay : Known(s)' => pc'[s] \notin Unasked
  BY <1>1, <1>6 DEF SigInv, Once, AskedOnce
<1>9. \A s \in Pay : Spent(s) => net[i].pending # s
  BY DEF SigInv, Once, AskedOnce, Known
<1> QED BY <1>1, <1>2, <1>5, <1>7, <1>8, <1>9 DEF SigInv, Once

\* A patch is lost: the others still ask for different payloads.
LEMMA LostOnce ==
  ASSUME SigInv, NEW i \in 1..Len(net), PatchLost(i)
  PROVE  Once'
<1>1. /\ net' = RemoveAt(net, i) /\ net \in Seq(Patch) /\ UNCHANGED <<pc, got, session>>
  BY DEF SigInv, TypeOK, PatchLost, legVars
<1>2. PICK from \in [1..Len(net') -> (1..Len(net)) \ {i}] :
             /\ \A j \in 1..Len(net') : net'[j] = net[from[j]]
             /\ \A j, k \in 1..Len(net') : from[j] = from[k] => j = k
  BY <1>1, TakeAway
<1>3. \A j \in 1..Len(net') : from[j] \in 1..Len(net) BY <1>2
<1>4. /\ \A s : Known(s)' <=> Known(s)
      /\ \A s : Spent(s)' <=> Spent(s)
  BY <1>1 DEF Known, Spent
<1>5. AskedOnce'
  <2>1. \A j, k \in 1..Len(net') :
          net'[j].pending \in Pay /\ net'[j].pending = net'[k].pending => j = k
    BY <1>2, <1>3 DEF SigInv, Once, AskedOnce
  <2>2. \A s \in Pay, j \in 1..Len(net') : net'[j].pending = s =>
          pc'[s] \notin Unasked /\ ~Known(s)
    BY <1>1, <1>2, <1>3 DEF SigInv, Once, AskedOnce
  <2> QED BY <1>4, <2>1, <2>2 DEF AskedOnce
<1> QED BY <1>1, <1>4, <1>5 DEF SigInv, Once

\* The POS reads and signs, Master stores what the session still shows.
LEMMA AuthOnce ==
  ASSUME SigInv, PosSigns \/ nfcUsdcChargeTopupAuth
  PROVE  Once'
<1>1. /\ UNCHANGED <<pc, got, net>> /\ posSig \in Pay \cup {None}
      /\ session \in [state : SessionState, pending : Pay \cup {None}, sig : Pay \cup {None}]
  BY DEF SigInv, TypeOK, PosSigns, nfcUsdcChargeTopupAuth, SessionOnly, legVars
<1>2. /\ session'.pending = session.pending
      /\ session'.sig = session.sig \/ session'.sig = session.pending
  BY <1>1 DEF PosSigns, nfcUsdcChargeTopupAuth
<1>3. \A s \in Pay : Spent(s)' <=> Spent(s) BY <1>1 DEF Spent
<1>4. \A s \in Pay : Known(s)' => Known(s) BY <1>2, <1>3 DEF Known
<1>5. AskedOnce' BY <1>1, <1>4 DEF SigInv, Once, AskedOnce
<1> QED BY <1>1, <1>2, <1>3, <1>4, <1>5 DEF SigInv, Once

\* The session is forgotten, and perhaps what was in flight.
LEMMA ForgetOnce ==
  ASSUME SigInv, Expire \/ MasterRestart
  PROVE  Once'
<1>1. UNCHANGED <<pc, got>> /\ session' = Fresh /\ (net' = net \/ net' = <<>>)
  BY DEF Expire, MasterRestart, SessionOnly, legVars
<1>2. session'.pending = None /\ session'.sig = None /\ None \notin Pay
  BY <1>1, ChargeAssumption DEF Fresh
<1>3. \A s \in Pay : Spent(s)' <=> Spent(s) BY <1>1 DEF Spent
<1>4. \A s \in Pay : Known(s)' => Known(s) BY <1>2, <1>3 DEF Known
<1>5. AskedOnce'
  <2>1. CASE net' = net BY <1>1, <1>4, <2>1 DEF SigInv, Once, AskedOnce
  <2>2. CASE net' = <<>>
    <3>1. 1..Len(net') = {} BY <2>2
    <3> QED BY <3>1 DEF AskedOnce
  <2> QED BY <1>1, <2>1, <2>2
<1> QED BY <1>1, <1>2, <1>3, <1>4, <1>5 DEF SigInv, Once

LEMMA NextOnce == SigInv /\ [Next]_vars => Once'
<1> SUFFICES ASSUME SigInv, [Next]_vars PROVE Once' OBVIOUS
<1>1. CASE \E p \in Pay : Handler(p) \/ TopupLeg(p) \/ ChargeLeg(p) \/ Worker(p) \/ WorkerCrash(p)
  BY <1>1, PlainSteps, AskStep, ConsumeOnce
<1>2. CASE Sessions
  <2>1. CASE \E i \in 1..MaxInFlight : chargeSessionUpsert(i)
    <3>1. PICK i \in 1..MaxInFlight : chargeSessionUpsert(i) BY <2>1
    <3>2. i \in 1..Len(net) BY <3>1 DEF chargeSessionUpsert
    <3> QED BY <3>1, <3>2, UpsertOnce
  <2> QED BY <1>2, <2>1, AuthOnce, ForgetOnce DEF Sessions
<1>3. CASE MasterRestart BY <1>3, ForgetOnce
<1>4. CASE \E i \in 1..MaxInFlight : PatchLost(i)
  <2>1. PICK i \in 1..MaxInFlight : PatchLost(i) BY <1>4
  <2>2. i \in 1..Len(net) BY <2>1 DEF PatchLost
  <2> QED BY <2>1, <2>2, LostOnce
<1>5. CASE UNCHANGED vars
  <2>1. PlainNet /\ Progress /\ UNCHANGED <<session, got>>
    BY <1>5 DEF vars, PlainNet, Progress
  <2> QED BY <2>1, PlainStep
<1> QED BY <1>1, <1>2, <1>3, <1>4, <1>5 DEF Next

LEMMA InitOnce == Init => Once
<1> SUFFICES ASSUME Init PROVE Once OBVIOUS
<1>1. session.pending = None /\ session.sig = None /\ None \notin Pay
  BY ChargeAssumption DEF Init, Fresh
<1>2. \A s \in Pay : ~Spent(s) /\ ~Known(s) BY <1>1 DEF Init, Spent, Known
<1>3. 1..Len(net) = {} BY DEF Init
<1> QED BY <1>1, <1>2, <1>3 DEF Init, Once, AskedOnce, Spent

\* A signature of the POS is consumed by one payment, and not shown or stored
\* again afterwards (masterSessionConsumePosSig clears it together with the
\* payload), though payments share the session and patches overtake each other.
THEOREM SignaturesAreSpent == Spec => []SignatureConsumedOnce
<1>1. Once => SignatureConsumedOnce
  <2> SUFFICES ASSUME Once, NEW s \in Pay
               PROVE  /\ Cardinality({p \in Pay : got[p] = s}) <= 1
                      /\ session.sig = s => \A p \in Pay : got[p] # s
    BY DEF SignatureConsumedOnce
  <2>1. session.sig = s => \A p \in Pay : got[p] # s BY DEF Once, Spent
  <2>2. CASE {p \in Pay : got[p] = s} = {} BY <2>1, <2>2, FS_EmptySet
  <2>3. CASE \E p \in Pay : got[p] = s
    <3>1. PICK p \in Pay : got[p] = s BY <2>3
    <3>2. {q \in Pay : got[q] = s} = {p} BY <3>1 DEF Once
    <3>3. Cardinality({p}) = 1 BY FS_Singleton
    <3> QED BY <2>1, <3>2, <3>3
  <2> QED BY <2>2, <2>3
<1>2. Inv => TypeOK BY DEF Inv
<1>3. TypeOK /\ Once /\ [Next]_vars => Once' BY NextOnce DEF SigInv
<1> QED BY <1>1, <1>2, <1>3, InitOnce, Invariance, PTL DEF Spec
=============================================================================
