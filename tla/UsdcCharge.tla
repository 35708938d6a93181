----------------------------- MODULE UsdcCharge -----------------------------
(***************************************************************************)
(* The background orchestration behind POST /api/nfcUsdcCharge             *)
(* (endpoint/usdcChargeOrchestrator.ts, endpoint/beamioServer.ts) and the  *)
(* charge session that Master keeps for it (endpoint/beamioMaster.ts).     *)
(*                                                                         *)
(* A POS terminal shows a QR code with a session id.  Every element of Pay *)
(* is one POST a customer's browser makes for that one session id: it      *)
(* verifies and settles an x402 payment to the card owner, is answered at  *)
(* once, and goes on in the background.  Leg 1 asks the POS to sign a mint *)
(* of points to a wallet made for this payment and has Master mint them;   *)
(* leg 2 has Master move the points from that wallet to the merchant.      *)
(*                                                                         *)
(* Everything the POST learns is sent to Master as a patch of the session, *)
(* without waiting for the answer, so patches may overtake each other, and *)
(* a patch whose POST fails is logged and lost.                            *)
(* The POS polls the session.                                              *)
(*                                                                         *)
(* The QR is for a payment without NFC card; the NFC variant, which ends   *)
(* with the settlement, and the raw-signature variant are left out.        *)
(***************************************************************************)
EXTENDS Integers, Sequences, FiniteSets, SequencesExt

CONSTANTS
  Pay,            \* the POSTs made for the session id
  None,           \* no payload, no signature
  MaxAttempts,    \* L2_RETRY_BACKOFF_MS.length
  Window,         \* the next patch to arrive is one of the Window oldest in flight
  MaxInFlight,    \* bound on the patches in flight
  MaxFaults,      \* bound on RPC and HTTP errors
  MaxRestarts     \* bound on restarts of Master and crashes of a worker

ASSUME ChargeAssumption ==
  /\ None \notin Pay
  /\ MaxAttempts \in Nat \ {0} /\ Window \in Nat \ {0}
  /\ MaxInFlight \in Nat /\ MaxFaults \in Nat /\ MaxRestarts \in Nat

VARIABLES
  pc,        \* where the handler or the orchestrator of a POST is
  session,   \* Master's record of the session id
  net,       \* the patches in flight, oldest first
  posSig,    \* the payload the POS has read and signed, until it posts it
  got,       \* the signature an orchestrator consumed: the payload it signs
  mint,      \* the mint a POST asked Master for
  attempt,   \* the attempt of leg 2
  charge,    \* the transfers of an attempt
  cut,       \* the POSTs whose pending call of Master was cut by a restart
  endLost,   \* history: a patch that tells the end has been lost
  faults, restarts

vars == <<pc, session, net, posSig, got, mint, attempt, charge, cut,
          endLost, faults, restarts>>

SessionState ==
  {"none", "verifying", "settling", "topup_pending", "awaiting_topup_auth",
   "topup_confirmed", "charge_pending", "success", "error"}
Terminal == {"success", "error"}

\* The record of a session; "none" is the absence of a record, which the POS is
\* shown as awaiting_payment.  pending stands for the pendingTopup* fields.
Fresh == [state |-> "none", pending |-> None, sig |-> None]

\* A patch carries a state, and when it asks for a signature, a payload.
Patch == [state : SessionState \ {"none"}, pending : Pay \cup {None}]
State(s) == [state |-> s, pending |-> None]

Waiting == {"new", "check", "challenge", "settle", "prepare", "await", "topup",
            "minting", "confirm", "resolve", "read", "charging"}
Ended == {"refused", "unpaid", "topup error", "ghost dust", "success", "dead"}

\* The orchestrator runs: USDC is at the card owner and leg 1 or 2 is under way.
Running(p) == pc[p] \in {"prepare", "await", "topup", "minting", "confirm", "resolve",
                         "read", "charging"}

Minted(p) == mint[p] = "ok"
Charged(p) == \E k \in 1..MaxAttempts : charge[p][k] = "ok"

Fault == faults < MaxFaults /\ faults' = faults + 1

Init ==
  /\ pc = [p \in Pay |-> "new"]
  /\ session = Fresh /\ net = <<>> /\ posSig = None
  /\ got = [p \in Pay |-> None] /\ mint = [p \in Pay |-> "none"]
  /\ attempt = [p \in Pay |-> 1]
  /\ charge = [p \in Pay |-> [k \in 1..MaxAttempts |-> "none"]]
  /\ cut = {} /\ endLost = FALSE /\ faults = 0 /\ restarts = 0

-----------------------------------------------------------------------------
(* Steps of a POST.                                                        *)

Goto(p, from, to) == pc[p] = from /\ pc' = [pc EXCEPT ![p] = to]

\* sessionUpdate: the patches leave and nobody waits for their answers.
sessionUpdate(patches) ==
  /\ Len(net) + Len(patches) <= MaxInFlight
  /\ net' = net \o patches

Quiet == net' = net

legVars == <<got, mint, attempt, charge>>
masterVars == <<session, posSig, endLost, restarts>>
LocalOnly == UNCHANGED <<masterVars, legVars, cut>>

\* Mutant: a POST that fails does not tell the session.
Abort_Silently(p, from, outcome) == Goto(p, from, outcome) /\ Quiet

\* A POST ends with the session in error.
Abort(p, from, outcome) ==
  /\ Goto(p, from, outcome)
  /\ sessionUpdate(<<State("error")>>)

\* The request is well formed: the session is told that a customer has come.
Arrive(p) ==
  /\ Goto(p, "new", "check") /\ sessionUpdate(<<State("verifying")>>)
  /\ UNCHANGED faults /\ LocalOnly

\* The card owner, the POS and the oracle are checked before the payment.
StartSettle(p) ==
  /\ Goto(p, "check", "challenge") /\ sessionUpdate(<<State("settling")>>)
  /\ UNCHANGED faults /\ LocalOnly

Refuse(p) ==
  /\ Abort(p, "check", "refused")
  /\ UNCHANGED faults /\ LocalOnly

\* The first hop of x402 carries no payment: the 402 is sent, and the promise of
\* verifyPaymentNew is never resolved, so nothing follows.
NoPayment(p) ==
  /\ Goto(p, "challenge", "unpaid") /\ Quiet
  /\ UNCHANGED faults /\ LocalOnly

PaymentRejected(p) ==
  /\ Abort(p, "challenge", "refused")
  /\ UNCHANGED faults /\ LocalOnly

PaymentVerified(p) ==
  /\ Goto(p, "challenge", "settle") /\ Quiet
  /\ UNCHANGED faults /\ LocalOnly

SettleFails(p) ==
  /\ Abort(p, "settle", "refused")
  /\ UNCHANGED faults /\ LocalOnly

\* USDC is at the card owner: answer the browser and start the orchestrator.
Settle(p) ==
  /\ Goto(p, "settle", "prepare") /\ sessionUpdate(<<State("topup_pending")>>)
  /\ UNCHANGED faults /\ LocalOnly

-----------------------------------------------------------------------------
(* Leg 1: the mint.                                                        *)

\* No POS, no payload, or too few B-Units for the fee.
PrepareFails(p) ==
  /\ Abort(p, "prepare", "topup error")
  /\ UNCHANGED faults /\ LocalOnly

\* The payload is shown to the POS.
AskPos(p) ==
  /\ Goto(p, "prepare", "await")
  /\ sessionUpdate(<<[state |-> "awaiting_topup_auth", pending |-> p]>>)
  /\ UNCHANGED faults /\ LocalOnly

\* Mutant: Master hands the signature out and keeps it.
ConsumePosSig_Keeps(p) ==
  /\ pc[p] = "await" /\ session.state \notin {"none", "error"} /\ session.sig # None
  /\ UNCHANGED session
  /\ \/ /\ Goto(p, "await", "topup") /\ got' = [got EXCEPT ![p] = session.sig]
        /\ UNCHANGED faults
     \/ UNCHANGED <<pc, got>> /\ Fault
  /\ Quiet /\ UNCHANGED <<posSig, endLost, restarts, mint, attempt, charge, cut>>

\* One poll finds the signature: Master gives it away and clears the payload.
\* The answer may be lost on its way back, and the signature with it.
ConsumePosSig(p) ==
  /\ pc[p] = "await" /\ session.state \notin {"none", "error"} /\ session.sig # None
  /\ session' = [session EXCEPT !.sig = None, !.pending = None]
  /\ \/ /\ Goto(p, "await", "topup") /\ got' = [got EXCEPT ![p] = session.sig]
        /\ UNCHANGED faults
     \/ UNCHANGED <<pc, got>> /\ Fault
  /\ Quiet /\ UNCHANGED <<posSig, endLost, restarts, mint, attempt, charge, cut>>

\* Mutant: the wait for the POS has no deadline once the POS has been asked.
AuthTimeout_Never(p) ==
  /\ session.state = "error" /\ Abort(p, "await", "topup error")
  /\ UNCHANGED faults /\ LocalOnly

\* 120 s without a signature.  A session in error does not end the wait: Master
\* answers with the text of the error, which the poll takes for "not yet".
AuthTimeout(p) ==
  /\ Abort(p, "await", "topup error")
  /\ UNCHANGED faults /\ LocalOnly

\* POST /api/nfcUsdcTopup: the mint is queued; or Master could not be reached.
PostTopup(p) ==
  /\ Goto(p, "topup", "minting") /\ Quiet
  /\ mint' = [mint EXCEPT ![p] = "queued"]
  /\ UNCHANGED <<masterVars, got, attempt, charge, cut, faults>>

PostTopupFails(p) ==
  /\ Abort(p, "topup", "topup error")
  /\ Fault /\ LocalOnly

\* Master's answer: 200 after a good receipt, 400 after a refusal or a revert.
TopupAnswered(p) ==
  /\ p \notin cut
  /\ \/ mint[p] = "ok" /\ Goto(p, "minting", "confirm") /\ Quiet
     \/ mint[p] \in {"refused", "reverted"} /\ Abort(p, "minting", "topup error")
  /\ UNCHANGED faults /\ LocalOnly

\* The answer is an error although the mint may be on its way: waiting for the
\* receipt failed, or the answer was lost, or Master restarted.
TopupAnswerFails(p) ==
  /\ Abort(p, "minting", "topup error")
  /\ IF p \in cut THEN UNCHANGED faults ELSE Fault
  /\ cut' = cut \ {p}
  /\ UNCHANGED <<masterVars, legVars>>

\* The worker's own wait for the transaction.
TopupConfirmed(p) ==
  /\ Goto(p, "confirm", "resolve")
  /\ sessionUpdate(<<State("topup_confirmed"), State("charge_pending")>>)
  /\ UNCHANGED faults /\ LocalOnly

ConfirmTimesOut(p) ==
  /\ Abort(p, "confirm", "topup error")
  /\ Fault /\ LocalOnly

-----------------------------------------------------------------------------
(* Leg 2: the transfer to the merchant.                                    *)

\* Three tries for the account of the payment's wallet, three for the owner's.
ResolveAccounts(p) ==
  /\ Goto(p, "resolve", "read") /\ Quiet
  /\ UNCHANGED faults /\ LocalOnly

ResolveFails(p) ==
  /\ Abort(p, "resolve", "ghost dust")
  /\ Fault /\ LocalOnly

\* A retriable error of one attempt; after the last one the key is dropped and
\* the points are logged as ghost dust.
AttemptFails(p, from) ==
  \/ /\ attempt[p] < MaxAttempts
     /\ Goto(p, from, "read") /\ Quiet
     /\ attempt' = [attempt EXCEPT ![p] = @ + 1]
  \/ /\ attempt[p] = MaxAttempts
     /\ Abort(p, from, "ghost dust")
     /\ UNCHANGED attempt

\* The balance is read, a transfer of all of it is signed and posted.
PostCharge(p) ==
  /\ ~Charged(p)
  /\ Goto(p, "read", "charging") /\ Quiet
  /\ charge' = [charge EXCEPT ![p][attempt[p]] = "queued"]
  /\ UNCHANGED <<masterVars, got, mint, attempt, cut, faults>>

\* Nothing to transfer, an RPC error, or Master could not be reached.
AttemptNotPosted(p) ==
  /\ AttemptFails(p, "read")
  /\ IF Charged(p) THEN UNCHANGED faults ELSE Fault
  /\ UNCHANGED <<masterVars, got, mint, charge, cut>>

ChargeAnswered(p) ==
  LET status == charge[p][attempt[p]]
  IN  /\ p \notin cut
      /\ \/ /\ status = "ok"
            /\ Goto(p, "charging", "success") /\ sessionUpdate(<<State("success")>>)
            /\ UNCHANGED attempt
         \/ status = "bad" /\ AttemptFails(p, "charging")
      /\ UNCHANGED <<masterVars, got, mint, charge, cut, faults>>

\* Mutant: without a receipt the transfer counts as done.
ChargeAnswerFails_CountsAsDone(p) ==
  /\ Goto(p, "charging", "success") /\ sessionUpdate(<<State("success")>>)
  /\ UNCHANGED attempt
  /\ IF p \in cut THEN UNCHANGED faults ELSE Fault
  /\ cut' = cut \ {p}
  /\ UNCHANGED <<masterVars, got, mint, charge>>

\* An error although the transfer may be on its way: a missing receipt is
\* answered as "Payment failed on-chain".
ChargeAnswerFails(p) ==
  /\ AttemptFails(p, "charging")
  /\ IF p \in cut THEN UNCHANGED faults ELSE Fault
  /\ cut' = cut \ {p}
  /\ UNCHANGED <<masterVars, got, mint, charge>>

-----------------------------------------------------------------------------
(* Master's workers and the chain.                                         *)

WorkerOnly ==
  UNCHANGED <<pc, session, net, posSig, got, attempt, cut, endLost, restarts>>

\* Mutant: the signer of the payload is not checked.
executeForAdmin_Unchecked(p) ==
  /\ mint[p] = "queued"
  /\ mint' = [mint EXCEPT ![p] = "sent"]
  /\ UNCHANGED faults
  /\ UNCHANGED charge /\ WorkerOnly

\* executeForAdminProcess: the signature must be an admin's over this payload; a
\* signature over another one recovers to no admin.
executeForAdmin(p) ==
  /\ mint[p] = "queued"
  /\ \/ got[p] = p /\ mint' = [mint EXCEPT ![p] = "sent"] /\ UNCHANGED faults
     \/ got[p] # p /\ mint' = [mint EXCEPT ![p] = "refused"] /\ UNCHANGED faults
     \/ mint' = [mint EXCEPT ![p] = "refused"] /\ Fault
  /\ UNCHANGED charge /\ WorkerOnly

MineMint(p) ==
  /\ mint[p] = "sent"
  /\ \/ mint' = [mint EXCEPT ![p] = "ok"] /\ UNCHANGED faults
     \/ mint' = [mint EXCEPT ![p] = "reverted"] /\ Fault
  /\ UNCHANGED charge /\ WorkerOnly

\* ContainerRelayProcess: every transfer of a payment carries the first nonce of
\* its account, which is used up once one of them is done.
ContainerRelay(p, k) ==
  /\ charge[p][k] = "queued"
  /\ \/ ~Charged(p) /\ charge' = [charge EXCEPT ![p][k] = "sent"] /\ UNCHANGED faults
     \/ Charged(p) /\ charge' = [charge EXCEPT ![p][k] = "bad"] /\ UNCHANGED faults
     \/ charge' = [charge EXCEPT ![p][k] = "bad"] /\ Fault
  /\ UNCHANGED mint /\ WorkerOnly

MineCharge(p, k) ==
  /\ charge[p][k] = "sent"
  /\ charge' = [charge EXCEPT ![p][k] = IF Charged(p) THEN "bad" ELSE "ok"]
  /\ UNCHANGED <<mint, faults>> /\ WorkerOnly

-----------------------------------------------------------------------------
(* Master's session store and the POS.                                     *)

SessionOnly == UNCHANGED <<pc, legVars, cut, endLost, faults, restarts>>

\* chargeSessionUpsert: a patch is merged into the record, whatever its state.
chargeSessionUpsert(i) ==
  /\ i \in 1..Len(net) /\ i <= Window
  /\ net' = RemoveAt(net, i)
  /\ session' = [session EXCEPT !.state = net[i].state,
                   !.pending = IF net[i].pending = None THEN @ ELSE net[i].pending]
  /\ UNCHANGED posSig /\ SessionOnly

\* Master is up but the POST of a patch fails: masterSessionUpsert logs the error,
\* nobody sends the patch again, and the POST it came from goes on.
PatchLost(i) ==
  /\ i \in 1..Len(net) /\ i <= Window
  /\ net' = RemoveAt(net, i)
  /\ endLost' = (endLost \/ net[i].state \in Terminal)
  /\ Fault
  /\ UNCHANGED <<pc, session, posSig, legVars, cut, restarts>>

\* The POS polls, finds a payload to sign and signs it.
PosSigns ==
  /\ session.state = "awaiting_topup_auth" /\ session.pending # None
  /\ posSig' = session.pending
  /\ UNCHANGED <<session, net>> /\ SessionOnly

\* nfcUsdcChargeTopupAuth: the signature is stored if it is over the payload the
\* session shows now.
nfcUsdcChargeTopupAuth ==
  /\ posSig # None /\ posSig' = None
  /\ IF session.state = "awaiting_topup_auth" /\ session.pending = posSig
     THEN session' = [session EXCEPT !.sig = posSig]
     ELSE UNCHANGED session
  /\ UNCHANGED net /\ SessionOnly

\* Ten minutes without a patch: the record is pruned.  No run is that long.
Expire ==
  /\ session # Fresh /\ net = <<>> /\ \A p \in Pay : ~Running(p)
  /\ session' = Fresh
  /\ UNCHANGED <<net, posSig>> /\ SessionOnly

-----------------------------------------------------------------------------
(* Restarts.                                                               *)

Restart == restarts < MaxRestarts /\ restarts' = restarts + 1

\* The sessions and the queues of Master are in memory only.
MasterRestart ==
  /\ Restart
  /\ session' = Fresh /\ net' = <<>>
  /\ mint' = [p \in Pay |-> IF mint[p] = "queued" THEN "refused" ELSE mint[p]]
  /\ charge' = [p \in Pay |-> [k \in 1..MaxAttempts |->
                  IF charge[p][k] = "queued" THEN "bad" ELSE charge[p][k]]]
  /\ cut' = {p \in Pay : pc[p] \in {"minting", "charging"}}
  /\ UNCHANGED <<pc, posSig, got, attempt, endLost, faults>>

\* A cluster worker dies with the orchestrator and the key of its wallet.
WorkerCrash(p) ==
  /\ Restart /\ Running(p)
  /\ pc' = [pc EXCEPT ![p] = "dead"] /\ cut' = cut \ {p}
  /\ UNCHANGED <<session, net, posSig, legVars, endLost, faults>>

-----------------------------------------------------------------------------
Handler(p) ==
  \/ Arrive(p) \/ StartSettle(p) \/ Refuse(p) \/ NoPayment(p) \/ PaymentRejected(p)
  \/ PaymentVerified(p) \/ SettleFails(p) \/ Settle(p)

TopupLeg(p) ==
  \/ PrepareFails(p) \/ AskPos(p) \/ ConsumePosSig(p) \/ AuthTimeout(p)
  \/ PostTopup(p) \/ PostTopupFails(p) \/ TopupAnswered(p) \/ TopupAnswerFails(p)
  \/ TopupConfirmed(p) \/ ConfirmTimesOut(p)

ChargeLeg(p) ==
  \/ ResolveAccounts(p) \/ ResolveFails(p) \/ PostCharge(p) \/ AttemptNotPosted(p)
  \/ ChargeAnswered(p) \/ ChargeAnswerFails(p)

Worker(p) ==
  \/ executeForAdmin(p) \/ MineMint(p)
  \/ \E k \in 1..MaxAttempts : ContainerRelay(p, k) \/ MineCharge(p, k)

Sessions ==
  \/ \E i \in 1..MaxInFlight : chargeSessionUpsert(i)
  \/ PosSigns \/ nfcUsdcChargeTopupAuth \/ Expire

Next ==
  \/ \E p \in Pay : Handler(p) \/ TopupLeg(p) \/ ChargeLeg(p) \/ Worker(p) \/ WorkerCrash(p)
  \/ Sessions \/ MasterRestart
  \/ \E i \in 1..MaxInFlight : PatchLost(i)

Spec == Init /\ [][Next]_vars

\* The event loops of the worker and of Master go on, and transactions are mined;
\* nobody can count on the customer or on the POS.
Fairness ==
  /\ \A p \in Pay :
       /\ WF_vars(Running(p) /\ (TopupLeg(p) \/ ChargeLeg(p)))
       /\ WF_vars(Worker(p))
  /\ WF_vars(chargeSessionUpsert(1))

FairSpec == Spec /\ Fairness

-----------------------------------------------------------------------------
\* Shapes only: every POST, the session, the patches and the jobs have values of
\* their kinds.
TypeOK ==
  /\ pc \in [Pay -> Waiting \cup Ended]
  /\ session \in [state : SessionState, pending : Pay \cup {None}, sig : Pay \cup {None}]
  /\ net \in Seq(Patch) /\ posSig \in Pay \cup {None}
  /\ got \in [Pay -> Pay \cup {None}]
  /\ mint \in [Pay -> {"none", "queued", "sent", "refused", "ok", "reverted"}]
  /\ attempt \in [Pay -> 1..MaxAttempts]
  /\ charge \in [Pay -> [1..MaxAttempts -> {"none", "queued", "sent", "ok", "bad"}]]
  /\ cut \subseteq Pay /\ endLost \in BOOLEAN /\ faults \in Nat /\ restarts \in Nat

\* The POS is told success only when the merchant has the points of a payment of
\* this session, whatever was lost, retried or reordered on the way.
SuccessMeansCharged == session.state = "success" => \E p \in Pay : Charged(p)

\* Points are minted for a payment only on the POS's signature over the payload
\* of that very payment, also when two payments share the session.
MintedOnlyAsSigned == \A p \in Pay : mint[p] \in {"sent", "ok", "reverted"} => got[p] = p

\* A signature of the POS is handed to one payment only: it is in the session or
\* with one orchestrator.
SignatureConsumedOnce ==
  \A s \in Pay :
    /\ Cardinality({p \in Pay : got[p] = s}) <= 1
    /\ session.sig = s => \A p \in Pay : got[p] # s

\* Every payment whose orchestrator started comes to an end: no wait for the POS,
\* for Master or for the chain lasts forever.
EveryRunEnds == \A p \in Pay : Running(p) ~> ~Running(p)

\* The POS is shown the end: while the orchestrator of a payment runs, a terminal
\* state of the session lies ahead, whatever order the patches arrive in, unless
\* Master restarts and forgets the session or the one patch that tells the end is
\* lost, which nobody sends again.  It is shown once: a patch that was overtaken
\* may cover it afterwards.
TheEndIsShown ==
  \A p \in Pay : Running(p) ~> session.state \in Terminal \/ restarts > 0 \/ endLost
=============================================================================
