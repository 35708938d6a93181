----------------------------- MODULE LedgerScripts -----------------------------
(***************************************************************************)
(* Workers of MemberCard.ts that create accounts, keep the books of the    *)
(* indexer and move B-Units.  Effects: "main" what the client asked for,   *)
(* "fee" B-Units taken, "book" and "feeBook" entries of the indexer,       *)
(* "deploy" a smart account, "move" a follow-up transfer.                  *)
(***************************************************************************)
EXTENDS ServiceScript

------------------------------------------------------------------------------
(* Smart accounts.                                                         *)

DeployAttempt ==
  Risk \o Either(Nothing, Send("deploy") \o Tolerate(Mined("deploy")) \o Risk \o Require)

\* After a nonce race: the account is there by now, or one more attempt.
DeployingSmartAccount ==
  Try(DeployAttempt, IfError("nonce", Either(Nothing, DeployAttempt), Throw))

ensureAAForEOAOnAaFactory == Risk \o Either(Nothing, Risk \o Either(Nothing, DeployingSmartAccount))

ensureAAForEOAOnConet ==
  Require \o PollKey("conet") \o Finally(ensureAAForEOAOnAaFactory, GiveKeys)

ensureAAForEOAOnCard ==
  Require \o Risk \o PollKey("conet") \o Finally(ensureAAForEOAOnAaFactory, GiveKeys)

\* The same for a caller that holds a key.
ensureAAWithHeldKey == Require \o Risk \o ensureAAForEOAOnAaFactory

ensureAAForEOA == ensureAAForEOAOnConet

\* A failed receipt is forgiven when the account is found on chain afterwards.
createInstitutionalAaForEoa ==
  Require \o PollKey("conet")
  \o Finally(Risk \o Require
             \o Either(Nothing, Send("main") \o Tolerate(Mined("main")) \o Risk \o Mined("main")),
             GiveKeys)

------------------------------------------------------------------------------
(* The indexer's books.                                                    *)

BookRow(row) == Send(row) \o Tolerate(Mined(row))

\* 2 B-Units of x402, or 5 of a charge or a gift.
ConsumeFee == Tolerate(Tx("fee"))

\* Mutant: the row of a tip pays the fee of the charge once more.
beamioTransferIndexerAccountingProcess_TipPays ==
  Worker("conet",
    Require \o Risk
    \o IfJob("bill", ConsumeFee, IfJob("due", ConsumeFee, IfJob("tip", ConsumeFee, Nothing)))
    \o IfJob("tip", BookRow("tipBook"), BookRow("book"))
    \o IfJob("tip", Nothing, Either(Nothing, Tolerate(Risk \o Tx("feeBook"))))
    \o Say("sent"),
    IfError("exists", Say("already") \o Stop,
            IfError("gas", Requeue, Nothing) \o Say("refused")))

\* The fee is taken before a booking that may still fail: of a "bill" the relay
\* has sent, and of a transfer made elsewhere whose fee is "due".  A "paid" bill
\* has paid it before; a "tip" and a transfer of another source pay none.
beamioTransferIndexerAccountingProcess ==
  Worker("conet",
    Require \o Risk                                   \* the payment is on chain and good
    \o IfJob("bill", ConsumeFee, IfJob("due", ConsumeFee, Nothing))
    \o IfJob("tip", BookRow("tipBook"), BookRow("book"))
    \o IfJob("tip", Nothing, Either(Nothing, Tolerate(Risk \o Tx("feeBook"))))
    \o Say("sent"),
    IfError("exists", Say("already") \o Stop,
            IfError("gas", Requeue, Nothing) \o Say("refused")))

\* The fee is taken after the answer; the key goes back when that ends.
requestAccountingProcess ==
  LET release == GiveKeys \o Again
  IN Key("conet")
     \o Try(Require \o Send("main") \o Tolerate(Mined("main")) \o Say("sent")
            \o Either(Spawn(Tolerate(Tx("fee")) \o release), release),
            Say("refused") \o release)

cancelRequestPreCheck == Refuse   \* a failed chain read refuses too

cancelRequestAccountingProcess ==
  Worker("conet",
    Require \o Send("main") \o Tolerate(Mined("main")) \o Say("sent"),
    Say("refused"))

------------------------------------------------------------------------------
(* B-Units.                                                                *)

claimBUnitsPreCheck == Refuse

claimBUnitsClusterPreCheck == claimBUnitsPreCheck \o Refuse

claimBUnitsProcess ==
  Try(Risk \o Unless(Say("refused") \o Again \o Stop), Say("failed") \o Again \o Stop)
  \o Tolerate(ensureAAForEOAOnConet)
  \o Worker("conet",
       Either(Send("main"),                           \* claimForV2, claimFor
              Try(Send("main"),                       \* claimForWithBeneficiary, or claimFor and move
                  Tx("main") \o Tolerate(Tx("move")) \o Say("done") \o Stop))
       \o Mined("main") \o Say("done"),
       Say("refused"))

relocateBUnitsToSmartWalletPreCheck == Refuse

relocateBUnitsToSmartWalletProcess == Worker("conet", Tx("main") \o Say("done"), Say("refused"))

\* The workers that look for an idle key before they begin; the Stop of the
\* inner Key runs the finally block, which sets a second timer.
IfIdle(body) ==
  IdleKey("conet", Requeue \o Again \o Stop)
  \o Finally(Try(body, Say("refused")), GiveKeys \o Again)

buintRedeemAirdropRedeemClusterPreCheck == Refuse

buintRedeemAirdropProcess ==
  IfIdle(ensureAAForEOA \o Key("conet") \o Tx("main") \o Say("done"))

businessStartKetRedeemUserRedeemProcess ==
  Unless(Say("refused") \o Again \o Stop)
  \o IfIdle(Key("conet") \o Tx("main") \o Either(Nothing, PushAs("validatorDepositRedeemClaim", "linked")) \o Say("done"))

businessStartKetRedeemCreateClusterPreCheck == Refuse
businessStartKetRedeemCancelClusterPreCheck == Refuse
businessStartKetRedeemCreateProcess == IfIdle(Key("conet") \o Tx("main") \o Say("done"))
businessStartKetRedeemCancelProcess == IfIdle(Key("conet") \o Tx("main") \o Say("done"))

purchaseBUnitFromBasePreCheck == Refuse

\* A receipt the RPC loses does not stop the success answer.
purchaseBUnitFromBaseProcess ==
  Worker("base",
    Require \o Risk \o Either(Nothing, DeployingSmartAccount \o Require)
    \o Send("main") \o Tolerate(Mined("main")) \o Say("sent"),
    Say("refused"))

------------------------------------------------------------------------------
(* Terminals.                                                              *)

\* A terminal that is not registered is as good as removed.
removePOSProcess ==
  Worker("conet", Tx("main") \o Say("done"), IfError("exists", Say("already"), Say("refused")))

registerPOSProcess == Worker("conet", Tx("main") \o Say("done"), Say("refused"))

================================================================================
