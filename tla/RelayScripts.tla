------------------------------ MODULE RelayScripts ------------------------------
(***************************************************************************)
(* Workers of MemberCard.ts that pass a customer's signed transfer on to   *)
(* the chain: user operations (AAtoEOA), open and signed containers, and   *)
(* account creation through the EntryPoint.  "main" is the transfer; an    *)
(* inner call that fails counts as a revert.                               *)
(***************************************************************************)
EXTENDS LedgerScripts

------------------------------------------------------------------------------
(* Read-only checks before a relay.  They return a result; a route answers  *)
(* 4xx for a bad one.                                                      *)

\* A link that is pending on chain blocks payments and new links (s); one
\* that has ended is marked released, and a failing read blocks nothing.
nfcLinkAppPaymentBlockedIfAny(s) ==
  Risk \o Either(Nothing, Either(s, Tolerate(Risk \o Either(Write("unlock"), s))))
nfcLinkAppNewLinkBlockedDetail(s) == nfcLinkAppPaymentBlockedIfAny(s)
releaseNfcLinkAppLockIfSessionMatches == Write("unlock")
registerNfcLinkAppLock == Require \o Write("lock")

ContainerRelayPreCheck == Refuse
ContainerRelayPreCheckUnsigned == Refuse
OpenContainerRelayPreCheck == Refuse
AAtoEOAPreCheck == Refuse
AAtoEOAPreCheckSenderHasCode == Refuse
AAtoEOAPreCheckBUnitBalance == Refuse
OpenContainerRelayPreCheckBUnitFee == Refuse
ContainerRelayPreCheckBUnitBalance == Refuse

\* Who pays the fee: an owner that cannot be read is an exception.
resolveChargeBUnitFeePayerCardOwner == Risk \o Require
pickBUnitFeeConsumerPreferEoaThenAa == Risk
resolveChargeFeePayer == Risk

------------------------------------------------------------------------------
(* AAtoEOA: one user operation, on CoNET or on Base.                       *)

AAtoEOACheckOp == Refuse

AAtoEOACheckChain ==
  Try(Risk, Answer("refused") \o Stop)          \* the threshold of the account
  \o Risk \o Refuse \o Fail                      \* code, EntryPoint, gas fields, paymaster

AAtoEOACheckSigner ==
  Look \o Refuse                       \* owner, threshold manager
  \o pickBUnitFeeConsumerPreferEoaThenAa \o Refuse
  \o Unless(Say("refused") \o Stop) \o Risk      \* simulation, balances

\* The fee is sent and not awaited: the key goes back while it is under way.
AAtoEOASend ==
  Send("main") \o Mined("main") \o Say("done")
  \o Spawn(Tolerate(Tx("fee")))
  \o PushAs("beamioTransferIndexerAccounting", "paid")

AAtoEOARun == AAtoEOACheckOp \o AAtoEOACheckChain \o AAtoEOACheckSigner \o AAtoEOASend

\* A reverted operation is answered 4xx, a lost receipt 5xx.
AAtoEOAProcess ==
  Either(Worker("conet", AAtoEOARun, Answer("failed")),
         Worker("both", AAtoEOARun, Answer("failed")))

------------------------------------------------------------------------------
(* The owner's share of a charge, burnt after the relay by a service admin. *)

signExecuteForAdminWithServiceAdmin == Risk
verifyChargeOwnerChildBurnClusterPreCheck == Refuse

maybeExecuteChargeOwnerChildBurnAfterContainerRelay ==
  Either(Nothing, Risk \o Either(Nothing, Tolerate(Send("burn") \o Tolerate(Mined("burn")))))

------------------------------------------------------------------------------
(* OpenContainer: a charge whose payee the merchant may fill in.           *)

OpenContainerAccounts ==
  Risk \o Refuse \o nfcLinkAppPaymentBlockedIfAny(Answer("refused") \o Stop)
  \o Look \o Fail                                   \* the account factory
  \o Either(Nothing, Try(Risk \o Require \o ensureAAWithHeldKey \o Refuse,
                         Answer("failed") \o Stop))           \* the merchant's account

OpenContainerRecipient == Tolerate(Risk \o Refuse) \o Refuse

\* A lost receipt is answered as a failed payment.
OpenContainerTransfer ==
  Risk \o Refuse \o Send("main") \o Try(Mined("main"), Say("refused") \o Stop) \o Say("done")

OpenContainerFollowUps ==
  Either(Nothing, maybeExecuteChargeOwnerChildBurnAfterContainerRelay) \o Look

OpenContainerFeePayer ==
  resolveChargeBUnitFeePayerCardOwner \o pickBUnitFeeConsumerPreferEoaThenAa \o Require
  \o resolveChargeFeePayer

OpenContainerAmounts == Look

OpenContainerRows ==
  PushAs("beamioTransferIndexerAccounting", "bill")
  \o Either(Nothing, PushAs("beamioTransferIndexerAccounting", "tip"))

\* Mutant: the catch block answers without looking whether there is an answer.
OpenContainerRelayProcess_AnswersAgain ==
  Worker("conet",
    OpenContainerAccounts \o OpenContainerRecipient \o OpenContainerTransfer
    \o OpenContainerFollowUps
    \o Either(Nothing, OpenContainerFeePayer \o OpenContainerAmounts \o OpenContainerRows),
    Either(Answer("refused"), Answer("failed")))

OpenContainerRelayProcess ==
  Worker("conet",
    OpenContainerAccounts \o OpenContainerRecipient \o OpenContainerTransfer
    \o OpenContainerFollowUps
    \o Either(Nothing, OpenContainerFeePayer \o OpenContainerAmounts \o OpenContainerRows),
    Either(Say("refused"), Say("failed")))

------------------------------------------------------------------------------
(* Container: a signed transfer, or one signed with the key of an NFC card. *)

ContainerTransfer ==
  Risk \o Refuse \o nfcLinkAppPaymentBlockedIfAny(Answer("refused") \o Stop) \o Risk \o Refuse
  \o Look \o Fail
  \o Either(Risk, Nothing) \o Send("main")
  \o Try(Mined("main"), Say("refused") \o Stop)
  \o Either(Nothing, maybeExecuteChargeOwnerChildBurnAfterContainerRelay) \o Say("done")

ContainerFee ==
  resolveChargeBUnitFeePayerCardOwner \o pickBUnitFeeConsumerPreferEoaThenAa \o Require
  \o Either(Nothing, Tolerate(Send("fee") \o Tolerate(Mined("fee"))))

ContainerAmounts == Look

ContainerRows ==
  PushAs("beamioTransferIndexerAccounting", "paid")
  \o Either(Nothing, PushAs("beamioTransferIndexerAccounting", "tip"))

ContainerRelayProcess ==
  Worker("conet",
    ContainerTransfer \o ContainerFee \o ContainerAmounts \o ContainerRows
    \o Spawn(Look),
    Either(Say("refused"), Say("failed")))

------------------------------------------------------------------------------
(* Account creation and card calls through the EntryPoint.                 *)

\* The receipt is polled for; none at all counts as a failure.
fetchReceiptAndCheckBusinessRelaySuccess == Look

ensureRelayerBeamioAccountForEntryPoint ==
  Risk \o Either(Nothing, Tx("deploy") \o Risk \o Require)

ensureUserCardFactoryAllowsRelayerAA == Risk \o Either(Nothing, Tx("allow"))

\* The caller waits for the receipt.
relayUserCardFactoryCallViaEntryPoint(e) ==
  Look \o ensureRelayerBeamioAccountForEntryPoint
  \o ensureUserCardFactoryAllowsRelayerAA \o Risk \o Send(e)

relayUserCardCallViaEntryPoint(e) == Risk \o relayUserCardFactoryCallViaEntryPoint(e)

mintPointsForProtocolUsdcSettlementViaEntryPoint(e) ==
  Require \o ensureAAWithHeldKey \o relayUserCardCallViaEntryPoint(e)

buildAAAccountCreationUserOpForHash == Risk
prepareAAAccountCreationViaEntryPoint == Require \o buildAAAccountCreationUserOpForHash

submitAAAccountCreationViaEntryPoint ==
  Require \o buildAAAccountCreationUserOpForHash \o Require \o PollKey("conet")
  \o Finally(Tx("main") \o Risk \o Require, GiveKeys)

================================================================================
