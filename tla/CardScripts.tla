------------------------------ MODULE CardScripts ------------------------------
(***************************************************************************)
(* Workers of MemberCard.ts that create and change member cards: creation, *)
(* purchase, calls an administrator signed, their bookkeeping, multisig    *)
(* and institutional accounts.                                             *)
(***************************************************************************)
EXTENDS RelayScripts

------------------------------------------------------------------------------
(* Start-up: every key is made an administrator of the contracts it calls. *)

ensureBusinessStartKetConetAdmins == Tolerate(Risk \o Either(Nothing, Tx("admin")))
ensureBusinessStartKetRedeemConetAdmins == Tolerate(Risk \o Either(Nothing, Tx("admin")))

------------------------------------------------------------------------------
(* Creating a card costs one start kit.                                    *)

createCardBusinessStartKetClusterPreCheck == Refuse

burnOneBusinessStartKet0ForCreateCardPool == Risk \o Require \o Tx("ket")

createCardPreCheck == Refuse

\* Mutant: a row that cannot be written is a failed creation.
createCardPoolPress_RowCounts ==
  Worker("conet",
    Send("main") \o Mined("main")
    \o Either(Nothing, Either(Nothing, Tolerate(burnOneBusinessStartKet0ForCreateCardPool)))
    \o Write("row") \o Say("done")
    \o Either(Nothing, Spawn(Tolerate(Write("file")))),
    Say("failed"))

\* The card exists from the first transaction on; the kit, the row of the
\* database and the file of the metadata may each fail without a trace.
createCardPoolPress ==
  Worker("conet",
    Send("main") \o Mined("main")
    \o Either(Nothing, Either(Nothing, Tolerate(burnOneBusinessStartKet0ForCreateCardPool)))
    \o Tolerate(Write("row")) \o Say("done")
    \o Either(Nothing, Spawn(Tolerate(Write("file")))),
    Say("failed"))

resolveCardOwnerToEOA == Look

applyBeamioCardShareMetadataUpdate ==
  Refuse \o Try(Risk \o Write("file") \o Write("row") \o Tolerate(Write("coupons")),
                Answer("failed") \o Stop)
applyBeamioCardMerchantImageUrlUpdate ==
  Refuse \o Try(Risk \o Write("file") \o Write("row"), Answer("failed") \o Stop)
applyBeamioCardProgramImageUrlUpdate == applyBeamioCardMerchantImageUrlUpdate

------------------------------------------------------------------------------
(* A call an administrator signed offline.                                 *)

verifyExecuteForAdminSignerIsAdmin(bad) == Either(Nothing, bad)
burnChargeRewardByAdminPreparePayload == Refuse
verifyBurnChargeRewardByAdminPrepareAllowed == Refuse
verifyBurnPointsByAdminPrepareAllowed == Refuse

executeForAdminChecks ==
  verifyExecuteForAdminSignerIsAdmin(Say("refused") \o Stop)
  \o Look
  \o Either(Nothing, ensureAAWithHeldKey \o Unless(Say("refused") \o Stop) \o Look)

\* A membership fee is staged first; some calls answer before their receipt.
executeForAdminCalls ==
  Either(Nothing, Require \o relayUserCardCallViaEntryPoint("stage") \o Mined("stage"))
  \o relayUserCardFactoryCallViaEntryPoint("main")
  \o Either(Mined("main") \o Say("done"), Say("sent"))
  \o Either(Nothing, PushSilent("executeForAdminPostBase"))

executeForAdminProcess ==
  Worker("conet", executeForAdminChecks \o executeForAdminCalls, Say("refused"))

------------------------------------------------------------------------------
(* What follows a mint or a burn on the card: fee, books, statistics.      *)

syncPosCouponBurnMainIndexerRow == Risk \o Tx("book")

\* The card call is looked up once more; a row that cannot be written is sent
\* a second time with a higher gas price.
runPurchasingCardAccountingJob(row) ==
  Risk \o IfDone("main", Nothing, Require) \o Try(Tx(row), Tx(row))

syncStandaloneBunitServiceFeeToIndexer == runPurchasingCardAccountingJob("feeBook")

\* Mutant: the fee is taken whatever became of the card call.
PostBaseReceiptAndFee_Always ==
  Tolerate(Mined("main")) \o Look
  \o Tolerate(pickBUnitFeeConsumerPreferEoaThenAa)
  \o Either(Nothing, Tolerate(Tx("fee")))

\* Only a card call that is known to have succeeded pays a fee.
PostBaseReceiptAndFee ==
  Tolerate(Mined("main")) \o Look
  \o IfDone("main",
       Tolerate(pickBUnitFeeConsumerPreferEoaThenAa)
       \o Either(Nothing, Tolerate(Tx("fee"))),
       Nothing)

PostBaseCouponBurn ==
  IfDone("main",
    Tolerate(syncPosCouponBurnMainIndexerRow)
    \o Tolerate(Risk \o syncStandaloneBunitServiceFeeToIndexer)
    \o Look,
    Nothing)

PostBaseTopup ==
  Risk \o Tolerate(DeployingSmartAccount) \o Look
  \o Spawn(Look) \o Look

PostBaseBooks ==
  Try(Risk \o runPurchasingCardAccountingJob("book")
      \o Either(Nothing, runPurchasingCardAccountingJob("book2"))
      \o Either(Nothing, Tolerate(runPurchasingCardAccountingJob("feeBook"))),
      Nothing)

PostBaseStatistics ==
  Tolerate(Risk \o Spawn(Look))
  \o Spawn(Look) \o Spawn(Look)

executeForAdminPostBaseProcess ==
  Worker("conet",
    PostBaseReceiptAndFee
    \o Either(PostBaseCouponBurn,
              IfDone("main", PostBaseTopup \o PostBaseBooks \o PostBaseStatistics, Nothing)),
    Nothing)

------------------------------------------------------------------------------
(* The purchase of card points with USDC.                                  *)

PurchaseAccount ==
  Risk
  \o Either(Try(ensureAAWithHeldKey \o Require, Say("refused") \o Stop),
            DeployingSmartAccount \o Unless(Say("refused") \o Stop))
  \o Risk \o Unless(Say("refused") \o Stop)

\* A lost receipt is polled for, half a minute long; the poll itself may throw.
PollReceipt == Risk

\* On CoNET the money moves first and the points are minted afterwards.  Then
\* the payment is waited for once more, and a sale it cannot find is not booked.
PurchaseOnConet ==
  Look \o Require \o Risk \o Require
  \o Send("pay") \o Mined("pay")
  \o mintPointsForProtocolUsdcSettlementViaEntryPoint("main") \o Mined("main")
  \o Try(Risk, PollReceipt \o Unless(Say("done") \o Stop))
  \o Say("done")

\* On Base the answer does not depend on the receipt.
PurchaseOnBase ==
  Send("main") \o Try(Mined("main"), PollReceipt \o Tolerate(Mined("main"))) \o Say("sent")

PurchaseFee ==
  Look \o IfDone("main", Nothing, Stop) \o Risk
  \o Tolerate(pickBUnitFeeConsumerPreferEoaThenAa)
  \o Either(Nothing, Tolerate(Tx("fee")))

\* Mutant: a booking that fails is logged and forgotten.
PurchaseBooks_Forgets ==
  Spawn(Look)
  \o Try(runPurchasingCardAccountingJob("book")
         \o Either(Nothing, Tolerate(runPurchasingCardAccountingJob("feeBook"))),
         Nothing)
  \o Tolerate(Risk \o Spawn(Look))
  \o Spawn(Look)

PurchaseBooks ==
  Spawn(Look)
  \o Try(runPurchasingCardAccountingJob("book")
         \o Either(Nothing, Tolerate(runPurchasingCardAccountingJob("feeBook"))),
         PushSilent("purchasingCardAccountingRetry"))
  \o Tolerate(Risk \o Spawn(Look))
  \o Spawn(Look)

purchasingCardProcess ==
  Worker("conet",
    PurchaseAccount \o Either(PurchaseOnConet, PurchaseOnBase) \o PurchaseFee \o PurchaseBooks,
    Say("refused"))

enqueuePurchasingCardAccountingRetry == PushSilent("purchasingCardAccountingRetry")

\* Three attempts, then the entry is given up.
processPurchasingCardAccountingRetry ==
  Worker("conet",
    runPurchasingCardAccountingJob("book"),
    IfJob("third", Nothing,
      IfJob("second", PushAs("purchasingCardAccountingRetry", "third"),
                      PushAs("purchasingCardAccountingRetry", "second"))))

------------------------------------------------------------------------------
(* The books of a redeem: no answer, every error is logged and forgotten.  *)

cardRedeemIndexerAccountingProcess ==
  Worker("conet",
    Require \o Risk
    \o Either(Nothing, Tolerate(Tx("fee")))
    \o Send("book") \o Either(Nothing, Tolerate(runPurchasingCardAccountingJob("feeBook"))),
    Nothing)

------------------------------------------------------------------------------
(* Fees a route checks before it accepts work: read-only, 4xx when short.  *)

nfcTopupPreCheckBUnitFee == Refuse
cardProgramSocialBunitFeePreCheck == Refuse
nfcTopupPreCheckAdminAirdropLimit == Refuse
requestAccountingPreCheckBUnitFee == Risk \o Refuse
transferPreCheckBUnit == Refuse

------------------------------------------------------------------------------
(* Offline-signed transfers.                                               *)

\* The list of what was submitted is in memory; it is kept although the
\* books fail afterwards.
aaMultisigOfflineSubmitProcess ==
  Worker("conet",
    IfDone("main", Say("already") \o Stop, Nothing)
    \o Risk \o Tx("main")
    \o syncStandaloneBunitServiceFeeToIndexer \o Say("done"),
    Say("failed"))

aaInstitutionalV2RelayProcess ==
  Worker("conet",
    Risk \o Unless(Say("failed") \o Stop) \o Unless(Say("refused") \o Stop)
    \o Tx("main") \o Say("done"),
    Say("failed"))

================================================================================
