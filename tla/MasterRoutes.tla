----------------------------- MODULE MasterRoutes -----------------------------
(***************************************************************************)
(* The routes of beamioMaster.ts.  Master writes: it reads the request,    *)
(* pushes a job and lets the worker answer, or does the work itself.       *)
(* Routes of db.ts and MemberCard.ts that Master mounts as they are keep   *)
(* the definitions of the modules below; a route whose name one of those   *)
(* has taken is called ...Route here.                                      *)
(***************************************************************************)
EXTENDS OtherScripts

------------------------------------------------------------------------------
(* Chat: devices and badges.                                               *)

handleRegisterPushDeviceMaster == Guarded(Write("row") \o Answer("done"))
handleSyncChatBadgeMaster == Guarded(Write("row") \o Answer("done"))

\* A repeated notice, or one without an address, changes nothing.
handleNotifyOfflineChatMaster ==
  Guarded(Either(Nothing, Write("row") \o Spawn(Look)) \o Answer("ok"))

------------------------------------------------------------------------------
(* Reads.  Most keep their answer for half a minute.                       *)

getFollowStatus == Refuse \o Cached(Risk \o Refuse \o Answer("ok"))
getMyFollowStatus == Refuse \o Cached(Risk \o Refuse \o Answer("ok"))
searchHelp == CachedQuery
getNFTMetadata == CachedLookup

\* One read of the catalogue at a time; a failing one leaves the last answer.
computeLatestCardsForMaster == Finally(Risk, Nothing)
prewarmLatestCardsCacheMaster == Tolerate(computeLatestCardsForMaster)
latestCards ==
  Cached(Try(computeLatestCardsForMaster \o Answer("ok"), Either(Answer("ok"), Answer("failed"))))
cardsByCategory == Cached(Risk \o Answer("ok"))

myCards == CachedQuery
getAAAccount == CachedQuery
getBalance == CachedQuery
ownerNftSeries == CachedQuery
recentIssuedCouponSeries == Cached(Read)
cardActiveIssuedCouponSeries == Refuse \o Cached(Cached(Read))
cardActiveIssuedProductionSeries == CachedQuery
seriesSharedMetadata == CachedLookup
mintMetadata == CachedQuery
checkRequestStatus == Look \o Refuse \o Fail \o Answer("ok")

nfcCardStatus == BareQuery

------------------------------------------------------------------------------
(* Accounts.                                                               *)

ensureAAForEOARoute == Refuse \o Guarded(ensureAAForEOA \o Answer("done"))
ensureAAForEOAOnConetRoute == Refuse \o Guarded(ensureAAForEOAOnConet \o Answer("done"))

\* The account is created before its name: a name that cannot be registered
\* is answered with an error, the account stays.
handleCreateInstitutionalAa ==
  Refuse
  \o Try(Either(Nothing, isBeamioAccountNameAvailable \o Refuse)
         \o createInstitutionalAaForEoa
         \o Either(Nothing, registerBeamioTagForAddress)
         \o Answer("done"),
         Either(Answer("refused"), Answer("failed")))

aaCreateViaEntryPointSubmit == Refuse \o Guarded(submitAAAccountCreationViaEntryPoint \o Answer("done"))

\* NFC cards met for the first time: wallet, account, tag.  These workers
\* take one job each and need no key of their own.
getUIDAssetsProvisionPress ==
  Guarded(Write("wallet") \o ensureAAForEOA \o Risk
          \o Either(Nothing, Write("row") \o maybeEnqueueNfcCashTreeBeamioTag)
          \o Answer("done"))
  \o Again
getUIDAssetsProvision == Refuse \o Push("getUIDAssetsProvision")

sunProvisionPress ==
  Guarded(Write("wallet") \o ensureAAForEOA \o maybeEnqueueNfcCashTreeBeamioTag \o Answer("done"))
  \o Again
sunProvision == Refuse \o Push("sunProvision")

registerNfcCard == Refuse \o Write("row") \o Answer("done")

------------------------------------------------------------------------------
(* Cards and coupons: metadata.                                            *)

\* A failed read refuses, a failed write is a 5xx.
registerSeries == Refuse \o Guarded(Risk \o Refuse \o Write("series") \o Answer("done"))
registerMintMetadata == Refuse \o Guarded(Write("series") \o Answer("done"))
createCard == Push("createCard")

updateCardShareMetadata ==
  Refuse \o Guarded(applyBeamioCardShareMetadataUpdate \o Answer("done"))
excludeUserCard == Refuse \o Guarded(Write("row") \o Refuse \o Answer("done"))
updateCardMerchantImage == Refuse \o Guarded(applyBeamioCardMerchantImageUrlUpdate \o Answer("done"))
updateCardProgramImage == Refuse \o Guarded(applyBeamioCardProgramImageUrlUpdate \o Answer("done"))

\* Card, series and tier are written one after the other; a later one may
\* fail when the earlier ones are there.
updateIssuedCouponMetadata ==
  Guarded(Refuse \o Risk \o Refuse
          \o Either(Nothing, applyBeamioCardShareMetadataUpdate)
          \o Risk \o Fail
          \o Either(Nothing, Write("series") \o Fail
                             \o Either(Nothing, Risk \o Either(Nothing, Write("tier"))))
          \o Answer("done"))

updateIssuedCouponSocialPromotion == Guarded(Refuse \o Risk \o Refuse \o Write("series") \o Refuse \o Answer("done"))

longDhangMigrationCreateCard ==
  Guarded(createLongDhangConetMigrationCard(refused) \o Answer("done"))
longDhangMigrationRun ==
  Guarded(Refuse \o runLongDhangConetMigrationBatch(refused) \o Answer("done"))
longDhangMigrationExecuteAuto ==
  Guarded(executeLongDhangConetMigrationAuto(refused) \o Answer("done"))
longDhangMigrationRepairTerminals == Refuse \o Answer("refused")

------------------------------------------------------------------------------
(* Jobs: the worker answers.                                               *)

purchasingCard == Push("purchasingCard")
usdcTopup == Push("purchasingCard")
\* The body says by whom the transfer was made, and so whether its fee is due:
\* of x402 and of an open container it is, of a tip or of another source not.
beamioTransferIndexerAccounting ==
  LET worker == "beamioTransferIndexerAccounting"
  IN Refuse \o Either(Push(worker), Either(PushOf(worker, "due"), PushOf(worker, "tip")))
aaMultisigOfflineSubmit == Refuse \o Push("aaMultisigOfflineSubmit")
aaInstitutionalV2 == Push("aaInstitutionalV2Relay")
requestAccounting == Refuse \o Push("requestAccounting")
cancelRequest == Refuse \o Push("cancelRequestAccounting")
cardCreateRedeem == Refuse \o Push("executeForOwner")
cardUpdateTiers == Push("executeForOwner")
referralRegistryRedeem == Refuse \o Push("referralRegistryRedeemRelay")
referralRegistryClaim == Push("referralRegistryRedeemRelay")
referralRegistryAdminManagement == Refuse \o Push("referralRegistryAdminManagement")
referralPurchaseSplit == Refuse \o Push("referralPurchaseSplit")
referralRegistryMerchantShare == Refuse \o Push("referralRegistryMerchantShare")
cardOpenTransfer == Push("cardOpenTransfer")
cardRedeem == Push("cardRedeem")
redeemSeries == Push("cardRedeem")
cardCouponPosClaimWallet == Refuse \o Push("cardCouponPosClaimWallet")
cardRedeemAdmin == Refuse \o Push("cardRedeemAdmin")
claimBUnits == Refuse \o Push("claimBUnits")
relocateBUnitToSmartWallet == Refuse \o Push("relocateBUnitsToSmartWallet")
buintRedeemAirdropRedeem == Refuse \o Push("buintRedeemAirdrop")
businessStartKetRedeemRedeem == Refuse \o Push("businessStartKetRedeemUserRedeem")
businessStartKetRedeemAdminCreate == Refuse \o Push("businessStartKetRedeemCreate")
businessStartKetRedeemAdminCancel == Refuse \o Push("businessStartKetRedeemCancel")
treasuryStableSwap == Refuse \o Push("treasuryStableSwap")
genesisNodeReferralRedeem == Refuse \o Push("genesisNodeReferralRedeem")
setChatIndexPointer == Refuse \o Push("chatIndexPointer")
validatorDepositRedeemAdminCreate == Refuse \o Push("validatorDepositRedeemCreate")
validatorDepositRedeemAdminCancel == Refuse \o Push("validatorDepositRedeemCancel")
validatorDepositRedeemClaim == Refuse \o Push("validatorDepositRedeemClaim")
validatorDepositRedeemClaimAirdrop == Refuse \o Push("validatorDepositRedeemClaimAirdrop")
validatorDepositRedeemTransfer == Refuse \o Push("validatorDepositRedeemTransfer")
validatorCreateTransferOrder == Refuse \o Push("validatorCreateTransferOrder")
validatorCancelTransferOrder == Refuse \o Push("validatorCancelTransferOrder")
validatorFulfillTransferOrder == Refuse \o Push("validatorFulfillTransferOrder")
gbDepinChargeUserGb == Refuse \o Push("gbDepinChargeUser")
gbDepinAirdropPaidAll == Push("gbDepinAirdropAll")
purchaseBUnitFromBase == Refuse \o Push("purchaseBUnitFromBase")
removePOS == Refuse \o Push("removePOS")
registerPOS == Refuse \o Push("registerPOS")
executeForAdmin == Refuse \o Push("executeForAdmin")

\* One of three kinds of transfer, each with the check of its kind.
AAtoEOA ==
  Refuse \o Either(Push("AAtoEOA"), Either(Push("OpenContainerRelay"), Push("ContainerRelay")))

\* The recipient of a mint gets an account first.
executeForOwner ==
  Refuse \o Either(Nothing, Try(ensureAAForEOA, Answer("failed") \o Stop)) \o Push("executeForOwner")

\* Answered before the work is done, which nobody waits for.
cardCouponOpenClaim == Refuse \o PushSilent("cardCouponOpenClaim") \o Answer("accepted")
cardGatewayRewardPool ==
  Refuse \o Either(Push("cardGatewayRewardPool"), PushSilent("cardGatewayRewardPool") \o Answer("accepted"))
cardGatewayInitializeUserCumulativeStat == Refuse \o Push("cardGatewayRewardPool")
storageFragment == PushSilent("ipfsData") \o Answer("accepted")
getFragment == PushSilent("ipfsAccess") \o Answer("accepted")

\* Done while the client waits, with the wallet of the first key.
cardClearAdminMintCounter ==
  Refuse \o Try(cardClearAdminMintCounterProcess, Answer("refused") \o Stop) \o Answer("done")
cardTerminalSettlementClear ==
  Refuse \o Try(cardTerminalSettlementClearProcess, Answer("refused") \o Stop) \o Answer("done")

------------------------------------------------------------------------------
(* Payments with an NFC card.                                              *)

payByNfcUidPrepareRoute == Refuse \o payByNfcUidPrepare \o Answer("ok")
payByNfcUidSignContainerRoute == Refuse \o payByNfcUidSignContainer

\* When the container cannot be made, the key of the card pays directly;
\* the key is read a second time before that is known.
payByNfcUid ==
  Refuse \o Risk \o Refuse
  \o Either(payByNfcUidOpenContainer,
            Try(Risk \o Tx("main") \o Tolerate(Risk \o maybeEnqueueNfcBeamioTag) \o Answer("done"),
                Answer("failed")))

nfcTopupPrepare == Guarded(Refuse \o Risk \o Refuse \o Answer("ok"))

\* A session whose USDC has arrived is marked first and the rest of the
\* request looked at afterwards.
nfcTopup ==
  Either(Nothing, Refuse \o Look \o Refuse \o Write("session"))
  \o Refuse \o nfcLinkAppPaymentBlockedForMintCalldata(refused) \o Refuse
  \o Push("executeForAdmin")

nfcUsdcCharge == Guarded(Refuse \o Answer("ok"))

\* A USDC top-up is minted with the terminal's signature or Master's own.
nfcUsdcTopup == Try(Refuse \o Fail \o Push("executeForAdmin"), Say("failed"))

\* Requests and workers that deliver what has been paid for, reduced here to
\* their shape; module UsdcFulfill has them in full, UsdcCharge the sessions.
walletDepositFulfill == Refuse \o Push("fulfil")
fuelPackFulfill == Refuse \o Push("fulfil")
genesisNodeSeatFulfill == Refuse \o Push("fulfil")
treasuryBridgeFulfill == Refuse \o Push("fulfil")
fulfilPoolPress == Try(Write("fulfil") \o Say("done"), Say("failed"))

chargeSessionUpsert == Guarded(Refuse \o Answer("ok"))
chargeSessionGet == Guarded(Refuse \o Answer("ok"))
chargeSessionConsumePosSig == Guarded(Refuse \o Answer("ok"))
nfcUsdcChargeTopupAuth == Guarded(Refuse \o Look \o Refuse \o Answer("ok"))

------------------------------------------------------------------------------
(* A signature of the customer is put on chain with the first key of Base, *)
(* which nobody has taken; a lost receipt is answered as a failure.        *)

tokenTransferRawSig ==
  Guarded(Refuse \o Fail \o Look \o Refuse \o Borrow("base")
          \o Try(Either(Nothing, Tx("permit")) \o Tx("pay"), Answer("failed") \o Stop)
          \o Answer("done"))

\* The books are posted to Master itself, and nobody hears how that went.
submitUsdcChargeSettleIndexer ==
  Unless(Stop) \o Post("beamioTransferIndexerAccounting")

usdcChargeRawSig ==
  Try(Refuse \o Look \o Refuse \o Fail \o Borrow("base")
      \o Try(Tx("pay"), Answer("failed") \o Stop)
      \o Spawn(submitUsdcChargeSettleIndexer) \o Answer("done"),
      Say("failed"))

------------------------------------------------------------------------------
(* Stripe.  A session is made, its state is asked for, or Stripe posts an *)
(* event; a paid session is fulfilled on the chain in the background.      *)

merchantKitStripeCreateSession == BareQuery
merchantKitStripePoll == Refuse \o Look \o Refuse \o Answer("ok")

\* The kit is minted with the first key, which nobody has taken; what the
\* session has on record is not minted again.
fulfillMerchantKitStripeOnChain ==
  Tolerate(Unless(Stop) \o Borrow("conet") \o Either(Nothing, Tx("main")) \o Either(Nothing, Tx("ket")))

merchantKitStripeWebhook ==
  Refuse \o Either(Nothing, Spawn(fulfillMerchantKitStripeOnChain)) \o Answer("ok")

eoaUsdcStripeCreateSession == BareQuery

\* A busy pool is tried again in three seconds.
fulfillEoaUsdcStripeOnChain ==
  Tolerate(Unless(Stop) \o Key("base") \o Finally(Risk \o Unless(Stop) \o Tx("main"), GiveKeys))

\* A poll that finds the session paid fulfils it too.
eoaUsdcStripePoll == Refuse \o Look \o Either(Refuse, PushSilent("eoaUsdcStripe")) \o Answer("ok")
eoaUsdcStripeWebhook == Refuse \o Either(Nothing, PushSilent("eoaUsdcStripe")) \o Answer("ok")

================================================================================
