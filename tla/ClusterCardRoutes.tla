--------------------------- MODULE ClusterCardRoutes ---------------------------
(***************************************************************************)
(* More routes of beamioServer.ts: cards and coupons, the reward gateway,  *)
(* multisig accounts, transfers, B-Units, referral, validators, Stripe.    *)
(***************************************************************************)
EXTENDS ClusterRoutes

------------------------------------------------------------------------------
(* Cards: purchases, creation, migration, redeem codes, admins.            *)

validateRecommenderForTopup == Risk \o Refuse
purchasingCardRoute ==
  Refuse \o validateRecommenderForTopup \o Refuse \o purchasingCardPreCheck
  \o postLocalhost("purchasingCard")
usdcTopupRoute ==
  Refuse \o validateRecommenderForTopup \o Refuse \o usdcTopupPreCheck \o postLocalhost("usdcTopup")
usdcTopupPreview == BareQuery
createCardRoute ==
  createCardPreCheck \o resolveCardOwnerToEOA \o Refuse \o createCardBusinessStartKetClusterPreCheck
  \o postLocalhost("createCard")

longDhangMigrationConfig == Answer("ok")
longDhangMigrationPreview == Read
longDhangMigrationCreateCard == Pass("longDhangMigrationCreateCard")
longDhangMigrationRun == Pass("longDhangMigrationRun")
longDhangMigrationVerify == Query
longDhangMigrationExecuteAuto == Pass("longDhangMigrationExecuteAuto")
longDhangMigrationRepairTerminals == Pass("longDhangMigrationRepairTerminals")

cardCreateRedeem == cardCreateRedeemPreCheck \o postLocalhost("cardCreateRedeem")
cardCreateRedeemAdmin == cardCreateRedeemAdminPreCheck \o postLocalhost("executeForOwner")
cardAddAdmin == cardAddAdminPreCheck \o Try(Risk, Nothing) \o postLocalhost("executeForOwner")
cardAddAdminByAdmin == cardAddAdminByAdminPreCheck \o postLocalhost("executeForAdmin")
cardAdmins == BareQuery
cardClearAdminMintCounter ==
  cardClearAdminMintCounterPreCheck \o postLocalhost("cardClearAdminMintCounter")
cardTerminalSettlementClear ==
  cardTerminalSettlementClearPreCheck \o postLocalhost("cardTerminalSettlementClear")
cardCreateIssuedNft == cardCreateIssuedNftPreCheck \o postLocalhost("executeForOwner")
cardMintIssuedNftToAddress == cardMintIssuedNftToAddressPreCheck \o postLocalhost("executeForOwner")
executeForOwnerRoute == Pass("executeForOwner")
cardRedeemAdmin == Refuse \o cardRedeemAdminPreCheck \o postLocalhost("cardRedeemAdmin")
cardRedeemPreCheckRoute == Refuse \o cardRedeemPreCheck \o Answer("ok")
cardRedeem == Refuse \o cardRedeemPreCheck \o postLocalhost("cardRedeem")
redeemSeries == Refuse \o cardRedeemPreCheck \o postLocalhost("redeemSeries")
redeemStatusBatch == CachedQuery
cardOpenTransferPreCheckRoute == Refuse \o cardOpenTransferPreCheck \o Answer("ok")
cardOpenTransfer == Refuse \o cardOpenTransferPreCheck \o postLocalhost("cardOpenTransfer")

updateCardShareMetadata == Pass("updateCardShareMetadata")
updateIssuedCouponMetadata ==
  Refuse \o Try(postLocalhostBuffer("updateIssuedCouponMetadata", Spawn(Look) \o Echo, Echo), Answer("failed"))
updateIssuedCouponSocialPromotion ==
  Refuse \o Try(postLocalhostBuffer("updateIssuedCouponSocialPromotion", Spawn(Look) \o Echo, Echo),
                Answer("failed"))
updateCardMerchantImage == Pass("updateCardMerchantImage")
updateCardProgramImage == Pass("updateCardProgramImage")
cardUpdateTiers ==
  Refuse \o Try(Risk \o Refuse, Answer("refused") \o Stop) \o postLocalhost("cardUpdateTiers")

------------------------------------------------------------------------------
(* Coupons at the counter.                                                 *)

burnPointsByAdminPrepare == verifyBurnPointsByAdminPrepareAllowed \o Risk \o Refuse \o Answer("ok")
burnChargeRewardByAdminPrepare ==
  verifyBurnChargeRewardByAdminPrepareAllowed \o burnChargeRewardByAdminPreparePayload \o Answer("ok")
cardCouponPosClaimPrepare == cardCouponPosClaimPreparePreCheck \o Answer("ok")
cardCouponPosClaimSubmit == cardCouponPosClaimSubmitPreCheck \o postLocalhost("cardCouponPosClaimWallet")
merchantCardCouponBurnSupported == Query
cardCouponPosConsumePrepare == cardCouponPosConsumePreparePreCheck \o Fail \o Answer("ok")
cardCouponPosConsumeSubmit == cardCouponPosConsumeSubmitPreCheck \o postLocalhost("executeForAdmin")
cardCouponPosConsumeNfcSign == cardCouponPosConsumeNfcSignPreCheck \o Answer("ok")
cardCouponOpenClaimRoute == cardCouponOpenClaimPreCheck \o postLocalhost("cardCouponOpenClaim")
cardCouponPosClaim == cardCouponPosClaimPreCheck \o Refuse \o postLocalhost("cardCouponOpenClaim")

------------------------------------------------------------------------------
(* The reward gateway: what an owner signs goes to executeForOwner, what   *)
(* anybody may do to the queue of the gateway.  A check that fails or      *)
(* throws refuses.                                                         *)

cardInitializeUserCumulativeStatPreCheck == Refuse
cardBootstrapIssuedNftV2StatPreCheck == Refuse
cardConfigureEventRewardRulePreCheck == Refuse
cardConfigureEventRewardRulesBatchPreCheck == Refuse
cardConfigureEventRewardRuleGatewayPreCheck == Refuse
cardConfigureEventRewardRulesBatchGatewayPreCheck == Refuse
cardRecordUserCumulativeStatPreCheck == Refuse
gatewayRewardPoolBasePreCheck == Refuse
cardGatewayInitializeUserCumulativeStatPreCheck == gatewayRewardPoolBasePreCheck \o Refuse
cardRecordTopupCumulativeStatPreCheck == Refuse \o gatewayRewardPoolBasePreCheck
cardPurchaseRewardProgramPreCheck == Refuse \o gatewayRewardPoolBasePreCheck
cardFundSocialExchangeUsdcEscrowPreCheck == Refuse \o gatewayRewardPoolBasePreCheck \o Refuse
cardRecordDiscoverShareClickPreCheck ==
  Refuse \o gatewayRewardPoolBasePreCheck \o cardProgramSocialBunitFeePreCheck \o Refuse
cardBindShareRefereePreCheck == Refuse \o gatewayRewardPoolBasePreCheck \o Refuse
cardDispatchEventReward13PreCheck == Refuse \o gatewayRewardPoolBasePreCheck \o Refuse

\* Liked already? is read here, and the like is put on the chain much later.
cardRecordUserLikePreCheck ==
  Refuse \o gatewayRewardPoolBasePreCheck \o Refuse \o cardProgramSocialBunitFeePreCheck \o Refuse

cardUserCumulativeStatStatus == Refuse \o Try(Risk \o Answer("ok"), Answer("refused"))
cardInitializeUserCumulativeStat ==
  cardInitializeUserCumulativeStatPreCheck \o postLocalhost("executeForOwner")
cardBootstrapIssuedNftV2Stat == cardBootstrapIssuedNftV2StatPreCheck \o postLocalhost("executeForOwner")
cardConfigureEventRewardRule == cardConfigureEventRewardRulePreCheck \o postLocalhost("executeForOwner")
cardConfigureEventRewardRulesBatch ==
  cardConfigureEventRewardRulesBatchPreCheck \o postLocalhost("executeForOwner")
cardConfigureEventRewardRulesBatchGateway ==
  cardConfigureEventRewardRulesBatchGatewayPreCheck \o postLocalhost("cardGatewayRewardPool")
cardConfigureEventRewardRuleGateway ==
  cardConfigureEventRewardRuleGatewayPreCheck \o postLocalhost("cardGatewayRewardPool")
cardPurchaseRewardProgram == cardPurchaseRewardProgramPreCheck \o postLocalhost("cardGatewayRewardPool")
cardFundSocialExchangeUsdcEscrow ==
  cardFundSocialExchangeUsdcEscrowPreCheck \o postLocalhost("cardGatewayRewardPool")
cardDispatchEventReward13 == cardDispatchEventReward13PreCheck \o postLocalhost("cardGatewayRewardPool")
cardRecordDiscoverShareClick ==
  cardRecordDiscoverShareClickPreCheck \o postLocalhost("cardGatewayRewardPool")
cardBindShareReferee == cardBindShareRefereePreCheck \o postLocalhost("cardGatewayRewardPool")
cardRecordUserCumulativeStat == cardRecordUserCumulativeStatPreCheck \o postLocalhost("executeForOwner")
cardRecordTopupCumulativeStat ==
  cardRecordTopupCumulativeStatPreCheck \o postLocalhost("cardGatewayRewardPool")
cardGatewayInitializeUserCumulativeStat ==
  Either(Nothing, Answer("already") \o Stop) \o cardGatewayInitializeUserCumulativeStatPreCheck
  \o postLocalhost("cardGatewayInitializeUserCumulativeStat")
cardRecordUserLike == cardRecordUserLikePreCheck \o postLocalhost("cardGatewayRewardPool")

------------------------------------------------------------------------------
(* Multisig accounts.                                                      *)

aaMultisigOfflineSubmit == Risk \o Refuse \o postLocalhost("aaMultisigOfflineSubmit")
aaInstitutionalV2ProposeTransfer == Risk \o Refuse \o postLocalhost("aaInstitutionalV2")
aaInstitutionalV2ProposeSetPolicy == Risk \o Refuse \o postLocalhost("aaInstitutionalV2")
aaInstitutionalV2Vote == Risk \o Refuse \o postLocalhost("aaInstitutionalV2")

------------------------------------------------------------------------------
(* Transfers.  Each kind has checks of its own; the checks of an open      *)
(* container refuse when the chain cannot be read.                         *)

AAtoEOAContainer ==
  ContainerRelayPreCheck \o ContainerRelayPreCheckBUnitBalance
  \o Either(Nothing, Risk \o Refuse) \o Refuse \o runRequestHashPreCheck
  \o Either(Nothing, verifyChargeOwnerChildBurnClusterPreCheck) \o postLocalhost("AAtoEOA")
AAtoEOAOpenContainer ==
  OpenContainerRelayPreCheck \o Try(Risk \o Refuse, Answer("refused") \o Stop) \o Refuse
  \o OpenContainerRelayPreCheckBUnitFee \o Either(Nothing, Risk \o Refuse) \o runRequestHashPreCheck
  \o Either(Nothing, verifyChargeOwnerChildBurnClusterPreCheck) \o postLocalhost("AAtoEOA")
AAtoEOAUserOp ==
  AAtoEOAPreCheck \o Refuse \o AAtoEOAPreCheckSenderHasCode \o AAtoEOAPreCheckBUnitBalance
  \o Either(Nothing, runRequestHashPreCheck) \o postLocalhost("AAtoEOA")
AAtoEOARoute == Either(AAtoEOAContainer, Either(AAtoEOAOpenContainer, AAtoEOAUserOp))

registerPushDevice == Pass("handleRegisterPushDeviceMaster")
syncChatBadge == Pass("handleSyncChatBadgeMaster")
notifyOfflineChatPreCheck == Risk \o Refuse
notifyOfflineChat == notifyOfflineChatPreCheck \o postLocalhost("handleNotifyOfflineChatMaster")

transferPreCheckBUnitRoute == Refuse \o transferPreCheckBUnit \o Answer("ok")
vouchersReceivePreCheck == Refuse \o transferPreCheckBUnit \o Answer("ok")
requestAccountingPreCheck == Refuse \o requestAccountingPreCheckBUnitFee \o Answer("ok")
requestAccounting == Refuse \o requestAccountingPreCheckBUnitFee \o postLocalhost("requestAccounting")
cancelRequest == Refuse \o cancelRequestPreCheck \o postLocalhost("cancelRequest")
beamioTransferIndexerAccounting ==
  Refuse \o Either(Nothing, runRequestHashPreCheck) \o Refuse
  \o postLocalhost("beamioTransferIndexerAccounting")

------------------------------------------------------------------------------
(* B-Units, redeem codes, the referral and genesis programmes, the bridge. *)

checkBUnitClaimEligibility == Query
claimBUnits == claimBUnitsClusterPreCheck \o postLocalhost("claimBUnits")
buintRedeemAirdropPreCheck == Try(Risk \o Answer("ok"), Answer("refused"))
buintRedeemAirdropRedeem ==
  buintRedeemAirdropRedeemClusterPreCheck \o Risk \o Refuse \o postLocalhost("buintRedeemAirdropRedeem")
businessStartKetRedeemRedeem ==
  Refuse \o Try(Risk \o Refuse, Answer("refused") \o Stop) \o Risk
  \o postLocalhost("businessStartKetRedeemRedeem")
businessStartKetRedeemAdminNonce == Risk \o Refuse \o Answer("ok")
businessStartKetRedeemAdminCreate ==
  businessStartKetRedeemCreateClusterPreCheck \o postLocalhost("businessStartKetRedeemAdminCreate")
businessStartKetRedeemAdminCancel ==
  businessStartKetRedeemCancelClusterPreCheck \o postLocalhost("businessStartKetRedeemAdminCancel")

\* Reads whose failure is a refusal, and writes checked that way.  The next
\* nonce is read here: two requests in a row may pass with the same one.
Asked == Try(Risk \o Answer("ok"), Answer("refused"))
Checked(r) == Try(Refuse \o Risk \o Refuse \o postLocalhost(r), Answer("refused"))

genesisNodeReferralRedeemNonce == Asked
genesisNodeReferralIncome == Asked
genesisNodeReferralRedeem == Checked("genesisNodeReferralRedeem")
chatIndexPointer == Asked
setChatIndexPointer == Checked("setChatIndexPointer")
treasuryStableSwapNonce == Asked
treasuryStableSwap == Checked("treasuryStableSwap")

referralRedeemRelayPreCheck == Refuse
referralClaimRelayPreCheck == Refuse
referralRegistryAdminManagementPreCheck == Refuse
referralPurchaseSplitPreCheck == Refuse
referralRegistryMerchantSharePreCheck == Refuse
referralRegistryRedeemNonce == Asked
referralRegistryAdminNonce == Asked
referralRegistryL0Quota == Asked
referralRegistryMerchantCandidates == Asked
referralRegistryClaimNonce == Asked
referralRegistryClaims == Asked
referralRegistryTree == Asked
referralRegistryAdminManagement ==
  referralRegistryAdminManagementPreCheck \o postLocalhost("referralRegistryAdminManagement")
referralPurchaseSplit == referralPurchaseSplitPreCheck \o postLocalhost("referralPurchaseSplit")
referralRegistryMerchantShare ==
  referralRegistryMerchantSharePreCheck \o postLocalhost("referralRegistryMerchantShare")
referralRegistryRedeem == referralRedeemRelayPreCheck \o postLocalhost("referralRegistryRedeem")
referralRegistryClaim == referralClaimRelayPreCheck \o postLocalhost("referralRegistryClaim")

------------------------------------------------------------------------------
(* Validators and the GB airdrop.                                          *)

Prechecked(r) == Try(Risk \o Refuse \o postLocalhost(r), Answer("refused"))

validatorDepositRedeemConfig == Answer("ok")
conetValidatorDashboard == Risk \o Answer("ok")
conetBeneficiaryIncome == Refuse \o Risk \o Fail \o Risk \o Answer("ok")
conetIncomeDaemonStatus == Answer("ok")
validatorDepositRedeemAdminNonce == Risk \o Refuse \o Answer("ok")
validatorDepositRedeemAdminCreate == Prechecked("validatorDepositRedeemAdminCreate")
validatorDepositRedeemAdminCancel == Prechecked("validatorDepositRedeemAdminCancel")
validatorDepositRedeemClaim == Prechecked("validatorDepositRedeemClaim")
validatorDepositRedeemClaimAirdrop == Prechecked("validatorDepositRedeemClaimAirdrop")
validatorDepositRedeemTransfer == Prechecked("validatorDepositRedeemTransfer")
validatorCreateTransferOrder == Prechecked("validatorCreateTransferOrder")
validatorCancelTransferOrder == Prechecked("validatorCancelTransferOrder")
validatorFulfillTransferOrder == Prechecked("validatorFulfillTransferOrder")
gbDepinChargeUserGb ==
  Try(gbDepinChargeUserClusterPreCheck \o postLocalhost("gbDepinChargeUserGb"), Answer("refused"))
gbDepinAirdropPaidAll ==
  Try(gbDepinAirdropAllClusterPreCheck \o postLocalhost("gbDepinAirdropPaidAll"), Answer("refused"))
validatorDepositRedeemStatus == Refuse \o Answer("ok")

purchaseBUnitFromBase ==
  Refuse \o Try(Risk \o Refuse, Answer("failed") \o Stop) \o postLocalhost("purchaseBUnitFromBase")
removePOS == Refuse \o postLocalhost("removePOS")
registerPOS == Refuse \o postLocalhost("registerPOS")

------------------------------------------------------------------------------
(* Answers of Master passed on, some kept for half a minute.               *)

checkRequestStatus == Refuse \o Forward("checkRequestStatus")
myCards == Cached(Forward("myCards"))
ensureAAForEOARouteForward == Refuse \o Forward("ensureAAForEOARoute")
ensureAAForEOAOnConetRouteForward == Refuse \o Forward("ensureAAForEOAOnConetRoute")
forwardCreateInstitutionalAa ==
  Refuse \o Either(Nothing, userOwnershipCheck) \o Forward("handleCreateInstitutionalAa")
aaCreateViaEntryPointPrepare == Query
aaCreateViaEntryPointSubmit == Refuse \o Forward("aaCreateViaEntryPointSubmit")
getAAAccount == Refuse \o Cached(Forward("getAAAccount"))
getBalance == Refuse \o Cached(Forward("getBalance"))
getBUnitBalance == CachedQuery
baseAaSmartWalletBalances == CachedQuery
getBUnitLedger == CachedQuery
cardMetadata == Lookup
cardMemberTopups == Query
cardProgramSocial == Query
cardProgramReferrersChain == Risk \o Either(Answer("ok") \o Stop, Risk \o Risk \o Answer("ok"))
cardProgramReferees == Refuse \o Risk \o Either(Answer("ok") \o Stop, Risk \o Risk \o Answer("ok"))
cardProgramReferrers == Refuse \o Guarded(Either(cardProgramReferrersChain, cardProgramReferees))
deploySmartAccount == Refuse \o Answer("ok")

------------------------------------------------------------------------------
(* Stripe, previews, web pages.                                            *)

merchantKitStripeCreateSession == Refuse \o Fail \o postLocalhost("merchantKitStripeCreateSession")
merchantKitStripePoll == Pass("merchantKitStripePoll")
merchantKitStripeWebhook == postLocalhostRaw("merchantKitStripeWebhook")
eoaUsdcStripeCreateSession == Refuse \o Fail \o postLocalhost("eoaUsdcStripeCreateSession")
eoaUsdcStripePoll == Pass("eoaUsdcStripePoll")
eoaUsdcStripeWebhook == postLocalhostRaw("eoaUsdcStripeWebhook")

couponClaimMeta == Query
couponClaimHtml == Either(Answer("ok") \o Stop, Query)
ogShort == Query
ogCouponClaimPng == Query
ogIssuedNftJpg == Lookup
requestExplorerRefresh == Query
ogCouponClaimJpg == Query
goVerraNdef == Answer("ok")
metadataFile == Refuse \o Find
youtubeValidate == Guarded(Refuse \o Risk \o Refuse \o Answer("ok"))

================================================================================
