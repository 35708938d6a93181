------------------------------- MODULE MCService -------------------------------
EXTENDS ServiceRuns, OtherScripts

M == INSTANCE MasterRoutes
C == INSTANCE ClusterCardRoutes

WorkerScripts ==
  [AAtoEOA |-> AAtoEOAProcess, ContainerRelay |-> ContainerRelayProcess, OpenContainerRelay |->
   OpenContainerRelayProcess, aaInstitutionalV2Relay |-> aaInstitutionalV2RelayProcess,
   aaMultisigOfflineSubmit |-> aaMultisigOfflineSubmitProcess, addFollow |-> addFollowPoolProcess,
   addUser |-> addUserPoolProcess, beamioTransferIndexerAccounting |->
   beamioTransferIndexerAccountingProcess, buintRedeemAirdrop |-> buintRedeemAirdropProcess,
   businessStartKetRedeemCancel |-> businessStartKetRedeemCancelProcess, businessStartKetRedeemCreate
   |-> businessStartKetRedeemCreateProcess, businessStartKetRedeemUserRedeem |->
   businessStartKetRedeemUserRedeemProcess, cancelRequestAccounting |-> cancelRequestAccountingProcess,
   cardCouponOpenClaim |-> cardCouponOpenClaimProcess, cardCouponPosClaimWallet |->
   cardCouponPosClaimWalletProcess, cardGatewayRewardPool |-> cardGatewayRewardPoolPress,
   cardOpenTransfer |-> cardOpenTransferPoolPress, cardRedeem |-> cardRedeemPoolPress, cardRedeemAdmin
   |-> cardRedeemAdminProcess, cardRedeemIndexerAccounting |-> cardRedeemIndexerAccountingProcess,
   chatIndexPointer |-> chatIndexPointerRelayProcess, claimBUnits |-> claimBUnitsProcess, createCard
   |-> createCardPoolPress, executeForAdmin |-> executeForAdminProcess, executeForAdminPostBase |->
   executeForAdminPostBaseProcess, executeForOwner |-> executeForOwnerProcess, fulfil |->
   M!fulfilPoolPress,
   eoaUsdcStripe |-> M!fulfillEoaUsdcStripeOnChain, gbDepinAirdropAll |-> gbDepinAirdropAllPoolPress, gbDepinChargeUser |->
   gbDepinChargeUserPoolPress, genesisNodeReferralRedeem |-> genesisNodeReferralRedeemRelayProcess,
   getUIDAssetsProvision |-> M!getUIDAssetsProvisionPress, ipfsAccess |-> ipfsAccessProcess, ipfsData
   |-> ipfsDataProcess, purchaseBUnitFromBase |-> purchaseBUnitFromBaseProcess, purchasingCard |->
   purchasingCardProcess, purchasingCardAccountingRetry |-> processPurchasingCardAccountingRetry,
   referralPurchaseSplit |-> referralPurchaseSplitProcess, referralRegistryAdminManagement |->
   referralRegistryAdminManagementProcess, referralRegistryMerchantShare |->
   referralRegistryMerchantShareProcess, referralRegistryRedeemRelay |->
   referralRegistryRedeemRelayProcess, regiestChatRoute |-> regiestChatRouteProcess, registerPOS |->
   registerPOSProcess, relocateBUnitsToSmartWallet |-> relocateBUnitsToSmartWalletProcess, removePOS
   |-> removePOSProcess, requestAccounting |-> requestAccountingProcess, sunProvision |->
   M!sunProvisionPress, treasuryStableSwap |-> treasuryStableSwapRelayProcess,
   validatorCancelTransferOrder |-> validatorCancelTransferOrderProcess, validatorCreateTransferOrder
   |-> validatorCreateTransferOrderProcess, validatorDepositRedeemCancel |->
   validatorDepositRedeemCancelProcess, validatorDepositRedeemClaim |->
   validatorDepositRedeemClaimProcess, validatorDepositRedeemClaimAirdrop |->
   validatorDepositRedeemClaimAirdropProcess, validatorDepositRedeemCreate |->
   validatorDepositRedeemCreateProcess, validatorDepositRedeemTransfer |->
   validatorDepositRedeemTransferProcess, validatorFulfillTransferOrder |->
   validatorFulfillTransferOrderProcess]

MasterScripts ==
  [handleRegisterPushDeviceMaster |-> M!handleRegisterPushDeviceMaster, handleSyncChatBadgeMaster |->
   M!handleSyncChatBadgeMaster, handleNotifyOfflineChatMaster |-> M!handleNotifyOfflineChatMaster,
   getFollowStatus |-> M!getFollowStatus, getMyFollowStatus |-> M!getMyFollowStatus, searchHelp |->
   M!searchHelp, getNFTMetadata |-> M!getNFTMetadata, latestCards |-> M!latestCards, cardsByCategory
   |-> M!cardsByCategory, myCards |-> M!myCards, getAAAccount |-> M!getAAAccount, getBalance |->
   M!getBalance, ownerNftSeries |-> M!ownerNftSeries, recentIssuedCouponSeries |->
   M!recentIssuedCouponSeries, cardActiveIssuedCouponSeries |-> M!cardActiveIssuedCouponSeries,
   cardActiveIssuedProductionSeries |-> M!cardActiveIssuedProductionSeries, seriesSharedMetadata |->
   M!seriesSharedMetadata, mintMetadata |-> M!mintMetadata, checkRequestStatus |->
   M!checkRequestStatus, nfcCardStatus |-> M!nfcCardStatus, ensureAAForEOARoute |->
   M!ensureAAForEOARoute, ensureAAForEOAOnConetRoute |-> M!ensureAAForEOAOnConetRoute,
   handleCreateInstitutionalAa |-> M!handleCreateInstitutionalAa, aaCreateViaEntryPointSubmit |->
   M!aaCreateViaEntryPointSubmit, getUIDAssetsProvision |-> M!getUIDAssetsProvision, sunProvision |->
   M!sunProvision, registerNfcCard |-> M!registerNfcCard, registerSeries |-> M!registerSeries,
   registerMintMetadata |-> M!registerMintMetadata, createCard |-> M!createCard,
   updateCardShareMetadata |-> M!updateCardShareMetadata, excludeUserCard |-> M!excludeUserCard,
   updateCardMerchantImage |-> M!updateCardMerchantImage, updateCardProgramImage |->
   M!updateCardProgramImage, updateIssuedCouponMetadata |-> M!updateIssuedCouponMetadata,
   updateIssuedCouponSocialPromotion |-> M!updateIssuedCouponSocialPromotion,
   longDhangMigrationCreateCard |-> M!longDhangMigrationCreateCard, longDhangMigrationRun |->
   M!longDhangMigrationRun, longDhangMigrationExecuteAuto |-> M!longDhangMigrationExecuteAuto,
   longDhangMigrationRepairTerminals |-> M!longDhangMigrationRepairTerminals, purchasingCard |->
   M!purchasingCard, usdcTopup |-> M!usdcTopup, beamioTransferIndexerAccounting |->
   M!beamioTransferIndexerAccounting, aaMultisigOfflineSubmit |-> M!aaMultisigOfflineSubmit,
   aaInstitutionalV2 |-> M!aaInstitutionalV2, requestAccounting |-> M!requestAccounting, cancelRequest
   |-> M!cancelRequest, cardCreateRedeem |-> M!cardCreateRedeem, cardUpdateTiers |-> M!cardUpdateTiers,
   referralRegistryRedeem |-> M!referralRegistryRedeem, referralRegistryClaim |->
   M!referralRegistryClaim, referralRegistryAdminManagement |-> M!referralRegistryAdminManagement,
   referralPurchaseSplit |-> M!referralPurchaseSplit, referralRegistryMerchantShare |->
   M!referralRegistryMerchantShare, cardOpenTransfer |-> M!cardOpenTransfer, cardRedeem |->
   M!cardRedeem, redeemSeries |-> M!redeemSeries, cardCouponPosClaimWallet |->
   M!cardCouponPosClaimWallet, cardRedeemAdmin |-> M!cardRedeemAdmin, claimBUnits |-> M!claimBUnits,
   relocateBUnitToSmartWallet |-> M!relocateBUnitToSmartWallet, buintRedeemAirdropRedeem |->
   M!buintRedeemAirdropRedeem, businessStartKetRedeemRedeem |-> M!businessStartKetRedeemRedeem,
   businessStartKetRedeemAdminCreate |-> M!businessStartKetRedeemAdminCreate,
   businessStartKetRedeemAdminCancel |-> M!businessStartKetRedeemAdminCancel, treasuryStableSwap |->
   M!treasuryStableSwap, genesisNodeReferralRedeem |-> M!genesisNodeReferralRedeem, setChatIndexPointer
   |-> M!setChatIndexPointer, validatorDepositRedeemAdminCreate |->
   M!validatorDepositRedeemAdminCreate, validatorDepositRedeemAdminCancel |->
   M!validatorDepositRedeemAdminCancel, validatorDepositRedeemClaim |-> M!validatorDepositRedeemClaim,
   validatorDepositRedeemClaimAirdrop |-> M!validatorDepositRedeemClaimAirdrop,
   validatorDepositRedeemTransfer |-> M!validatorDepositRedeemTransfer, validatorCreateTransferOrder
   |-> M!validatorCreateTransferOrder, validatorCancelTransferOrder |-> M!validatorCancelTransferOrder,
   validatorFulfillTransferOrder |-> M!validatorFulfillTransferOrder, gbDepinChargeUserGb |->
   M!gbDepinChargeUserGb, gbDepinAirdropPaidAll |-> M!gbDepinAirdropPaidAll, purchaseBUnitFromBase |->
   M!purchaseBUnitFromBase, removePOS |-> M!removePOS, registerPOS |-> M!registerPOS, executeForAdmin
   |-> M!executeForAdmin, AAtoEOA |-> M!AAtoEOA, executeForOwner |-> M!executeForOwner,
   cardCouponOpenClaim |-> M!cardCouponOpenClaim, cardGatewayRewardPool |-> M!cardGatewayRewardPool,
   cardGatewayInitializeUserCumulativeStat |-> M!cardGatewayInitializeUserCumulativeStat,
   storageFragment |-> M!storageFragment, getFragment |-> M!getFragment, cardClearAdminMintCounter |->
   M!cardClearAdminMintCounter, cardTerminalSettlementClear |-> M!cardTerminalSettlementClear,
   payByNfcUidPrepareRoute |-> M!payByNfcUidPrepareRoute, payByNfcUidSignContainerRoute |->
   M!payByNfcUidSignContainerRoute, payByNfcUid |-> M!payByNfcUid, nfcTopupPrepare |->
   M!nfcTopupPrepare, nfcTopup |-> M!nfcTopup, nfcUsdcCharge |-> M!nfcUsdcCharge, nfcUsdcTopup |->
   M!nfcUsdcTopup, walletDepositFulfill |-> M!walletDepositFulfill, fuelPackFulfill |->
   M!fuelPackFulfill, genesisNodeSeatFulfill |-> M!genesisNodeSeatFulfill, treasuryBridgeFulfill |->
   M!treasuryBridgeFulfill, chargeSessionUpsert |-> M!chargeSessionUpsert, chargeSessionGet |->
   M!chargeSessionGet, chargeSessionConsumePosSig |-> M!chargeSessionConsumePosSig,
   nfcUsdcChargeTopupAuth |-> M!nfcUsdcChargeTopupAuth, tokenTransferRawSig |-> M!tokenTransferRawSig,
   usdcChargeRawSig |-> M!usdcChargeRawSig, merchantKitStripeWebhook |-> M!merchantKitStripeWebhook,
   eoaUsdcStripeWebhook |-> M!eoaUsdcStripeWebhook, merchantKitStripeCreateSession |->
   M!merchantKitStripeCreateSession, merchantKitStripePoll |-> M!merchantKitStripePoll,
   eoaUsdcStripeCreateSession |-> M!eoaUsdcStripeCreateSession, eoaUsdcStripePoll |->
   M!eoaUsdcStripePoll, addUser |-> addUser, addFollow |-> addFollow, removeFollow |-> removeFollow,
   regiestChatRoute |-> regiestChatRoute, nfcLinkApp |-> nfcLinkAppExecute, nfcLinkAppCancel |->
   nfcLinkAppCancelExecute, nfcLinkAppClaimWithKey |-> nfcLinkAppClaimExecute, gbDepinCron |->
   Finally(startGbDepinAirdropCron, Say("ok"))]

ClusterScripts ==
  [sun |-> C!sun, manifest |-> C!manifest, searchUsersByCardOwnerOrAdmin |->
   C!searchUsersByCardOwnerOrAdmin, getTerminalProfile |-> C!getTerminalProfile, getCardAdminInfo |->
   C!getCardAdminInfo, myPosAddressHandler |-> C!myPosAddressHandler, myPosAddresses |->
   C!myPosAddresses, setActivePosAddress |-> C!setActivePosAddress, getCardStats |-> C!getCardStats,
   cardTransactions |-> C!cardTransactions, posLedger |-> C!posLedger, nfcCardStatus |->
   C!nfcCardStatus, getUIDAssets |-> C!getUIDAssets, nfcBeamioUserCards |-> C!nfcBeamioUserCards,
   getWalletAssets |-> C!getWalletAssets, nfcCardLinkState |-> C!nfcCardLinkState, listLinkedNfcCards
   |-> C!listLinkedNfcCards, registerNfcCard |-> C!registerNfcCard, payByNfcUidPrepareRoute |->
   C!payByNfcUidPrepareRoute, nfcUsdcChargeNfcPrepare |-> C!nfcUsdcChargeNfcPrepare,
   payByNfcUidSignContainerRoute |-> C!payByNfcUidSignContainerRoute, nfcUsdcChargeNfcSign |->
   C!nfcUsdcChargeNfcSign, payByNfcUidRoute |-> C!payByNfcUidRoute, nfcLinkApp |-> C!nfcLinkApp,
   nfcLinkAppClaimWithKey |-> C!nfcLinkAppClaimWithKey, nfcLinkAppValidate |-> C!nfcLinkAppValidate,
   nfcLinkAppRelease |-> C!nfcLinkAppRelease, nfcLinkAppCancel |-> C!nfcLinkAppCancel,
   nfcTopupPrepareRoute |-> C!nfcTopupPrepareRoute, nfcTopupRoute |-> C!nfcTopupRoute,
   nfcUsdcTopupQuote |-> C!nfcUsdcTopupQuote, nfcUsdcTopup |-> C!nfcUsdcTopup, nfcUsdcChargeQuote |->
   C!nfcUsdcChargeQuote, nfcUsdcChargePreCheck |-> C!nfcUsdcChargePreCheck, nfcUsdcChargeSession |->
   C!nfcUsdcChargeSession, nfcUsdcChargeTopupAuth |-> C!nfcUsdcChargeTopupAuth, nfcUsdcChargeRawSig |->
   C!nfcUsdcChargeRawSig, excludedUserCards |-> C!excludedUserCards, excludeUserCard |->
   C!excludeUserCard, latestCards |-> C!latestCards, searchHelp |-> C!searchHelp,
   businessStartKetContractMetadata |-> C!businessStartKetContractMetadata,
   businessStartKetTokenMetadata |-> C!businessStartKetTokenMetadata, metadataResource |->
   C!metadataResource, learningFeedbackPost |-> C!learningFeedbackPost, learningFeedbackGet |->
   C!learningFeedbackGet, generateImage |-> C!generateImage, beamioAction |-> C!beamioAction,
   getNFTMetadata |-> C!getNFTMetadata, ownerNftSeries |-> C!ownerNftSeries, recentIssuedCouponSeries
   |-> C!recentIssuedCouponSeries, cardActiveIssuedCouponSeries |-> C!cardActiveIssuedCouponSeries,
   cardActiveIssuedProductionSeries |-> C!cardActiveIssuedProductionSeries, seriesSharedMetadata |->
   C!seriesSharedMetadata, registerSeries |-> C!registerSeries, registerMintMetadata |->
   C!registerMintMetadata, mintMetadata |-> C!mintMetadata, issuedNftClaimWallets |->
   C!issuedNftClaimWallets, addUserRoute |-> C!addUserRoute, addFollowRoute |-> C!addFollowRoute,
   removeFollowRoute |-> C!removeFollowRoute, getFollowStatus |-> C!getFollowStatus, getMyFollowStatus
   |-> C!getMyFollowStatus, regiestChatRouteRoute |-> C!regiestChatRouteRoute, debugIp |-> C!debugIp,
   getOracle |-> C!getOracle, purchasingCardRoute |-> C!purchasingCardRoute, usdcTopupRoute |->
   C!usdcTopupRoute, usdcTopupPreview |-> C!usdcTopupPreview, createCardRoute |-> C!createCardRoute,
   longDhangMigrationConfig |-> C!longDhangMigrationConfig, longDhangMigrationPreview |->
   C!longDhangMigrationPreview, longDhangMigrationCreateCard |-> C!longDhangMigrationCreateCard,
   longDhangMigrationRun |-> C!longDhangMigrationRun, longDhangMigrationVerify |->
   C!longDhangMigrationVerify, longDhangMigrationExecuteAuto |-> C!longDhangMigrationExecuteAuto,
   longDhangMigrationRepairTerminals |-> C!longDhangMigrationRepairTerminals, cardCreateRedeem |->
   C!cardCreateRedeem, cardCreateRedeemAdmin |-> C!cardCreateRedeemAdmin, cardAddAdmin |->
   C!cardAddAdmin, cardAddAdminByAdmin |-> C!cardAddAdminByAdmin, cardAdmins |-> C!cardAdmins,
   cardClearAdminMintCounter |-> C!cardClearAdminMintCounter, cardTerminalSettlementClear |->
   C!cardTerminalSettlementClear, cardCreateIssuedNft |-> C!cardCreateIssuedNft,
   cardMintIssuedNftToAddress |-> C!cardMintIssuedNftToAddress, executeForOwnerRoute |->
   C!executeForOwnerRoute, cardRedeemAdmin |-> C!cardRedeemAdmin, cardRedeemPreCheckRoute |->
   C!cardRedeemPreCheckRoute, cardRedeem |-> C!cardRedeem, redeemSeries |-> C!redeemSeries,
   redeemStatusBatch |-> C!redeemStatusBatch, cardOpenTransferPreCheckRoute |->
   C!cardOpenTransferPreCheckRoute, cardOpenTransfer |-> C!cardOpenTransfer, updateCardShareMetadata
   |-> C!updateCardShareMetadata, updateIssuedCouponMetadata |-> C!updateIssuedCouponMetadata,
   updateIssuedCouponSocialPromotion |-> C!updateIssuedCouponSocialPromotion, updateCardMerchantImage
   |-> C!updateCardMerchantImage, updateCardProgramImage |-> C!updateCardProgramImage, cardUpdateTiers
   |-> C!cardUpdateTiers, burnPointsByAdminPrepare |-> C!burnPointsByAdminPrepare,
   burnChargeRewardByAdminPrepare |-> C!burnChargeRewardByAdminPrepare, cardCouponPosClaimPrepare |->
   C!cardCouponPosClaimPrepare, cardCouponPosClaimSubmit |-> C!cardCouponPosClaimSubmit,
   merchantCardCouponBurnSupported |-> C!merchantCardCouponBurnSupported, cardCouponPosConsumePrepare
   |-> C!cardCouponPosConsumePrepare, cardCouponPosConsumeSubmit |-> C!cardCouponPosConsumeSubmit,
   cardCouponPosConsumeNfcSign |-> C!cardCouponPosConsumeNfcSign, cardCouponOpenClaimRoute |->
   C!cardCouponOpenClaimRoute, cardCouponPosClaim |-> C!cardCouponPosClaim,
   cardUserCumulativeStatStatus |-> C!cardUserCumulativeStatStatus, cardInitializeUserCumulativeStat
   |-> C!cardInitializeUserCumulativeStat, cardBootstrapIssuedNftV2Stat |->
   C!cardBootstrapIssuedNftV2Stat, cardConfigureEventRewardRule |-> C!cardConfigureEventRewardRule,
   cardConfigureEventRewardRulesBatch |-> C!cardConfigureEventRewardRulesBatch,
   cardConfigureEventRewardRulesBatchGateway |-> C!cardConfigureEventRewardRulesBatchGateway,
   cardConfigureEventRewardRuleGateway |-> C!cardConfigureEventRewardRuleGateway,
   cardPurchaseRewardProgram |-> C!cardPurchaseRewardProgram, cardFundSocialExchangeUsdcEscrow |->
   C!cardFundSocialExchangeUsdcEscrow, cardDispatchEventReward13 |-> C!cardDispatchEventReward13,
   cardRecordDiscoverShareClick |-> C!cardRecordDiscoverShareClick, cardBindShareReferee |->
   C!cardBindShareReferee, cardRecordUserCumulativeStat |-> C!cardRecordUserCumulativeStat,
   cardRecordTopupCumulativeStat |-> C!cardRecordTopupCumulativeStat,
   cardGatewayInitializeUserCumulativeStat |-> C!cardGatewayInitializeUserCumulativeStat,
   cardRecordUserLike |-> C!cardRecordUserLike, aaMultisigOfflineSubmit |-> C!aaMultisigOfflineSubmit,
   aaInstitutionalV2ProposeTransfer |-> C!aaInstitutionalV2ProposeTransfer,
   aaInstitutionalV2ProposeSetPolicy |-> C!aaInstitutionalV2ProposeSetPolicy, aaInstitutionalV2Vote |->
   C!aaInstitutionalV2Vote, AAtoEOARoute |-> C!AAtoEOARoute, registerPushDevice |->
   C!registerPushDevice, syncChatBadge |-> C!syncChatBadge, notifyOfflineChat |-> C!notifyOfflineChat,
   transferPreCheckBUnitRoute |-> C!transferPreCheckBUnitRoute, vouchersReceivePreCheck |->
   C!vouchersReceivePreCheck, requestAccountingPreCheck |-> C!requestAccountingPreCheck,
   requestAccounting |-> C!requestAccounting, cancelRequest |-> C!cancelRequest,
   beamioTransferIndexerAccounting |-> C!beamioTransferIndexerAccounting, checkBUnitClaimEligibility
   |-> C!checkBUnitClaimEligibility, claimBUnits |-> C!claimBUnits, buintRedeemAirdropPreCheck |->
   C!buintRedeemAirdropPreCheck, buintRedeemAirdropRedeem |-> C!buintRedeemAirdropRedeem,
   businessStartKetRedeemRedeem |-> C!businessStartKetRedeemRedeem, businessStartKetRedeemAdminNonce
   |-> C!businessStartKetRedeemAdminNonce, businessStartKetRedeemAdminCreate |->
   C!businessStartKetRedeemAdminCreate, businessStartKetRedeemAdminCancel |->
   C!businessStartKetRedeemAdminCancel, genesisNodeReferralRedeemNonce |->
   C!genesisNodeReferralRedeemNonce, genesisNodeReferralIncome |-> C!genesisNodeReferralIncome,
   genesisNodeReferralRedeem |-> C!genesisNodeReferralRedeem, chatIndexPointer |-> C!chatIndexPointer,
   setChatIndexPointer |-> C!setChatIndexPointer, treasuryStableSwapNonce |->
   C!treasuryStableSwapNonce, treasuryStableSwap |-> C!treasuryStableSwap, referralRegistryRedeemNonce
   |-> C!referralRegistryRedeemNonce, referralRegistryAdminNonce |-> C!referralRegistryAdminNonce,
   referralRegistryL0Quota |-> C!referralRegistryL0Quota, referralRegistryMerchantCandidates |->
   C!referralRegistryMerchantCandidates, referralRegistryClaimNonce |-> C!referralRegistryClaimNonce,
   referralRegistryClaims |-> C!referralRegistryClaims, referralRegistryTree |->
   C!referralRegistryTree, referralRegistryAdminManagement |-> C!referralRegistryAdminManagement,
   referralPurchaseSplit |-> C!referralPurchaseSplit, referralRegistryMerchantShare |->
   C!referralRegistryMerchantShare, referralRegistryRedeem |-> C!referralRegistryRedeem,
   referralRegistryClaim |-> C!referralRegistryClaim, validatorDepositRedeemConfig |->
   C!validatorDepositRedeemConfig, conetValidatorDashboard |-> C!conetValidatorDashboard,
   conetBeneficiaryIncome |-> C!conetBeneficiaryIncome, conetIncomeDaemonStatus |->
   C!conetIncomeDaemonStatus, validatorDepositRedeemAdminNonce |-> C!validatorDepositRedeemAdminNonce,
   validatorDepositRedeemAdminCreate |-> C!validatorDepositRedeemAdminCreate,
   validatorDepositRedeemAdminCancel |-> C!validatorDepositRedeemAdminCancel,
   validatorDepositRedeemClaim |-> C!validatorDepositRedeemClaim, validatorDepositRedeemClaimAirdrop
   |-> C!validatorDepositRedeemClaimAirdrop, validatorDepositRedeemTransfer |->
   C!validatorDepositRedeemTransfer, validatorCreateTransferOrder |-> C!validatorCreateTransferOrder,
   validatorCancelTransferOrder |-> C!validatorCancelTransferOrder, validatorFulfillTransferOrder |->
   C!validatorFulfillTransferOrder, gbDepinChargeUserGb |-> C!gbDepinChargeUserGb,
   gbDepinAirdropPaidAll |-> C!gbDepinAirdropPaidAll, validatorDepositRedeemStatus |->
   C!validatorDepositRedeemStatus, purchaseBUnitFromBase |-> C!purchaseBUnitFromBase, removePOS |->
   C!removePOS, registerPOS |-> C!registerPOS, checkRequestStatus |-> C!checkRequestStatus, myCards |->
   C!myCards, ensureAAForEOARouteForward |-> C!ensureAAForEOARouteForward,
   ensureAAForEOAOnConetRouteForward |-> C!ensureAAForEOAOnConetRouteForward,
   forwardCreateInstitutionalAa |-> C!forwardCreateInstitutionalAa, aaCreateViaEntryPointPrepare |->
   C!aaCreateViaEntryPointPrepare, aaCreateViaEntryPointSubmit |-> C!aaCreateViaEntryPointSubmit,
   getAAAccount |-> C!getAAAccount, getBalance |-> C!getBalance, getBUnitBalance |-> C!getBUnitBalance,
   baseAaSmartWalletBalances |-> C!baseAaSmartWalletBalances, getBUnitLedger |-> C!getBUnitLedger,
   cardMetadata |-> C!cardMetadata, cardMemberTopups |-> C!cardMemberTopups, cardProgramSocial |->
   C!cardProgramSocial, cardProgramReferrers |-> C!cardProgramReferrers, deploySmartAccount |->
   C!deploySmartAccount, merchantKitStripeWebhook |-> C!merchantKitStripeWebhook,
   eoaUsdcStripeWebhook |-> C!eoaUsdcStripeWebhook, merchantKitStripeCreateSession |-> C!merchantKitStripeCreateSession,
   merchantKitStripePoll |-> C!merchantKitStripePoll, eoaUsdcStripeCreateSession |->
   C!eoaUsdcStripeCreateSession, eoaUsdcStripePoll |-> C!eoaUsdcStripePoll, couponClaimMeta |->
   C!couponClaimMeta, couponClaimHtml |-> C!couponClaimHtml, ogShort |-> C!ogShort, ogCouponClaimPng
   |-> C!ogCouponClaimPng, ogIssuedNftJpg |-> C!ogIssuedNftJpg, requestExplorerRefresh |->
   C!requestExplorerRefresh, ogCouponClaimJpg |-> C!ogCouponClaimJpg, goVerraNdef |-> C!goVerraNdef,
   metadataFile |-> C!metadataFile, youtubeValidate |-> C!youtubeValidate]

\* Routes of Master for its own processes, and a tick of a timer.
LocalRoutes ==
  {"cardActiveIssuedCouponSeries", "cardActiveIssuedProductionSeries", "cardsByCategory",
   "getFollowStatus", "getFragment", "getMyFollowStatus", "getNFTMetadata", "mintMetadata",
   "nfcCardStatus", "ownerNftSeries", "recentIssuedCouponSeries", "relocateBUnitToSmartWallet",
   "searchHelp", "seriesSharedMetadata", "storageFragment", "nfcUsdcCharge", "gbDepinCron"}

MCScript == [cluster |-> ClusterScripts, master |-> MasterScripts, worker |-> WorkerScripts]
MCQueue == DOMAIN WorkerScripts
MCSingle == {"cardGatewayRewardPool", "gbDepinChargeUser", "gbDepinAirdropAll"}
MCRoutes == {<<"cluster", n>> : n \in DOMAIN ClusterScripts} \cup {<<"master", n>> : n \in LocalRoutes}
MCJobs == {<<"master", n>> : n \in DOMAIN MasterScripts}
MCAlone ==
  {<<"master", n>> : n \in
     {"AAtoEOA", "addUser", "beamioTransferIndexerAccounting", "cardCouponOpenClaim",
      "cardCouponPosClaimWallet", "cardCreateRedeem", "cardGatewayInitializeUserCumulativeStat",
      "cardGatewayRewardPool", "cardRedeem", "cardUpdateTiers", "claimBUnits", "executeForAdmin",
      "executeForOwner", "getUIDAssetsProvision", "handleCreateInstitutionalAa",
      "longDhangMigrationExecuteAuto", "nfcLinkApp", "nfcLinkAppClaimWithKey", "nfcTopup", "nfcUsdcTopup",
      "payByNfcUid", "payByNfcUidSignContainerRoute", "purchasingCard", "redeemSeries", "sunProvision",
      "usdcChargeRawSig"}}
\* One request of a route; two of each route of Master, or one.  The route
\* usdcTopup does what purchasingCard does.
MCEach == {[q \in {"q1"} |-> r] : r \in MCRoutes}
MCMixes ==
  {[q \in {"q1"} |-> r] : r \in MCAlone}
    \cup {[q \in {"q1", "q2"} |-> r] : r \in MCJobs \ (MCAlone \cup {<<"master", "usdcTopup">>})}
MCPurchases == {"purchasingCard", "usdcTopup"}
\* Routes whose follow-ups can fail, and the Cluster's routes that hand their
\* answer on.
MCLateErrors ==
  {"aaCreateViaEntryPointSubmit", "aaMultisigOfflineSubmit", "AAtoEOA", "cardClearAdminMintCounter",
   "cardCreateRedeem", "cardGatewayInitializeUserCumulativeStat", "cardGatewayRewardPool",
   "cardUpdateTiers", "executeForOwner", "handleCreateInstitutionalAa", "longDhangMigrationCreateCard",
   "longDhangMigrationExecuteAuto", "nfcLinkAppClaimWithKey", "payByNfcUid",
   "payByNfcUidSignContainerRoute", "purchasingCard", "referralRegistryAdminManagement",
   "referralRegistryClaim", "referralRegistryRedeem", "usdcTopup"}
    \cup
  {"AAtoEOARoute", "cardAddAdmin", "cardBindShareReferee", "cardBootstrapIssuedNftV2Stat",
   "cardConfigureEventRewardRule", "cardConfigureEventRewardRuleGateway",
   "cardConfigureEventRewardRulesBatch", "cardConfigureEventRewardRulesBatchGateway",
   "cardCreateIssuedNft", "cardCreateRedeemAdmin", "cardDispatchEventReward13",
   "cardFundSocialExchangeUsdcEscrow", "cardInitializeUserCumulativeStat", "cardMintIssuedNftToAddress",
   "cardPurchaseRewardProgram", "cardRecordDiscoverShareClick", "cardRecordTopupCumulativeStat",
   "cardRecordUserCumulativeStat", "cardRecordUserLike", "executeForOwnerRoute",
   "forwardCreateInstitutionalAa", "nfcUsdcChargeNfcSign", "payByNfcUidRoute", "purchasingCardRoute",
   "usdcTopupRoute"}
\* Routes whose fee comes before what it is for, by themselves or by the job of
\* the accounting they post to.
MCFeeFirst ==
  {"beamioTransferIndexerAccounting", "nfcLinkAppClaimWithKey", "nfcUsdcChargeRawSig",
   "requestAccounting", "usdcChargeRawSig"}
MCBorrowers ==
  {"AAtoEOA", "cardClearAdminMintCounter", "cardTerminalSettlementClear", "executeForOwner",
   "merchantKitStripeWebhook", "payByNfcUid", "payByNfcUidPrepareRoute", "tokenTransferRawSig",
   "usdcChargeRawSig"}
MCEffect == {"main", "fee", "pay", "book", "feeBook", "tipBook", "burn"}
MCUnique == MCEffect \ {"fee"}
MCKeyOf == [base |-> {1}, conet |-> {1}, beamio |-> {1}]
================================================================================
