----------------------------- MODULE ClusterRoutes -----------------------------
(***************************************************************************)
(* The routes of beamioServer.ts.  A Cluster process checks: it reads the  *)
(* chain and the database, refuses what cannot work, and hands the rest to *)
(* Master, whose answer it pipes to the client.  It writes little itself.  *)
(* A route is named after its path; ...Route where a worker has the name.  *)
(***************************************************************************)
EXTENDS OtherScripts

------------------------------------------------------------------------------
(* The line to Master.  A broken one is a 502.                             *)

postLocalhost(r) == Relay(r)
postLocalhostRaw(r) == Relay(r)
getLocalhost(r) == Relay(r)
postLocalhostBuffer(r, s, t) == Ask(r, s, t)
getLocalhostBuffer(r, s, t) == Ask(r, s, t)

\* Master's trouble with a request hash does not stop a payment.
runRequestHashPreCheck ==
  Either(Nothing, Tolerate(getLocalhostBuffer("checkRequestStatus", Refuse, Nothing)))

masterSessionUpsert == Post("chargeSessionUpsert")
masterSessionGet(s, t) == getLocalhostBuffer("chargeSessionGet", s, t)
masterSessionConsumePosSig ==
  Tolerate(postLocalhostBuffer("chargeSessionConsumePosSig", Nothing, Nothing))

\* A card met for the first time is given its account while we wait.
ensureNfcTagProvisionedViaMaster ==
  Either(Nothing, postLocalhostBuffer("getUIDAssetsProvision", Refuse, Echo \o Stop))

userOwnershipCheck == Try(Risk, Nothing) \o Refuse
getFollowCheck == Try(Risk, Answer("refused") \o Stop) \o Refuse

\* The signature of an NFC tap: its counter is kept, so it works only once.
verifyAndPersistBeamioSunUrl == Write("counter")
Tap(s) == Refuse \o Try(verifyAndPersistBeamioSunUrl \o Refuse \o s, Answer("refused") \o Stop)

------------------------------------------------------------------------------
(* Profiles, terminals and statistics.                                     *)

sun ==
  Try(verifyAndPersistBeamioSunUrl \o Refuse
      \o Either(Risk \o Answer("ok") \o Stop, postLocalhost("sunProvision")),
      Answer("refused"))
manifest == Answer("ok")
searchUsersByCardOwnerOrAdmin == Refuse \o Guarded(Risk \o Fail \o Answer("ok"))
getTerminalProfile == Query
getCardAdminInfo == Query

\* A terminal that is no longer an admin of its card loses the binding.
myPosAddressHandler ==
  Refuse \o Guarded(Risk \o Refuse
                    \o Either(Nothing, Write("binding") \o Answer("refused") \o Stop)
                    \o Either(Nothing, Risk \o Risk) \o Answer("ok"))
myPosAddresses == Query
setActivePosAddress == Refuse \o Guarded(Write("binding") \o Refuse \o Risk \o Answer("done"))
getCardStats == Query
cardTransactions == Query
posLedgerQuery == Refuse \o Try(Risk, Answer("failed") \o Stop)
posLedgerRows == Guarded(Risk \o Answer("ok"))
posLedger == posLedgerQuery \o posLedgerRows

------------------------------------------------------------------------------
(* NFC cards.                                                              *)

nfcCardStatus == BareQuery
getUIDAssets ==
  Either(Nothing, Tap(Nothing))
  \o Guarded(Either(Nothing, Risk \o Either(Nothing, postLocalhost("getUIDAssetsProvision")))
             \o Either(Nothing, Risk) \o Refuse \o Risk \o Write("holdings") \o Answer("ok"))
nfcBeamioUserCards == Either(Nothing, Tap(Nothing)) \o Refuse \o Risk \o Answer("ok")
getWalletAssets == Lookup
nfcCardLinkState == Refuse \o Guarded(Write("row") \o Refuse \o Answer("done"))
listLinkedNfcCards == Lookup
registerNfcCard == Pass("registerNfcCard")

payByNfcUidPrepareRoute == Refuse \o Either(Nothing, Refuse) \o postLocalhost("payByNfcUidPrepareRoute")
nfcUsdcChargeNfcPrepare == Refuse \o Either(Nothing, Refuse) \o postLocalhost("payByNfcUidPrepareRoute")

\* Balances are compared here, before anything is signed; they may have
\* changed when Master relays the container.
payByNfcUidSignContainerRoute ==
  Refuse
  \o Either(Nothing, Tap(Risk \o ensureNfcTagProvisionedViaMaster))
  \o Try(Risk \o Refuse, Answer("failed") \o Stop)
  \o Either(Nothing, Risk \o Refuse)
  \o postLocalhost("payByNfcUidSignContainerRoute")
nfcUsdcChargeNfcSign == payByNfcUidSignContainerRoute
payByNfcUidRoute == Pass("payByNfcUid")

\* A tap, the gate of its card, and whether the card may be linked.
nfcLinkApp == Refuse \o Tap(Risk \o Refuse) \o postLocalhost("nfcLinkApp")
nfcLinkAppClaimWithKey ==
  Refuse \o Risk \o Refuse \o Risk \o Refuse
  \o Either(Nothing, nfcLinkAppMigrationBUnitClusterPreCheck) \o postLocalhost("nfcLinkAppClaimWithKey")
nfcLinkAppValidate == BareQuery
nfcLinkAppRelease == Write("row") \o Refuse \o Answer("done")
nfcLinkAppCancel == Refuse \o Tap(Nothing) \o postLocalhost("nfcLinkAppCancel")

\* The card of an NFC top-up: tap, account, and the gate of its terminal.
nfcTopupTap == Tap(Risk \o ensureNfcTagProvisionedViaMaster \o Risk \o Refuse)

nfcTopupPrepareRoute ==
  Try(Risk, Nothing) \o Refuse \o Either(Nothing, nfcTopupTap)
  \o Try(Try(Risk, Nothing)
         \o postLocalhostBuffer("nfcTopupPrepare", Try(Risk, Nothing) \o Echo, Echo),
         Answer("failed"))

\* Who signed, for which card; what may be minted or burned; what it costs.
nfcTopupSigner ==
  Refuse \o Risk \o Either(Nothing, Try(Risk, Nothing) \o Risk \o Refuse)
  \o Either(Nothing, Try(Risk \o Refuse, Nothing))
nfcTopupMint ==
  Either(Refuse, Risk \o Refuse \o Risk \o Refuse \o Either(Nothing, Risk \o Refuse) \o Risk \o Refuse)
nfcTopupSession ==
  Either(Nothing,
         Refuse \o masterSessionGet(Fail, Answer("failed") \o Stop) \o Refuse)
nfcTopupRoute ==
  Either(Nothing, nfcTopupTap) \o Refuse
  \o Try(nfcTopupSigner \o nfcTopupMint \o nfcTopupSession \o postLocalhost("nfcTopup"),
         Answer("refused"))

------------------------------------------------------------------------------
(* USDC taken from a customer with an x402 payment.  The payment is        *)
(* settled first; what it pays for is asked of Master afterwards, and the  *)
(* customer is told "success" in between.                                  *)

nfcUsdcTopupQuote == Guarded(Refuse \o Try(Risk, Nothing) \o Refuse \o Fail \o Answer("ok"))

\* The facilitator's answer is the only trace of the payment here.
settleBeamioX402ToCardOwner == Refuse \o Try(Send("pay") \o Mined("pay"), Answer("failed") \o Stop)

\* CADD, which x402 does not know, is moved by Master.
settleWithRawSigIfNeeded(otherwise) ==
  Either(otherwise,
         Refuse \o postLocalhostBuffer("tokenTransferRawSig", Fail, Answer("failed") \o Stop))

Fulfil(r) == Say("accepted") \o Post(r) \o Stop

nfcUsdcTopupRequest == Refuse \o Either(Nothing, Try(Risk, Nothing) \o Refuse)
walletDepositWorkflow == Refuse \o Fail \o settleBeamioX402ToCardOwner \o Fulfil("walletDepositFulfill")
fuelPackWorkflow == Refuse \o Fail \o settleBeamioX402ToCardOwner \o Fulfil("fuelPackFulfill")
genesisNodeSeatWorkflow ==
  Refuse \o Either(Nothing, Try(Risk \o Refuse, Answer("refused") \o Stop))
  \o settleBeamioX402ToCardOwner \o Fulfil("genesisNodeSeatFulfill")
treasuryBridgeWorkflow ==
  Refuse \o Fail \o Risk \o Refuse \o Risk \o Refuse
  \o settleWithRawSigIfNeeded(settleBeamioX402ToCardOwner) \o Fulfil("treasuryBridgeFulfill")
clientTopupWorkflow ==
  Refuse \o Fail \o settleWithRawSigIfNeeded(settleBeamioX402ToCardOwner) \o Say("done") \o Stop

\* A terminal's first phase: paid, and waiting for the card of whom it is for.
sessionPhase1Workflow ==
  Refuse \o Fail \o masterSessionUpsert
  \o settleWithRawSigIfNeeded(settleBeamioX402ToCardOwner)
  \o masterSessionUpsert \o Say("done") \o Stop

\* The whole of it at the terminal; without a session Master mints at once.
nfcTapWorkflow ==
  nfcTopupTap \o Risk \o Refuse \o Fail \o masterSessionUpsert
  \o settleWithRawSigIfNeeded(settleBeamioX402ToCardOwner)
  \o Either(masterSessionUpsert \o Say("accepted")
            \o Either(masterSessionUpsert \o Stop, Spawn(masterSessionConsumePosSig) \o Stop),
            postLocalhost("nfcUsdcTopup"))

nfcUsdcTopup ==
  Try(nfcUsdcTopupRequest
      \o Either(walletDepositWorkflow, Either(fuelPackWorkflow, Either(genesisNodeSeatWorkflow,
         Either(treasuryBridgeWorkflow, Either(clientTopupWorkflow,
                Either(Nothing, Try(Risk, Nothing) \o Refuse)
                \o Either(sessionPhase1Workflow, nfcTapWorkflow)))))),
      masterSessionUpsert \o Say("failed"))

nfcUsdcChargeQuote == Guarded(Refuse \o Try(Risk, Nothing) \o Refuse \o Fail \o Answer("ok"))
nfcUsdcChargePreCheck ==
  Guarded(Refuse \o Risk \o Refuse \o Try(Risk \o Fail, Answer("failed") \o Stop)
          \o Risk \o Refuse \o Answer("ok"))
nfcUsdcChargeSession == Refuse \o Forward("chargeSessionGet")
nfcUsdcChargeTopupAuth ==
  Try(postLocalhostBuffer("nfcUsdcChargeTopupAuth", Echo, Echo), Say("failed"))
nfcUsdcChargeRawSig ==
  Try(Refuse \o Try(Risk, Nothing) \o Refuse \o Fail \o masterSessionUpsert
      \o Try(postLocalhostBuffer("usdcChargeRawSig", Nothing, Echo \o Stop), Answer("failed") \o Stop)
      \o masterSessionUpsert \o Answer("done"),
      masterSessionUpsert \o Say("failed"))

------------------------------------------------------------------------------
(* Catalogue, metadata, the AI helper.                                     *)

excludedUserCards == Answer("ok")
excludeUserCard == Risk \o Refuse \o Forward("excludeUserCard")
latestCards == getLocalhost("latestCards")
searchHelp == CachedQuery
businessStartKetContractMetadata == Answer("ok")
businessStartKetTokenMetadata == Refuse \o Answer("ok")
metadataResource == Refuse \o Guarded(Risk \o Spawn(Look) \o Answer("ok"))
learningFeedbackPost == Refuse \o Write("row") \o Fail \o Answer("done")
learningFeedbackGet == Risk \o Answer("ok")
generateImage == Guarded(Risk \o Fail \o Answer("ok"))
beamioAction == Fail \o Refuse \o Risk \o Guarded(Risk \o Fail \o Answer("ok"))
getNFTMetadata == CachedLookup
ownerNftSeries == CachedQuery
recentIssuedCouponSeries == Cached(Read)
cardActiveIssuedCouponSeries == Refuse \o Risk \o Cached(Cached(Read))
cardActiveIssuedProductionSeries == CachedQuery
seriesSharedMetadata == CachedLookup
registerSeries == Pass("registerSeries")
registerMintMetadata == Pass("registerMintMetadata")
mintMetadata == CachedQuery
issuedNftClaimWallets == CachedQuery

------------------------------------------------------------------------------
(* Names and follows.                                                      *)

addUserRoute == Refuse \o userOwnershipCheck \o postLocalhost("addUser")
addFollowRoute ==
  Refuse \o getFollowCheck \o Unless(Answer("already") \o Stop) \o postLocalhost("addFollow")
removeFollowRoute ==
  Refuse \o getFollowCheck \o Unless(Answer("already") \o Stop) \o postLocalhost("removeFollow")
getFollowStatus == Refuse \o Cached(Risk \o Refuse \o Answer("ok"))
getMyFollowStatus == Refuse \o Cached(Risk \o Refuse \o Answer("ok"))
regiestChatRouteRoute == Pass("regiestChatRoute")
debugIp == Answer("ok")
getOracle == Answer("ok")

================================================================================
