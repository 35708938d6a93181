------------------------------ MODULE OtherScripts ------------------------------
(***************************************************************************)
(* Workers outside MemberCard.ts: validator deposit codes and orders, the  *)
(* member reward gateway, the stable-coin bridge, genesis referral codes,  *)
(* the chat pointer, the storage airdrop, and the account registry of      *)
(* db.ts, whose keys are a pool of their own, "beamio".                    *)
(***************************************************************************)
EXTENDS ClaimScripts

------------------------------------------------------------------------------
(* Validator deposits.  hasIdleSettleConet and withSettleWallet run in one *)
(* turn, so a worker that saw an idle key gets one.                        *)

withSettleWallet(body) == TakeKey("conet", Throw) \o Finally(body, GiveKeys)

SettleWorker(body) ==
  IdleKey("conet", Requeue \o Again \o Stop)
  \o Finally(Try(withSettleWallet(body) \o Say("done"), Say("refused")), Again)

validatorDepositRedeemCreateProcess == SettleWorker(Tx("main"))
validatorDepositRedeemClaimAirdropProcess == SettleWorker(Tx("main"))
validatorDepositRedeemCancelProcess == SettleWorker(Tx("main"))
validatorDepositRedeemClaimProcess ==
  SettleWorker(IfJob("linked", Tx("linked"), Tx("main")))
validatorDepositRedeemTransferProcess == SettleWorker(Tx("main"))
validatorCreateTransferOrderProcess == SettleWorker(Tx("main"))
validatorCancelTransferOrderProcess == SettleWorker(Tx("main"))
validatorFulfillTransferOrderProcess == SettleWorker(Tx("main"))

------------------------------------------------------------------------------
(* The member reward gateway.  One run at a time; a like is written to the *)
(* database after its transaction, and a failure there is a 500.           *)

ensureCardUserCumulativeStatInitialized ==
  Risk \o Either(Nothing, relayUserCardFactoryCallViaEntryPoint("init") \o Mined("init")
                          \o Unless(Answer("failed") \o Stop))

persistCardProgramSocialDbAfterTx == Either(Nothing, Write("social"))
scheduleSocialBunitFeeAfterGatewaySuccess ==
  Either(Nothing, Spawn(chargeCardProgramSocialBunitFeeInBackground))
syncCardProgramReferrerFromGatewayReceipt == Spawn(Look)

\* One or two calls on the card itself, or one through its factory.
GatewayCalls ==
  Either(
    relayUserCardCallViaEntryPoint("main") \o Mined("main") \o Unless(Say("failed") \o Stop)
    \o Either(Nothing,
              relayUserCardCallViaEntryPoint("main2") \o Mined("main2") \o Unless(Say("failed") \o Stop)),
    Refuse \o relayUserCardFactoryCallViaEntryPoint("main") \o Mined("main")
    \o Unless(Say("failed") \o Stop))

cardGatewayRewardPoolPress ==
  Worker("conet",
    Risk \o Refuse \o Risk \o ensureCardUserCumulativeStatInitialized
    \o Either(Say("ok") \o Stop,                              \* initialisation only
         GatewayCalls \o syncCardProgramReferrerFromGatewayReceipt
         \o persistCardProgramSocialDbAfterTx \o Say("done")
         \o scheduleSocialBunitFeeAfterGatewaySuccess),
    Say("failed"))

------------------------------------------------------------------------------
(* Relays of one signed transaction, checked before they are queued.       *)

RelayWorker(body) == Worker("conet", body \o Say("done"), Say("refused"))

treasuryStableSwapRelayProcess == RelayWorker(Either(Nothing, Tx("permit")) \o Tx("main"))
genesisNodeReferralRedeemRelayProcess == RelayWorker(Tx("main"))
chatIndexPointerRelayProcess == RelayWorker(Tx("main"))

------------------------------------------------------------------------------
(* Storage airdrop: the guarded workers and the timer that feeds the second.*)

gbDepinChargeUserClusterPreCheck == Refuse
gbDepinAirdropAllClusterPreCheck == Refuse

gbDepinChargeUserPoolPress == Worker("conet", Tx("main") \o Say("done"), Say("refused"))

\* A page of recipients whose gas estimate fails is sent with the maximum.
gbDepinAirdropAllPoolPress ==
  Worker("conet", Look \o Tx("main") \o Say("done"),
         Either(Say("already"), Say("refused")))

\* A dear gas price postpones a new round, up to ten minutes; a round that
\* has begun goes on page by page.
resolveGbDepinCronGasGate == Risk \o Unless(Stop)

gbDepinCronTick ==
  resolveGbDepinCronGasGate \o Either(Nothing, Unless(Stop))
  \o Risk \o PushSilent("gbDepinAirdropAll")

startGbDepinAirdropCron == Unless(Stop) \o gbDepinCronTick     \* one tick of it

------------------------------------------------------------------------------
(* The account registry.  Its runs have no finally: every await is inside  *)
(* the try, whose catch logs.                                              *)

BeamioWorker(body, h) == Key("beamio") \o Try(body, h) \o GiveKeys \o Again

\* A profile that is on chain already is not written again; what follows
\* the profile may fail without a trace.
addUserPoolProcess ==
  Key("beamio") \o Look
  \o Either(GiveKeys \o Again \o Stop,
       Try(Either(Nothing, Tx("profile"))
           \o Either(Nothing, Tolerate(Tx("recover")))
           \o Either(Nothing,
                Write("row") \o Either(Nothing, Tolerate(ensureAAForEOAOnConet))
                \o Either(Nothing, Look \o Tolerate(Tx("follow") \o Write("followRow")))),
           Nothing)
       \o GiveKeys \o Again)

addFollowPoolProcess == BeamioWorker(Tx("follow") \o Write("followRow"), Nothing)

\* The answer gives the hash; the receipt is logged by nobody's leave.
regiestChatRouteProcess ==
  BeamioWorker(Send("main") \o Say("sent") \o Spawn(Tolerate(Mined("main"))), Say("failed"))

ipfsAccessProcess == BeamioWorker(Tx("file"), Nothing)
ipfsDataProcess == BeamioWorker(Tx("file"), Nothing)

------------------------------------------------------------------------------
(* The migration of one merchant's card from Base to CoNET.  The Cluster    *)
(* lets only an authorised owner through: the return for any other, which  *)
(* would keep the key, is out of reach.                                    *)

copyLongDhangOldCardMetadataToNewCard == Look \o Write("file") \o Write("row")

createLongDhangConetMigrationCard(bad) ==
  TakeKey("conet", bad)
  \o Finally(Try(Tx("main") \o copyLongDhangOldCardMetadataToNewCard, bad), GiveKeys)

ensureConetAaForEoaWithWallet == Risk \o Either(Nothing, Tx("deploy") \o Risk \o Require)
syncMigrationIndexerRow == Either(Nothing, Tx("book"))
trySyncMigrationIndexerRow == Tolerate(syncMigrationIndexerRow)

\* One member stands for all: points he has already are not minted again,
\* and a member that failed makes the batch a failure.
runLongDhangConetMigrationBatch(bad) ==
  Risk \o TakeKey("conet", bad)
  \o Finally(Risk \o Require
             \o Either(Nothing,
                  Try(ensureConetAaForEoaWithWallet \o Risk
                      \o Either(Nothing, Tx("points")) \o trySyncMigrationIndexerRow,
                      bad)),
             GiveKeys)

executeLongDhangConetMigrationAuto(bad) ==
  Try(Risk \o Either(Nothing, createLongDhangConetMigrationCard(Throw)) \o Risk \o Require
      \o runLongDhangConetMigrationBatch(Throw) \o Risk \o Require,
      bad)

------------------------------------------------------------------------------
(* Routes of db.ts, which Master mounts directly.                          *)

reconcileLocalDbBeforeAddUser == Tolerate(Risk \o Either(Nothing, Write("stale")))
isBeamioAccountNameAvailable == Risk

registerBeamioTagForAddress ==
  Require \o PollKey("beamio")
  \o Finally(Risk \o Require \o Look \o Tx("tag") \o Write("row"), GiveKeys)

addUser == Guarded(Risk \o reconcileLocalDbBeforeAddUser \o PushSilent("addUser") \o Answer("accepted"))
addFollow == PushSilent("addFollow") \o Answer("accepted")
removeFollow == PushSilent("addFollow") \o Answer("accepted")
regiestChatRoute == Refuse \o Fail \o Push("regiestChatRoute")

\* A card met for the first time, or with an old name, gets a profile.
maybeEnqueueNfcCashTreeBeamioTag ==
  Spawn(Tolerate(Risk \o Unless(Stop) \o Risk \o PushSilent("addUser")))
maybeEnqueueNfcBeamioTag == maybeEnqueueNfcCashTreeBeamioTag
maybeClearLegacyNfcBeamioProfileNames == maybeEnqueueNfcCashTreeBeamioTag

================================================================================
