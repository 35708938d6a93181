------------------------------ MODULE ClaimScripts ------------------------------
(***************************************************************************)
(* Redeem codes, coupons, terminals, calls the owner of a card signed,     *)
(* gifts, and the referral registry.                                       *)
(***************************************************************************)
EXTENDS NfcScripts

------------------------------------------------------------------------------
(* Checks of the Cluster before it passes a request on: reads of the chain *)
(* and the database, 4xx for anything wrong.                               *)

cardAddAdminByAdminPreCheck == Refuse
cardAddAdminPreCheck == Refuse
validatePosWalletCouponOpenClaim == Refuse
cardCouponPosClaimPreCheck == Risk \o Refuse
cardCouponPosClaimPreparePreCheck == Risk \o Refuse
cardCouponPosClaimSubmitPreCheck == Refuse
cardCouponPosConsumePreparePreCheck == Risk \o Refuse
cardCouponPosConsumeNfcSignPreCheck == Risk \o Refuse
cardCouponPosConsumeSubmitPreCheck == Refuse
cardCouponOpenClaimPreCheck == Refuse
cardMintIssuedNftToAddressPreCheck == Refuse
cardCreateIssuedNftPreCheck == Refuse
cardClearAdminMintCounterPreCheck == Refuse
cardTerminalSettlementClearPreCheck == Refuse
cardCreateRedeemAdminPreCheck == Refuse
cardRedeemAdminPreCheck == Refuse
cardCreateRedeemPreCheck == Refuse
cardRedeemPreCheckBUnitBalance == Refuse
cardRedeemPreCheck == Refuse
purchasingCardPreCheck == Refuse
usdcTopupPreCheck == Refuse
cardOpenTransferPreCheck == Refuse

------------------------------------------------------------------------------
(* Terminals.                                                              *)

\* Terminals are bound to a card in the database once the call is mined.
syncPosTerminalAdminBindingAfterTx ==
  Tolerate(Mined("main") \o Either(Nothing, Write("terminal")))

\* Signed with the wallet of the first key, which nobody has taken.
cardTerminalSettlementClearProcess ==
  Require \o Either(Nothing, Risk \o Require) \o Borrow("conet") \o Tx("main")

cardClearAdminMintCounterProcess ==
  Require \o Either(Nothing, Risk \o Require) \o Borrow("conet")
  \o Risk \o relayUserCardFactoryCallViaEntryPoint("main") \o Mined("main") \o Tx("stats")

cardRedeemAdminProcess ==
  Worker("conet",
    Risk \o Either(Nothing, DeployingSmartAccount) \o Risk
    \o relayUserCardFactoryCallViaEntryPoint("main") \o Mined("main")
    \o Spawn(Tolerate(Write("terminal"))) \o Say("done"),
    Say("refused"))

------------------------------------------------------------------------------
(* Calls the owner of a card signed.                                       *)

\* A fee taken in the background with a key of its own.
chargeCardProgramSocialBunitFeeInBackground ==
  Tolerate(PollKey("conet")
           \o Finally(Risk \o Require \o Tx("fee") \o syncStandaloneBunitServiceFeeToIndexer, GiveKeys))

consumeCreateIssuedNftBunitFeeInBackground ==
  Try(PollKey("conet") \o Finally(Risk \o Require \o Tx("fee"), GiveKeys), Stop)

\* Mutant: nothing catches what the background block throws.
issuedNftBackground_Uncaught ==
  Mined("main") \o consumeCreateIssuedNftBunitFeeInBackground
  \o Tolerate(Risk \o Borrow("conet") \o runPurchasingCardAccountingJob("feeBook"))
  \o Risk \o Write("tier") \o Look \o Write("series")

\* The books of the fee are written with the first key, held or not.
issuedNftBackground ==
  Tolerate(Mined("main") \o consumeCreateIssuedNftBunitFeeInBackground
           \o Tolerate(Risk \o Borrow("conet") \o runPurchasingCardAccountingJob("feeBook"))
           \o Risk \o Write("tier") \o Look \o Write("series"))

executeForOwnerCalls ==
  Risk \o relayUserCardFactoryCallViaEntryPoint("main")
  \o Either(Nothing, Mined("main")) \o Spawn(syncPosTerminalAdminBindingAfterTx)
  \o Either(Nothing, relayUserCardFactoryCallViaEntryPoint("redeem") \o Mined("redeem"))

\* After the call is mined the metadata may still fail, with a 4xx.
executeForOwnerAnswer ==
  Either(Say("sent"),                                  \* answered before the receipt
    Mined("main")
    \o Either(Nothing, Either(Require, Risk \o Write("file") \o Write("row")))
    \o Say("done"))

executeForOwnerProcess ==
  Worker("conet",
    executeForOwnerCalls \o executeForOwnerAnswer
    \o Either(Nothing, Spawn(issuedNftBackground)),
    IfError("nonce", Requeue, Say("refused")))

syncNftTierMetadataForUser == Tolerate(Risk \o Either(Nothing, Write("tier")))

------------------------------------------------------------------------------
(* Redeem codes and coupons.                                               *)

\* A code is tried as a one-time code and then as one of a pool.
cardRedeemPoolPress ==
  Worker("conet",
    DeployingSmartAccount \o Unless(Say("refused") \o Stop) \o Risk
    \o Look \o Look
    \o Try(relayUserCardFactoryCallViaEntryPoint("main") \o Mined("main"),
           Either(Throw, relayUserCardFactoryCallViaEntryPoint("main") \o Mined("main")))
    \o PushSilent("cardRedeemIndexerAccounting")
    \o Spawn(syncNftTierMetadataForUser) \o Say("done"),
    Say("refused"))

\* A funded key: none idle puts the job back; none funded ends it.
shiftSettleContractForConetRelay == TakeKey("conet", Requeue \o Stop) \o Risk \o Require

CouponWorker(body) ==
  Finally(Try(shiftSettleContractForConetRelay \o body,
              IfError("nonce", Requeue \o Stop, Say("refused"))),
          GiveKeys \o Again)

cardCouponOpenClaimProcess ==
  CouponWorker(
    ensureAAWithHeldKey \o Risk \o Require
    \o Either(relayUserCardCallViaEntryPoint("main"), relayUserCardFactoryCallViaEntryPoint("main"))
    \o Mined("main") \o PushSilent("cardRedeemIndexerAccounting")
    \o Spawn(Look) \o Say("done"))

cardCouponPosClaimWalletProcess ==
  CouponWorker(
    ensureAAWithHeldKey \o Risk \o relayUserCardFactoryCallViaEntryPoint("main") \o Mined("main")
    \o Say("done") \o PushSilent("cardRedeemIndexerAccounting"))

------------------------------------------------------------------------------
(* Gifts.                                                                  *)

\* Mutant: a gift that is refused is given up without an answer.
cardOpenTransferPoolPress_Silent ==
  Worker("base",
    Unless(Stop) \o Tx("main") \o Say("done"),
    Say("refused"))

cardOpenTransferPoolPress ==
  Worker("base",
    Unless(Say("refused") \o Stop) \o Tx("main") \o Say("done"),
    Say("refused"))

------------------------------------------------------------------------------
(* The referral registry.  Claims are copied to the database before the    *)
(* answer: a failure there is answered 4xx although the claim is on chain.  *)

enqueueLinkedValidatorDepositRedeemClaim == PushAs("validatorDepositRedeemClaim", "linked")

referralRegistryRedeemRelayProcess ==
  Worker("conet",
    Tx("main")
    \o Either(Nothing, Write("claim") \o Write("member"))
    \o Either(Nothing, enqueueLinkedValidatorDepositRedeemClaim) \o Say("done"),
    Say("refused"))

referralRegistryAdminManagementProcess ==
  Worker("conet",
    Tx("main") \o Either(Nothing, Risk \o Write("member")) \o Say("done"),
    Say("refused"))

referralPurchaseSplitProcess == Worker("conet", Tx("main") \o Say("done"), Say("refused"))
referralRegistryMerchantShareProcess ==
  Worker("conet", Tx("main") \o Say("done"), Say("refused"))

================================================================================
