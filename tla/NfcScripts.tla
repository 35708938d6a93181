------------------------------- MODULE NfcScripts -------------------------------
(***************************************************************************)
(* NFC cards: linking a card to the app (the lock of a session, its        *)
(* cancellation, the migration of the card's assets) and payments with a   *)
(* card.  "main" is the move of the assets, "key" the replacement of the   *)
(* card's private key in the database.                                     *)
(***************************************************************************)
EXTENDS CardScripts

------------------------------------------------------------------------------
(* What a card holds.  A read that fails counts as nothing held, except    *)
(* those of the balances of the account itself.                            *)

collectNfcLinkMigrationCardAddresses == Look
resolveDeployedBeamioAaForNfcEoa == Risk
collectErc1155BalancesForHolder == Look

nfcLinkAppSessionHasMigratableAssets ==
  collectNfcLinkMigrationCardAddresses \o resolveDeployedBeamioAaForNfcEoa
  \o collectErc1155BalancesForHolder

buildNfcLinkAppContainerMigrationItems ==
  Risk \o collectNfcLinkMigrationCardAddresses \o collectErc1155BalancesForHolder

sweepNfcEoaErc20ToBeneficiaryAa == Require \o Risk \o Either(Nothing, Tx("sweep20"))

sweepNfcEoaErc1155ToBeneficiaryAa ==
  Require \o collectNfcLinkMigrationCardAddresses \o collectErc1155BalancesForHolder
  \o Either(Nothing, Tx("sweep1155"))

buildNfcLinkAppRedeemBundleFromChain == Risk

------------------------------------------------------------------------------
(* A session: one lock of a tag.  The check and the registration are two   *)
(* steps with awaits between them.                                         *)

nfcLinkAppValidateParams == Risk \o Require

nfcLinkAppExecute ==
  Refuse \o Try(Risk, Answer("refused") \o Stop) \o Refuse \o Risk
  \o nfcLinkAppNewLinkBlockedDetail(Answer("refused") \o Stop)
  \o Try(Write("wallet") \o ensureAAForEOA, Answer("failed") \o Stop)
  \o TakeKey("conet", Answer("failed") \o Stop)
  \o Finally(
       Try(Risk \o nfcLinkAppSessionHasMigratableAssets
           \o Try(registerNfcLinkAppLock, Answer("failed") \o Stop)
           \o Answer("done"),
           Say("failed")),
       GiveKeys)

\* Without a redeem on chain the lock is dropped; with one, it is cancelled
\* first, with the owner's key.  bad is what the caller does on an error.
nfcLinkAppUnlockActiveSessionRowCore(bad) ==
  Either(Write("unlock"),
    Try(Risk, bad)
    \o Either(Write("unlock"),
         Unless(bad) \o Try(Risk, bad) \o Unless(bad)
         \o TakeKey("base", bad)
         \o Finally(
              Try(Risk \o relayUserCardFactoryCallViaEntryPoint("cancel")
                  \o Mined("cancel") \o Write("unlock"),
                  bad),
              GiveKeys)))

\* One after the other; an error ends this sweep, and the next comes later.
nfcLinkAppAutoCancelDueSessionsSweepOnce ==
  Risk \o Either(Nothing, nfcLinkAppUnlockActiveSessionRowCore(Stop))

startNfcLinkAppAutoCancelSweeper ==
  Finally(Try(nfcLinkAppAutoCancelDueSessionsSweepOnce, Nothing), Again)

nfcLinkAppCancelExecute ==
  Refuse \o Try(Risk, Answer("refused") \o Stop) \o Refuse \o Risk \o Refuse
  \o nfcLinkAppUnlockActiveSessionRowCore(Either(Answer("refused"), Answer("failed")) \o Stop)
  \o Answer("done")

------------------------------------------------------------------------------
(* The claim of a session by the app: the assets move, then the database   *)
(* forgets the card's key, then the session is released.                   *)

performInfraCardRedeemForUserEoaOnce ==
  TakeKey("conet", Throw)
  \o Finally(
       DeployingSmartAccount \o Require \o Risk \o Look \o Look
       \o Try(relayUserCardFactoryCallViaEntryPoint("main") \o Mined("main"),
              Either(Throw, relayUserCardFactoryCallViaEntryPoint("main") \o Mined("main")))
       \o PushSilent("cardRedeemIndexerAccounting") \o Spawn(Look),
       GiveKeys)

precheckNfcLinkAppMigrationBUnitFee == Tolerate(pickBUnitFeeConsumerPreferEoaThenAa)
nfcLinkAppMigrationBUnitClusterPreCheck == Refuse

consumeNfcLinkMigrationBUnitFeeNonFatal == Tolerate(Send("fee"))

\* The fee is taken whether the account had anything to move or not, as
\* long as something was moved.
performNfcLinkAppMigrateAllAssetsViaContainer ==
  Risk \o Require \o TakeKey("both", Throw)
  \o Finally(
       Require \o Risk \o DeployingSmartAccount \o Require
       \o sweepNfcEoaErc20ToBeneficiaryAa \o sweepNfcEoaErc1155ToBeneficiaryAa
       \o Either(Nothing,                                     \* no account, or nothing in it
                 buildNfcLinkAppContainerMigrationItems \o Risk \o Require \o Tx("main"))
       \o Either(Nothing, consumeNfcLinkMigrationBUnitFeeNonFatal \o Spawn(Look)),
       GiveKeys)

nfcLinkAppClaimExecute ==
  Refuse \o Risk \o Refuse \o Try(nfcLinkAppValidateParams, Answer("refused") \o Stop)
  \o Either(Nothing,
            Try(Either(performNfcLinkAppMigrateAllAssetsViaContainer,
                       performInfraCardRedeemForUserEoaOnce),
                Answer("refused") \o Stop))
  \o Try(Write("key"), Answer("failed") \o Stop)
  \o Tolerate(Write("unlock")) \o Answer("done")

------------------------------------------------------------------------------
(* Payments with a card or with an account.                                *)

nfcLinkAppPaymentBlockedForMintCalldata(s) ==
  nfcLinkAppPaymentBlockedIfAny(s)
  \o Tolerate(Risk \o nfcLinkAppPaymentBlockedIfAny(s))

refused == Answer("refused") \o Stop

\* An account for the payee is created with the wallet of the first key.
payByNfcUidOpenContainer ==
  Refuse \o Risk
  \o Try(Risk \o Refuse \o nfcLinkAppPaymentBlockedIfAny(refused) \o Risk \o Refuse
         \o Either(Nothing, Borrow("base") \o DeployingSmartAccount)
         \o Risk \o Refuse,
         refused)
  \o Push("ContainerRelay") \o Stop

payByAccountPrepare ==
  Refuse \o Try(Risk \o Either(Nothing, Tolerate(Borrow("base") \o DeployingSmartAccount)) \o Risk,
                refused)

payByNfcUidPrepare ==
  Refuse \o Try(Risk, refused)
  \o Try(Risk \o Refuse \o nfcLinkAppPaymentBlockedIfAny(refused)
         \o Either(Nothing, Tolerate(Borrow("base") \o DeployingSmartAccount)) \o Risk,
         refused)

payByNfcUidSignContainer ==
  Refuse \o Try(Risk, refused) \o Risk \o Refuse
  \o nfcLinkAppPaymentBlockedIfAny(refused) \o Try(Risk, refused) \o Refuse
  \o Push("ContainerRelay") \o Stop

================================================================================
