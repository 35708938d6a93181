---------------------------- MODULE MCOnchainLane ----------------------------
(* A listener daemon with one claim, one fee-recipient update and a payout   *)
(* flush of two batches; and a lab payout on its own lane.                   *)
EXTENDS OnchainLane, TLC

CONSTANTS claim, fee, batch1, batch2, lab

MCWork == claim :> "claim" @@ fee :> "feerecipient" @@ batch1 :> "skim" @@
          batch2 :> "skim" @@ lab :> "labskim"
MCAfter == claim :> NoTask @@ fee :> NoTask @@ batch1 :> NoTask @@
           batch2 :> batch1 @@ lab :> NoTask

\* validatorDepositRedeemListenerDaemon.ts:37-38.
ListenerWaits == <<"node", "cl-payout">>
=============================================================================
