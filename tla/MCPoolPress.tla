----------------------------- MODULE MCPoolPress -----------------------------
(* Mixes of requests for PoolPress: plain CoNET requests beside redeems; a    *)
(* request that takes both chains, with one for CoNET behind it in the same  *)
(* queue, beside a CoNET and a Base request; a redeem beside requests that    *)
(* take both chains and Base, of which it can only disturb the last.          *)
EXTENDS PoolPress, TLC

CONSTANTS k1, k2, j1, j2, j3, j4

MCRoster == <<k1, k2>>

Redeems ==
  [worker |-> j1 :> "registerPOS" @@ j2 :> "registerPOS" @@
              j3 :> "cardRedeem" @@ j4 :> "cardRedeem",
   kind |-> j1 :> "conet" @@ j2 :> "conet" @@ j3 :> "redeem" @@ j4 :> "redeem"]
BothChains ==
  [worker |-> j1 :> "AAtoEOA" @@ j2 :> "AAtoEOA" @@
              j3 :> "registerPOS" @@ j4 :> "purchaseBUnit",
   kind |-> j1 :> "both" @@ j2 :> "relay" @@ j3 :> "conet" @@ j4 :> "base"]
RedeemOnBase ==
  [worker |-> j1 :> "cardRedeem" @@ j2 :> "AAtoEOA" @@
              j3 :> "purchaseBUnit" @@ j4 :> "cardRedeem",
   kind |-> j1 :> "redeem" @@ j2 :> "both" @@ j3 :> "base" @@ j4 :> "redeem"]
MCMixes == {Redeems, BothChains, RedeemOnBase}
=============================================================================
