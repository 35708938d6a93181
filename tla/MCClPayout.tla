------------------------------ MODULE MCClPayout ------------------------------
(* Three blocks: two events in the first, one in the third; the second event *)
(* is one the contract reverts on.  Chunks of two blocks, one chunk a tick.  *)
EXTENDS ClPayout, TLC

MCBlockOf == 1 :> 1 @@ 2 :> 1 @@ 3 :> 3
=============================================================================
