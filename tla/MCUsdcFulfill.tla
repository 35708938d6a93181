---------------------------- MODULE MCUsdcFulfill ----------------------------
(* A payment of every kind and three requests: three for one treasury        *)
(* bridge, two for one seat or one deposit beside one of another kind, one   *)
(* for each kind.                                                            *)
EXTENDS UsdcFulfill, TLC

CONSTANTS r1, r2, r3, seat, wallet, bridge, fuel

MCKind == seat :> "seat" @@ wallet :> "wallet" @@ bridge :> "bridge" @@ fuel :> "fuel"

Mix(p, q, s) == r1 :> p @@ r2 :> q @@ r3 :> s

MCMixes == {Mix(bridge, bridge, bridge), Mix(seat, seat, wallet),
            Mix(wallet, wallet, seat), Mix(seat, bridge, fuel)}
=============================================================================
