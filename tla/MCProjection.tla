---------------------------- MODULE MCProjection ----------------------------
(* ProjectionCheck with two sources of different trust, three spellings of   *)
(* two values, and ids in every order.                                       *)
EXTENDS ProjectionCheck, TLC

MCSources == {"obsidian", "google"}
MCTrust == ("obsidian" :> 80) @@ ("google" :> 60)
MCValues == {"Berlin", "berlin ", "Munich"}
MCCanon == ("Berlin" :> "Berlin") @@ ("berlin " :> "Berlin") @@ ("Munich" :> "Munich")
=============================================================================
