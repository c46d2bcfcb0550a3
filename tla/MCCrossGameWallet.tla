------------------------- MODULE MCCrossGameWallet --------------------------
(* Two games and two tiers; the second game has no weights. *)
EXTENDS CrossGameWallet, TLC

CONSTANTS Mini, Grand, Lines, Cluster

MCTiers == {Mini, Grand}
MCGames == {Lines, Cluster}
MCSeed == (Mini :> 0 @@ Grand :> 2)
MCWeights == (Lines :> (Mini :> 25 @@ Grand :> 75) @@ Cluster :> NoWeights)
=============================================================================
