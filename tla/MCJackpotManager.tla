-------------------------- MODULE MCJackpotManager --------------------------
(* Two tiers, the first with a must-hit-by cap, the second without. *)
EXTENDS JackpotManager, TLC

CONSTANTS Mini, Grand

MCTiers == {Mini, Grand}
MCSeed == (Mini :> 1 @@ Grand :> 2)
MCInitialPool == (Mini :> 2 @@ Grand :> 1)
MCRate == (Mini :> 2 @@ Grand :> 1)
MCCap == (Mini :> 3 @@ Grand :> NoCap)
=============================================================================
