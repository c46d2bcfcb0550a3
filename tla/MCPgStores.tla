---------------------------- MODULE MCPgStores ------------------------------
(* Two requests beside each other on one wallet, one chain and one session. *)
EXTENDS PgStores

CONSTANTS Ann, Chain, Slot, c1, c2

MCAccounts == {Ann}
MCChains == {Chain}
MCSessions == {Slot}
MCCallers == {c1, c2}
MCNets == {-2, 1}
=============================================================================
