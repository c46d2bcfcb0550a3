-------------------------- MODULE MCWalletSpinFlow --------------------------
(* Spins of one tenant; they share its configuration and provider instance. *)
EXTENDS WalletSpinFlow

CONSTANTS Acme

MCTenants == {Acme}
MCTenantOf == [s \in Spins |-> Acme]
FirstCalledTwice == [s \in Spins |-> IF s = "s1" THEN 2 ELSE 1]
=============================================================================
