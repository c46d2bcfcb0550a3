--------------------------- MODULE WalletProviders --------------------------
(***************************************************************************)
(* Which wallet provider a tenant's money moves through: the tenants'      *)
(* wallet configurations (server/state/tenant-wallet-config.ts) and the    *)
(* provider instances WalletOrchestrator keeps per tenant                  *)
(* (server/lib/wallet/orchestrator.ts).  Of a configuration only the       *)
(* signing secret (apiSecret) and the active flag are kept, of an instance *)
(* the secret it was built with.                                           *)
(***************************************************************************)
EXTENDS Naturals, FiniteSets

CONSTANTS
  Tenants,
  MaxSecret,     \* bound: how often a provider's secret is rotated
  NoConfig, NoInstance

Secrets == 0 .. MaxSecret

ASSUME ProvidersAssumption ==
  /\ MaxSecret \in Nat
  /\ NoInstance \notin Nat
  /\ NoConfig \notin [secret: Secrets, active: BOOLEAN]

VARIABLES
  config,          \* config[t]: the row of TenantWalletConfigStore
  instance,        \* instance[t]: the cached WalletProvider's secret
  providerSecret   \* providerSecret[t]: what the provider itself checks against

providerVars == <<config, instance, providerSecret>>

ProvidersInit ==
  /\ config \in [Tenants -> {NoConfig, [secret |-> 0, active |-> TRUE]}]
  /\ instance = [t \in Tenants |-> NoInstance]
  /\ providerSecret = [t \in Tenants |-> 0]

\* A save writes the row and nothing else: it always makes the tenant active.
SetTenantWalletConfig(t, secret) ==
  /\ config' = [config EXCEPT ![t] = [secret |-> secret, active |-> TRUE]]
  /\ UNCHANGED <<instance, providerSecret>>

Deactivate(t) ==
  /\ config[t] # NoConfig
  /\ config' = [config EXCEPT ![t] = [config[t] EXCEPT !.active = FALSE]]
  /\ UNCHANGED <<instance, providerSecret>>

\* invalidate(tenantId); no code outside the tests calls it.
Invalidate(t) ==
  /\ instance' = [instance EXCEPT ![t] = NoInstance]
  /\ UNCHANGED <<config, providerSecret>>

\* The provider replaces the tenant's secret.
RotateSecret(t) ==
  /\ providerSecret[t] < MaxSecret
  /\ providerSecret' = [providerSecret EXCEPT ![t] = @ + 1]
  /\ UNCHANGED <<config, instance>>

OperatorStep(t) ==
  \/ SetTenantWalletConfig(t, providerSecret[t])
  \/ Deactivate(t)
  \/ Invalidate(t)
  \/ RotateSecret(t)

-----------------------------------------------------------------------------
(* resolveProvider: the cached instance is returned before the configuration *)
(* is looked at.                                                             *)

\* The code of the error resolveProvider throws, or "none".
ResolveError(t) ==
  IF instance[t] # NoInstance THEN "none"
  ELSE IF config[t] = NoConfig THEN "auth_failed"
  ELSE IF ~config[t].active THEN "provider_unavailable"
  ELSE "none"

Resolvable(t) == ResolveError(t) = "none"

\* The secret that signs the requests of the provider resolved now.
Signer(t) == IF instance[t] # NoInstance THEN instance[t] ELSE config[t].secret

ResolveProvider(t) ==
  /\ Resolvable(t)
  /\ instance' = [instance EXCEPT ![t] = Signer(t)]
  /\ UNCHANGED <<config, providerSecret>>

ProvidersTypeOK ==
  /\ config \in [Tenants -> [secret: Secrets, active: BOOLEAN] \cup {NoConfig}]
  /\ instance \in [Tenants -> Secrets \cup {NoInstance}]
  /\ providerSecret \in [Tenants -> Secrets]

=============================================================================
