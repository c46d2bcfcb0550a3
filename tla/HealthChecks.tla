---------------------------- MODULE HealthChecks -----------------------------
(***************************************************************************)
(* runHealthChecks of server/lib/wallet/orchestrator.ts, behind POST       *)
(* /api/wallet/healthcheck, over the configurations of tenant-wallet-      *)
(* config.ts, the orchestrator's provider instances and its in-memory      *)
(* health cache.  A sweep walks the configurations it listed and awaits    *)
(* the cache and the provider at each; sweeps run beside one another and   *)
(* beside the host's changes.                                              *)
(*                                                                         *)
(* Abstractions.  A configuration is its version.  Latencies and time are  *)
(* left out: a cached answer may expire at any moment, as its 30 s allow.  *)
(* A probe of a provider that is up may still fail; healthcheck() catches, *)
(* so it never throws.                                                     *)
(***************************************************************************)
EXTENDS Integers, Sequences

CONSTANTS
  Tenants,
  Listing,      \* the configured tenants in the order they were first saved
  Sweepers,     \* requests under way
  MaxVersion,   \* bound: versions of a configuration
  MaxChanges,   \* bound: changes by the host, and outages and recoveries
  Absent

ASSUME HealthAssumption ==
  /\ Listing \in Seq(Tenants)
  /\ \A t \in Tenants : \E i \in 1 .. Len(Listing) : Listing[i] = t
  /\ MaxVersion \in Nat \ {0}
  /\ MaxChanges \in Nat
  /\ Absent \notin Nat \cup BOOLEAN \cup Tenants

Versions == 1 .. MaxVersion

VARIABLES
  config,    \* config[t]: version, active, healthStatus
  instance,  \* instance[t]: the version the cached provider was built from, or None
  cache,     \* cache[t]: the cached answer, or None
  reachable, \* reachable[t][v]: the provider configured by v answers
  changes,   \* so far (only bounds the model)
  sweep      \* sweep[c]: where the request is

healthVars == <<config, instance, cache, reachable, changes, sweep>>

IdleSweep == [pc |-> "idle", todo |-> <<>>, version |-> Absent, ok |-> Absent]

HealthInit ==
  /\ config = [t \in Tenants |-> [version |-> 1, active |-> TRUE, health |-> "unknown"]]
  /\ instance = [t \in Tenants |-> Absent]
  /\ cache = [t \in Tenants |-> Absent]
  /\ reachable = [t \in Tenants |-> [v \in Versions |-> TRUE]]
  /\ changes = 0
  /\ sweep = [c \in Sweepers |-> IdleSweep]

-----------------------------------------------------------------------------

Changed ==
  /\ changes < MaxChanges
  /\ changes' = changes + 1

\* setTenantWalletConfig; nothing drops the instance built from the version before.
SaveConfig(t) ==
  /\ config[t].version < MaxVersion
  /\ Changed
  /\ config' = [config EXCEPT ![t] =
       [version |-> config[t].version + 1, active |-> TRUE, health |-> "unknown"]]
  /\ UNCHANGED <<instance, cache, reachable, sweep>>

Deactivate(t) ==
  /\ config[t].active
  /\ Changed
  /\ config' = [config EXCEPT ![t].active = FALSE]
  /\ UNCHANGED <<instance, cache, reachable, sweep>>

Invalidate(t) ==
  /\ instance[t] # Absent
  /\ Changed
  /\ instance' = [instance EXCEPT ![t] = Absent]
  /\ UNCHANGED <<config, cache, reachable, sweep>>

ProviderTurns(t, v) ==
  /\ Changed
  /\ reachable' = [reachable EXCEPT ![t][v] = ~reachable[t][v]]
  /\ UNCHANGED <<config, instance, cache, sweep>>

\* A slip: the answer is cached for good.
NeverExpire(t) ==
  /\ FALSE
  /\ UNCHANGED healthVars

\* HEALTH_TTL_MS
ExpireCached(t) ==
  /\ cache[t] # Absent
  /\ cache' = [cache EXCEPT ![t] = Absent]
  /\ UNCHANGED <<config, instance, reachable, changes, sweep>>

-----------------------------------------------------------------------------

\* listConfigs
Start(c) ==
  /\ sweep[c].pc = "idle"
  /\ sweep' = [sweep EXCEPT ![c] = [IdleSweep EXCEPT !.pc = "next", !.todo = Listing]]
  /\ UNCHANGED <<config, instance, cache, reachable, changes>>

Current(c) == Head(sweep[c].todo)

Advance(c) == [IdleSweep EXCEPT !.pc = "next", !.todo = Tail(sweep[c].todo)]

\* healthCache.get
Lookup(c) ==
  /\ sweep[c].pc = "next"
  /\ sweep[c].todo # <<>>
  /\ sweep' = [sweep EXCEPT ![c] = IF cache[Current(c)] # Absent THEN Advance(c)
                                   ELSE [@ EXCEPT !.pc = "missed"]]
  /\ UNCHANGED <<config, instance, cache, reachable, changes>>

SweepEnds(c) == sweep' = [sweep EXCEPT ![c] = IdleSweep]

\* resolveProvider: the instance there is, or one built from the configuration.
\* An inactive configuration throws, and the whole sweep with it.
Resolve(c) ==
  LET t == Current(c)
      version == IF instance[t] # Absent THEN instance[t] ELSE config[t].version
  IN  /\ sweep[c].pc = "missed"
      /\ IF instance[t] # Absent \/ config[t].active
         THEN /\ instance' = [instance EXCEPT ![t] = version]
              /\ sweep' = [sweep EXCEPT ![c].pc = "probing", ![c].version = version]
         ELSE /\ SweepEnds(c)
              /\ UNCHANGED instance
      /\ UNCHANGED <<config, cache, reachable, changes>>

\* The provider answers, or does not; the answer is on its way.
ProviderAnswers(c, ok) ==
  /\ sweep[c].pc = "probing"
  /\ ok => reachable[Current(c)][sweep[c].version]
  /\ sweep' = [sweep EXCEPT ![c].pc = "answered", ![c].ok = ok]
  /\ UNCHANGED <<config, instance, cache, reachable, changes>>

StatusOf(ok) == IF ok THEN "healthy" ELSE "down"

\* A slip: only a provider found well is recorded; a failure is just cached.
RecordHealthy(c) ==
  LET t == Current(c)
  IN  /\ sweep[c].pc = "answered"
      /\ config' = IF sweep[c].ok THEN [config EXCEPT ![t].health = "healthy"] ELSE config
      /\ cache' = [cache EXCEPT ![t] = sweep[c].ok]
      /\ sweep' = [sweep EXCEPT ![c] = Advance(c)]
      /\ UNCHANGED <<instance, reachable, changes>>

\* updateHealth and healthCache.set, whose in-memory part does not wait.
Record(c) ==
  LET t == Current(c)
  IN  /\ sweep[c].pc = "answered"
      /\ config' = [config EXCEPT ![t].health = StatusOf(sweep[c].ok)]
      /\ cache' = [cache EXCEPT ![t] = sweep[c].ok]
      /\ sweep' = [sweep EXCEPT ![c] = Advance(c)]
      /\ UNCHANGED <<instance, reachable, changes>>

Finish(c) ==
  /\ sweep[c].pc = "next"
  /\ sweep[c].todo = <<>>
  /\ SweepEnds(c)
  /\ UNCHANGED <<config, instance, cache, reachable, changes>>

SweepStep(c) ==
  \/ Lookup(c) \/ Resolve(c) \/ Record(c) \/ Finish(c)
  \/ \E ok \in BOOLEAN : ProviderAnswers(c, ok)

Host(t) == SaveConfig(t) \/ Deactivate(t) \/ Invalidate(t)

HealthNext ==
  \/ \E t \in Tenants : Host(t) \/ ExpireCached(t) \/ \E v \in Versions : ProviderTurns(t, v)
  \/ \E c \in Sweepers : Start(c) \/ SweepStep(c)

HealthSpec == HealthInit /\ [][HealthNext]_healthVars

\* A sweep that was started goes on, a provider's answer included (a call has a
\* deadline), and a cached answer expires.  Somebody keeps asking: an operator's
\* monitor, not this code.
MonitoredSpec ==
  /\ HealthSpec
  /\ \A c \in Sweepers : WF_healthVars(Start(c)) /\ WF_healthVars(SweepStep(c))
  /\ \A t \in Tenants : WF_healthVars(ExpireCached(t))

-----------------------------------------------------------------------------

\* Of two sweeps that probed the same provider the later to record wins, in the
\* cache and in the configuration alike: what the endpoint answers from the
\* cache and what the configuration shows never contradict each other.
RecordMatchesCache ==
  \A t \in Tenants :
    cache[t] # Absent /\ config[t].health # "unknown" => config[t].health = StatusOf(cache[t])

Asked(t) == IF instance[t] # Absent THEN instance[t] ELSE config[t].version

Resolvable(t) == instance[t] # Absent \/ config[t].active

\* When checks keep being asked for and no tenant that is asked for is inactive,
\* a provider that stays down is shown down in the end, and stays so, whatever
\* answers were under way or cached when it went down.
DownIsNoticed ==
  \A t \in Tenants :
    (<>[](~reachable[t][Asked(t)]) /\ \A u \in Tenants : <>[]Resolvable(u))
      => <>[](config[t].health = "down")

=============================================================================
