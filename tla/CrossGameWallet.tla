-------------------------- MODULE CrossGameWallet ---------------------------
(***************************************************************************)
(* The linked progressive of src/wallet/crossGameWallet.ts: games          *)
(* contribute to shared tiers and hit them, each in two phases, and a host *)
(* can rebuild the wallet from a snapshot it kept.  All methods are        *)
(* synchronous: a call is one action, and one that throws or returns null  *)
(* changes nothing but the event buffer, which is left out.                *)
(*                                                                         *)
(* Abstractions.  A contribution is the amount left after rate, exchange   *)
(* rate and rounding; beginContribute returns null when that is 0.         *)
(* Weights are percentages.  The host keeps its latest snapshot only, and  *)
(* a restart forgets everything else.                                      *)
(***************************************************************************)
EXTENDS Naturals, FiniteSets, Sums

CONSTANTS
  Games,        \* the games registered with the pool
  Eligible,     \* those whose contributions are accepted
  Tiers,
  FirstTier,    \* the first tier of the configuration
  Seed,         \* Seed[t]: seedMinor
  Weights,      \* Weights[g]: tierWeights, or NoWeights
  NoWeights,
  Overrides,    \* the tiers a caller may name in beginContribute
  Amounts,      \* the contributions a bet may round to
  MaxSequence,  \* bound: state transitions
  NoOp

ASSUME WalletAssumption ==
  /\ IsFiniteSet(Games)
  /\ IsFiniteSet(Tiers)
  /\ Eligible \subseteq Games
  /\ FirstTier \in Tiers
  /\ Seed \in [Tiers -> Nat]
  /\ NoWeights \notin [Tiers -> 0 .. 100]
  /\ Weights \in [Games -> [Tiers -> 0 .. 100] \cup {NoWeights}]
  /\ Overrides \subseteq Tiers
  /\ Amounts \subseteq Nat
  /\ MaxSequence \in Nat
  /\ NoOp \notin [game: Games, tier: Tiers, amount: Nat,
                  status: {"pending", "committed", "rolled_back"}]

Op == [game: Games, tier: Tiers, amount: Nat,
       status: {"pending", "committed", "rolled_back"}]

\* pendingId: the kind and the sequence number of the begin.
Ids == {"contrib", "hit"} \X (1 .. MaxSequence)

VARIABLES
  pool,          \* pool[t]: poolMinor
  contributed,   \* contributed[g]: contributionsTotalByGame
  payouts,       \* payouts[t]: payoutsTotalByTier
  hits,          \* hits[t]: hitsByTier
  sequence,
  pending,       \* pending[id]: the operation begun under id, or NoOp
  saved,         \* the snapshot the host kept
  issued         \* the highest sequence number in an id given to a caller

totals == <<pool, contributed, payouts, hits>>
vars == <<pool, contributed, payouts, hits, sequence, pending, saved, issued>>

Snapshot == [pool |-> pool, contributed |-> contributed, payouts |-> payouts,
             hits |-> hits, sequence |-> sequence]

Init ==
  /\ pool = Seed
  /\ contributed = [g \in Games |-> 0]
  /\ payouts = [t \in Tiers |-> 0]
  /\ hits = [t \in Tiers |-> 0]
  /\ sequence = 0
  /\ pending = [id \in Ids |-> NoOp]
  /\ saved = Snapshot
  /\ issued = 0

-----------------------------------------------------------------------------

IsPending(id) == pending[id] # NoOp /\ pending[id].status = "pending"

PendingOn(t, kind) ==
  {id \in Ids : id[1] = kind /\ IsPending(id) /\ pending[id].tier = t}

\* A contribution goes to one tier: the one the caller names, or the heaviest
\* of the game's weights (which of equals depends on the order of the object's
\* keys), or the first of the pool.
Targets(g) ==
  Overrides \cup
    (IF Weights[g] = NoWeights THEN {FirstTier}
     ELSE {t \in Tiers : \A u \in Tiers : Weights[g][t] >= Weights[g][u]})

BumpSequence ==
  /\ sequence < MaxSequence
  /\ sequence' = sequence + 1

\* What begin* stores, under an id made of the next sequence number.
Begin(kind, op) ==
  LET id == <<kind, sequence + 1>>
  IN  /\ BumpSequence
      /\ pending' = [pending EXCEPT ![id] = op]
      /\ issued' = IF sequence + 1 > issued THEN sequence + 1 ELSE issued
      /\ UNCHANGED totals
      /\ UNCHANGED saved

\* Slips: an operation may be resolved again, because its status is not tested
\* or not written.
ResolveAgain(id, status) ==
  /\ pending[id] # NoOp
  /\ pending' = [pending EXCEPT ![id] = [pending[id] EXCEPT !.status = status]]
  /\ UNCHANGED <<saved, issued>>

ResolveWithoutStatus(id, status) ==
  /\ IsPending(id)
  /\ UNCHANGED <<pending, saved, issued>>

\* What commit* and rollback* do with the operation itself.
Resolve(id, status) ==
  /\ IsPending(id)
  /\ pending' = [pending EXCEPT ![id] = [pending[id] EXCEPT !.status = status]]
  /\ UNCHANGED <<saved, issued>>

BeginContribute(g, t, n) ==
  /\ g \in Eligible
  /\ t \in Targets(g)
  /\ n > 0
  /\ Begin("contrib", [game |-> g, tier |-> t, amount |-> n, status |-> "pending"])

CommitContribute(id) ==
  /\ id[1] = "contrib"
  /\ Resolve(id, "committed")
  /\ BumpSequence
  /\ pool' = [pool EXCEPT ![pending[id].tier] = @ + pending[id].amount]
  /\ contributed' = [contributed EXCEPT ![pending[id].game] = @ + pending[id].amount]
  /\ UNCHANGED <<payouts, hits>>

\* Nothing of the pool is touched yet.
BeginHit(g, t) ==
  /\ pool[t] > 0
  /\ Begin("hit", [game |-> g, tier |-> t, amount |-> pool[t], status |-> "pending"])

\* A slip: the pool is left as it is.
CommitHitWithoutReset(id) ==
  /\ id[1] = "hit"
  /\ Resolve(id, "committed")
  /\ BumpSequence
  /\ payouts' = [payouts EXCEPT ![pending[id].tier] = @ + pending[id].amount]
  /\ hits' = [hits EXCEPT ![pending[id].tier] = @ + 1]
  /\ UNCHANGED <<pool, contributed>>

CommitHit(id) ==
  /\ id[1] = "hit"
  /\ Resolve(id, "committed")
  /\ BumpSequence
  /\ pool' = [pool EXCEPT ![pending[id].tier] = Seed[pending[id].tier]]
  /\ payouts' = [payouts EXCEPT ![pending[id].tier] = @ + pending[id].amount]
  /\ hits' = [hits EXCEPT ![pending[id].tier] = @ + 1]
  /\ UNCHANGED contributed

\* rollbackContribute and rollbackHit.
Rollback(id) ==
  /\ Resolve(id, "rolled_back")
  /\ BumpSequence
  /\ UNCHANGED totals

\* The host keeps the wallet's snapshot.
Save ==
  /\ saved' = Snapshot
  /\ UNCHANGED totals
  /\ UNCHANGED <<sequence, pending, issued>>

\* A slip: the sequence starts again.
FromSnapshotAtZero ==
  /\ pool' = saved.pool
  /\ contributed' = saved.contributed
  /\ payouts' = saved.payouts
  /\ hits' = saved.hits
  /\ sequence' = 0
  /\ pending' = [id \in Ids |-> NoOp]
  /\ UNCHANGED <<saved, issued>>

\* The process is restarted from what the host kept; pending operations are
\* not part of it.
FromSnapshot ==
  /\ pool' = saved.pool
  /\ contributed' = saved.contributed
  /\ payouts' = saved.payouts
  /\ hits' = saved.hits
  /\ sequence' = saved.sequence
  /\ pending' = [id \in Ids |-> NoOp]
  /\ UNCHANGED <<saved, issued>>

BeginNext ==
  \/ \E g \in Games, t \in Tiers, n \in Amounts : BeginContribute(g, t, n)
  \/ \E g \in Games, t \in Tiers : BeginHit(g, t)

Next ==
  \/ BeginNext
  \/ \E id \in Ids : CommitContribute(id) \/ CommitHit(id) \/ Rollback(id)
  \/ Save
  \/ FromSnapshot

Spec == Init /\ [][Next]_vars

(***************************************************************************)
(* A host that lets a tier rest while a hit on it is open: no second hit   *)
(* is begun and no contribution committed until the hit is resolved.       *)
(***************************************************************************)
AtRest(t) == PendingOn(t, "hit") = {}

ExclusiveStep ==
  \/ \E g \in Games, t \in Tiers, n \in Amounts : BeginContribute(g, t, n)
  \/ \E g \in Games, t \in Tiers : AtRest(t) /\ BeginHit(g, t)
  \/ \E id \in Ids :
       \/ IsPending(id) /\ AtRest(pending[id].tier) /\ CommitContribute(id)
       \/ CommitHit(id)
       \/ Rollback(id)
  \/ Save

\* ... and that keeps its snapshot up to date before the process can stop.
CurrentRestart == saved.sequence = sequence /\ FromSnapshot

CarefulSpec == Init /\ [][ExclusiveStep \/ CurrentRestart]_vars

-----------------------------------------------------------------------------

Snapshots == [pool: [Tiers -> Nat], contributed: [Games -> Nat],
              payouts: [Tiers -> Nat], hits: [Tiers -> Nat],
              sequence: 0 .. MaxSequence]

TypeOK ==
  /\ Snapshot \in Snapshots
  /\ saved \in Snapshots
  /\ pending \in [Ids -> Op \cup {NoOp}]
  /\ issued \in 0 .. MaxSequence

\* "Sequence number - incremented on every state transition": a snapshot with
\* the wallet's own sequence number is the wallet's state, so a host that
\* compares the numbers knows whether its snapshot is stale, restarts included.
SequenceNamesState ==
  /\ saved.sequence <= sequence
  /\ saved.sequence = sequence => saved = Snapshot

\* An operation has its effect once: whatever a caller repeats, the books change
\* only when an operation that was pending is resolved, or in a restart.
EffectsOnce ==
  [][\/ UNCHANGED totals
     \/ FromSnapshot
     \/ \E id \in Ids : IsPending(id) /\ ~IsPending(id)']_vars

\* No money appears or disappears: the games' contributions and the seeds (one
\* at the start, one after each hit) are what the tiers show and have paid.
\* Holds for a host that lets a tier rest while a hit is open, wherever it stops
\* with its snapshot up to date and whatever it rolls back.
Conserved ==
  SumOver(contributed, Games)
    + SumOver([t \in Tiers |-> Seed[t] * (1 + hits[t])], Tiers)
  = SumOver(pool, Tiers) + SumOver(payouts, Tiers)

\* For a host whose snapshot is up to date when the process stops, the next id
\* is above every id ever given out: one a caller kept across a restart can be
\* refused, but never names somebody else's operation.
IdsStayFresh == issued <= sequence

\* For the careful host the two-phase wallet is the atomic meter: begins,
\* rollbacks, snapshots and restarts do not show.
Meter == INSTANCE SharedMeter WITH meter <- pool, given <- contributed, paid <- payouts

ImplementsMeter == Meter!Spec

=============================================================================
