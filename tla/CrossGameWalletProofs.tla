------------------------ MODULE CrossGameWalletProofs -----------------------
(***************************************************************************)
(* Proofs about CrossGameWallet for any games, tiers, seeds, weights,      *)
(* contributions and number of state transitions.                          *)
(***************************************************************************)
EXTENDS CrossGameWallet, SumFacts, TLAPS

USE WalletAssumption DEF WalletAssumption

\* TypeOK, one variable at a time.
LEMMA TypeFacts ==
  TypeOK <=>
    /\ pool \in [Tiers -> Nat]
    /\ contributed \in [Games -> Nat]
    /\ payouts \in [Tiers -> Nat]
    /\ hits \in [Tiers -> Nat]
    /\ sequence \in 0 .. MaxSequence
    /\ saved \in Snapshots
    /\ pending \in [Ids -> Op \cup {NoOp}]
    /\ issued \in 0 .. MaxSequence
BY DEF TypeOK, Snapshot, Snapshots

\* A begin stores an operation under an id the sequence has reached.
LEMMA BeginType ==
  ASSUME TypeOK, NEW kind \in {"contrib", "hit"}, NEW op \in Op, Begin(kind, op)
  PROVE  TypeOK'
<1>1. /\ sequence' = sequence + 1
      /\ sequence + 1 \in 1 .. MaxSequence
  BY TypeFacts DEF Begin, BumpSequence
<1>2. pending' \in [Ids -> Op \cup {NoOp}]
  BY <1>1, TypeFacts DEF Begin, Ids
<1>3. issued' \in 0 .. MaxSequence
  BY <1>1, TypeFacts DEF Begin
<1>4. UNCHANGED <<pool, contributed, payouts, hits, saved>>
  BY DEF Begin, totals
<1>5. QED
  BY <1>1, <1>2, <1>3, <1>4, TypeFacts DEF TypeOK, Snapshot, Snapshots

\* The operation resolved is one that was begun.
LEMMA ResolveType ==
  ASSUME TypeOK, NEW id \in Ids, NEW status \in {"committed", "rolled_back"},
         Resolve(id, status)
  PROVE  /\ pending[id] \in Op
         /\ pending' \in [Ids -> Op \cup {NoOp}]
         /\ UNCHANGED <<saved, issued>>
<1>1. pending[id] \in Op
  BY TypeFacts DEF Resolve, IsPending
<1>2. [pending[id] EXCEPT !.status = status] \in Op
  BY <1>1 DEF Op
<1>3. QED
  BY <1>1, <1>2, TypeFacts DEF Resolve

\* A counted transition stays within the bound.
LEMMA BumpType ==
  ASSUME TypeOK, BumpSequence
  PROVE  /\ sequence' = sequence + 1
         /\ sequence' \in 0 .. MaxSequence
BY TypeFacts DEF BumpSequence

\* What the begins of a step are: one operation stored under the next id.
LEMMA BeginsAre ==
  ASSUME TypeOK, BeginNext
  PROVE  \E kind \in {"contrib", "hit"}, op \in Op : Begin(kind, op)
<1>1. ASSUME NEW g \in Games, NEW t \in Tiers, NEW n \in Amounts,
             BeginContribute(g, t, n)
      PROVE  \E kind \in {"contrib", "hit"}, op \in Op : Begin(kind, op)
  <2>1. [game |-> g, tier |-> t, amount |-> n, status |-> "pending"] \in Op
    BY DEF Op
  <2>2. QED
    BY <1>1, <2>1 DEF BeginContribute
<1>2. ASSUME NEW g \in Games, NEW t \in Tiers, BeginHit(g, t)
      PROVE  \E kind \in {"contrib", "hit"}, op \in Op : Begin(kind, op)
  <2>1. [game |-> g, tier |-> t, amount |-> pool[t], status |-> "pending"] \in Op
    BY TypeFacts DEF Op
  <2>2. QED
    BY <1>2, <2>1 DEF BeginHit
<1>3. QED
  BY <1>1, <1>2 DEF BeginNext

\* Committing a contribution keeps the types: it only adds.
LEMMA CommitContributeType ==
  ASSUME TypeOK, NEW id \in Ids, CommitContribute(id)
  PROVE  TypeOK'
<1>1. /\ pending[id] \in Op
      /\ pending' \in [Ids -> Op \cup {NoOp}]
      /\ UNCHANGED <<saved, issued>>
  BY ResolveType DEF CommitContribute
<1>2. sequence' \in 0 .. MaxSequence
  BY BumpType DEF CommitContribute
<1>3. pool' \in [Tiers -> Nat]
  BY <1>1, TypeFacts DEF CommitContribute, Op
<1>4. contributed' \in [Games -> Nat]
  BY <1>1, TypeFacts DEF CommitContribute, Op
<1>5. UNCHANGED <<payouts, hits>>
  BY DEF CommitContribute
<1>6. QED
  BY <1>1, <1>2, <1>3, <1>4, <1>5, TypeFacts DEF TypeOK, Snapshot, Snapshots

\* Committing a hit keeps the types: seed and payout are naturals.
LEMMA CommitHitType ==
  ASSUME TypeOK, NEW id \in Ids, CommitHit(id)
  PROVE  TypeOK'
<1>1. /\ pending[id] \in Op
      /\ pending' \in [Ids -> Op \cup {NoOp}]
      /\ UNCHANGED <<saved, issued>>
  BY ResolveType DEF CommitHit
<1>2. sequence' \in 0 .. MaxSequence
  BY BumpType DEF CommitHit
<1>3. pool' \in [Tiers -> Nat]
  BY <1>1, TypeFacts DEF CommitHit, Op
<1>4. payouts' \in [Tiers -> Nat]
  BY <1>1, TypeFacts DEF CommitHit, Op
<1>5. hits' \in [Tiers -> Nat]
  BY <1>1, TypeFacts DEF CommitHit, Op
<1>6. UNCHANGED contributed
  BY DEF CommitHit
<1>7. QED
  BY <1>1, <1>2, <1>3, <1>4, <1>5, <1>6, TypeFacts DEF TypeOK, Snapshot, Snapshots

\* A rollback changes one status and the sequence.
LEMMA RollbackType ==
  ASSUME TypeOK, NEW id \in Ids, Rollback(id)
  PROVE  TypeOK'
<1>1. /\ pending' \in [Ids -> Op \cup {NoOp}]
      /\ UNCHANGED <<saved, issued>>
  BY ResolveType DEF Rollback
<1>2. sequence' \in 0 .. MaxSequence
  BY BumpType DEF Rollback
<1>3. QED
  BY <1>1, <1>2, TypeFacts DEF Rollback, totals, TypeOK, Snapshot, Snapshots

\* A kept snapshot has the type of the wallet it was taken of.
LEMMA SaveType ==
  ASSUME TypeOK, Save
  PROVE  TypeOK'
BY TypeFacts DEF Save, totals, TypeOK, Snapshot, Snapshots

\* A restarted wallet has the type of its snapshot.
LEMMA FromSnapshotType ==
  ASSUME TypeOK, FromSnapshot
  PROVE  TypeOK'
BY TypeFacts DEF FromSnapshot, TypeOK, Snapshot, Snapshots

\* Every step of any host keeps the types.
LEMMA NextType ==
  ASSUME TypeOK, [Next]_vars
  PROVE  TypeOK'
<1>1. CASE BeginNext
  BY <1>1, BeginsAre, BeginType
<1>2. ASSUME NEW id \in Ids, CommitContribute(id) \/ CommitHit(id) \/ Rollback(id)
      PROVE  TypeOK'
  BY <1>2, CommitContributeType, CommitHitType, RollbackType
<1>3. CASE Save
  BY <1>3, SaveType
<1>4. CASE FromSnapshot
  BY <1>4, FromSnapshotType
<1>5. CASE UNCHANGED vars
  BY <1>5 DEF vars, TypeOK, Snapshot, Snapshots
<1>6. QED
  BY <1>1, <1>2, <1>3, <1>4, <1>5 DEF Next

\* A new wallet is well typed.
LEMMA InitType ==
  ASSUME Init
  PROVE  TypeOK
BY DEF Init, TypeOK, Snapshot, Snapshots

\* The wallet's books, sequence, operations and snapshot keep their types,
\* whatever order its methods are called in and however often it restarts.
THEOREM TypeCorrect == Spec => []TypeOK
<1>1. Init => TypeOK
  BY InitType
<1>2. TypeOK /\ [Next]_vars => TypeOK'
  BY NextType
<1>3. QED
  BY <1>1, <1>2, PTL DEF Spec

-----------------------------------------------------------------------------
(* Sequence numbers name states. *)

\* A transition that counts leaves every snapshot behind.
LEMMA CountedStep ==
  ASSUME TypeOK, SequenceNamesState, BumpSequence, UNCHANGED saved
  PROVE  SequenceNamesState'
<1>1. /\ sequence' = sequence + 1
      /\ sequence \in Nat
      /\ saved.sequence \in Nat
      /\ saved.sequence <= sequence
  BY TypeFacts DEF BumpSequence, SequenceNamesState, Snapshots
<1>2. saved'.sequence < sequence'
  BY <1>1
<1>3. saved'.sequence <= sequence' /\ saved'.sequence # sequence'
  BY <1>1, <1>2
<1>4. QED
  BY <1>3 DEF SequenceNamesState

\* Every step keeps the tie between sequence numbers and states.
LEMMA SequenceStep ==
  ASSUME TypeOK, SequenceNamesState, [Next]_vars
  PROVE  SequenceNamesState'
<1>1. CASE BeginNext
  <2>1. PICK kind \in {"contrib", "hit"}, op \in Op : Begin(kind, op)
    BY <1>1, BeginsAre
  <2>2. QED
    BY <2>1, CountedStep DEF Begin
<1>2. ASSUME NEW id \in Ids, CommitContribute(id) \/ CommitHit(id) \/ Rollback(id)
      PROVE  SequenceNamesState'
  BY <1>2, CountedStep DEF CommitContribute, CommitHit, Rollback, Resolve
<1>3. CASE Save
  <2>1. saved' = Snapshot /\ Snapshot' = Snapshot /\ sequence' = sequence
    BY <1>3 DEF Save, Snapshot, totals
  <2>2. saved'.sequence = sequence
    BY <2>1 DEF Snapshot
  <2>3. sequence \in Nat
    BY TypeFacts
  <2>4. QED
    BY <2>1, <2>2, <2>3 DEF SequenceNamesState
<1>4. CASE FromSnapshot
  <2>1. saved \in Snapshots /\ saved' = saved
    BY <1>4, TypeFacts DEF FromSnapshot
  <2>2. Snapshot' = saved
    BY <1>4, <2>1 DEF FromSnapshot, Snapshot, Snapshots
  <2>3. sequence' = saved.sequence /\ saved.sequence \in Nat
    BY <1>4, <2>1 DEF FromSnapshot, Snapshots
  <2>4. QED
    BY <2>1, <2>2, <2>3 DEF SequenceNamesState
<1>5. CASE UNCHANGED vars
  BY <1>5 DEF vars, SequenceNamesState, Snapshot
<1>6. QED
  BY <1>1, <1>2, <1>3, <1>4, <1>5 DEF Next

\* The snapshot kept at the start is the new wallet itself.
LEMMA InitSequence ==
  ASSUME Init
  PROVE  SequenceNamesState
BY DEF Init, SequenceNamesState, Snapshot

\* A kept snapshot with the wallet's sequence number is the wallet's state, and
\* none is ahead of the wallet: begins, commits, rollbacks, saves and restarts
\* from older snapshots in any order.
THEOREM SequenceIdentifiesState == Spec => []SequenceNamesState
<1>1. Init => TypeOK /\ SequenceNamesState
  BY InitType, InitSequence
<1>2. TypeOK /\ SequenceNamesState /\ [Next]_vars => (TypeOK /\ SequenceNamesState)'
  BY NextType, SequenceStep
<1>3. QED
  BY <1>1, <1>2, PTL DEF Spec

-----------------------------------------------------------------------------
(* Effects happen once. *)

\* A resolved operation is pending no more.
LEMMA ResolveEnds ==
  ASSUME TypeOK, NEW id \in Ids, NEW status \in {"committed", "rolled_back"},
         Resolve(id, status)
  PROVE  IsPending(id) /\ ~IsPending(id)'
<1>1. pending[id] \in Op /\ IsPending(id)
  BY ResolveType DEF Resolve
<1>2. pending'[id] = [pending[id] EXCEPT !.status = status]
  BY TypeFacts DEF Resolve
<1>3. pending'[id].status = status
  BY <1>1, <1>2 DEF Op
<1>4. QED
  BY <1>1, <1>3 DEF IsPending

\* A step changes the books only in resolving a pending operation or in a restart.
LEMMA EffectsStep ==
  ASSUME TypeOK, [Next]_vars
  PROVE  \/ UNCHANGED totals
         \/ FromSnapshot
         \/ \E id \in Ids : IsPending(id) /\ ~IsPending(id)'
<1>1. CASE BeginNext
  <2>1. PICK kind \in {"contrib", "hit"}, op \in Op : Begin(kind, op)
    BY <1>1, BeginsAre
  <2>2. QED
    BY <2>1 DEF Begin
<1>2. ASSUME NEW id \in Ids, CommitContribute(id) \/ CommitHit(id) \/ Rollback(id)
      PROVE  \E i \in Ids : IsPending(i) /\ ~IsPending(i)'
  <2>1. Resolve(id, "committed") \/ Resolve(id, "rolled_back")
    BY <1>2 DEF CommitContribute, CommitHit, Rollback
  <2>2. IsPending(id) /\ ~IsPending(id)'
    BY <2>1, ResolveEnds
  <2>3. QED
    BY <2>2
<1>3. CASE Save
  BY <1>3 DEF Save
<1>4. CASE UNCHANGED vars
  BY <1>4 DEF vars, totals
<1>5. QED
  BY <1>1, <1>2, <1>3, <1>4 DEF Next

\* Whatever a caller repeats, the books change only when a pending operation is
\* resolved, or in a restart.
THEOREM EffectsHappenOnce == Spec => EffectsOnce
<1>1. TypeOK /\ [Next]_vars =>
        [\/ UNCHANGED totals
         \/ FromSnapshot
         \/ \E id \in Ids : IsPending(id) /\ ~IsPending(id)']_vars
  BY EffectsStep
<1>2. QED
  BY <1>1, TypeCorrect, PTL DEF Spec, EffectsOnce

-----------------------------------------------------------------------------
(* The careful host's wallet is a meter. *)

\* An open hit is for what its tier shows, and is the tier's only one; an open
\* contribution is one a bet may round to.
HitsCurrent ==
  \A id \in Ids : id[1] = "hit" /\ IsPending(id) =>
    /\ pending[id].amount = pool[pending[id].tier]
    /\ pending[id].amount > 0
    /\ \A other \in Ids :
         other[1] = "hit" /\ IsPending(other) /\ pending[other].tier = pending[id].tier
         => other = id

ContributionsKnown ==
  \A id \in Ids : id[1] = "contrib" /\ IsPending(id) => pending[id].amount \in Amounts

MeterInv == TypeOK /\ SequenceNamesState /\ HitsCurrent /\ ContributionsKnown

CarefulNext == ExclusiveStep \/ CurrentRestart

\* What the careful host does, any host may do.
LEMMA CarefulStepIsStep ==
  ASSUME [CarefulNext]_vars
  PROVE  [Next]_vars
BY DEF CarefulNext, ExclusiveStep, CurrentRestart, Next, BeginNext

\* Resolving one operation leaves the others as they were.
LEMMA ResolveOthers ==
  ASSUME TypeOK, NEW id \in Ids, NEW status \in {"committed", "rolled_back"},
         Resolve(id, status), NEW other \in Ids, IsPending(other)'
  PROVE  other # id /\ pending'[other] = pending[other] /\ IsPending(other)
<1>1. other # id
  BY ResolveEnds
<1>2. pending'[other] = pending[other]
  BY <1>1, TypeFacts DEF Resolve
<1>3. QED
  BY <1>1, <1>2 DEF IsPending

\* A begin leaves every other operation as it was.
LEMMA BeginOthers ==
  ASSUME TypeOK, NEW kind \in {"contrib", "hit"}, NEW op \in Op, Begin(kind, op),
         NEW other \in Ids
  PROVE  /\ other = <<kind, sequence + 1>> => pending'[other] = op
         /\ other # <<kind, sequence + 1>> => pending'[other] = pending[other]
BY TypeFacts DEF Begin

\* A contribution begun is of a legal amount and disturbs no open hit.
LEMMA BeginContributeKeeps ==
  ASSUME MeterInv, NEW g \in Games, NEW t \in Tiers, NEW n \in Amounts,
         BeginContribute(g, t, n)
  PROVE  (HitsCurrent /\ ContributionsKnown)'
<1> DEFINE op == [game |-> g, tier |-> t, amount |-> n, status |-> "pending"]
           new == <<"contrib", sequence + 1>>
<1>1. /\ op \in Op /\ op.amount = n
      /\ Begin("contrib", op)
      /\ pool' = pool
  BY DEF BeginContribute, Begin, totals, Op
<1>2. ASSUME NEW id \in Ids
      PROVE  /\ id = new => pending'[id] = op
             /\ id # new => pending'[id] = pending[id]
  <2> HIDE DEF op
  <2>1. QED
    BY <1>1, BeginOthers DEF MeterInv
<1>3. HitsCurrent'
  <2>1. ASSUME NEW id \in Ids, id[1] = "hit"
        PROVE  pending'[id] = pending[id]
    BY <1>2, <2>1
  <2>2. QED
    BY <1>1, <2>1 DEF MeterInv, HitsCurrent, IsPending
<1>4. ContributionsKnown'
  <2> HIDE DEF op
  <2>1. QED
    BY <1>1, <1>2 DEF MeterInv, ContributionsKnown, IsPending
<1>5. QED
  BY <1>3, <1>4

\* A hit begun by the careful host is for what its tier shows, and the only one there.
LEMMA BeginHitKeeps ==
  ASSUME MeterInv, NEW g \in Games, NEW t \in Tiers, AtRest(t), BeginHit(g, t)
  PROVE  (HitsCurrent /\ ContributionsKnown)'
<1> DEFINE op == [game |-> g, tier |-> t, amount |-> pool[t], status |-> "pending"]
           new == <<"hit", sequence + 1>>
<1>1. /\ op \in Op /\ op.amount = pool[t] /\ op.tier = t
      /\ pool[t] > 0
      /\ Begin("hit", op)
      /\ pool' = pool
  BY TypeFacts DEF BeginHit, Begin, totals, Op, MeterInv
<1> HIDE DEF op
<1>2. ASSUME NEW id \in Ids
      PROVE  /\ id = new => pending'[id] = op
             /\ id # new => pending'[id] = pending[id]
  BY <1>1, BeginOthers DEF MeterInv
<1>3. ASSUME NEW id \in Ids, id[1] = "hit", IsPending(id)
      PROVE  pending[id].tier # t
  BY <1>3 DEF AtRest, PendingOn
<1>4. HitsCurrent'
  <2>1. ASSUME NEW id \in Ids, id[1] = "hit", IsPending(id)'
        PROVE  /\ pending'[id].amount = pool'[pending'[id].tier]
               /\ pending'[id].amount > 0
               /\ \A other \in Ids :
                    other[1] = "hit" /\ IsPending(other)'
                      /\ pending'[other].tier = pending'[id].tier
                    => other = id
    <3>1. CASE id = new
      BY <1>1, <1>2, <1>3, <2>1, <3>1 DEF IsPending
    <3>2. CASE id # new
      BY <1>1, <1>2, <1>3, <2>1, <3>2 DEF IsPending, MeterInv, HitsCurrent
    <3>3. QED
      BY <3>1, <3>2
  <2>2. QED
    BY <2>1 DEF HitsCurrent
<1>5. ContributionsKnown'
  BY <1>2 DEF MeterInv, ContributionsKnown, IsPending
<1>6. QED
  BY <1>4, <1>5

\* Contributions are committed only to tiers without an open hit.
LEMMA CommitContributeKeeps ==
  ASSUME MeterInv, NEW id \in Ids, AtRest(pending[id].tier), CommitContribute(id)
  PROVE  (HitsCurrent /\ ContributionsKnown)'
<1>1. ASSUME NEW other \in Ids, IsPending(other)'
      PROVE  other # id /\ pending'[other] = pending[other] /\ IsPending(other)
  BY <1>1, ResolveOthers DEF CommitContribute, MeterInv
<1>2. ASSUME NEW other \in Ids, IsPending(other), other[1] = "hit"
      PROVE  pool'[pending[other].tier] = pool[pending[other].tier]
  <2>1. pending[other].tier # pending[id].tier
    BY <1>2 DEF AtRest, PendingOn
  <2>2. pending[other] \in Op
    BY <1>2, TypeFacts DEF IsPending, MeterInv
  <2>3. QED
    BY <2>1, <2>2, TypeFacts DEF CommitContribute, MeterInv, Op
<1>3. HitsCurrent'
  BY <1>1, <1>2 DEF MeterInv, HitsCurrent
<1>4. ContributionsKnown'
  BY <1>1 DEF MeterInv, ContributionsKnown
<1>5. QED
  BY <1>3, <1>4

\* A committed hit was the only one open on its tier.
LEMMA CommitHitKeeps ==
  ASSUME MeterInv, NEW id \in Ids, CommitHit(id)
  PROVE  (HitsCurrent /\ ContributionsKnown)'
<1>1. ASSUME NEW other \in Ids, IsPending(other)'
      PROVE  other # id /\ pending'[other] = pending[other] /\ IsPending(other)
  BY <1>1, ResolveOthers DEF CommitHit, MeterInv
<1>2. IsPending(id) /\ id[1] = "hit"
  BY DEF CommitHit, Resolve
<1>3. ASSUME NEW other \in Ids, IsPending(other), other[1] = "hit", other # id
      PROVE  pool'[pending[other].tier] = pool[pending[other].tier]
  <2>1. pending[other].tier # pending[id].tier
    BY <1>2, <1>3 DEF MeterInv, HitsCurrent
  <2>2. pending[other] \in Op
    BY <1>3, TypeFacts DEF IsPending, MeterInv
  <2>3. QED
    BY <2>1, <2>2, TypeFacts DEF CommitHit, MeterInv, Op
<1>4. HitsCurrent'
  BY <1>1, <1>3 DEF MeterInv, HitsCurrent
<1>5. ContributionsKnown'
  BY <1>1 DEF MeterInv, ContributionsKnown
<1>6. QED
  BY <1>4, <1>5

\* A rolled back operation is no longer open; the pools have not moved.
LEMMA RollbackKeeps ==
  ASSUME MeterInv, NEW id \in Ids, Rollback(id)
  PROVE  (HitsCurrent /\ ContributionsKnown)'
<1>1. ASSUME NEW other \in Ids, IsPending(other)'
      PROVE  other # id /\ pending'[other] = pending[other] /\ IsPending(other)
  BY <1>1, ResolveOthers DEF Rollback, MeterInv
<1>2. pool' = pool
  BY DEF Rollback, totals
<1>3. QED
  BY <1>1, <1>2 DEF MeterInv, HitsCurrent, ContributionsKnown

\* Every step of the careful host keeps open hits current.
LEMMA CarefulKeepsInv ==
  ASSUME MeterInv, [CarefulNext]_vars
  PROVE  MeterInv'
<1>1. TypeOK' /\ SequenceNamesState'
  BY CarefulStepIsStep, NextType, SequenceStep DEF MeterInv
<1>2. ASSUME NEW g \in Games, NEW t \in Tiers, NEW n \in Amounts,
             BeginContribute(g, t, n)
      PROVE  (HitsCurrent /\ ContributionsKnown)'
  BY <1>2, BeginContributeKeeps
<1>3. ASSUME NEW g \in Games, NEW t \in Tiers, AtRest(t), BeginHit(g, t)
      PROVE  (HitsCurrent /\ ContributionsKnown)'
  BY <1>3, BeginHitKeeps
<1>4. ASSUME NEW id \in Ids,
             \/ AtRest(pending[id].tier) /\ CommitContribute(id)
             \/ CommitHit(id)
             \/ Rollback(id)
      PROVE  (HitsCurrent /\ ContributionsKnown)'
  BY <1>4, CommitContributeKeeps, CommitHitKeeps, RollbackKeeps
<1>5. ASSUME Save \/ UNCHANGED vars
      PROVE  (HitsCurrent /\ ContributionsKnown)'
  <2>1. UNCHANGED <<pool, pending>>
    BY <1>5 DEF Save, totals, vars
  <2>2. QED
    BY <2>1 DEF MeterInv, HitsCurrent, ContributionsKnown, IsPending
<1>6. ASSUME CurrentRestart
      PROVE  (HitsCurrent /\ ContributionsKnown)'
  <2>1. \A id \in Ids : ~IsPending(id)'
    BY <1>6 DEF CurrentRestart, FromSnapshot, IsPending
  <2>2. QED
    BY <2>1 DEF HitsCurrent, ContributionsKnown
<1>7. HitsCurrent' /\ ContributionsKnown'
  BY <1>2, <1>3, <1>4, <1>5, <1>6 DEF CarefulNext, ExclusiveStep
<1>8. QED
  BY <1>1, <1>7 DEF MeterInv

\* Each step of the careful host is a step of the meter or does not show.
LEMMA MeterStep ==
  ASSUME MeterInv, [CarefulNext]_vars
  PROVE  [Meter!Next]_Meter!mvars
<1>1. CASE BeginNext
  <2>1. PICK kind \in {"contrib", "hit"}, op \in Op : Begin(kind, op)
    BY <1>1, BeginsAre DEF MeterInv
  <2>2. QED
    BY <2>1 DEF Begin, totals, Meter!mvars
<1>2. ASSUME NEW id \in Ids, IsPending(id), CommitContribute(id)
      PROVE  Meter!Next
  <2>1. pending[id] \in Op /\ pending[id].amount \in Amounts
    BY <1>2, TypeFacts DEF MeterInv, ContributionsKnown, IsPending, CommitContribute
  <2>2. Meter!Raise(pending[id].game, pending[id].tier, pending[id].amount)
    BY <1>2 DEF CommitContribute, Meter!Raise
  <2>3. QED
    BY <2>1, <2>2 DEF Meter!Next, Op
<1>3. ASSUME NEW id \in Ids, CommitHit(id)
      PROVE  Meter!Next
  <2>1. IsPending(id) /\ id[1] = "hit"
    BY <1>3 DEF CommitHit, Resolve
  <2>2. pending[id] \in Op
    BY <2>1, TypeFacts DEF MeterInv, IsPending
  <2>3. pending[id].amount = pool[pending[id].tier] /\ pool[pending[id].tier] > 0
    BY <2>1 DEF MeterInv, HitsCurrent
  <2>4. Meter!Hit(pending[id].tier)
    BY <1>3, <2>3 DEF CommitHit, Meter!Hit
  <2>5. QED
    BY <2>2, <2>4 DEF Meter!Next, Op
<1>4. ASSUME NEW id \in Ids, Rollback(id)
      PROVE  UNCHANGED Meter!mvars
  BY <1>4 DEF Rollback, totals, Meter!mvars
<1>5. CASE Save \/ UNCHANGED vars
  BY <1>5 DEF Save, totals, vars, Meter!mvars
<1>6. CASE CurrentRestart
  <2>1. saved = Snapshot
    BY <1>6 DEF CurrentRestart, MeterInv, SequenceNamesState
  <2>2. QED
    BY <1>6, <2>1 DEF CurrentRestart, FromSnapshot, Snapshot, Meter!mvars
<1>7. QED
  BY <1>1, <1>2, <1>3, <1>4, <1>5, <1>6 DEF CarefulNext, ExclusiveStep, BeginNext

\* A new wallet has no open operation.
LEMMA InitMeterInv ==
  ASSUME Init
  PROVE  MeterInv
<1>1. \A id \in Ids : ~IsPending(id)
  BY DEF Init, IsPending
<1>2. QED
  BY <1>1, InitType, InitSequence DEF MeterInv, HitsCurrent, ContributionsKnown

\* For a host that lets a tier rest while a hit on it is open, and restarts only
\* from a snapshot that is up to date, the two-phase wallet implements the
\* atomic meter.
THEOREM CarefulImplementsMeter == CarefulSpec => ImplementsMeter
<1>1. Init => MeterInv
  BY InitMeterInv
<1>2. MeterInv /\ [CarefulNext]_vars => MeterInv'
  BY CarefulKeepsInv
<1>3. Init => Meter!Init
  BY DEF Init, Meter!Init
<1>4. MeterInv /\ [CarefulNext]_vars => [Meter!Next]_Meter!mvars
  BY MeterStep
<1>5. CarefulSpec <=> Init /\ [][CarefulNext]_vars
  BY DEF CarefulSpec, CarefulNext
<1>6. QED
  BY <1>1, <1>2, <1>3, <1>4, <1>5, PTL DEF ImplementsMeter, Meter!Spec

\* Every step of the careful host leaves the sequence at or above every id given
\* out: begins count, and a restart from a current snapshot keeps the count.
LEMMA FreshStep ==
  ASSUME MeterInv, IdsStayFresh, [CarefulNext]_vars
  PROVE  IdsStayFresh'
<1>1. sequence \in Nat /\ issued \in Nat
  BY DEF MeterInv, TypeOK, Snapshots, Snapshot
<1>2. CASE BeginNext
  <2>1. PICK kind \in {"contrib", "hit"}, op \in Op : Begin(kind, op)
    BY <1>2, BeginsAre DEF MeterInv
  <2>2. QED
    BY <1>1, <2>1 DEF Begin, BumpSequence, IdsStayFresh
<1>3. ASSUME NEW id \in Ids, CommitContribute(id) \/ CommitHit(id) \/ Rollback(id)
      PROVE  IdsStayFresh'
  <2>1. sequence' = sequence + 1 /\ issued' = issued
    BY <1>3 DEF CommitContribute, CommitHit, Rollback, Resolve, BumpSequence
  <2>2. QED
    BY <1>1, <2>1 DEF IdsStayFresh
<1>4. CASE Save \/ CurrentRestart \/ UNCHANGED vars
  <2>1. sequence' = sequence /\ issued' = issued
    BY <1>4 DEF Save, CurrentRestart, FromSnapshot, vars
  <2>2. QED
    BY <2>1 DEF IdsStayFresh
<1>5. QED
  BY <1>2, <1>3, <1>4 DEF CarefulNext, ExclusiveStep, BeginNext

\* The id of a begin is above every id a caller may still hold from before a
\* restart, as long as the host restarts from a snapshot that is up to date.
THEOREM IdsAreFresh == CarefulSpec => []IdsStayFresh
<1>1. Init => MeterInv /\ IdsStayFresh
  BY InitMeterInv DEF Init, IdsStayFresh
<1>2. MeterInv /\ IdsStayFresh /\ [CarefulNext]_vars => MeterInv' /\ IdsStayFresh'
  BY CarefulKeepsInv, FreshStep
<1>3. CarefulSpec <=> Init /\ [][CarefulNext]_vars
  BY DEF CarefulSpec, CarefulNext
<1>4. QED
  BY <1>1, <1>2, <1>3, PTL

-----------------------------------------------------------------------------
(* No money appears or disappears. *)

\* Every seed a tier was given: one at the start and one after each hit.
Seeded == [t \in Tiers |-> Seed[t] * (1 + hits[t])]

\* Conserved, with its sums as numbers.
LEMMA ConservedIs ==
  ASSUME TypeOK
  PROVE  /\ Conserved <=> SumOver(contributed, Games) + SumOver(Seeded, Tiers)
                            = SumOver(pool, Tiers) + SumOver(payouts, Tiers)
         /\ SumOver(contributed, Games) \in Nat
         /\ SumOver(Seeded, Tiers) \in Nat
         /\ SumOver(pool, Tiers) \in Nat
         /\ SumOver(payouts, Tiers) \in Nat
<1>1. \A t \in Tiers : Seeded[t] \in Nat
  BY TypeFacts DEF Seeded
<1>2. /\ \A g \in Games : contributed[g] \in Nat
      /\ \A t \in Tiers : pool[t] \in Nat /\ payouts[t] \in Nat
  BY TypeFacts
<1>3. QED
  BY <1>1, <1>2, SumType DEF Conserved, Seeded

\* Books that do not move stay balanced.
LEMMA BalanceFrame ==
  ASSUME Conserved, UNCHANGED totals
  PROVE  Conserved'
BY DEF Conserved, totals

\* A committed contribution is in its tier and in its game's total.
LEMMA ContributeBalances ==
  ASSUME TypeOK, TypeOK', Conserved, NEW id \in Ids, CommitContribute(id)
  PROVE  Conserved'
<1> DEFINE op == pending[id]
<1>1. op \in Op
  BY ResolveType DEF CommitContribute
<1>2. op.game \in Games /\ op.tier \in Tiers /\ op.amount \in Nat
  BY <1>1 DEF Op
<1>3. /\ pool' = [pool EXCEPT ![op.tier] = @ + op.amount]
      /\ contributed' = [contributed EXCEPT ![op.game] = @ + op.amount]
      /\ payouts' = payouts /\ hits' = hits
  BY DEF CommitContribute
<1> HIDE DEF op
<1>4. SumOver(contributed', Games) = SumOver(contributed, Games) + op.amount
  <2>1. /\ \A g \in Games : contributed[g] \in Nat
        /\ contributed'[op.game] = contributed[op.game] + op.amount
        /\ \A g \in Games \ {op.game} : contributed'[g] = contributed[g]
    BY <1>2, <1>3, TypeFacts
  <2>2. contributed'[op.game] \in Nat /\ contributed[op.game] \in Nat
    BY <1>2, <2>1
  <2>3. SumOver(contributed', Games)
          = SumOver(contributed, Games) - contributed[op.game] + contributed'[op.game]
    BY <1>2, <2>1, <2>2, SumChange
  <2>4. QED
    BY <1>2, <2>1, <2>2, <2>3, ConservedIs
<1>5. SumOver(pool', Tiers) = SumOver(pool, Tiers) + op.amount
  <2>1. /\ \A t \in Tiers : pool[t] \in Nat
        /\ pool'[op.tier] = pool[op.tier] + op.amount
        /\ \A t \in Tiers \ {op.tier} : pool'[t] = pool[t]
    BY <1>2, <1>3, TypeFacts
  <2>2. pool'[op.tier] \in Nat /\ pool[op.tier] \in Nat
    BY <1>2, <2>1
  <2>3. SumOver(pool', Tiers) = SumOver(pool, Tiers) - pool[op.tier] + pool'[op.tier]
    BY <1>2, <2>1, <2>2, SumChange
  <2>4. QED
    BY <1>2, <2>1, <2>2, <2>3, ConservedIs
<1>6. Seeded' = Seeded
  BY <1>3 DEF Seeded
<1>7. Conserved' <=> SumOver(contributed', Games) + SumOver(Seeded, Tiers)
                       = SumOver(pool', Tiers) + SumOver(payouts, Tiers)
  BY <1>3, <1>6 DEF Conserved, Seeded
<1>8. QED
  BY <1>2, <1>4, <1>5, <1>7, ConservedIs

\* A hit pays what its tier shows and takes a new seed for it.
LEMMA HitBalances ==
  ASSUME MeterInv, Conserved, NEW id \in Ids, CommitHit(id)
  PROVE  Conserved'
<1> DEFINE t == pending[id].tier
<1>1. TypeOK
  BY DEF MeterInv
<1>2. pending[id] \in Op /\ id[1] = "hit" /\ IsPending(id)
  BY <1>1, ResolveType DEF CommitHit, Resolve
<1>3. t \in Tiers /\ pending[id].amount = pool[t]
  BY <1>2 DEF Op, MeterInv, HitsCurrent
<1>4. /\ pool' = [pool EXCEPT ![t] = Seed[t]]
      /\ payouts' = [payouts EXCEPT ![t] = @ + pool[t]]
      /\ hits' = [hits EXCEPT ![t] = @ + 1]
      /\ contributed' = contributed
  BY <1>3 DEF CommitHit
<1> HIDE DEF t
<1>5. /\ \A u \in Tiers : pool[u] \in Nat /\ payouts[u] \in Nat /\ hits[u] \in Nat
      /\ Seed[t] \in Nat
  BY <1>1, <1>3, TypeFacts
<1>6. SumOver(pool', Tiers) = SumOver(pool, Tiers) - pool[t] + Seed[t]
  <2>1. /\ pool'[t] = Seed[t]
        /\ \A u \in Tiers \ {t} : pool'[u] = pool[u]
    BY <1>1, <1>3, <1>4, TypeFacts
  <2>2. \A u \in Tiers : pool[u] \in Nat
    BY <1>5
  <2>3. pool'[t] \in Nat
    BY <1>5, <2>1
  <2>4. SumOver(pool', Tiers) = SumOver(pool, Tiers) - pool[t] + pool'[t]
    BY <1>3, <2>1, <2>2, <2>3, SumChange
  <2>5. QED
    BY <2>1, <2>4
<1>7. SumOver(payouts', Tiers) = SumOver(payouts, Tiers) + pool[t]
  <2>1. /\ payouts'[t] = payouts[t] + pool[t]
        /\ \A u \in Tiers \ {t} : payouts'[u] = payouts[u]
    BY <1>1, <1>3, <1>4, TypeFacts
  <2>2. \A u \in Tiers : payouts[u] \in Nat
    BY <1>5
  <2>3. payouts'[t] \in Nat /\ payouts[t] \in Nat /\ pool[t] \in Nat
    BY <1>3, <1>5, <2>1
  <2>4. SumOver(payouts', Tiers) = SumOver(payouts, Tiers) - payouts[t] + payouts'[t]
    BY <1>3, <2>1, <2>2, <2>3, SumChange
  <2>5. QED
    BY <1>1, <2>1, <2>3, <2>4, ConservedIs
<1>8. SumOver(Seeded', Tiers) = SumOver(Seeded, Tiers) + Seed[t]
  <2>1. hits'[t] = hits[t] + 1 /\ \A u \in Tiers \ {t} : hits'[u] = hits[u]
    BY <1>1, <1>3, <1>4, TypeFacts
  <2>2. \A u \in Tiers : Seeded[u] \in Nat
    BY <1>5 DEF Seeded
  <2>3. \A u \in Tiers \ {t} : Seeded'[u] = Seeded[u]
    BY <2>1 DEF Seeded
  <2>4. Seeded'[t] = Seeded[t] + Seed[t]
    <3>1. Seeded'[t] = Seed[t] * (1 + (hits[t] + 1)) /\ Seeded[t] = Seed[t] * (1 + hits[t])
      BY <1>3, <2>1 DEF Seeded
    <3>2. \A s, h \in Nat : s * (1 + (h + 1)) = s * (1 + h) + s
      OBVIOUS
    <3>3. QED
      BY <1>3, <1>5, <3>1, <3>2
  <2>5. Seeded'[t] \in Nat /\ Seeded[t] \in Nat
    BY <1>3, <1>5, <2>2, <2>4
  <2>6. SumOver(Seeded', Tiers) = SumOver(Seeded, Tiers) - Seeded[t] + Seeded'[t]
    BY <1>3, <2>2, <2>3, <2>5, SumChange
  <2>7. QED
    BY <1>1, <1>5, <2>4, <2>5, <2>6, ConservedIs
<1>9. Conserved' <=> SumOver(contributed, Games) + SumOver(Seeded', Tiers)
                       = SumOver(pool', Tiers) + SumOver(payouts', Tiers)
  BY <1>4 DEF Conserved, Seeded
<1>10. QED
  BY <1>1, <1>3, <1>5, <1>6, <1>7, <1>8, <1>9, ConservedIs

\* Every step of the careful host keeps the books balanced.
LEMMA ConservedStep ==
  ASSUME MeterInv, Conserved, [CarefulNext]_vars
  PROVE  Conserved'
<1>1. TypeOK /\ TypeOK'
  BY CarefulKeepsInv DEF MeterInv
<1>2. CASE BeginNext
  <2>1. PICK kind \in {"contrib", "hit"}, op \in Op : Begin(kind, op)
    BY <1>1, <1>2, BeginsAre
  <2>2. QED
    BY <2>1, BalanceFrame DEF Begin
<1>3. ASSUME NEW id \in Ids, CommitContribute(id)
      PROVE  Conserved'
  BY <1>1, <1>3, ContributeBalances
<1>4. ASSUME NEW id \in Ids, CommitHit(id)
      PROVE  Conserved'
  BY <1>4, HitBalances
<1>5. ASSUME NEW id \in Ids, Rollback(id)
      PROVE  Conserved'
  BY <1>5, BalanceFrame DEF Rollback
<1>6. CASE Save \/ UNCHANGED vars
  <2>1. UNCHANGED totals
    BY <1>6 DEF Save, vars, totals
  <2>2. QED
    BY <2>1, BalanceFrame
<1>7. CASE CurrentRestart
  <2>1. saved = Snapshot
    BY <1>7 DEF CurrentRestart, MeterInv, SequenceNamesState
  <2>2. UNCHANGED totals
    BY <1>7, <2>1 DEF CurrentRestart, FromSnapshot, Snapshot, totals
  <2>3. QED
    BY <2>2, BalanceFrame
<1>8. QED
  BY <1>2, <1>3, <1>4, <1>5, <1>6, <1>7 DEF CarefulNext, ExclusiveStep, BeginNext

\* A new wallet shows its seeds and has neither taken nor paid anything.
LEMMA InitConserved ==
  ASSUME Init
  PROVE  Conserved
<1>1. TypeOK
  BY InitType
<1>2. SumOver(contributed, Games) = 0 /\ SumOver(payouts, Tiers) = 0
  <2>1. /\ \A g \in Games : contributed[g] = 0
        /\ \A t \in Tiers : payouts[t] = 0
    BY DEF Init
  <2>2. QED
    BY <2>1, SumZero
<1>3. SumOver(Seeded, Tiers) = SumOver(pool, Tiers)
  <2>1. \A t \in Tiers : pool[t] \in Nat /\ Seeded[t] = pool[t]
    BY DEF Init, Seeded
  <2>2. QED
    BY <2>1, SumSame
<1>4. QED
  BY <1>1, <1>2, <1>3, ConservedIs

\* The games' contributions and the seeds are what the tiers show and have paid,
\* for a host that lets a tier rest while a hit is open and restarts only from a
\* snapshot that is up to date.
THEOREM MoneyIsConserved == CarefulSpec => []Conserved
<1>1. Init => MeterInv /\ Conserved
  BY InitMeterInv, InitConserved
<1>2. MeterInv /\ Conserved /\ [CarefulNext]_vars => MeterInv' /\ Conserved'
  BY CarefulKeepsInv, ConservedStep
<1>3. CarefulSpec <=> Init /\ [][CarefulNext]_vars
  BY DEF CarefulSpec, CarefulNext
<1>4. QED
  BY <1>1, <1>2, <1>3, PTL

=============================================================================
