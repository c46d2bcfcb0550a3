--------------------------- MODULE JackpotManager ---------------------------
(***************************************************************************)
(* The two-phase jackpot of src/jackpot/manager.ts: every spin contributes *)
(* to every tier's pool; a win reserves the whole pool (begin), and the    *)
(* host then commits it, rolls it back, retries it, or lets the sweep      *)
(* expire it.  All methods are synchronous, so each call is one action; a  *)
(* call that throws changes nothing and is a stuttering step.              *)
(*                                                                         *)
(* Abstractions.  Money is counted in indivisible units.  The clock is     *)
(* kept as each payment's age, now - startedAt, which is all the code      *)
(* compares; past Timeout + 1 the age makes no further difference and      *)
(* stays there.  retryCount likewise stays at MaxRetries + 1.  Payments    *)
(* are numbered in the order of begin, the iteration order of the Map that *)
(* expireTimedOut walks.  The event log is kept as the number of           *)
(* jackpot_committed and jackpot_rolled_back events of each payment.       *)
(***************************************************************************)
EXTENDS Integers, FiniteSets, Sums

CONSTANTS
  Tiers,            \* the tier names
  Seed,             \* Seed[t]: seedValue
  InitialPool,      \* InitialPool[t]: poolValue in the configuration
  Rate,             \* Rate[t]: units contributed per unit wagered
  Cap,              \* Cap[t]: mustHitByMax, or NoCap
  NoCap,
  MaxRetries,
  Timeout,          \* paymentTimeoutMs, in clock ticks
  Wagers,           \* the wagers a spin may place
  MaxPayments,      \* bound: calls of beginJackpot that reserve a pool
  MaxContributions  \* bound: calls of contribute

ASSUME ConfigAssumption ==
  /\ Tiers # {}
  /\ Seed \in [Tiers -> Nat]
  /\ InitialPool \in [Tiers -> Nat]
  /\ Rate \in [Tiers -> Nat]
  /\ Cap \in [Tiers -> Nat \cup {NoCap}]
  /\ NoCap \notin Nat
  /\ MaxRetries \in Nat
  /\ Timeout \in Nat
  /\ Wagers \subseteq Nat
  /\ MaxPayments \in Nat
  /\ MaxContributions \in Nat

Payments == 1 .. MaxPayments

Statuses == {"none", "pending", "committed", "rolled_back", "failed"}

Payment == [status: Statuses, tier: Tiers, amount: Nat,
            age: 0 .. Timeout + 1, retryCount: 0 .. MaxRetries + 1]

NoPayment == [status |-> "none", tier |-> CHOOSE t \in Tiers : TRUE,
              amount |-> 0, age |-> 0, retryCount |-> 0]

VARIABLES
  pool,           \* pool[t]: poolValue of tier t
  payment,        \* payment[p]: the JackpotPendingPayment of p
  commits,        \* commits[p]: jackpot_committed events of p
  rollbacks,      \* rollbacks[p]: jackpot_rolled_back events of p
  contributions,  \* calls of contribute so far
  funding         \* funding[t]: every unit that ever came into tier t

vars == <<pool, payment, commits, rollbacks, contributions, funding>>

-----------------------------------------------------------------------------

Capped(t, value) ==
  IF Cap[t] # NoCap /\ value > Cap[t] THEN Cap[t] ELSE value

Begun == {p \in Payments : payment[p].status # "none"}

Pending(p) == payment[p].status = "pending"

\* age >= paymentTimeoutMs, the test of the sweep ...
Sweepable(p) == Pending(p) /\ payment[p].age >= Timeout

\* ... and age > paymentTimeoutMs, the test of commitJackpot.
TooLate(p) == payment[p].age > Timeout

Older(age) == IF age > Timeout THEN age ELSE age + 1

\* A slip: a retry leaves retryCount alone.
RetryNotCounted(n) == n

OneMoreRetry(n) == IF n > MaxRetries THEN n ELSE n + 1

\* The tier goes back to its seed; what the pool lacks of it the operator puts up.
ResetToSeed(t) ==
  /\ pool' = [pool EXCEPT ![t] = Seed[t]]
  /\ funding' = [funding EXCEPT ![t] =
                   IF Seed[t] > pool[t] THEN @ + (Seed[t] - pool[t]) ELSE @]

-----------------------------------------------------------------------------

Init ==
  /\ pool = InitialPool
  /\ payment = [p \in Payments |-> NoPayment]
  /\ commits = [p \in Payments |-> 0]
  /\ rollbacks = [p \in Payments |-> 0]
  /\ contributions = 0
  /\ funding = InitialPool

Tick ==
  /\ payment' = [p \in Payments |->
                   [payment[p] EXCEPT !.age = IF p \in Begun THEN Older(@) ELSE @]]
  /\ UNCHANGED <<pool, commits, rollbacks, contributions, funding>>

Contribute(wager) ==
  /\ contributions < MaxContributions
  /\ contributions' = contributions + 1
  /\ pool' = [t \in Tiers |-> Capped(t, pool[t] + wager * Rate[t])]
  /\ funding' = [t \in Tiers |-> funding[t] + wager * Rate[t]]
  /\ UNCHANGED <<payment, commits, rollbacks>>

\* A slip: the win does not empty the pool.
BeginWithoutReserving(p, t) ==
  /\ p \notin Begun
  /\ \A q \in 1 .. p - 1 : q \in Begun
  /\ pool[t] > 0
  /\ payment' = [payment EXCEPT ![p] =
                   [status |-> "pending", tier |-> t, amount |-> pool[t],
                    age |-> 0, retryCount |-> 0]]
  /\ UNCHANGED <<pool, commits, rollbacks, contributions, funding>>

\* p is the payment's fresh id; an empty pool reserves nothing.
BeginJackpot(p, t) ==
  /\ p \notin Begun
  /\ \A q \in 1 .. p - 1 : q \in Begun
  /\ pool[t] > 0
  /\ pool' = [pool EXCEPT ![t] = 0]
  /\ payment' = [payment EXCEPT ![p] =
                   [status |-> "pending", tier |-> t, amount |-> pool[t],
                    age |-> 0, retryCount |-> 0]]
  /\ UNCHANGED <<commits, rollbacks, contributions, funding>>

\* The age is tested before the status, and the reserved pool stays at 0.
CommitTooLate(p) ==
  /\ p \in Begun
  /\ TooLate(p)
  /\ payment' = [payment EXCEPT ![p].status = "failed"]
  /\ UNCHANGED <<pool, commits, rollbacks, contributions, funding>>

\* A slip: the status is not written.
CommitWithoutStatus(p) ==
  /\ ~TooLate(p)
  /\ Pending(p)
  /\ ResetToSeed(payment[p].tier)
  /\ commits' = [commits EXCEPT ![p] = @ + 1]
  /\ UNCHANGED <<payment, rollbacks, contributions>>

CommitInTime(p) ==
  /\ ~TooLate(p)
  /\ Pending(p)
  /\ ResetToSeed(payment[p].tier)
  /\ payment' = [payment EXCEPT ![p].status = "committed"]
  /\ commits' = [commits EXCEPT ![p] = @ + 1]
  /\ UNCHANGED <<rollbacks, contributions>>

CommitJackpot(p) == CommitTooLate(p) \/ CommitInTime(p)


\* What a rollback leaves in the pool: the amount, whatever the pool holds by now.
Restored(p) == payment[p].amount

RollbackJackpot(p) ==
  /\ Pending(p)
  /\ pool' = [pool EXCEPT ![payment[p].tier] = Restored(p)]
  /\ payment' = [payment EXCEPT ![p].status = "rolled_back"]
  /\ rollbacks' = [rollbacks EXCEPT ![p] = @ + 1]
  /\ UNCHANGED <<commits, contributions, funding>>

\* Neither branch looks at the status.
RetryExhausted(p) ==
  /\ p \in Begun
  /\ payment[p].retryCount >= MaxRetries
  /\ payment' = [payment EXCEPT ![p] =
                   [payment[p] EXCEPT !.status = "failed",
                                      !.retryCount = OneMoreRetry(@)]]
  /\ ResetToSeed(payment[p].tier)
  /\ UNCHANGED <<commits, rollbacks, contributions>>

RetryAgain(p) ==
  /\ p \in Begun
  /\ payment[p].retryCount < MaxRetries
  /\ payment' = [payment EXCEPT ![p] =
                   [payment[p] EXCEPT !.status = "pending", !.age = 0,
                                      !.retryCount = OneMoreRetry(@)]]
  /\ UNCHANGED <<pool, commits, rollbacks, contributions, funding>>

RetryJackpot(p) == RetryExhausted(p) \/ RetryAgain(p)

ExpiredIn(t) == {p \in Payments : Sweepable(p) /\ payment[p].tier = t}

\* One call rolls back every payment that has timed out, oldest first: of two
\* payments of one tier, the younger one's amount is what the pool ends with.
ExpireTimedOut ==
  LET expired == {p \in Payments : Sweepable(p)}
  IN  /\ expired # {}
      /\ pool' = [t \in Tiers |->
                    IF ExpiredIn(t) = {} THEN pool[t]
                    ELSE Restored(Max(ExpiredIn(t)))]
      /\ payment' = [p \in Payments |->
                       IF p \in expired
                       THEN [payment[p] EXCEPT !.status = "rolled_back"]
                       ELSE payment[p]]
      /\ rollbacks' = [p \in Payments |->
                         IF p \in expired THEN rollbacks[p] + 1 ELSE rollbacks[p]]
      /\ UNCHANGED <<commits, contributions, funding>>

Next ==
  \/ Tick
  \/ \E w \in Wagers : Contribute(w)
  \/ \E p \in Payments, t \in Tiers : BeginJackpot(p, t)
  \/ \E p \in Payments : CommitJackpot(p) \/ RollbackJackpot(p) \/ RetryJackpot(p)
  \/ ExpireTimedOut

\* Any caller: the methods in any order, repeated at will.
Spec == Init /\ [][Next]_vars

(***************************************************************************)
(* A careful caller: it answers a payment once, so it commits only what is *)
(* still pending, and retries only what is neither committed nor rolled    *)
(* back.  The manager's own guards are weaker than this.                   *)
(***************************************************************************)
CarefulRetry(p) ==
  /\ payment[p].status \in {"pending", "failed"}
  /\ RetryJackpot(p)

CarefulNext ==
  \/ Tick
  \/ \E w \in Wagers : Contribute(w)
  \/ \E p \in Payments, t \in Tiers : BeginJackpot(p, t)
  \/ \E p \in Payments :
       \/ Pending(p) /\ CommitJackpot(p)
       \/ RollbackJackpot(p)
       \/ CarefulRetry(p)
  \/ ExpireTimedOut

CarefulSpec == Init /\ [][CarefulNext]_vars

\* Time passes and the host calls expireTimedOut again and again.
CarefulFairSpec == CarefulSpec /\ WF_vars(Tick) /\ WF_vars(ExpireTimedOut)

-----------------------------------------------------------------------------

\* Every variable has its type, in whatever order the methods are called.
TypeOK ==
  /\ pool \in [Tiers -> Nat]
  /\ payment \in [Payments -> Payment]
  /\ commits \in [Payments -> Nat]
  /\ rollbacks \in [Payments -> Nat]
  /\ contributions \in 0 .. MaxContributions
  /\ funding \in [Tiers -> Nat]

\* A payment is settled (committed or rolled back) at most once for its begin
\* and once for each retry that was counted, and a payment still pending has
\* one such settlement left; once the retries are used up it can never be
\* settled again.  Begin, commit, rollback, retry and the sweep, in any order
\* and repeated at will, cannot pay a payment without limit.
Authorised(p) ==
  /\ commits[p] + rollbacks[p] + (IF Pending(p) THEN 1 ELSE 0)
        <= 1 + payment[p].retryCount
  /\ commits[p] + rollbacks[p] <= 1 + MaxRetries
  /\ payment[p].retryCount > MaxRetries => payment[p].status = "failed"

SettlementsAuthorised == \A p \in Payments : Authorised(p)

\* What a must-hit-by tier may hold at most: its cap, unless the configuration
\* starts it or seeds it above the cap, which the constructor accepts.
Ceiling(t) ==
  IF Cap[t] >= Seed[t]
  THEN IF Cap[t] >= InitialPool[t] THEN Cap[t] ELSE InitialPool[t]
  ELSE IF Seed[t] >= InitialPool[t] THEN Seed[t] ELSE InitialPool[t]

\* A capped tier never holds, and no payment of it ever reserves, more than the
\* tier's ceiling: no order of contributions, reservations, rollbacks and
\* resets carries a must-hit-by meter past the published maximum.
PoolWithinCeiling ==
  \A t \in Tiers : Cap[t] # NoCap =>
    /\ pool[t] <= Ceiling(t)
    /\ \A p \in Begun : payment[p].tier = t => payment[p].amount <= Ceiling(t)

-----------------------------------------------------------------------------
(* What holds for the careful caller. *)

Promised(p) ==
  CASE payment[p].status = "none" -> "none"
    [] payment[p].status = "committed" -> "paid"
    [] payment[p].status = "rolled_back" -> "returned"
    [] OTHER -> IF payment[p].retryCount > MaxRetries THEN "forfeited" ELSE "owed"

Payout == INSTANCE JackpotPayout WITH
            promise <- [p \in Payments |-> Promised(p)],
            timesPaid <- commits

\* The manager keeps the promise of JackpotPayout: each jackpot that was begun
\* is paid once, returned once, or forfeited, and never two of these.
ImplementsPayout == Payout!Spec

Reserved(t) ==
  SumOver([p \in Payments |-> payment[p].amount],
          {p \in Payments : payment[p].tier = t /\ Promised(p) = "owed"})

PaidOut(t) ==
  SumOver([p \in Payments |-> payment[p].amount * commits[p]],
          {p \in Payments : payment[p].tier = t})

\* What a tier has paid out, what is reserved for payments that may still be
\* paid, and what is in the pool never exceed what came into the tier: its
\* initial value, the contributions, and what the operator put up for seeds.
\* Overlapping reservations of one tier cannot pay the same unit twice.
PayoutsFunded ==
  \A t \in Tiers : PaidOut(t) + Reserved(t) + pool[t] <= funding[t]

\* Under a host that keeps sweeping, no payment stays pending forever, even
\* though each retry restarts its clock.
ReservationsEnd == \A p \in Payments : Pending(p) ~> ~Pending(p)

=============================================================================
