------------------------ MODULE JackpotManagerProofs ------------------------
(***************************************************************************)
(* Proofs about JackpotManager for every configuration: any number of      *)
(* tiers, payments, retries and clock ticks, with or without caps.         *)
(***************************************************************************)
EXTENDS JackpotManager, SumFacts, WellFoundedInduction, TLAPS

\* The last of some payments exists: the sweep is well defined.
LEMMA LastPayment ==
  ASSUME NEW P \in SUBSET Payments, P # {}
  PROVE  Max(P) \in P
<1> DEFINE R == OpToRel(<, Nat)
           distances == {MaxPayments - p : p \in P}
<1> USE ConfigAssumption DEF ConfigAssumption, Payments
<1>1. distances \subseteq Nat /\ distances # {}
  <2>1. \A p \in P : p \in Int /\ p <= MaxPayments
    OBVIOUS
  <2>2. \A p \in P : MaxPayments - p \in Nat
    BY <2>1
  <2>3. \E p \in P : MaxPayments - p \in distances
    OBVIOUS
  <2>4. \A d \in distances : \E p \in P : d = MaxPayments - p
    OBVIOUS
  <2> HIDE DEF distances
  <2>5. QED
    BY <2>2, <2>3, <2>4
<1>2. \E d \in distances : \A e \in distances : ~(<<e, d>> \in R)
  <2> HIDE DEF distances
  <2> QED
    BY <1>1, WFMin, NatLessThanWellFounded
<1>3. \A d, e \in Nat : e < d => <<e, d>> \in R
  BY DEF OpToRel
<1>4. PICK d \in distances : \A e \in distances : ~(e < d)
  <2> HIDE DEF R
  <2> QED
    BY <1>1, <1>2, <1>3
<1>5. PICK p \in P : d = MaxPayments - p
  OBVIOUS
<1>6. ASSUME NEW q \in P
      PROVE  p >= q
  <2>1. p \in Int /\ q \in Int
    OBVIOUS
  <2>2. MaxPayments - q \in distances
    OBVIOUS
  <2>3. ~(MaxPayments - q < MaxPayments - p)
    BY <1>4, <1>5, <2>2
  <2>4. QED
    BY <2>1, <2>3
<1>7. QED
  BY <1>6 DEF Max

\* Each variable keeps its type, whatever methods the caller calls.
THEOREM TypeCorrect == Spec => []TypeOK
<1> USE ConfigAssumption DEF ConfigAssumption
<1>1. NoPayment \in Payment
  BY DEF NoPayment, Payment, Statuses
<1>2. Init => TypeOK
  BY <1>1 DEF Init, TypeOK
<1>3. TypeOK /\ [Next]_vars => TypeOK'
  <2> SUFFICES ASSUME TypeOK, [Next]_vars
               PROVE  TypeOK'
    OBVIOUS
  <2> USE DEF TypeOK, Payment, Statuses
  <2>1. CASE Tick
    <3>1. ASSUME NEW p \in Payments
          PROVE  payment'[p] \in Payment
      <4>1. payment[p] \in Payment
        OBVIOUS
      <4>2. Older(payment[p].age) \in 0 .. Timeout + 1
        BY <4>1 DEF Older
      <4>3. payment'[p] = [payment[p] EXCEPT !.age = IF p \in Begun THEN Older(@) ELSE @]
        BY <2>1 DEF Tick
      <4>4. QED
        BY <4>1, <4>2, <4>3
    <3>2. payment' \in [Payments -> Payment]
      BY <2>1, <3>1 DEF Tick
    <3>3. QED
      BY <2>1, <3>2 DEF Tick
  <2>2. ASSUME NEW w \in Wagers, Contribute(w)
        PROVE  TypeOK'
    <3>1. \A t \in Tiers : pool[t] + w * Rate[t] \in Nat /\ funding[t] + w * Rate[t] \in Nat
      <4>1. w \in Nat /\ \A t \in Tiers : Rate[t] \in Nat /\ pool[t] \in Nat /\ funding[t] \in Nat
        OBVIOUS
      <4>2. \A m, n \in Nat : m * n \in Nat
        BY Z3
      <4>3. \A t \in Tiers : w * Rate[t] \in Nat
        BY <4>1, <4>2
      <4>4. QED
        BY <4>1, <4>3
    <3>2. \A t \in Tiers, n \in Nat : Capped(t, n) \in Nat
      BY DEF Capped
    <3>3. pool' \in [Tiers -> Nat] /\ funding' \in [Tiers -> Nat]
      BY <2>2, <3>1, <3>2 DEF Contribute
    <3>4. QED
      BY <2>2, <3>3 DEF Contribute
  <2>3. ASSUME NEW p \in Payments, NEW t \in Tiers, BeginJackpot(p, t)
        PROVE  TypeOK'
    BY <2>3 DEF BeginJackpot
  <2>4. ASSUME NEW p \in Payments, CommitTooLate(p)
        PROVE  TypeOK'
    BY <2>4 DEF CommitTooLate
  <2>5. ASSUME NEW p \in Payments, CommitInTime(p)
        PROVE  TypeOK'
    BY <2>5 DEF CommitInTime, ResetToSeed
  <2>6. ASSUME NEW p \in Payments, RollbackJackpot(p)
        PROVE  TypeOK'
    BY <2>6 DEF RollbackJackpot, Restored
  <2>7. ASSUME NEW p \in Payments, RetryExhausted(p)
        PROVE  TypeOK'
    <3>1. payment[p] \in Payment /\ payment[p].tier \in Tiers
      OBVIOUS
    <3>2. OneMoreRetry(payment[p].retryCount) \in 0 .. MaxRetries + 1
      BY <3>1 DEF OneMoreRetry
    <3>3. payment' \in [Payments -> Payment]
      BY <2>7, <3>1, <3>2 DEF RetryExhausted
    <3>4. pool' \in [Tiers -> Nat] /\ funding' \in [Tiers -> Nat]
      BY <2>7, <3>1 DEF RetryExhausted, ResetToSeed
    <3>5. QED
      BY <2>7, <3>3, <3>4 DEF RetryExhausted
  <2>8. ASSUME NEW p \in Payments, RetryAgain(p)
        PROVE  TypeOK'
    <3>1. payment[p] \in Payment
      OBVIOUS
    <3>2. OneMoreRetry(payment[p].retryCount) \in 0 .. MaxRetries + 1
      BY <3>1 DEF OneMoreRetry
    <3>3. [payment[p] EXCEPT !.status = "pending", !.age = 0,
                             !.retryCount = OneMoreRetry(@)] \in Payment
      <4>1. 0 \in 0 .. Timeout + 1 /\ "pending" \in Statuses
        OBVIOUS
      <4>2. [payment[p] EXCEPT !.age = 0] \in Payment
        BY <3>1, <4>1
      <4>3. QED
        BY <3>1, <3>2, <4>1
    <3>5. payment' \in [Payments -> Payment]
      BY <2>8, <3>3 DEF RetryAgain
    <3>4. QED
      BY <2>8, <3>5 DEF RetryAgain
  <2>9. CASE ExpireTimedOut
    <3>1. \A t \in Tiers : ExpiredIn(t) # {} => payment[Max(ExpiredIn(t))].amount \in Nat
      <4>1. \A t \in Tiers : ExpiredIn(t) \in SUBSET Payments
        BY DEF ExpiredIn
      <4>2. \A t \in Tiers : ExpiredIn(t) # {} => Max(ExpiredIn(t)) \in Payments
        BY <4>1, LastPayment
      <4>3. QED
        BY <4>2
    <3>2. pool' \in [Tiers -> Nat]
      BY <2>9, <3>1 DEF ExpireTimedOut, Restored
    <3>3. payment' \in [Payments -> Payment] /\ rollbacks' \in [Payments -> Nat]
      BY <2>9 DEF ExpireTimedOut
    <3>4. QED
      BY <2>9, <3>2, <3>3 DEF ExpireTimedOut
  <2>10. CASE UNCHANGED vars
    BY <2>10 DEF vars
  <2> HIDE DEF TypeOK, Payment, Statuses
  <2>11. CASE \E p \in Payments : CommitJackpot(p) \/ RollbackJackpot(p) \/ RetryJackpot(p)
    BY <2>4, <2>5, <2>6, <2>7, <2>8, <2>11, Zenon DEF CommitJackpot, RetryJackpot
  <2>12. CASE \E p \in Payments, t \in Tiers : BeginJackpot(p, t)
    BY <2>3, <2>12, Zenon
  <2>13. CASE \E w \in Wagers : Contribute(w)
    BY <2>2, <2>13, Zenon
  <2>14. QED
    BY <2>1, <2>9, <2>10, <2>11, <2>12, <2>13, Zenon DEF Next
<1>4. QED
  BY <1>2, <1>3, PTL DEF Spec

\* A payment that was not begun has been neither paid nor given back.
Unsettled(p) ==
  payment[p].status = "none" => commits[p] = 0 /\ rollbacks[p] = 0

AuthorisedInv == \A p \in Payments : Authorised(p) /\ Unsettled(p)

\* No order of calls settles a payment more often than its begin and its
\* counted retries allow.  A retry spends one unit of retryCount to make the
\* payment pending again, and each settlement ends the pending state it needs;
\* AuthorisedInv adds the case of begin, which grants the first settlement to a
\* payment that has had none.
THEOREM SettlementsAreAuthorised == Spec => []SettlementsAuthorised
<1> USE ConfigAssumption DEF ConfigAssumption
<1>1. Init => AuthorisedInv
  BY DEF Init, AuthorisedInv, Authorised, Unsettled, NoPayment, Pending
<1>2. TypeOK /\ AuthorisedInv /\ [Next]_vars => AuthorisedInv'
  <2> SUFFICES ASSUME TypeOK, AuthorisedInv, [Next]_vars,
                      NEW q \in Payments
               PROVE  Authorised(q)' /\ Unsettled(q)'
    BY DEF AuthorisedInv
  <2>0. /\ Authorised(q) /\ Unsettled(q)
        /\ commits[q] \in Nat /\ rollbacks[q] \in Nat
        /\ payment[q] \in Payment
        /\ payment[q].retryCount \in Nat
    BY DEF AuthorisedInv, TypeOK, Payment
  <2> USE DEF Pending, Authorised, Unsettled
  <2>1. CASE Tick
    <3>1. /\ payment'[q].status = payment[q].status
          /\ payment'[q].retryCount = payment[q].retryCount
      BY <2>0, <2>1 DEF Tick, Payment
    <3>2. QED
      BY <2>0, <2>1, <3>1 DEF Tick
  <2>2. CASE \E w \in Wagers : Contribute(w)
    BY <2>0, <2>2 DEF Contribute
  <2>3. ASSUME NEW p \in Payments, NEW t \in Tiers, BeginJackpot(p, t)
        PROVE  Authorised(q)' /\ Unsettled(q)'
    BY <2>0, <2>3 DEF BeginJackpot, TypeOK, Begun
  <2>4. ASSUME NEW p \in Payments, CommitTooLate(p)
        PROVE  Authorised(q)' /\ Unsettled(q)'
    BY <2>0, <2>4 DEF CommitTooLate, TypeOK, Payment
  <2>5. ASSUME NEW p \in Payments, CommitInTime(p)
        PROVE  Authorised(q)' /\ Unsettled(q)'
    BY <2>0, <2>5 DEF CommitInTime, TypeOK, Payment
  <2>6. ASSUME NEW p \in Payments, RollbackJackpot(p)
        PROVE  Authorised(q)' /\ Unsettled(q)'
    BY <2>0, <2>6 DEF RollbackJackpot, TypeOK, Payment
  <2>7. ASSUME NEW p \in Payments, RetryExhausted(p)
        PROVE  Authorised(q)' /\ Unsettled(q)'
    <3>1. CASE p = q
      <4>1. /\ payment'[q].status = "failed"
            /\ payment'[q].retryCount = OneMoreRetry(payment[q].retryCount)
        BY <2>0, <2>7, <3>1 DEF RetryExhausted, TypeOK
      <4>2. QED
        BY <2>0, <2>7, <3>1, <4>1 DEF RetryExhausted, OneMoreRetry
    <3>2. CASE p # q
      BY <2>0, <2>7, <3>2 DEF RetryExhausted, TypeOK
    <3>3. QED
      BY <3>1, <3>2
  <2>8. ASSUME NEW p \in Payments, RetryAgain(p)
        PROVE  Authorised(q)' /\ Unsettled(q)'
    <3>1. CASE p = q
      <4>1. /\ payment'[q].status = "pending"
            /\ payment'[q].retryCount = OneMoreRetry(payment[q].retryCount)
        BY <2>0, <2>8, <3>1 DEF RetryAgain, TypeOK
      <4>2. QED
        BY <2>0, <2>8, <3>1, <4>1 DEF RetryAgain, OneMoreRetry
    <3>2. CASE p # q
      BY <2>0, <2>8, <3>2 DEF RetryAgain, TypeOK
    <3>3. QED
      BY <3>1, <3>2
  <2>9. CASE ExpireTimedOut
    BY <2>0, <2>9 DEF ExpireTimedOut, Sweepable, TypeOK, Payment
  <2>10. CASE UNCHANGED vars
    BY <2>0, <2>10 DEF vars
  <2>11. CASE \E p \in Payments : CommitJackpot(p) \/ RollbackJackpot(p) \/ RetryJackpot(p)
    BY <2>4, <2>5, <2>6, <2>7, <2>8, <2>11, Zenon DEF CommitJackpot, RetryJackpot
  <2>12. CASE \E p \in Payments, t \in Tiers : BeginJackpot(p, t)
    BY <2>3, <2>12, Zenon
  <2>13. QED
    BY <2>1, <2>2, <2>9, <2>10, <2>11, <2>12, Zenon DEF Next
<1>3. AuthorisedInv => SettlementsAuthorised
  BY DEF AuthorisedInv, SettlementsAuthorised
<1>4. QED
  BY <1>1, <1>2, <1>3, TypeCorrect, PTL DEF Spec

\* What a ceiling bounds, for one tier.
LEMMA CeilingBounds ==
  ASSUME NEW t \in Tiers, Cap[t] # NoCap
  PROVE  /\ Ceiling(t) \in Nat
         /\ Cap[t] <= Ceiling(t)
         /\ Seed[t] <= Ceiling(t)
         /\ InitialPool[t] <= Ceiling(t)
<1> USE ConfigAssumption DEF ConfigAssumption
<1>1. Cap[t] \in Nat /\ Seed[t] \in Nat /\ InitialPool[t] \in Nat
  OBVIOUS
<1>2. QED
  BY <1>1 DEF Ceiling

\* No order of calls carries a must-hit-by tier past its ceiling.  The invariant
\* is inductive as it stands because it bounds the reserved amounts along with
\* the pools: a rollback or a sweep puts back nothing but a reserved amount.
THEOREM PoolStaysWithinCeiling == Spec => []PoolWithinCeiling
<1> USE ConfigAssumption DEF ConfigAssumption
<1>1. Init => PoolWithinCeiling
  BY CeilingBounds DEF Init, PoolWithinCeiling, Begun, NoPayment
<1>2. TypeOK /\ PoolWithinCeiling /\ [Next]_vars => PoolWithinCeiling'
  <2> SUFFICES ASSUME TypeOK, PoolWithinCeiling, [Next]_vars,
                      NEW t \in Tiers, Cap[t] # NoCap
               PROVE  /\ pool'[t] <= Ceiling(t)
                      /\ \A q \in Payments :
                           payment'[q].status # "none" /\ payment'[q].tier = t
                             => payment'[q].amount <= Ceiling(t)
    BY DEF PoolWithinCeiling, Begun, Ceiling
  <2> DEFINE Bounded(P) == \A q \in Payments :
                 P[q].status # "none" /\ P[q].tier = t => P[q].amount <= Ceiling(t)
  <2>0. /\ pool[t] <= Ceiling(t)
        /\ Bounded(payment)
        /\ pool \in [Tiers -> Nat]
        /\ payment \in [Payments -> Payment]
        /\ Seed[t] <= Ceiling(t) /\ Cap[t] <= Ceiling(t)
        /\ Ceiling(t) \in Nat
    BY CeilingBounds DEF PoolWithinCeiling, TypeOK, Begun
  <2>1. CASE Tick
    <3>1. \A q \in Payments : /\ payment'[q].status = payment[q].status
                              /\ payment'[q].tier = payment[q].tier
                              /\ payment'[q].amount = payment[q].amount
      BY <2>0, <2>1 DEF Tick, Payment
    <3>2. QED
      BY <2>0, <2>1, <3>1 DEF Tick
  <2>2. ASSUME NEW w \in Wagers, Contribute(w)
        PROVE  pool'[t] <= Ceiling(t) /\ Bounded(payment')
    <3>1. w * Rate[t] \in Nat
      <4>1. w \in Nat /\ Rate[t] \in Nat
        OBVIOUS
      <4>2. \A m, n \in Nat : m * n \in Nat
        BY Z3
      <4>3. QED
        BY <4>1, <4>2
    <3>2. pool'[t] <= Cap[t]
      BY <2>0, <2>2, <3>1 DEF Contribute, Capped
    <3>3. pool'[t] \in Nat
      BY <2>0, <2>2, <3>1 DEF Contribute, Capped
    <3>4. QED
      BY <2>0, <2>2, <3>2, <3>3 DEF Contribute
  <2>3. ASSUME NEW p \in Payments, NEW u \in Tiers, BeginJackpot(p, u)
        PROVE  pool'[t] <= Ceiling(t) /\ Bounded(payment')
    <3>1. pool'[t] <= Ceiling(t)
      BY <2>0, <2>3 DEF BeginJackpot
    <3>2. Bounded(payment')
      BY <2>0, <2>3 DEF BeginJackpot
    <3>3. QED
      BY <3>1, <3>2
  <2>4. ASSUME NEW p \in Payments, CommitTooLate(p)
        PROVE  pool'[t] <= Ceiling(t) /\ Bounded(payment')
    BY <2>0, <2>4 DEF CommitTooLate, Begun, Payment
  <2>5. ASSUME NEW p \in Payments, CommitInTime(p)
        PROVE  pool'[t] <= Ceiling(t) /\ Bounded(payment')
    BY <2>0, <2>5 DEF CommitInTime, ResetToSeed, Pending, Payment
  <2>6. ASSUME NEW p \in Payments, RollbackJackpot(p)
        PROVE  pool'[t] <= Ceiling(t) /\ Bounded(payment')
    BY <2>0, <2>6 DEF RollbackJackpot, Restored, Pending, Payment
  <2>7. ASSUME NEW p \in Payments, RetryExhausted(p)
        PROVE  pool'[t] <= Ceiling(t) /\ Bounded(payment')
    BY <2>0, <2>7 DEF RetryExhausted, ResetToSeed, Begun, Payment
  <2>8. ASSUME NEW p \in Payments, RetryAgain(p)
        PROVE  pool'[t] <= Ceiling(t) /\ Bounded(payment')
    <3>1. ASSUME NEW q \in Payments
          PROVE  /\ payment'[q].tier = payment[q].tier
                 /\ payment'[q].amount = payment[q].amount
                 /\ payment'[q].status # "none" => payment[q].status # "none"
      <4>1. CASE q = p
        BY <2>0, <2>8, <4>1 DEF RetryAgain, Begun, Payment
      <4>2. CASE q # p
        BY <2>0, <2>8, <4>2 DEF RetryAgain
      <4>3. QED
        BY <4>1, <4>2
    <3>2. QED
      BY <2>0, <2>8, <3>1 DEF RetryAgain
  <2>9. CASE ExpireTimedOut
    <3>1. ASSUME ExpiredIn(t) # {}
          PROVE  payment[Max(ExpiredIn(t))].amount <= Ceiling(t)
      <4>1. Max(ExpiredIn(t)) \in ExpiredIn(t)
        BY <3>1, LastPayment DEF ExpiredIn
      <4>2. QED
        BY <2>0, <4>1 DEF ExpiredIn, Sweepable, Pending
    <3>2. pool'[t] <= Ceiling(t)
      BY <2>0, <2>9, <3>1 DEF ExpireTimedOut, Restored
    <3>3. Bounded(payment')
      BY <2>0, <2>9 DEF ExpireTimedOut, Sweepable, Pending, Payment
    <3>4. QED
      BY <3>2, <3>3
  <2>10. CASE UNCHANGED vars
    BY <2>0, <2>10 DEF vars
  <2> HIDE DEF Bounded
  <2>11. CASE \E p \in Payments : CommitJackpot(p) \/ RollbackJackpot(p) \/ RetryJackpot(p)
    <3>1. pool'[t] <= Ceiling(t) /\ Bounded(payment')
      BY <2>4, <2>5, <2>6, <2>7, <2>8, <2>11, Zenon DEF CommitJackpot, RetryJackpot
    <3>2. QED
      BY <3>1 DEF Bounded
  <2>12. CASE \E p \in Payments, u \in Tiers : BeginJackpot(p, u)
    <3>1. pool'[t] <= Ceiling(t) /\ Bounded(payment')
      BY <2>3, <2>12, Zenon
    <3>2. QED
      BY <3>1 DEF Bounded
  <2>13. CASE \E w \in Wagers : Contribute(w)
    <3>1. pool'[t] <= Ceiling(t) /\ Bounded(payment')
      BY <2>2, <2>13, Zenon
    <3>2. QED
      BY <3>1 DEF Bounded
  <2>14. QED
    BY <2>1, <2>9, <2>10, <2>11, <2>12, <2>13, Zenon DEF Next
<1>3. QED
  BY <1>1, <1>2, TypeCorrect, PTL DEF Spec

-----------------------------------------------------------------------------
(* The careful caller gets what JackpotPayout promises. *)

\* Under the careful caller a payment has been paid exactly when its status
\* says so, and one whose retries are used up has failed.
Honest(p) ==
  /\ commits[p] = IF payment[p].status = "committed" THEN 1 ELSE 0
  /\ payment[p].retryCount > MaxRetries => payment[p].status = "failed"

CarefulInv == \A p \in Payments : Honest(p)

\* What the careful caller does, any caller may do.
LEMMA CarefulStepIsStep == CarefulNext => Next
<1> SUFFICES ASSUME CarefulNext PROVE Next
  OBVIOUS
<1>1. CASE Tick \/ (\E w \in Wagers : Contribute(w)) \/ ExpireTimedOut
  BY <1>1, Zenon DEF Next
<1>2. CASE \E p \in Payments, t \in Tiers : BeginJackpot(p, t)
  BY <1>2, Zenon DEF Next
<1>3. CASE \E p \in Payments : (Pending(p) /\ CommitJackpot(p)) \/ RollbackJackpot(p) \/ CarefulRetry(p)
  BY <1>3, Zenon DEF Next, CarefulRetry
<1>4. QED
  BY <1>1, <1>2, <1>3, Zenon DEF CarefulNext

\* The types hold for the careful caller too.
LEMMA CarefulTypeCorrect == CarefulSpec => []TypeOK
<1>1. Init /\ [][CarefulNext]_vars => Init /\ [][Next]_vars
  BY CarefulStepIsStep, PTL
<1>2. QED
  BY <1>1, TypeCorrect DEF CarefulSpec, Spec

\* A step that leaves the status, the retry count and the commits of every
\* payment alone is invisible to JackpotPayout.
LEMMA UnseenStep ==
  ASSUME commits' = commits,
         \A q \in Payments : /\ payment'[q].status = payment[q].status
                             /\ payment'[q].retryCount = payment[q].retryCount
  PROVE  UNCHANGED Payout!pvars
<1>1. \A q \in Payments : Promised(q)' = Promised(q)
  BY DEF Promised
<1>2. QED
  BY <1>1 DEF Payout!pvars

\* A step that settles the payments P and touches no other is a Return of P.
LEMMA ReturnStep ==
  ASSUME TypeOK, CarefulInv,
         NEW P \in SUBSET Payments,
         \A q \in P : Pending(q) /\ payment'[q].status = "rolled_back",
         \A q \in Payments \ P : payment'[q] = payment[q],
         commits' = commits
  PROVE  Payout!Return(P)
<1>1. \A q \in P : Promised(q) = "owed"
  BY DEF Promised, Pending, CarefulInv, Honest
<1>2. \A q \in Payments : Promised(q)' = IF q \in P THEN "returned" ELSE Promised(q)
  BY DEF Promised
<1>3. QED
  BY <1>1, <1>2 DEF Payout!Return

\* Each step of the careful caller is one step of JackpotPayout, or none, and
\* leaves what was paid as the statuses say.  CarefulInv is what the simulation
\* needs: an owed jackpot has not been paid, and a pending one still has a retry
\* or its first settlement left.
LEMMA SimulatedStep ==
  TypeOK /\ CarefulInv /\ [CarefulNext]_vars
    => CarefulInv' /\ [Payout!Next]_(Payout!pvars)
<1> SUFFICES ASSUME TypeOK, CarefulInv, [CarefulNext]_vars
             PROVE  CarefulInv' /\ (Payout!Next \/ UNCHANGED Payout!pvars)
  OBVIOUS
<1> USE ConfigAssumption DEF ConfigAssumption
<1> DEFINE Simulated == CarefulInv' /\ (Payout!Next \/ UNCHANGED Payout!pvars)
<1>0. /\ payment \in [Payments -> Payment]
      /\ commits \in [Payments -> Nat]
      /\ \A q \in Payments : Honest(q) /\ payment[q].retryCount \in Nat
  BY DEF TypeOK, CarefulInv, Payment
<1>1. CASE Tick
  <2>1. \A q \in Payments : /\ payment'[q].status = payment[q].status
                            /\ payment'[q].retryCount = payment[q].retryCount
    BY <1>0, <1>1 DEF Tick, Payment
  <2>2. CarefulInv'
    BY <1>0, <1>1, <2>1 DEF Tick, CarefulInv, Honest
  <2>3. QED
    BY <1>1, <2>1, <2>2, UnseenStep DEF Tick
<1>2. CASE \E w \in Wagers : Contribute(w)
  <2>1. payment' = payment /\ commits' = commits
    BY <1>2 DEF Contribute
  <2>2. CarefulInv'
    BY <1>0, <2>1 DEF CarefulInv, Honest
  <2>3. QED
    BY <2>1, <2>2, UnseenStep
<1>3. ASSUME NEW p \in Payments, NEW t \in Tiers, BeginJackpot(p, t)
      PROVE  Simulated
  <2>1. /\ payment[p].status = "none"
        /\ payment'[p].status = "pending" /\ payment'[p].retryCount = 0
        /\ \A q \in Payments \ {p} : payment'[q] = payment[q]
        /\ commits' = commits
    BY <1>0, <1>3 DEF BeginJackpot, Begun
  <2>2. CarefulInv'
    BY <1>0, <2>1 DEF CarefulInv, Honest
  <2>3. Promised(p) = "none" /\ Promised(p)' = "owed"
    BY <2>1 DEF Promised
  <2>4. \A q \in Payments \ {p} : Promised(q)' = Promised(q)
    BY <2>1 DEF Promised
  <2>5. Payout!Owe(p)
    BY <2>1, <2>3, <2>4 DEF Payout!Owe
  <2>6. QED
    BY <2>2, <2>5 DEF Payout!Next
<1>4. ASSUME NEW p \in Payments, Pending(p), CommitTooLate(p)
      PROVE  Simulated
  <2>1. /\ payment'[p].status = "failed"
        /\ payment'[p].retryCount = payment[p].retryCount
        /\ \A q \in Payments \ {p} : payment'[q] = payment[q]
        /\ commits' = commits
    BY <1>0, <1>4 DEF CommitTooLate, Payment
  <2>2. CarefulInv'
    BY <1>0, <1>4, <2>1 DEF CarefulInv, Honest, Pending
  <2>3. \A q \in Payments : Promised(q)' = Promised(q)
    BY <1>0, <1>4, <2>1 DEF Promised, Pending
  <2>4. QED
    BY <2>1, <2>2, <2>3 DEF Payout!pvars
<1>5. ASSUME NEW p \in Payments, CommitInTime(p)
      PROVE  Simulated
  <2>1. /\ payment[p].status = "pending"
        /\ payment'[p].status = "committed"
        /\ payment'[p].retryCount = payment[p].retryCount
        /\ \A q \in Payments \ {p} : payment'[q] = payment[q]
        /\ commits' = [commits EXCEPT ![p] = commits[p] + 1]
        /\ commits[p] = 0
        /\ ~(payment[p].retryCount > MaxRetries)
    BY <1>0, <1>5 DEF CommitInTime, Payment, Pending, Honest
  <2>2. CarefulInv'
    BY <1>0, <2>1 DEF CarefulInv, Honest
  <2>3. Promised(p) = "owed" /\ Promised(p)' = "paid"
    BY <2>1 DEF Promised
  <2>4. \A q \in Payments \ {p} : Promised(q)' = Promised(q)
    BY <2>1 DEF Promised
  <2>5. Payout!Pay(p)
    <3>1. commits' = [commits EXCEPT ![p] = 1]
      BY <2>1
    <3>2. [q \in Payments |-> Promised(q)]'
            = [[q \in Payments |-> Promised(q)] EXCEPT ![p] = "paid"]
      BY <2>3, <2>4
    <3>3. QED
      BY <2>3, <3>1, <3>2 DEF Payout!Pay
  <2>6. QED
    BY <2>2, <2>5 DEF Payout!Next
<1>6. ASSUME NEW p \in Payments, RollbackJackpot(p)
      PROVE  Simulated
  <2>1. /\ Pending(p)
        /\ payment'[p].status = "rolled_back"
        /\ payment'[p].retryCount = payment[p].retryCount
        /\ \A q \in Payments \ {p} : payment'[q] = payment[q]
        /\ commits' = commits
    BY <1>0, <1>6 DEF RollbackJackpot, Payment
  <2>2. CarefulInv'
    BY <1>0, <2>1 DEF CarefulInv, Honest, Pending
  <2>3. Payout!Return({p})
    BY <2>1, ReturnStep
  <2>4. QED
    BY <2>2, <2>3 DEF Payout!Next
<1>7. ASSUME NEW p \in Payments, payment[p].status \in {"pending", "failed"},
             RetryExhausted(p)
      PROVE  Simulated
  <2>1. /\ payment'[p].status = "failed"
        /\ payment'[p].retryCount = OneMoreRetry(payment[p].retryCount)
        /\ payment[p].retryCount >= MaxRetries
        /\ \A q \in Payments \ {p} : payment'[q] = payment[q]
        /\ commits' = commits
    BY <1>0, <1>7 DEF RetryExhausted
  <2>2. payment'[p].retryCount > MaxRetries
    BY <1>0, <2>1 DEF OneMoreRetry
  <2>3. CarefulInv'
    BY <1>0, <1>7, <2>1 DEF CarefulInv, Honest
  <2>4. Promised(p) \in {"owed", "forfeited"} /\ Promised(p)' = "forfeited"
    BY <1>7, <2>1, <2>2 DEF Promised
  <2>5. \A q \in Payments \ {p} : Promised(q)' = Promised(q)
    BY <2>1 DEF Promised
  <2>6. CASE Promised(p) = "owed"
    <3>1. Payout!Forfeit(p)
      BY <2>1, <2>4, <2>5, <2>6 DEF Payout!Forfeit
    <3>2. QED
      BY <2>3, <3>1 DEF Payout!Next
  <2>7. CASE Promised(p) = "forfeited"
    BY <2>1, <2>3, <2>4, <2>5, <2>7 DEF Payout!pvars
  <2>8. QED
    BY <2>4, <2>6, <2>7
<1>8. ASSUME NEW p \in Payments, payment[p].status \in {"pending", "failed"},
             RetryAgain(p)
      PROVE  Simulated
  <2>1. /\ payment'[p].status = "pending"
        /\ payment'[p].retryCount = OneMoreRetry(payment[p].retryCount)
        /\ payment[p].retryCount < MaxRetries
        /\ commits' = commits
    BY <1>0, <1>8 DEF RetryAgain
  <2>2. \A q \in Payments \ {p} : payment'[q] = payment[q]
    BY <1>0, <1>8 DEF RetryAgain
  <2>3. ~(payment'[p].retryCount > MaxRetries) /\ ~(payment[p].retryCount > MaxRetries)
    BY <1>0, <2>1 DEF OneMoreRetry
  <2>4. CarefulInv'
    BY <1>0, <1>8, <2>1, <2>2, <2>3 DEF CarefulInv, Honest
  <2>5. \A q \in Payments : Promised(q)' = Promised(q)
    BY <1>8, <2>1, <2>2, <2>3 DEF Promised
  <2>6. QED
    BY <2>1, <2>4, <2>5 DEF Payout!pvars
<1>9. CASE ExpireTimedOut
  <2> DEFINE expired == {q \in Payments : Sweepable(q)}
  <2>1. /\ \A q \in expired : /\ Pending(q) /\ payment'[q].status = "rolled_back"
                              /\ payment'[q].retryCount = payment[q].retryCount
        /\ \A q \in Payments \ expired : payment'[q] = payment[q]
        /\ commits' = commits
    BY <1>0, <1>9 DEF ExpireTimedOut, Sweepable, Payment
  <2>2. expired \in SUBSET Payments
    OBVIOUS
  <2> HIDE DEF expired
  <2>3. CarefulInv'
    BY <1>0, <2>1, <2>2 DEF CarefulInv, Honest, Pending
  <2>4. Payout!Return(expired)
    BY <2>1, <2>2, ReturnStep
  <2>5. QED
    BY <2>2, <2>3, <2>4 DEF Payout!Next
<1>10. CASE UNCHANGED vars
  <2>1. payment' = payment /\ commits' = commits
    BY <1>10 DEF vars
  <2>2. CarefulInv'
    BY <1>0, <2>1 DEF CarefulInv, Honest
  <2>3. QED
    BY <2>1, <2>2, UnseenStep
<1> HIDE DEF Simulated
<1>11. CASE \E p \in Payments :
              \/ Pending(p) /\ CommitJackpot(p)
              \/ RollbackJackpot(p)
              \/ CarefulRetry(p)
  <2>1. Simulated
    BY <1>4, <1>5, <1>6, <1>7, <1>8, <1>11, Zenon
       DEF CommitJackpot, CarefulRetry, RetryJackpot
  <2>2. QED
    BY <2>1 DEF Simulated
<1>12. CASE \E p \in Payments, t \in Tiers : BeginJackpot(p, t)
  <2>1. Simulated
    BY <1>3, <1>12, Zenon
  <2>2. QED
    BY <2>1 DEF Simulated
<1>13. QED
  BY <1>1, <1>2, <1>9, <1>10, <1>11, <1>12, Zenon DEF CarefulNext

\* Nothing has been paid or promised at first.
LEMMA CarefulInit == Init => Payout!Init /\ CarefulInv
BY ConfigAssumption
   DEF ConfigAssumption, Init, Payout!Init, NoPayment, Promised, CarefulInv, Honest

\* The statuses tell what was paid, as long as the caller is careful.
LEMMA CarefulHolds == CarefulSpec => []CarefulInv
BY CarefulInit, SimulatedStep, CarefulTypeCorrect, PTL DEF CarefulSpec

\* The manager keeps the promise of JackpotPayout to a careful caller.
THEOREM CarefulImplementsPayout == CarefulSpec => ImplementsPayout
BY CarefulInit, SimulatedStep, CarefulTypeCorrect, PTL
   DEF CarefulSpec, ImplementsPayout, Payout!Spec

-----------------------------------------------------------------------------
(* Payouts are funded. *)

\* The payments of tier t that have been paid or may still be, and their amounts.
Claimed(t) ==
  {p \in Payments : payment[p].tier = t /\ Promised(p) \in {"owed", "paid"}}

Amounts == [p \in Payments |-> payment[p].amount]

Claims(t) == SumOver(Amounts, Claimed(t))

Funded(t) == Claims(t) + pool[t] <= funding[t]

\* The payments and every subset of them are finite, and amounts are numbers.
LEMMA ClaimFacts ==
  ASSUME TypeOK
  PROVE  /\ \A P \in SUBSET Payments : IsFiniteSet(P)
         /\ \A p \in Payments : Amounts[p] \in Nat
         /\ \A t : Claimed(t) \in SUBSET Payments /\ Claims(t) \in Nat
<1>1. IsFiniteSet(Payments)
  <2>1. 1 \in Int /\ MaxPayments \in Int
    BY ConfigAssumption DEF ConfigAssumption
  <2>2. QED
    BY <2>1, FS_Interval DEF Payments
<1>2. \A P \in SUBSET Payments : IsFiniteSet(P)
  BY <1>1, FS_Subset
<1>3. \A p \in Payments : Amounts[p] \in Nat
  BY DEF TypeOK, Payment, Amounts
<1>4. ASSUME NEW t
      PROVE  Claimed(t) \in SUBSET Payments /\ Claims(t) \in Nat
  <2>1. Claimed(t) \in SUBSET Payments
    BY DEF Claimed
  <2>2. QED
    BY <1>2, <1>3, <2>1, SumType DEF Claims
<1>5. QED
  BY <1>2, <1>3, <1>4

\* What was paid and what is reserved are the claims on a tier: a payment has
\* been committed once when its status says so, and not otherwise.
LEMMA ClaimsArePaidAndReserved ==
  ASSUME TypeOK, CarefulInv, NEW t \in Tiers
  PROVE  PaidOut(t) + Reserved(t) = Claims(t)
<1> DEFINE ofTier == {p \in Payments : payment[p].tier = t}
           paid == {p \in Payments : payment[p].tier = t /\ Promised(p) = "paid"}
           owed == {p \in Payments : payment[p].tier = t /\ Promised(p) = "owed"}
           paidAmounts == [p \in Payments |-> payment[p].amount * commits[p]]
<1>1. IsFiniteSet(ofTier) /\ IsFiniteSet(paid) /\ IsFiniteSet(owed)
  BY ClaimFacts
<1>2. paid \in SUBSET ofTier /\ paid \cap owed = {} /\ Claimed(t) = paid \cup owed
  BY DEF Claimed
<1>3. \A p \in ofTier : payment[p].amount \in Nat
  BY DEF TypeOK, Payment
<1>4. ASSUME NEW p \in ofTier
      PROVE  /\ p \in paid => paidAmounts[p] = Amounts[p]
             /\ p \notin paid => paidAmounts[p] = 0
  <2>1. Promised(p) = "paid" <=> payment[p].status = "committed"
    BY DEF Promised
  <2>2. commits[p] = IF p \in paid THEN 1 ELSE 0
    BY <2>1 DEF CarefulInv, Honest
  <2>3. paidAmounts[p] = payment[p].amount * commits[p]
    OBVIOUS
  <2>4. QED
    BY <1>3, <2>2, <2>3 DEF Amounts
<1>5. \A p \in ofTier : paidAmounts[p] \in Nat
  BY <1>3, <1>4 DEF Amounts
<1>6. PaidOut(t) = SumOver(paidAmounts, ofTier) /\ Reserved(t) = SumOver(Amounts, owed)
  BY DEF PaidOut, Reserved, Amounts
<1>7. \A p \in paid \cup owed : Amounts[p] \in Nat
  BY ClaimFacts
<1> HIDE DEF ofTier, paid, owed, paidAmounts
<1>8. SumOver(paidAmounts, ofTier) = SumOver(Amounts, paid)
  BY <1>1, <1>2, <1>4, <1>5, SumSupport
<1>9. SumOver(Amounts, paid \cup owed) = SumOver(Amounts, paid) + SumOver(Amounts, owed)
  BY <1>1, <1>2, <1>7, SumUnion
<1>10. QED
  BY <1>2, <1>6, <1>8, <1>9 DEF Claims

\* No new claim, and what the pool gains comes in.
LEMMA ClaimsShrink ==
  ASSUME TypeOK, TypeOK', NEW t \in Tiers, Funded(t),
         Claimed(t)' \subseteq Claimed(t),
         \A p \in Claimed(t)' : Amounts'[p] = Amounts[p],
         pool'[t] + funding[t] <= pool[t] + funding'[t]
  PROVE  Funded(t)'
<1>1. Claims(t)' <= Claims(t) /\ Claims(t)' \in Nat
  <2> DEFINE before == Claimed(t)
             after == Claimed(t)'
             then == Amounts'
  <2>1. /\ IsFiniteSet(before) /\ after \in SUBSET before /\ IsFiniteSet(after)
        /\ \A p \in before : Amounts[p] \in Nat
        /\ \A p \in after : then[p] = Amounts[p]
        /\ Claims(t) = SumOver(Amounts, before)
        /\ Claims(t)' = SumOver(then, after)
    BY ClaimFacts DEF Claims
  <2> HIDE DEF before, after, then
  <2>2. SumOver(then, after) = SumOver(Amounts, after)
    BY <2>1, SumSame
  <2>3. SumOver(Amounts, after) <= SumOver(Amounts, before) /\ SumOver(Amounts, after) \in Nat
    BY <2>1, SumSubset, SumType
  <2>4. QED
    BY <2>1, <2>2, <2>3
<1>2. /\ Claims(t) \in Nat
      /\ pool[t] \in Nat /\ pool'[t] \in Nat
      /\ funding[t] \in Nat /\ funding'[t] \in Nat
  BY ClaimFacts DEF TypeOK
<1>3. QED
  BY <1>1, <1>2 DEF Funded

\* What is put back was claimed, and is claimed no more.
LEMMA ClaimReturns ==
  ASSUME TypeOK, TypeOK', NEW t \in Tiers, Funded(t),
         NEW m \in Claimed(t), Claimed(t)' \subseteq Claimed(t) \ {m},
         \A p \in Claimed(t)' : Amounts'[p] = Amounts[p],
         pool'[t] = Amounts[m], funding' = funding
  PROVE  Funded(t)'
<1>1. Claims(t)' + Amounts[m] <= Claims(t) /\ Claims(t)' \in Nat
  <2> DEFINE before == Claimed(t)
             after == Claimed(t)'
             then == Amounts'
  <2>1. /\ IsFiniteSet(before) /\ after \in SUBSET (before \ {m}) /\ m \in before
        /\ IsFiniteSet(after) /\ IsFiniteSet(before \ {m})
        /\ \A p \in before : Amounts[p] \in Nat
        /\ \A p \in after : then[p] = Amounts[p]
        /\ Claims(t) = SumOver(Amounts, before)
        /\ Claims(t)' = SumOver(then, after)
    BY ClaimFacts DEF Claims
  <2>2. Claims(t) \in Nat /\ Amounts[m] \in Nat
    BY <2>1, ClaimFacts
  <2> HIDE DEF before, after, then
  <2>3. SumOver(then, after) = SumOver(Amounts, after)
    BY <2>1, SumSame
  <2>4. /\ SumOver(Amounts, after) <= SumOver(Amounts, before \ {m})
        /\ SumOver(Amounts, after) \in Nat
    BY <2>1, SumSubset, SumType
  <2>5. /\ SumOver(Amounts, before) = Amounts[m] + SumOver(Amounts, before \ {m})
        /\ SumOver(Amounts, before \ {m}) \in Nat
    BY <2>1, SumStep
  <2>6. QED
    BY <2>1, <2>2, <2>3, <2>4, <2>5
<1>2. /\ Claims(t) \in Nat /\ Amounts[m] \in Nat
      /\ pool[t] \in Nat /\ funding[t] \in Nat
  <2>1. m \in Payments
    BY ClaimFacts
  <2>2. QED
    BY <2>1, ClaimFacts DEF TypeOK
<1>3. QED
  BY <1>1, <1>2 DEF Funded

\* A win claims what it takes from the pool.
LEMMA ClaimBegins ==
  ASSUME TypeOK, TypeOK', NEW t \in Tiers, Funded(t),
         NEW p \in Payments, p \notin Claimed(t), Claimed(t)' = Claimed(t) \cup {p},
         \A q \in Claimed(t) : Amounts'[q] = Amounts[q],
         Amounts'[p] = pool[t], pool'[t] = 0, funding' = funding
  PROVE  Funded(t)'
<1>1. Claims(t)' = Claims(t) + pool[t]
  <2> DEFINE before == Claimed(t)
             after == Claimed(t)'
             then == Amounts'
  <2>1. /\ IsFiniteSet(before) /\ IsFiniteSet(after) /\ p \in after /\ after \ {p} = before
        /\ \A q \in before : Amounts[q] \in Nat
        /\ \A q \in before : then[q] = Amounts[q]
        /\ then[p] = pool[t] /\ pool[t] \in Nat
        /\ Claims(t) = SumOver(Amounts, before)
        /\ Claims(t)' = SumOver(then, after)
    <3>1. after \in SUBSET Payments
      BY DEF Claimed
    <3>2. QED
      BY <3>1, ClaimFacts DEF Claims, TypeOK
  <2>2. Claims(t) \in Nat
    BY ClaimFacts
  <2> HIDE DEF before, after, then
  <2>3. SumOver(then, before) = SumOver(Amounts, before)
    BY <2>1, SumSame
  <2>4. \A q \in after : then[q] \in Nat
    BY <2>1
  <2>5. SumOver(then, after) = then[p] + SumOver(then, before)
    BY <2>1, <2>4, SumStep
  <2>6. QED
    BY <2>1, <2>2, <2>3, <2>5
<1>2. Claims(t) \in Nat /\ pool[t] \in Nat /\ funding[t] \in Nat
  BY ClaimFacts DEF TypeOK
<1>3. QED
  BY <1>1, <1>2 DEF Funded

\* Where every payment's tier, amount and promise stay, no claim moves.
LEMMA ClaimsStay ==
  ASSUME TypeOK, TypeOK', NEW t \in Tiers, Funded(t),
         \A q \in Payments : /\ payment'[q].tier = payment[q].tier
                             /\ payment'[q].amount = payment[q].amount
                             /\ payment'[q].status = payment[q].status
                             /\ payment'[q].retryCount = payment[q].retryCount,
         pool'[t] + funding[t] <= pool[t] + funding'[t]
  PROVE  Funded(t)'
<1>1. \A q \in Payments : Promised(q)' = Promised(q)
  BY DEF Promised
<1>2. Claimed(t)' = Claimed(t)
  BY <1>1 DEF Claimed
<1>3. \A q \in Claimed(t)' : Amounts'[q] = Amounts[q]
  BY DEF Claimed, Amounts
<1>4. QED
  BY <1>2, <1>3, ClaimsShrink

\* A tier that goes back to its seed gains no more than the operator puts up.
LEMMA SeedIsFunded ==
  ASSUME TypeOK, NEW t \in Tiers, NEW u \in Tiers, ResetToSeed(u)
  PROVE  pool'[t] + funding[t] <= pool[t] + funding'[t]
<1>1. /\ pool[t] \in Nat /\ funding[t] \in Nat /\ Seed[t] \in Nat
      /\ pool'[t] = IF t = u THEN Seed[t] ELSE pool[t]
      /\ funding'[t] = IF t = u /\ Seed[t] > pool[t]
                       THEN funding[t] + (Seed[t] - pool[t]) ELSE funding[t]
  BY ConfigAssumption DEF ConfigAssumption, ResetToSeed, TypeOK
<1>2. QED
  BY <1>1

FundedInv == TypeOK /\ CarefulInv /\ \A t \in Tiers : Funded(t)

\* Contributions come into the tier before its cap takes some away.
LEMMA ContributeFunded ==
  ASSUME FundedInv, TypeOK', NEW t \in Tiers, NEW w \in Wagers, Contribute(w)
  PROVE  Funded(t)'
<1>1. w * Rate[t] \in Nat
  <2>1. w \in Nat /\ Rate[t] \in Nat
    BY ConfigAssumption DEF ConfigAssumption
  <2>2. \A m, n \in Nat : m * n \in Nat
    BY Z3
  <2>3. QED
    BY <2>1, <2>2
<1>2. /\ pool[t] \in Nat /\ funding[t] \in Nat
      /\ Cap[t] \in Nat \/ Cap[t] = NoCap
  BY ConfigAssumption DEF ConfigAssumption, FundedInv, TypeOK
<1>3. pool'[t] <= pool[t] + w * Rate[t] /\ pool'[t] \in Nat
  BY <1>1, <1>2 DEF Contribute, Capped
<1>4. funding'[t] = funding[t] + w * Rate[t]
  BY DEF Contribute
<1>5. pool'[t] + funding[t] <= pool[t] + funding'[t]
  BY <1>1, <1>2, <1>3, <1>4
<1>6. payment' = payment
  BY DEF Contribute
<1>7. QED
  BY <1>5, <1>6, ClaimsStay DEF FundedInv

\* A win's reservation was in the pool.
LEMMA BeginFunded ==
  ASSUME FundedInv, TypeOK', NEW t \in Tiers,
         NEW p \in Payments, NEW u \in Tiers, BeginJackpot(p, u)
  PROVE  Funded(t)'
<1>1. /\ payment[p].status = "none"
      /\ payment' = [payment EXCEPT ![p] =
                       [status |-> "pending", tier |-> u, amount |-> pool[u],
                        age |-> 0, retryCount |-> 0]]
      /\ pool' = [pool EXCEPT ![u] = 0]
      /\ funding' = funding
      /\ payment \in [Payments -> Payment] /\ pool \in [Tiers -> Nat]
      /\ funding \in [Tiers -> Nat]
  BY DEF BeginJackpot, Begun, FundedInv, TypeOK
<1>2. /\ payment'[p].tier = u /\ payment'[p].amount = pool[u]
      /\ payment'[p].status = "pending" /\ payment'[p].retryCount = 0
      /\ \A q \in Payments \ {p} : payment'[q] = payment[q]
  BY <1>1
<1>3. p \notin Claimed(t)
  BY <1>1 DEF Claimed, Promised
<1>4. \A q \in Payments \ {p} : Promised(q)' = Promised(q)
  BY <1>2 DEF Promised
<1>5. Promised(p)' = "owed"
  BY <1>2, ConfigAssumption DEF ConfigAssumption, Promised
<1>6. \A q \in Claimed(t) : Amounts'[q] = Amounts[q]
  BY <1>2, <1>3 DEF Claimed, Amounts
<1>7. CASE t = u
  <2>1. Claimed(t)' = Claimed(t) \cup {p}
    BY <1>2, <1>3, <1>4, <1>5, <1>7 DEF Claimed
  <2>2. Amounts'[p] = pool[t] /\ pool'[t] = 0
    BY <1>1, <1>2, <1>7 DEF Amounts
  <2>3. QED
    BY <1>1, <1>3, <1>6, <2>1, <2>2, ClaimBegins DEF FundedInv
<1>8. CASE t # u
  <2>1. Claimed(t)' = Claimed(t)
    BY <1>2, <1>3, <1>4, <1>8 DEF Claimed
  <2>2. pool'[t] + funding[t] <= pool[t] + funding'[t]
    BY <1>1, <1>8
  <2>3. QED
    BY <1>6, <2>1, <2>2, ClaimsShrink DEF FundedInv
<1>9. QED
  BY <1>7, <1>8

\* A commit, and a retry that gives up, change the promise but claim nothing new,
\* and reset the tier to its seed.
LEMMA SettleFunded ==
  ASSUME FundedInv, TypeOK', NEW t \in Tiers, NEW p \in Payments,
         \/ CommitInTime(p)
         \/ payment[p].status \in {"pending", "failed"} /\ RetryExhausted(p)
  PROVE  Funded(t)'
<1>1. payment \in [Payments -> Payment] /\ payment[p] \in Payment /\ payment[p].tier \in Tiers
  BY DEF FundedInv, TypeOK, Payment
<1>2. ResetToSeed(payment[p].tier)
  BY DEF CommitInTime, RetryExhausted
<1>3. /\ payment'[p].tier = payment[p].tier /\ payment'[p].amount = payment[p].amount
      /\ \A q \in Payments \ {p} : payment'[q] = payment[q]
  BY <1>1 DEF CommitInTime, RetryExhausted, Payment
<1>4. ~(Promised(p)' \in {"owed", "paid"}) \/ Promised(p) \in {"owed", "paid"}
  <2>1. CASE CommitInTime(p)
    <3>1. Pending(p)
      BY <2>1 DEF CommitInTime
    <3>2. Promised(p) = "owed"
      BY <3>1 DEF Pending, Promised, FundedInv, CarefulInv, Honest
    <3>3. QED
      BY <3>2
  <2>2. CASE payment[p].status \in {"pending", "failed"} /\ RetryExhausted(p)
    <3>1. /\ payment'[p].status = "failed"
          /\ payment'[p].retryCount = OneMoreRetry(payment[p].retryCount)
          /\ payment[p].retryCount >= MaxRetries
      BY <1>1, <2>2 DEF RetryExhausted
    <3>2. payment[p].retryCount \in Int /\ MaxRetries \in Int
      BY <1>1, ConfigAssumption DEF ConfigAssumption, Payment
    <3>3. payment'[p].retryCount > MaxRetries
      BY <3>1, <3>2 DEF OneMoreRetry
    <3>4. Promised(p)' = "forfeited"
      BY <3>1, <3>3 DEF Promised
    <3>5. QED
      BY <3>4
  <2>3. QED
    BY <2>1, <2>2
<1>5. \A q \in Payments \ {p} : Promised(q)' = Promised(q)
  BY <1>3 DEF Promised
<1>6. Claimed(t)' \subseteq Claimed(t)
  BY <1>3, <1>4, <1>5 DEF Claimed
<1>7. \A q \in Claimed(t)' : Amounts'[q] = Amounts[q]
  BY <1>3 DEF Claimed, Amounts
<1>8. pool'[t] + funding[t] <= pool[t] + funding'[t]
  BY <1>1, <1>2, SeedIsFunded DEF FundedInv
<1>9. QED
  BY <1>6, <1>7, <1>8, ClaimsShrink DEF FundedInv

\* Payments of which some are rolled back: on a tier where one of them is what the
\* pool ends with, that one was claimed; on the others nothing moves.
LEMMA ReturnFunded ==
  ASSUME FundedInv, TypeOK', NEW t \in Tiers, NEW P \in SUBSET Payments,
         \A q \in P : Pending(q) /\ payment'[q].status = "rolled_back",
         \A q \in Payments \ P : payment'[q] = payment[q],
         \/ /\ \A q \in P : payment[q].tier # t
            /\ pool'[t] = pool[t]
         \/ \E m \in P : payment[m].tier = t /\ pool'[t] = payment[m].amount,
         \A q \in P : payment'[q].tier = payment[q].tier,
         funding' = funding
  PROVE  Funded(t)'
<1>1. \A q \in P : Promised(q) = "owed" /\ Promised(q)' = "returned"
  BY DEF Promised, Pending, FundedInv, CarefulInv, Honest
<1>2. \A q \in Payments \ P : Promised(q)' = Promised(q)
  BY DEF Promised
<1>3. Claimed(t)' \subseteq Claimed(t) \ P
  BY <1>1, <1>2 DEF Claimed
<1>4. \A q \in Claimed(t)' : Amounts'[q] = Amounts[q]
  BY <1>3 DEF Claimed, Amounts
<1>5. CASE (\A q \in P : payment[q].tier # t) /\ pool'[t] = pool[t]
  <2>1. pool'[t] + funding[t] <= pool[t] + funding'[t]
    BY <1>5 DEF FundedInv, TypeOK
  <2>2. QED
    BY <1>3, <1>4, <1>5, <2>1, ClaimsShrink DEF FundedInv
<1>6. ASSUME NEW m \in P, payment[m].tier = t, pool'[t] = payment[m].amount
      PROVE  Funded(t)'
  <2>1. m \in Claimed(t) /\ Claimed(t)' \subseteq Claimed(t) \ {m}
    BY <1>1, <1>3, <1>6 DEF Claimed
  <2>2. pool'[t] = Amounts[m]
    BY <1>6 DEF Amounts
  <2>3. QED
    BY <1>4, <2>1, <2>2, ClaimReturns DEF FundedInv
<1>7. QED
  BY <1>5, <1>6

\* A commit that comes too late, and a retry with tries left, leave the payment
\* reserved: no pool and no claim moves.
LEMMA StillReserved ==
  ASSUME FundedInv, TypeOK', NEW t \in Tiers, NEW p \in Payments,
         payment[p].status \in {"pending", "failed"},
         (Pending(p) /\ CommitTooLate(p)) \/ RetryAgain(p)
  PROVE  Funded(t)'
<1>1. payment \in [Payments -> Payment] /\ payment[p] \in Payment /\ Honest(p)
  BY DEF FundedInv, TypeOK, CarefulInv
<1>2. payment[p].retryCount \in Nat /\ MaxRetries \in Nat
  BY <1>1, ConfigAssumption DEF ConfigAssumption, Payment
<1>3. /\ payment'[p].tier = payment[p].tier /\ payment'[p].amount = payment[p].amount
      /\ payment'[p].status \in {"pending", "failed"}
      /\ payment[p].retryCount > MaxRetries <=> payment'[p].retryCount > MaxRetries
      /\ \A q \in Payments \ {p} : payment'[q] = payment[q]
  <2>1. CASE Pending(p) /\ CommitTooLate(p)
    BY <1>1, <2>1 DEF CommitTooLate, Payment
  <2>2. CASE RetryAgain(p)
    <3>1. /\ payment'[p] = [payment[p] EXCEPT !.status = "pending", !.age = 0,
                               !.retryCount = OneMoreRetry(@)]
          /\ payment[p].retryCount < MaxRetries
          /\ \A q \in Payments \ {p} : payment'[q] = payment[q]
      BY <1>1, <2>2 DEF RetryAgain
    <3>2. /\ payment'[p].tier = payment[p].tier /\ payment'[p].amount = payment[p].amount
          /\ payment'[p].status = "pending"
          /\ payment'[p].retryCount = OneMoreRetry(payment[p].retryCount)
      BY <1>1, <3>1 DEF Payment
    <3>3. QED
      BY <1>2, <3>1, <3>2 DEF OneMoreRetry
  <2>3. QED
    BY <2>1, <2>2
<1>4. \A q \in Payments : Promised(q)' = Promised(q)
  BY <1>3 DEF Promised
<1>5. Claimed(t)' = Claimed(t) /\ \A q \in Payments : Amounts'[q] = Amounts[q]
  BY <1>3, <1>4 DEF Claimed, Amounts
<1>6. pool' = pool /\ funding' = funding
  BY DEF CommitTooLate, RetryAgain
<1>7. pool'[t] + funding[t] <= pool[t] + funding'[t]
  BY <1>6 DEF FundedInv, TypeOK
<1>8. QED
  BY <1>5, <1>7, ClaimsShrink DEF FundedInv, Claimed

\* One rollback puts back one reservation.
LEMMA RollbackFunded ==
  ASSUME FundedInv, TypeOK', NEW t \in Tiers, NEW p \in Payments, RollbackJackpot(p)
  PROVE  Funded(t)'
<1>1. payment \in [Payments -> Payment] /\ payment[p] \in Payment /\ pool \in [Tiers -> Nat]
  BY DEF FundedInv, TypeOK
<1>2. /\ Pending(p) /\ payment'[p].status = "rolled_back"
      /\ payment'[p].tier = payment[p].tier
      /\ \A q \in Payments \ {p} : payment'[q] = payment[q]
      /\ funding' = funding
  BY <1>1 DEF RollbackJackpot, Payment
<1>3. pool'[t] = IF payment[p].tier = t THEN payment[p].amount ELSE pool[t]
  BY <1>1 DEF RollbackJackpot, Restored
<1>4. {p} \in SUBSET Payments
  OBVIOUS
<1>5. QED
  BY <1>2, <1>3, <1>4, ReturnFunded

\* The sweep puts back one reservation on every tier where some timed out.
LEMMA ExpireFunded ==
  ASSUME FundedInv, TypeOK', NEW t \in Tiers, ExpireTimedOut
  PROVE  Funded(t)'
<1> DEFINE expired == {q \in Payments : Sweepable(q)}
<1>1. payment \in [Payments -> Payment]
  BY DEF FundedInv, TypeOK
<1>2. /\ expired \in SUBSET Payments
      /\ \A q \in expired : Pending(q) /\ payment'[q].status = "rolled_back"
      /\ \A q \in expired : payment'[q].tier = payment[q].tier
      /\ \A q \in Payments \ expired : payment'[q] = payment[q]
      /\ funding' = funding
  BY <1>1 DEF ExpireTimedOut, Sweepable, Payment
<1>3. \/ (\A q \in expired : payment[q].tier # t) /\ pool'[t] = pool[t]
      \/ \E m \in expired : payment[m].tier = t /\ pool'[t] = payment[m].amount
  <2>1. pool'[t] = IF ExpiredIn(t) = {} THEN pool[t] ELSE Restored(Max(ExpiredIn(t)))
    BY DEF ExpireTimedOut
  <2>2. CASE ExpiredIn(t) = {}
    BY <2>1, <2>2 DEF ExpiredIn
  <2>3. CASE ExpiredIn(t) # {}
    <3>1. Max(ExpiredIn(t)) \in ExpiredIn(t)
      BY <2>3, LastPayment DEF ExpiredIn
    <3>2. QED
      BY <2>1, <2>3, <3>1 DEF ExpiredIn, Restored
  <2>4. QED
    BY <2>2, <2>3
<1> HIDE DEF expired
<1>4. QED
  BY <1>2, <1>3, ReturnFunded

\* Time ages payments and moves nothing.
LEMMA TickFunded ==
  ASSUME FundedInv, TypeOK', NEW t \in Tiers, Tick \/ UNCHANGED vars
  PROVE  Funded(t)'
<1>1. /\ \A q \in Payments : /\ payment'[q].tier = payment[q].tier
                             /\ payment'[q].amount = payment[q].amount
                             /\ payment'[q].status = payment[q].status
                             /\ payment'[q].retryCount = payment[q].retryCount
      /\ pool' = pool /\ funding' = funding
  BY DEF Tick, vars, FundedInv, TypeOK, Payment
<1>2. pool'[t] + funding[t] <= pool[t] + funding'[t]
  BY <1>1 DEF FundedInv, TypeOK
<1>3. QED
  BY <1>1, <1>2, ClaimsStay DEF FundedInv

\* Every step of the careful caller leaves every tier funded.
LEMMA FundedStep ==
  ASSUME FundedInv, TypeOK', NEW t \in Tiers, [CarefulNext]_vars
  PROVE  Funded(t)'
<1>1. CASE Tick \/ UNCHANGED vars
  BY <1>1, TickFunded
<1>2. ASSUME NEW w \in Wagers, Contribute(w)
      PROVE  Funded(t)'
  BY <1>2, ContributeFunded
<1>3. ASSUME NEW p \in Payments, NEW u \in Tiers, BeginJackpot(p, u)
      PROVE  Funded(t)'
  BY <1>3, BeginFunded
<1>4. ASSUME NEW p \in Payments, Pending(p), CommitJackpot(p)
      PROVE  Funded(t)'
  BY <1>4, SettleFunded, StillReserved DEF CommitJackpot, Pending
<1>5. ASSUME NEW p \in Payments, RollbackJackpot(p)
      PROVE  Funded(t)'
  BY <1>5, RollbackFunded
<1>6. ASSUME NEW p \in Payments, CarefulRetry(p)
      PROVE  Funded(t)'
  BY <1>6, SettleFunded, StillReserved DEF CarefulRetry, RetryJackpot
<1>7. CASE ExpireTimedOut
  BY <1>7, ExpireFunded
<1>8. QED
  BY <1>1, <1>2, <1>3, <1>4, <1>5, <1>6, <1>7, Zenon DEF CarefulNext

\* At first a tier has what the configuration gives it, and nothing is claimed.
LEMMA InitFunded ==
  ASSUME Init, NEW t \in Tiers
  PROVE  Funded(t)
<1>1. Claimed(t) = {}
  BY DEF Init, Claimed, Promised, NoPayment
<1>2. Claims(t) = 0
  BY <1>1, SumEmpty DEF Claims
<1>3. pool[t] = funding[t] /\ pool[t] \in Nat
  BY ConfigAssumption DEF ConfigAssumption, Init
<1>4. QED
  BY <1>2, <1>3 DEF Funded

\* What a tier has paid, what is reserved of it and what it holds never exceed
\* what came into it, for any tiers, caps, rates and wagers and any interleaving
\* of a careful caller's methods and the sweep.  The inductive invariant counts,
\* per tier, the amounts of the payments that were paid or may still be: a begin
\* adds to them what it takes from the pool, a rollback or a sweep puts back an
\* amount that is no longer among them, and a forfeit only drops one.
THEOREM PayoutsAreFunded == CarefulSpec => []PayoutsFunded
<1>1. Init => \A t \in Tiers : Funded(t)
  BY InitFunded
<1>2. FundedInv /\ TypeOK' /\ CarefulInv' /\ [CarefulNext]_vars => FundedInv'
  <2> SUFFICES ASSUME FundedInv, TypeOK', CarefulInv', [CarefulNext]_vars
               PROVE  FundedInv'
    OBVIOUS
  <2>1. \A t \in Tiers : Funded(t)'
    BY FundedStep
  <2>2. QED
    BY <2>1 DEF FundedInv
<1>3. FundedInv => PayoutsFunded
  <2> SUFFICES ASSUME FundedInv, NEW t \in Tiers
               PROVE  PaidOut(t) + Reserved(t) + pool[t] <= funding[t]
    BY DEF PayoutsFunded
  <2>1. QED
    BY ClaimsArePaidAndReserved DEF FundedInv, Funded
<1>4. TypeOK /\ CarefulInv /\ (\A t \in Tiers : Funded(t)) => FundedInv
  BY DEF FundedInv
<1>5. CarefulSpec => []CarefulInv
  BY CarefulHolds
<1>6. QED
  BY <1>1, <1>2, <1>3, <1>4, <1>5, CarefulTypeCorrect, PTL DEF CarefulSpec

=============================================================================
