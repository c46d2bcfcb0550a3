--------------------------- MODULE ServiceProofs ----------------------------
(***************************************************************************)
(* Proofs about the parts of the server that answer requests in front of   *)
(* something that may fail.                                                *)
(*                                                                         *)
(* SelfExclusion, for any registries, queries, threshold and recovery      *)
(* time: the types, the breakers' count of failures, and, failing closed,  *)
(* the promise of ExclusionGate.                                           *)
(*                                                                         *)
(* RateLimit, for any set of requests, capacity and rate: buckets stay     *)
(* within their capacity, calls that do not overlap stay within the        *)
(* budget, nobody is refused before a burst was spent, and Retry-After is  *)
(* long enough.  The inductive invariant says of every bucket, stored or   *)
(* read, that it is true to the requests it was charged for, and that it   *)
(* was charged for every request that passed alone.                        *)
(*                                                                         *)
(* HealthChecks, for any tenants and sweepers: a record that says how a    *)
(* provider is says it of the version that was asked.                      *)
(*                                                                         *)
(* PgStores, for any callers, rows, clients and limits: the statement of   *)
(* an account replays its balance, the entries of a session are one chain, *)
(* its spins are counted once, its loss is bounded, and answers are        *)
(* kept.  The inductive invariants say what a call has read and is to      *)
(* write: the row as it is stored, which its lock keeps, or, for an        *)
(* append, which locks no more than the head it chose, the entry after     *)
(* that head.                                                              *)
(***************************************************************************)
EXTENDS SelfExclusion, RateLimit, HealthChecks, PgStores, SumFacts, FiniteSetTheorems,
        SequenceTheorems, TLAPS

(***************************************************************************)
(* SelfExclusion                                                           *)
(***************************************************************************)
USE ExclusionAssumption

-----------------------------------------------------------------------------
(* Breakers *)

\* A breaker of its type whose state tells whether it is at the threshold.
Counted(b) ==
  /\ b \in Breaker
  /\ b.state = "closed" <=> b.failures < FailureThreshold

\* What a call, its success and its failure do to a breaker keeps it counted.
LEMMA BreakerMoves ==
  ASSUME NEW b, Counted(b)
  PROVE  Counted(Passed(b)) /\ Counted(OnSuccess(b)) /\ Counted(OnFailure(b))
<1>1. /\ b \in Breaker /\ b.failures \in 0 .. FailureThreshold
      /\ b.rested \in 0 .. RecoveryTime
      /\ FailureThreshold \in Nat \ {0} /\ RecoveryTime \in Nat
      /\ 0 \in 0 .. RecoveryTime
      /\ 0 \in 0 .. FailureThreshold /\ FailureThreshold \in 0 .. FailureThreshold
  BY DEF Counted, Breaker
<1>2. Counted(Passed(b))
  <2>1. CASE b.state = "open"
    <3>1. Passed(b) = [b EXCEPT !.state = "half-open"]
      BY <2>1 DEF Passed
    <3> QED
      BY <2>1, <3>1 DEF Counted, Breaker
  <2>2. CASE b.state # "open"
    BY <2>2 DEF Counted, Passed
  <2> QED
    BY <2>1, <2>2
<1>3. Counted(OnSuccess(b))
  <2>1. OnSuccess(b) = [b EXCEPT !.state = "closed", !.failures = 0]
    BY DEF OnSuccess
  <2>2. OnSuccess(b) \in Breaker
    BY <1>1, <2>1 DEF Breaker
  <2>3. OnSuccess(b).state = "closed" /\ OnSuccess(b).failures = 0
    BY <1>1, <2>1 DEF Breaker
  <2>4. 0 < FailureThreshold
    BY <1>1
  <2> QED
    BY <2>2, <2>3, <2>4 DEF Counted
<1>4. Counted(OnFailure(b))
  <2>1. CASE b.failures + 1 >= FailureThreshold
    <3>1. OnFailure(b) =
            [b EXCEPT !.failures = FailureThreshold, !.state = "open", !.rested = 0]
      BY <2>1 DEF OnFailure
    <3>2. OnFailure(b) \in Breaker
      BY <1>1, <3>1 DEF Breaker
    <3>3. OnFailure(b).state = "open" /\ OnFailure(b).failures = FailureThreshold
      BY <1>1, <3>1 DEF Breaker
    <3>4. ~(FailureThreshold < FailureThreshold)
      BY <1>1
    <3> QED
      BY <3>2, <3>3, <3>4 DEF Counted
  <2>2. CASE b.failures + 1 < FailureThreshold
    <3>1. OnFailure(b) = [b EXCEPT !.failures = b.failures + 1]
      BY <1>1, <2>2 DEF OnFailure
    <3>2. b.failures + 1 \in 0 .. FailureThreshold
      BY <1>1, <2>2
    <3>3. b.state = "closed"
      BY <1>1, <2>2 DEF Counted
    <3> QED
      BY <1>1, <2>2, <3>1, <3>2, <3>3 DEF Counted, Breaker
  <2> QED
    BY <1>1, <2>1, <2>2
<1> QED
  BY <1>2, <1>3, <1>4

\* The breakers' part of the invariant.
BreakerInv == breaker \in [Registries -> Breaker] /\ \A r \in Registries : Counted(breaker[r])

\* A settled call moves one breaker to a counted one.
LEMMA SettleBreaker ==
  ASSUME BreakerInv, NEW q, NEW r \in Registries, NEW result, NEW after, Counted(after),
         Settle(q, r, result, after)
  PROVE  BreakerInv'
<1>1. breaker' = [breaker EXCEPT ![r] = after] /\ after \in Breaker
  BY DEF Settle, Counted
<1> QED
  BY <1>1 DEF BreakerInv, Counted

\* Every step keeps the breakers counted.
LEMMA BreakerStep == BreakerInv /\ [ExclNext]_exclVars => BreakerInv'
<1> SUFFICES ASSUME BreakerInv, [ExclNext]_exclVars PROVE BreakerInv'
  OBVIOUS
<1>1. ASSUME UNCHANGED breaker PROVE BreakerInv'
  BY <1>1 DEF BreakerInv, Counted
<1>2. ASSUME NEW q \in Queries, Ask(q) PROVE BreakerInv'
  <2>1. ASSUME NEW r \in Registries PROVE Counted(breaker'[r])
    <3>1. Counted(breaker[r]) /\ Counted(Passed(breaker[r]))
      BY BreakerMoves DEF BreakerInv
    <3>2. breaker'[r] = IF CanPass(r) THEN Passed(breaker[r]) ELSE breaker[r]
      BY <1>2 DEF Ask
    <3> QED
      BY <3>1, <3>2
  <2>2. breaker' = [r \in Registries |-> breaker'[r]]
    BY <1>2 DEF Ask
  <2> QED
    BY <2>1, <2>2 DEF BreakerInv, Counted
<1>3. ASSUME NEW q \in Queries, NEW r \in Registries, Answer(q, r) PROVE BreakerInv'
  <2>1. Counted(OnSuccess(breaker[r]))
    BY BreakerMoves DEF BreakerInv
  <2> QED
    BY <1>3, <2>1, SettleBreaker DEF Answer
<1>4. ASSUME NEW q \in Queries, NEW r \in Registries, CallFails(q, r) PROVE BreakerInv'
  <2>1. Counted(OnFailure(breaker[r]))
    BY BreakerMoves DEF BreakerInv
  <2> QED
    BY <1>4, <2>1, SettleBreaker DEF CallFails
<1>5. ASSUME BreakersRest PROVE BreakerInv'
  <2>1. ASSUME NEW r \in Registries PROVE Counted(breaker'[r])
    <3>1. Counted(breaker[r])
      BY DEF BreakerInv
    <3>2. breaker'[r] = IF breaker[r].state = "open" /\ breaker[r].rested < RecoveryTime
                        THEN [breaker[r] EXCEPT !.rested = breaker[r].rested + 1]
                        ELSE breaker[r]
      BY <1>5 DEF BreakersRest
    <3>3. CASE breaker[r].state = "open" /\ breaker[r].rested < RecoveryTime
      <4>1. breaker[r].rested \in 0 .. RecoveryTime /\ breaker[r].rested + 1 \in 0 .. RecoveryTime
        BY <3>1, <3>3 DEF Counted, Breaker
      <4>2. breaker'[r] = [breaker[r] EXCEPT !.rested = breaker[r].rested + 1]
        BY <3>2, <3>3
      <4> QED
        BY <3>1, <4>1, <4>2 DEF Counted, Breaker
    <3>4. CASE ~(breaker[r].state = "open" /\ breaker[r].rested < RecoveryTime)
      BY <3>1, <3>2, <3>4
    <3> QED
      BY <3>3, <3>4
  <2>2. breaker' = [r \in Registries |-> breaker'[r]]
    BY <1>5 DEF BreakersRest
  <2> QED
    BY <2>1, <2>2 DEF BreakerInv, Counted
<1>6. ASSUME NEW q \in Queries, NEW r \in Registries, Lose(q, r) PROVE BreakerInv'
  BY <1>1, <1>6 DEF Lose
<1>7. ASSUME NEW q \in Queries, Decide(q) PROVE BreakerInv'
  BY <1>1, <1>7 DEF Decide
<1>8. ASSUME NEW r \in Registries, Outage(r) \/ Recovery(r) \/ Register(r) PROVE BreakerInv'
  BY <1>1, <1>8 DEF Outage, Recovery, Register
<1>9. ASSUME UNCHANGED exclVars PROVE BreakerInv'
  BY <1>1, <1>9 DEF exclVars
<1> QED
  BY <1>2, <1>3, <1>4, <1>5, <1>6, <1>7, <1>8, <1>9 DEF ExclNext, CallStep

\* A breaker is closed exactly while it is short of the threshold, however the
\* calls of all queries interleave.
THEOREM BreakersCount == ExclSpec => []BreakerCounts
<1>1. ExclInit => BreakerInv
  <2> SUFFICES ASSUME ExclInit PROVE BreakerInv
    OBVIOUS
  <2> DEFINE b == [state |-> "closed", failures |-> 0, rested |-> 0]
  <2>1. b \in Breaker /\ b.state = "closed" /\ b.failures < FailureThreshold
    BY DEF Breaker
  <2>2. breaker = [r \in Registries |-> b]
    BY DEF ExclInit
  <2> HIDE DEF b
  <2> QED
    BY <2>1, <2>2 DEF BreakerInv, Counted
<1>2. BreakerInv => BreakerCounts
  BY DEF BreakerInv, BreakerCounts, Counted
<1> QED
  BY <1>1, <1>2, BreakerStep, PTL DEF ExclSpec

-----------------------------------------------------------------------------
(* Queries and calls *)

\* The queries' part of the type invariant, and what an answer means: a registry
\* that did not find the player did not hold the player when the query was asked.
QueryInv ==
  /\ registryCall \in [Queries -> [Registries -> CallState]]
  /\ verdict \in [Queries -> {"asking", "cleared", "blocked"}]
  /\ up \subseteq Registries
  /\ registered \subseteq Registries
  /\ asked \in [Queries -> SUBSET Registries]
  /\ \A q \in Queries, r \in Registries : verdict[q] = "asking" <=> registryCall[q][r] # "none"
  /\ \A q \in Queries : verdict[q] # "asking" => asked[q] = {}
  /\ \A q \in Queries, r \in Registries : registryCall[q][r] = "not excluded" => r \notin asked[q]

\* A call of a query under way that gets a result keeps the invariant.
LEMMA CallMoves ==
  ASSUME QueryInv, NEW q \in Queries, NEW r \in Registries,
         registryCall[q][r] \in {"pending", "lost"},
         NEW result \in {"lost", "failed", "excluded", "not excluded"},
         result = "not excluded" => r \notin asked[q],
         registryCall' = [registryCall EXCEPT ![q] = [registryCall[q] EXCEPT ![r] = result]],
         UNCHANGED <<verdict, up, registered, asked>>
  PROVE  QueryInv'
<1>1. registryCall[q] \in [Registries -> CallState] /\ result \in CallState /\ result # "none"
  BY DEF QueryInv, CallState
<1>2. registryCall' \in [Queries -> [Registries -> CallState]]
  BY <1>1 DEF QueryInv
<1>3. verdict[q] = "asking"
  BY DEF QueryInv
<1>4. \A p \in Queries, s \in Registries :
        registryCall'[p][s] = IF p = q /\ s = r THEN result ELSE registryCall[p][s]
  BY <1>1 DEF QueryInv
<1>5. /\ \A p \in Queries, s \in Registries : verdict'[p] = "asking" <=> registryCall'[p][s] # "none"
      /\ \A p \in Queries : verdict'[p] # "asking" => asked'[p] = {}
  <2>1. ASSUME NEW p \in Queries, NEW s \in Registries
        PROVE  verdict'[p] = "asking" <=> registryCall'[p][s] # "none"
    <3>1. verdict[p] = "asking" <=> registryCall[p][s] # "none"
      BY DEF QueryInv
    <3> QED
      BY <1>1, <1>3, <1>4, <3>1
  <2>2. \A p \in Queries : verdict'[p] # "asking" => asked'[p] = {}
    BY DEF QueryInv
  <2> QED
    BY <2>1, <2>2
<1>6. ASSUME NEW p \in Queries, NEW s \in Registries, registryCall'[p][s] = "not excluded"
      PROVE  s \notin asked'[p]
  <2>1. registryCall[p][s] = "not excluded" => s \notin asked[p]
    BY DEF QueryInv
  <2>2. CASE p = q /\ s = r
    BY <1>4, <1>6, <2>2
  <2>3. CASE ~(p = q /\ s = r)
    <3>1. registryCall'[p][s] = registryCall[p][s]
      BY <1>4, <2>3
    <3> QED
      BY <1>6, <2>1, <3>1
  <2> QED
    BY <2>2, <2>3
<1>7. /\ verdict' \in [Queries -> {"asking", "cleared", "blocked"}]
      /\ up' \subseteq Registries
      /\ registered' \subseteq Registries
      /\ asked' \in [Queries -> SUBSET Registries]
  BY DEF QueryInv
<1> QED
  BY <1>2, <1>5, <1>6, <1>7 DEF QueryInv

\* A query that takes up calls, a verdict and its question anew keeps the invariant.
LEMMA QueryMoves ==
  ASSUME QueryInv, NEW q \in Queries,
         NEW row \in [Registries -> CallState], NEW v \in {"asking", "cleared", "blocked"},
         NEW joined \in SUBSET Registries,
         \A r \in Registries : v = "asking" <=> row[r] # "none",
         v # "asking" => joined = {},
         \A r \in Registries : row[r] # "not excluded",
         registryCall' = [registryCall EXCEPT ![q] = row],
         verdict' = [verdict EXCEPT ![q] = v],
         asked' = [asked EXCEPT ![q] = joined],
         UNCHANGED <<up, registered>>
  PROVE  QueryInv'
<1>1. /\ registryCall' \in [Queries -> [Registries -> CallState]]
      /\ registryCall'[q] = row /\ verdict'[q] = v /\ asked'[q] = joined
      /\ asked' \in [Queries -> SUBSET Registries]
      /\ verdict' \in [Queries -> {"asking", "cleared", "blocked"}]
  BY DEF QueryInv
<1>2. \A p \in Queries \ {q} :
        registryCall'[p] = registryCall[p] /\ verdict'[p] = verdict[p] /\ asked'[p] = asked[p]
  BY DEF QueryInv
<1>3. ASSUME NEW p \in Queries
      PROVE  /\ \A r \in Registries : verdict'[p] = "asking" <=> registryCall'[p][r] # "none"
             /\ verdict'[p] # "asking" => asked'[p] = {}
             /\ \A r \in Registries : registryCall'[p][r] = "not excluded" => r \notin asked'[p]
  <2>1. CASE p = q
    BY <1>1, <2>1
  <2>2. CASE p # q
    <3>1. registryCall'[p] = registryCall[p] /\ verdict'[p] = verdict[p] /\ asked'[p] = asked[p]
      BY <1>2, <2>2
    <3>2. /\ \A r \in Registries : verdict[p] = "asking" <=> registryCall[p][r] # "none"
          /\ verdict[p] # "asking" => asked[p] = {}
          /\ \A r \in Registries : registryCall[p][r] = "not excluded" => r \notin asked[p]
      BY DEF QueryInv
    <3> QED
      BY <3>1, <3>2
  <2> QED
    BY <2>1, <2>2
<1>4. up' \subseteq Registries /\ registered' \subseteq Registries
  BY DEF QueryInv
<1> QED
  BY <1>1, <1>3, <1>4 DEF QueryInv

\* Every step keeps the queries' invariant.
LEMMA QueryStep == QueryInv /\ [ExclNext]_exclVars => QueryInv'
<1> SUFFICES ASSUME QueryInv, [ExclNext]_exclVars PROVE QueryInv'
  OBVIOUS
<1>1. ASSUME NEW q \in Queries, Ask(q) PROVE QueryInv'
  <2> DEFINE issued == [r \in Registries |-> IF CanPass(r) THEN "pending" ELSE "tripped"]
  <2>1. /\ issued \in [Registries -> CallState]
        /\ \A r \in Registries : issued[r] # "none" /\ issued[r] # "not excluded"
    BY DEF CallState
  <2>2. /\ registryCall' = [registryCall EXCEPT ![q] = issued]
        /\ verdict' = [verdict EXCEPT ![q] = "asking"]
        /\ asked' = [asked EXCEPT ![q] = registered]
        /\ UNCHANGED <<up, registered>>
    BY <1>1 DEF Ask
  <2> HIDE DEF issued
  <2>3. registered \in SUBSET Registries
    BY DEF QueryInv
  <2> QED
    BY <2>1, <2>2, <2>3, QueryMoves
<1>2. ASSUME NEW q \in Queries, Decide(q) PROVE QueryInv'
  <2> DEFINE v == IF Blocks(q) THEN "blocked" ELSE "cleared"
             none == [r \in Registries |-> "none"]
  <2>1. v \in {"cleared", "blocked"} /\ none \in [Registries -> CallState]
        /\ \A r \in Registries : none[r] = "none"
        /\ {} \in SUBSET Registries
    BY DEF CallState
  <2>2. /\ registryCall' = [registryCall EXCEPT ![q] = none]
        /\ verdict' = [verdict EXCEPT ![q] = v]
        /\ asked' = [asked EXCEPT ![q] = {}]
        /\ UNCHANGED <<up, registered>>
    BY <1>2 DEF Decide
  <2> HIDE DEF v, none
  <2> QED
    BY <2>1, <2>2, QueryMoves
<1>3. ASSUME NEW q \in Queries, NEW r \in Registries, Answer(q, r) PROVE QueryInv'
  BY <1>3, CallMoves DEF Answer, Settle
<1>4. ASSUME NEW q \in Queries, NEW r \in Registries, Lose(q, r) PROVE QueryInv'
  BY <1>4, CallMoves DEF Lose
<1>5. ASSUME NEW q \in Queries, NEW r \in Registries, CallFails(q, r) PROVE QueryInv'
  BY <1>5, CallMoves DEF CallFails, Settle
<1>6. ASSUME BreakersRest PROVE QueryInv'
  BY <1>6 DEF BreakersRest, QueryInv
<1>7. ASSUME NEW r \in Registries, Outage(r) \/ Recovery(r) \/ Register(r) PROVE QueryInv'
  BY <1>7 DEF Outage, Recovery, Register, QueryInv
<1>8. ASSUME UNCHANGED exclVars PROVE QueryInv'
  BY <1>8 DEF exclVars, QueryInv
<1> QED
  BY <1>1, <1>2, <1>3, <1>4, <1>5, <1>6, <1>7, <1>8 DEF ExclNext, CallStep

\* The first state is one of the invariant.
LEMMA QueryInit == ExclInit => QueryInv
BY DEF ExclInit, QueryInv, CallState

\* The types hold, and no call outlives its query.
THEOREM ExclusionTypeCorrect == ExclSpec => []ExclTypeOK
<1>1. ExclInit => BreakerInv
  <2> SUFFICES ASSUME ExclInit PROVE BreakerInv
    OBVIOUS
  <2> DEFINE b == [state |-> "closed", failures |-> 0, rested |-> 0]
  <2>1. b \in Breaker /\ b.state = "closed" /\ b.failures < FailureThreshold
    BY DEF Breaker
  <2>2. breaker = [r \in Registries |-> b]
    BY DEF ExclInit
  <2> HIDE DEF b
  <2> QED
    BY <2>1, <2>2 DEF BreakerInv, Counted
<1>2. BreakerInv /\ QueryInv => ExclTypeOK
  BY DEF BreakerInv, QueryInv, ExclTypeOK
<1> QED
  BY <1>1, <1>2, BreakerStep, QueryInit, QueryStep, PTL DEF ExclSpec

-----------------------------------------------------------------------------
(* The gate *)

\* A query all of whose calls found nothing: nobody held the player when it was
\* asked.
LEMMA ClearedWasFree ==
  ASSUME QueryInv, NEW q \in Queries, Decide(q),
         \A r \in Registries : registryCall[q][r] \notin {"excluded", "tripped", "failed"}
  PROVE  asked[q] = {}
<1>1. ASSUME NEW r \in Registries PROVE r \notin asked[q]
  <2>1. registryCall[q][r] \in CallState /\ registryCall[q][r] # "none"
    <3>1. verdict[q] = "asking"
      BY DEF Decide
    <3>2. verdict[q] = "asking" <=> registryCall[q][r] # "none"
      BY DEF QueryInv
    <3>3. registryCall[q][r] \in CallState
      <4>1. registryCall[q] \in [Registries -> CallState]
        BY DEF QueryInv
      <4> QED
        BY <4>1
    <3> QED
      BY <3>1, <3>2, <3>3
  <2>2. registryCall[q][r] \notin {"pending", "lost"}
    BY DEF Decide, CallsUnderWay
  <2>3. registryCall[q][r] \notin {"excluded", "tripped", "failed"}
    OBVIOUS
  <2>4. registryCall[q][r] = "not excluded"
    BY <2>1, <2>2, <2>3 DEF CallState
  <2> QED
    BY <2>4 DEF QueryInv
<1>2. asked[q] \subseteq Registries
  BY DEF QueryInv
<1> QED
  BY <1>1, <1>2

\* A step of the client is a step of the gate, or none.
LEMMA GateStep == FailClosed /\ QueryInv /\ [ExclNext]_exclVars => [Gate!Next]_(Gate!vars)
<1> SUFFICES ASSUME FailClosed, QueryInv, [ExclNext]_exclVars PROVE [Gate!Next]_(Gate!vars)
  OBVIOUS
<1>1. ASSUME UNCHANGED <<registered, asked, verdict>> PROVE [Gate!Next]_(Gate!vars)
  BY <1>1 DEF Gate!vars
<1>2. ASSUME NEW q \in Queries, Ask(q) PROVE [Gate!Next]_(Gate!vars)
  <2>1. Gate!Ask(q)
    BY <1>2 DEF Ask, Gate!Ask
  <2> QED
    BY <2>1 DEF Gate!Next
<1>3. ASSUME NEW q \in Queries, Decide(q) PROVE [Gate!Next]_(Gate!vars)
  <2>1. ASSUME ~Blocks(q) PROVE asked[q] = {}
    <3>1. \A r \in Registries : registryCall[q][r] \notin {"excluded", "tripped", "failed"}
      BY <2>1, Zenon DEF Blocks
    <3> QED
      BY <1>3, <3>1, ClearedWasFree
  <2> DEFINE v == IF Blocks(q) THEN "blocked" ELSE "cleared"
  <2>2. v \in IF asked[q] = {} THEN {"cleared", "blocked"} ELSE {"blocked"}
    BY <2>1
  <2>3. /\ verdict[q] = "asking"
        /\ verdict' = [verdict EXCEPT ![q] = v]
        /\ asked' = [asked EXCEPT ![q] = {}]
        /\ UNCHANGED registered
    BY <1>3 DEF Decide
  <2> HIDE DEF v
  <2>4. Gate!Decide(q)
    BY <2>2, <2>3 DEF Gate!Decide
  <2> QED
    BY <2>4 DEF Gate!Next
<1>4. ASSUME NEW q \in Queries, NEW r \in Registries, CallStep(q, r)
      PROVE  [Gate!Next]_(Gate!vars)
  BY <1>1, <1>4 DEF CallStep, Answer, Lose, CallFails, Settle
<1>5. ASSUME BreakersRest PROVE [Gate!Next]_(Gate!vars)
  BY <1>1, <1>5 DEF BreakersRest
<1>6. ASSUME NEW r \in Registries, Outage(r) \/ Recovery(r) PROVE [Gate!Next]_(Gate!vars)
  BY <1>1, <1>6 DEF Outage, Recovery
<1>7. ASSUME NEW r \in Registries, Register(r) PROVE [Gate!Next]_(Gate!vars)
  <2>1. Gate!Register(r)
    BY <1>7 DEF Register, Gate!Register
  <2> QED
    BY <2>1 DEF Gate!Next
<1>8. ASSUME UNCHANGED exclVars PROVE [Gate!Next]_(Gate!vars)
  BY <1>1, <1>8 DEF exclVars
<1> QED
  BY <1>2, <1>3, <1>4, <1>5, <1>6, <1>7, <1>8 DEF ExclNext

\* Failing closed, the client implements the gate: a player who was on a registry
\* when the question was asked is never cleared.
THEOREM GateImplemented == FailClosed => (ExclSpec => ImplementsGate)
<1> SUFFICES ASSUME FailClosed PROVE ExclSpec => ImplementsGate
  OBVIOUS
<1>1. ExclInit => Gate!Init
  BY DEF ExclInit, Gate!Init
<1>2. QueryInv /\ [ExclNext]_exclVars => [Gate!Next]_(Gate!vars)
  BY GateStep
<1> QED
  BY <1>1, <1>2, QueryInit, QueryStep, PTL DEF ExclSpec, ImplementsGate, Gate!Spec

HIDE ExclusionAssumption

(***************************************************************************)
(* RateLimit                                                               *)
(***************************************************************************)
USE RateLimitAssumption

-----------------------------------------------------------------------------

\* What a bucket was charged for and what it holds is within the budget, when z
\* ticks counted twice.
Budgeted(b, z) == One * Cardinality(b.spent) + b.tokens <= Capacity + Rate * (b.last + z)

\* A bucket misses only what it was charged for.
Filled(b) == Capacity <= b.tokens + One * Cardinality(b.spent)

\* A sound bucket, when z ticks counted twice: charged for every request that
\* passed alone, and only for requests that passed or failed.
SoundFor(b, z, alone, done) ==
  /\ Budgeted(b, z)
  /\ Filled(b)
  /\ alone \subseteq b.spent
  /\ b.spent \subseteq done

Alone == At("allowed") \ overlapped
Done == At("allowed") \cup At("failed")

Sound(b) == SoundFor(b, rewound, Alone, Done)

\* What was spent when the bucket expired is back.
GoneSound ==
  gone =>
    /\ One * Cardinality(bucket.spent) <= Rate * (now + rewound)
    /\ \A r \in At("asked") :
         One * Cardinality(bucket.spent) <= Rate * (calls[r].stamp + rewound)

\* No stamp is ahead of the clock.
StampsPast == bucket.last <= now /\ \A r \in Requests : calls[r].stamp <= now

BucketInv ==
  /\ LimitTypeOK
  /\ StampsPast
  /\ Sound(bucket)
  /\ \A r \in At("loaded") : Sound(calls[r].read)
  /\ GoneSound
  /\ BurstServed

-----------------------------------------------------------------------------

\* A set of requests is finite.
LEMMA Finite ==
  ASSUME NEW S \in SUBSET Requests
  PROVE  IsFiniteSet(S) /\ Cardinality(S) \in Nat
<1>1. IsFiniteSet(S)
  BY FS_Subset
<1> QED
  BY <1>1, FS_CardinalityType

\* A refill is between what there was and the capacity, and brings Rate a tick.
LEMMA RefillBounds ==
  ASSUME NEW b \in Bucket, NEW t \in Nat
  PROVE  /\ Refill(b, t) \in b.tokens .. Capacity
         /\ b.tokens \in Nat /\ b.last \in Nat
         /\ Refill(b, t) <= b.tokens + Rate * Greater(0, t - b.last)
         /\ Rate * Greater(0, t - b.last) \in Nat
<1>1. b.tokens \in 0 .. Capacity /\ b.last \in Nat
  BY DEF Bucket
<1>2. Greater(0, t - b.last) \in Nat
  BY <1>1 DEF Greater
<1>3. Rate * Greater(0, t - b.last) \in Nat
  BY <1>2
<1> QED
  BY <1>1, <1>3 DEF Refill, Lesser

\* A tick that the bucket's time gains over t, or loses to it, counts once.
LEMMA TimesAdd ==
  ASSUME NEW l \in Nat, NEW t \in Nat, NEW z \in Nat
  PROVE  Rate * (l + z) + Rate * Greater(0, t - l) = Rate * (t + (z + Greater(0, l - t)))
<1>1. CASE l <= t
  <2>1. Greater(0, t - l) = t - l /\ Greater(0, l - t) = 0
    BY <1>1 DEF Greater
  <2> QED
    BY <2>1
<1>2. CASE t < l
  <2>1. Greater(0, t - l) = 0 /\ Greater(0, l - t) = l - t
    BY <1>2 DEF Greater
  <2> QED
    BY <2>1
<1> QED
  BY <1>1, <1>2

\* What consume saves keeps the budget and the account of a bucket, and a refusal
\* means that a burst was spent.
LEMMA ConsumedSound ==
  ASSUME NEW r \in Requests, NEW b \in Bucket, NEW t \in Nat, NEW z \in Nat,
         r \notin b.spent, Budgeted(b, z), Filled(b)
  PROVE  /\ Consumed(r, b, t) \in Bucket
         /\ Consumed(r, b, t).last = t
         /\ Passes(Refill(b, t)) => Consumed(r, b, t).spent = b.spent \cup {r}
         /\ ~Passes(Refill(b, t)) => Consumed(r, b, t).spent = b.spent
         /\ Budgeted(Consumed(r, b, t), z + Greater(0, b.last - t))
         /\ Filled(Consumed(r, b, t))
         /\ ~Passes(Refill(b, t)) => Capacity < One * (1 + Cardinality(b.spent))
<1> DEFINE tk == Refill(b, t)
           n == Cardinality(b.spent)
           back == Rate * Greater(0, t - b.last)
           lt == Rate * (b.last + z)
           rt == Rate * (t + (z + Greater(0, b.last - t)))
<1>1. b.spent \in SUBSET Requests
  BY DEF Bucket
<1>2. IsFiniteSet(b.spent) /\ n \in Nat /\ b.spent \cup {r} \in SUBSET Requests
  BY <1>1, Finite
<1>3. Cardinality(b.spent \cup {r}) = n + 1
  BY <1>2, FS_AddElement
<1>4. /\ tk \in b.tokens .. Capacity /\ b.tokens \in Nat /\ b.last \in Nat
      /\ tk <= b.tokens + back /\ back \in Nat
  BY RefillBounds
<1>5. lt + back = rt
  BY <1>4, TimesAdd
<1>6. lt \in Nat /\ rt \in Nat
  BY <1>4, <1>5
<1>7. One * n + b.tokens <= Capacity + lt /\ Capacity <= b.tokens + One * n
  BY DEF Budgeted, Filled
<1>8. One * n \in Nat /\ One * (n + 1) = One * n + One /\ One * (1 + n) = One * n + One
  BY <1>2
<1> DEFINE c == Consumed(r, b, t)
<1>a. CASE Passes(tk)
  <2>1. tk >= One /\ tk - One \in 0 .. Capacity
    BY <1>a, <1>4 DEF Passes
  <2>2. c = [tokens |-> tk - One, last |-> t, spent |-> b.spent \cup {r}]
    BY <1>a DEF Consumed
  <2>3. c \in Bucket /\ c.last = t /\ c.spent = b.spent \cup {r} /\ c.tokens = tk - One
    BY <2>1, <2>2, <1>2 DEF Bucket
  <2> HIDE DEF tk, n, back, lt, c
  <2>4. One * (n + 1) + (tk - One) <= Capacity + rt
    BY <1>4, <1>5, <1>6, <1>7, <1>8, <2>1
  <2>5. Capacity <= (tk - One) + One * (n + 1)
    BY <1>4, <1>7, <1>8, <2>1
  <2>6. Budgeted(c, z + Greater(0, b.last - t)) /\ Filled(c)
    BY <1>3, <2>3, <2>4, <2>5 DEF Budgeted, Filled
  <2> QED
    BY <1>a, <2>3, <2>6 DEF c, tk
<1>b. CASE ~Passes(tk)
  <2>1. tk < One /\ tk \in 0 .. Capacity
    BY <1>b, <1>4 DEF Passes
  <2>2. c = [tokens |-> tk, last |-> t, spent |-> b.spent]
    BY <1>b DEF Consumed
  <2>3. c \in Bucket /\ c.last = t /\ c.spent = b.spent /\ c.tokens = tk
    BY <2>1, <2>2, <1>1 DEF Bucket
  <2> HIDE DEF tk, n, back, lt, c
  <2>4. One * n + tk <= Capacity + rt
    BY <1>4, <1>5, <1>6, <1>7, <1>8, <2>1
  <2>5. Capacity <= tk + One * n /\ Capacity < One * (1 + n)
    BY <1>4, <1>7, <1>8, <2>1
  <2>6. Budgeted(c, z + Greater(0, b.last - t)) /\ Filled(c)
    BY <2>3, <2>4, <2>5 DEF Budgeted, Filled, n
  <2> QED
    BY <1>b, <2>3, <2>5, <2>6 DEF c, tk, n
<1> QED
  BY <1>a, <1>b

\* A budget stays kept when more ticks count twice.
LEMMA BudgetGrows ==
  ASSUME NEW b \in Bucket, NEW y \in Nat, NEW z \in Nat, Budgeted(b, y), y <= z
  PROVE  Budgeted(b, z)
<1>1. b.last \in Nat /\ b.tokens \in Nat /\ Cardinality(b.spent) \in Nat
  BY Finite DEF Bucket
<1>2. PICK d \in Nat : z = y + d
  BY z - y \in Nat
<1>3. Rate * (b.last + z) = Rate * (b.last + y) + Rate * d /\ Rate * d \in Nat
  BY <1>1, <1>2
<1>4. Rate * (b.last + y) \in Nat /\ One * Cardinality(b.spent) \in Nat
  BY <1>1
<1> QED
  BY <1>1, <1>3, <1>4 DEF Budgeted

\* A sound bucket stays sound while more ticks count twice, more is done and no
\* more passes alone.
LEMMA SoundGrows ==
  ASSUME NEW b \in Bucket, NEW y \in Nat, NEW z \in Nat, NEW al, NEW al2, NEW do, NEW do2,
         SoundFor(b, y, al, do), y <= z, al2 \subseteq al, do \subseteq do2
  PROVE  SoundFor(b, z, al2, do2)
<1>1. Budgeted(b, z)
  BY BudgetGrows DEF SoundFor
<1> QED
  BY <1>1 DEF SoundFor

\* A call.
CallOf == [step: CallSteps, stamp: Nat, read: Bucket]

\* The call of r moves to a step, the others stay.
Moves(r, s) ==
  /\ calls' \in [Requests -> CallOf]
  /\ calls'[r].step = s
  /\ \A q \in Requests : q # r => calls'[q] = calls[q]

\* What a move does to the sets of calls.
LEMMA AtMoves ==
  ASSUME NEW r \in Requests, NEW s \in CallSteps, Moves(r, s)
  PROVE  \A x : At(x)' = IF x = s THEN At(x) \cup {r} ELSE At(x) \ {r}
BY DEF At, Moves

\* A bucket is full at any time, when what it was charged for is back by then.
LEMMA FullSound ==
  ASSUME NEW t \in Nat, NEW S \in SUBSET Requests, NEW z \in Nat, NEW al, NEW do,
         One * Cardinality(S) <= Rate * (t + z), al \subseteq S, S \subseteq do
  PROVE  Full(t, S) \in Bucket /\ SoundFor(Full(t, S), z, al, do)
<1> DEFINE f == Full(t, S)
<1>1. f.tokens = Capacity /\ f.last = t /\ f.spent = S /\ f \in Bucket
  BY DEF Full, Bucket
<1>2. Cardinality(S) \in Nat
  BY Finite
<1>3. One * Cardinality(S) \in Nat /\ Rate * (t + z) \in Nat
  BY <1>2
<1> HIDE DEF f
<1>4. Budgeted(f, z) /\ Filled(f)
  BY <1>1, <1>3 DEF Budgeted, Filled
<1> QED
  BY <1>1, <1>4 DEF SoundFor, f

\* The invariant holds at first.
LEMMA BucketInvInit == LimitInit => BucketInv
<1> SUFFICES ASSUME LimitInit PROVE BucketInv
  OBVIOUS
<1>1. Full(0, {}) \in Bucket
  BY DEF Full, Bucket
<1>2. LimitTypeOK
  BY <1>1 DEF LimitInit, LimitTypeOK, CallSteps
<1>3. At("allowed") = {} /\ At("refused") = {} /\ At("loaded") = {} /\ At("asked") = {}
  BY DEF LimitInit, At
<1>4. One * Cardinality({}) <= Rate * (0 + 0)
  BY FS_EmptySet
<1>5. Sound(bucket)
  BY <1>3, <1>4, FullSound DEF LimitInit, Sound, Alone, Done
<1>6. GoneSound
  BY <1>3, <1>4 DEF LimitInit, GoneSound, Full
<1>7. StampsPast
  BY DEF LimitInit, StampsPast, Full
<1> QED
  BY <1>2, <1>3, <1>5, <1>6, <1>7 DEF BucketInv, BurstServed

\* A step that adds to what is done and refuses nobody keeps BurstServed.
LEMMA BurstStays ==
  ASSUME BurstServed, Done \subseteq Done', Done' \in SUBSET Requests,
         At("refused")' = At("refused")
  PROVE  BurstServed'
<1>1. IsFiniteSet(Done') /\ Cardinality(Done) \in Nat /\ Cardinality(Done') \in Nat
  BY Finite
<1>2. Cardinality(Done) <= Cardinality(Done')
  BY <1>1, FS_Subset
<1>3. One * (1 + Cardinality(Done)) <= One * (1 + Cardinality(Done'))
  <2>1. PICK d \in Nat : Cardinality(Done') = Cardinality(Done) + d
    BY <1>1, <1>2, Cardinality(Done') - Cardinality(Done) \in Nat
  <2>2. One * (1 + Cardinality(Done')) = One * (1 + Cardinality(Done)) + One * d /\ One * d \in Nat
    BY <2>1, <1>1
  <2>3. One * (1 + Cardinality(Done)) \in Nat
    BY <1>1
  <2> QED
    BY <2>2, <2>3
<1>4. One * (1 + Cardinality(Done)) \in Nat /\ One * (1 + Cardinality(Done')) \in Nat
  BY <1>1
<1> QED
  BY <1>3, <1>4 DEF BurstServed, Done
\* Taking the time keeps the invariant.
LEMMA ArriveStep ==
  ASSUME BucketInv, NEW r \in Requests, Arrive(r)
  PROVE  BucketInv'
<1>1. LimitTypeOK /\ calls \in [Requests -> CallOf] /\ calls[r].step = "idle"
  BY DEF BucketInv, LimitTypeOK, CallOf, Arrive
<1>2. Moves(r, "asked") /\ calls'[r].stamp = now /\ now \in Nat
  BY <1>1 DEF Arrive, Moves, CallOf, CallSteps, LimitTypeOK
<1>3. \A x : At(x)' = IF x = "asked" THEN At(x) \cup {r} ELSE At(x) \ {r}
  BY <1>2, AtMoves DEF CallSteps
<1>a. /\ r \notin At("allowed") /\ r \notin At("failed")
      /\ r \notin At("loaded") /\ r \notin At("refused")
  BY <1>1 DEF At
<1>b. /\ At("allowed")' = At("allowed") \ {r} /\ At("failed")' = At("failed") \ {r}
      /\ At("loaded")' = At("loaded") \ {r} /\ At("refused")' = At("refused") \ {r}
      /\ At("asked")' = At("asked") \cup {r}
  BY <1>3
<1>4. /\ At("allowed")' = At("allowed") /\ At("failed")' = At("failed")
      /\ At("loaded")' = At("loaded") /\ At("refused")' = At("refused")
      /\ At("asked")' = At("asked") \cup {r}
  BY <1>a, <1>b, Zenon
<1>5. UNCHANGED <<now, bucket, gone, overlapped, rewound>>
  BY DEF Arrive
<1>6. Alone' = Alone /\ Done' = Done
  BY <1>4, <1>5 DEF Alone, Done
<1>7. LimitTypeOK'
  BY <1>1, <1>2, <1>5 DEF LimitTypeOK, Moves, CallOf
<1>8. \A q \in At("loaded") : q # r /\ calls'[q] = calls[q]
  BY <1>1, <1>2 DEF At, Moves
<1>9. Sound(bucket)' /\ \A q \in At("loaded")' : SoundFor(calls'[q].read, rewound', Alone', Done')
  BY <1>4, <1>5, <1>6, <1>8 DEF BucketInv, Sound
<1>10. StampsPast'
  BY <1>1, <1>2, <1>5 DEF BucketInv, StampsPast, Moves
<1>11. GoneSound'
  <2>1. SUFFICES ASSUME gone PROVE GoneSound'
    BY <1>5 DEF GoneSound
  <2>2. One * Cardinality(bucket.spent) <= Rate * (now + rewound)
    BY <2>1 DEF BucketInv, GoneSound
  <2>3. ASSUME NEW q \in At("asked")'
        PROVE  One * Cardinality(bucket.spent) <= Rate * (calls'[q].stamp + rewound)
    <3>1. CASE q = r
      BY <3>1, <1>2, <2>2
    <3>2. CASE q # r
      <4>1. q \in At("asked") /\ calls'[q] = calls[q]
        BY <3>2, <1>2, <1>4 DEF Moves, At
      <4> QED
        BY <4>1, <2>1 DEF BucketInv, GoneSound
    <3> QED
      BY <3>1, <3>2
  <2> QED
    BY <2>2, <2>3, <1>5 DEF GoneSound
<1>12. BurstServed'
  BY <1>4 DEF BucketInv, BurstServed
<1> QED
  BY <1>7, <1>9, <1>10, <1>11, <1>12 DEF BucketInv, Sound

\* Reading keeps the invariant: what is read is sound, even a missing bucket.
LEMMA LoadStep ==
  ASSUME BucketInv, NEW r \in Requests, Load(r)
  PROVE  BucketInv'
<1> DEFINE b == IF gone THEN Full(calls[r].stamp, bucket.spent) ELSE bucket
<1>1. LimitTypeOK /\ calls \in [Requests -> CallOf] /\ calls[r].step = "asked" /\ r \in At("asked")
  BY DEF BucketInv, LimitTypeOK, CallOf, Load, At
<1>2. calls[r].stamp \in Nat /\ bucket \in Bucket /\ bucket.spent \in SUBSET Requests
  BY <1>1 DEF LimitTypeOK, CallOf, Bucket
<1>3. b \in Bucket /\ SoundFor(b, rewound, Alone, Done)
  <2>1. SoundFor(bucket, rewound, Alone, Done)
    BY DEF BucketInv, Sound
  <2>2. CASE ~gone
    BY <1>2, <2>1, <2>2
  <2>3. CASE gone
    <3>1. One * Cardinality(bucket.spent) <= Rate * (calls[r].stamp + rewound)
      BY <1>1, <2>3 DEF BucketInv, GoneSound
    <3>2. Alone \subseteq bucket.spent /\ bucket.spent \subseteq Done /\ rewound \in Nat
      BY <2>1, <1>1 DEF SoundFor, LimitTypeOK
    <3> QED
      BY <1>2, <2>3, <3>1, <3>2, FullSound
  <2> QED
    BY <2>2, <2>3
<1>4. calls' = [calls EXCEPT ![r].step = "loaded", ![r].read = b]
  BY DEF Load
<1> HIDE DEF b
<1>5. Moves(r, "loaded") /\ calls'[r].stamp = calls[r].stamp /\ calls'[r].read = b
  BY <1>1, <1>3, <1>4 DEF Moves, CallOf, CallSteps
<1>6. \A x : At(x)' = IF x = "loaded" THEN At(x) \cup {r} ELSE At(x) \ {r}
  BY <1>5, AtMoves DEF CallSteps
<1>7. /\ At("allowed")' = At("allowed") /\ At("failed")' = At("failed")
      /\ At("loaded")' = At("loaded") \cup {r} /\ At("refused")' = At("refused")
      /\ At("asked")' = At("asked") \ {r}
  <2>1. /\ r \notin At("allowed") /\ r \notin At("failed") /\ r \notin At("refused")
        /\ r \notin At("loaded")
    BY <1>1 DEF At
  <2> QED
    BY <1>6, <2>1
<1>8. UNCHANGED <<now, bucket, gone, overlapped, rewound>>
  BY DEF Load
<1>9. Alone' = Alone /\ Done' = Done
  BY <1>7, <1>8 DEF Alone, Done
<1>10. LimitTypeOK'
  BY <1>1, <1>5, <1>8 DEF LimitTypeOK, Moves, CallOf
<1>11. Sound(bucket)'
  BY <1>8, <1>9 DEF BucketInv, Sound
<1>12. ASSUME NEW q \in At("loaded")'
       PROVE  SoundFor(calls'[q].read, rewound', Alone', Done')
  <2>1. CASE q = r
    BY <2>1, <1>3, <1>5, <1>8, <1>9
  <2>2. CASE q # r
    <3>1. q \in At("loaded") /\ calls'[q] = calls[q]
      BY <2>2, <1>5, <1>7 DEF Moves, At
    <3> QED
      BY <3>1, <1>8, <1>9 DEF BucketInv, Sound
  <2> QED
    BY <2>1, <2>2
<1>13. StampsPast'
  BY <1>1, <1>5, <1>8 DEF BucketInv, StampsPast, Moves
<1>14. GoneSound'
  <2>1. \A q \in At("asked")' : q \in At("asked") /\ calls'[q] = calls[q]
    BY <1>5, <1>7 DEF Moves, At
  <2> QED
    BY <2>1, <1>8 DEF BucketInv, GoneSound
<1>15. BurstServed'
  BY <1>7 DEF BucketInv, BurstServed
<1> QED
  BY <1>10, <1>11, <1>12, <1>13, <1>14, <1>15 DEF BucketInv, Sound

\* What a save leaves: a sound account, the request charged if it passes.
LEMMA PutEffect ==
  ASSUME BucketInv, NEW r \in Requests, Put(r)
  PROVE  /\ LimitTypeOK /\ calls \in [Requests -> CallOf] /\ r \in At("loaded")
         /\ now' = now /\ gone' = FALSE /\ rewound' \in Nat /\ rewound <= rewound'
         /\ bucket' \in Bucket /\ bucket'.last <= now
         /\ Budgeted(bucket', rewound') /\ Filled(bucket')
         /\ Passes(Refill(calls[r].read, calls[r].stamp))
              => bucket'.spent = calls[r].read.spent \cup {r}
         /\ ~Passes(Refill(calls[r].read, calls[r].stamp))
              => bucket'.spent = calls[r].read.spent
         /\ Alone \subseteq calls[r].read.spent /\ calls[r].read.spent \subseteq Done
         /\ ~Passes(Refill(calls[r].read, calls[r].stamp))
              => Capacity < One * (1 + Cardinality(calls[r].read.spent))
<1> DEFINE b == calls[r].read
           t == calls[r].stamp
<1>1. LimitTypeOK /\ calls \in [Requests -> CallOf] /\ calls[r].step = "loaded" /\ r \in At("loaded")
  BY DEF BucketInv, LimitTypeOK, CallOf, Put, At
<1>2. b \in Bucket /\ t \in Nat /\ b.last \in Nat /\ rewound \in Nat /\ t <= now
  BY <1>1 DEF BucketInv, LimitTypeOK, CallOf, Bucket, StampsPast
<1>3. Budgeted(b, rewound) /\ Filled(b) /\ Alone \subseteq b.spent /\ b.spent \subseteq Done
  BY <1>1 DEF BucketInv, Sound, SoundFor
<1>4. r \notin b.spent
  BY <1>1, <1>3 DEF Done, At
<1>5. /\ bucket' = Consumed(r, b, t) /\ gone' = FALSE /\ now' = now
      /\ rewound' = rewound + Greater(0, b.last - t)
  BY DEF Put
<1>6. Greater(0, b.last - t) \in Nat
  BY <1>2 DEF Greater
<1> HIDE DEF b, t
<1>7. /\ Consumed(r, b, t) \in Bucket /\ Consumed(r, b, t).last = t
      /\ Passes(Refill(b, t)) => Consumed(r, b, t).spent = b.spent \cup {r}
      /\ ~Passes(Refill(b, t)) => Consumed(r, b, t).spent = b.spent
      /\ Budgeted(Consumed(r, b, t), rewound + Greater(0, b.last - t))
      /\ Filled(Consumed(r, b, t))
      /\ ~Passes(Refill(b, t)) => Capacity < One * (1 + Cardinality(b.spent))
  BY <1>2, <1>3, <1>4, ConsumedSound
<1>8. rewound' \in Nat /\ rewound <= rewound'
  BY <1>2, <1>5, <1>6
<1>9. /\ bucket' \in Bucket /\ bucket'.last = t
      /\ Passes(Refill(b, t)) => bucket'.spent = b.spent \cup {r}
      /\ ~Passes(Refill(b, t)) => bucket'.spent = b.spent
      /\ Budgeted(bucket', rewound') /\ Filled(bucket')
  BY <1>5, <1>7, Zenon
<1> QED
  BY <1>1, <1>2, <1>3, <1>5, <1>7, <1>8, <1>9 DEF b, t
\* The ways a call can end after a save.
Ends == {"allowed", "refused", "failed"}

\* A save keeps the invariant, when the bucket knows the call that ends and the other
\* reads need not.
LEMMA PutKeeps ==
  ASSUME BucketInv, NEW r \in Requests, Put(r), NEW s \in Ends, Moves(r, s),
         calls'[r].stamp = calls[r].stamp, overlapped' \in SUBSET Requests,
         Alone' \subseteq bucket'.spent, bucket'.spent \subseteq Done', Done \subseteq Done',
         At("loaded") # {r} => Alone' \subseteq Alone, BurstServed'
  PROVE  BucketInv'
<1>1. /\ LimitTypeOK /\ calls \in [Requests -> CallOf] /\ r \in At("loaded")
      /\ now' = now /\ gone' = FALSE /\ rewound' \in Nat /\ rewound <= rewound'
      /\ bucket' \in Bucket /\ bucket'.last <= now
      /\ Budgeted(bucket', rewound') /\ Filled(bucket')
  BY PutEffect
<1>2. s \in CallSteps /\ s # "loaded"
  BY DEF Ends, CallSteps
<1>3. At("loaded")' = At("loaded") \ {r}
  BY <1>2, AtMoves
<1>4. LimitTypeOK'
  BY <1>1 DEF LimitTypeOK, Moves, CallOf
<1>5. StampsPast'
  BY <1>1 DEF BucketInv, StampsPast, Moves
<1>6. Sound(bucket)'
  BY <1>1 DEF Sound, SoundFor
<1>7. ASSUME NEW q \in At("loaded")'
      PROVE  SoundFor(calls'[q].read, rewound', Alone', Done')
  <2>1. q \in At("loaded") /\ q # r /\ q \in Requests
    BY <1>3 DEF At
  <2>2. calls'[q] = calls[q] /\ calls[q].read \in Bucket
    BY <1>1, <2>1 DEF Moves, CallOf
  <2>3. Alone' \subseteq Alone
    BY <2>1
  <2>4. SoundFor(calls[q].read, rewound, Alone, Done) /\ rewound \in Nat
    BY <1>1, <2>1 DEF BucketInv, Sound, LimitTypeOK
  <2>5. SoundFor(calls[q].read, rewound', Alone', Done')
    BY <1>1, <2>2, <2>3, <2>4, SoundGrows
  <2> QED
    BY <2>2, <2>5
<1>8. GoneSound'
  BY <1>1 DEF GoneSound
<1> QED
  BY <1>4, <1>5, <1>6, <1>7, <1>8 DEF BucketInv, Sound

\* A save that is answered keeps the invariant.
LEMMA SaveStep ==
  ASSUME BucketInv, NEW r \in Requests, SaveBucket(r)
  PROVE  BucketInv'
<1> DEFINE passes == Passes(Refill(calls[r].read, calls[r].stamp))
           b == calls[r].read
           s == IF passes THEN "allowed" ELSE "refused"
<1>1. Put(r) /\ calls' = [calls EXCEPT ![r].step = s]
  BY DEF SaveBucket
<1>2. overlapped' = IF At("loaded") = {r} THEN overlapped ELSE overlapped \cup {r}
  BY DEF SaveBucket
<1>3. /\ LimitTypeOK /\ calls \in [Requests -> CallOf] /\ r \in At("loaded")
      /\ passes => bucket'.spent = b.spent \cup {r}
      /\ ~passes => bucket'.spent = b.spent
      /\ Alone \subseteq b.spent /\ b.spent \subseteq Done
      /\ ~passes => Capacity < One * (1 + Cardinality(b.spent))
  BY <1>1, PutEffect
<1>4. s \in Ends /\ s \in CallSteps
  BY DEF Ends, CallSteps
<1> HIDE DEF passes
<1>5. Moves(r, s) /\ calls'[r].stamp = calls[r].stamp
  BY <1>1, <1>3, <1>4 DEF Moves, CallOf
<1>6. \A x : At(x)' = IF x = s THEN At(x) \cup {r} ELSE At(x) \ {r}
  BY <1>4, <1>5, AtMoves
<1>7. r \notin At("allowed") /\ r \notin At("failed") /\ r \notin At("refused")
  BY <1>3 DEF At
<1>8. At("failed")' = At("failed")
  BY <1>6, <1>7
<1>9. overlapped' \in SUBSET Requests
  BY <1>2, <1>3 DEF LimitTypeOK
<1>10. At("loaded") # {r} => Alone' \subseteq Alone
  BY <1>2, <1>6 DEF Alone
<1>a. CASE passes
  <2>1. At("allowed")' = At("allowed") \cup {r} /\ At("refused")' = At("refused")
    BY <1>a, <1>6, <1>7
  <2>2. Done' = Done \cup {r} /\ Alone' \subseteq Alone \cup {r} /\ Done' \in SUBSET Requests
    BY <1>2, <1>8, <2>1 DEF Done, Alone, At
  <2>3. Alone' \subseteq bucket'.spent /\ bucket'.spent \subseteq Done'
    BY <1>a, <1>3, <2>2
  <2>4. BurstServed'
    BY <2>1, <2>2, BurstStays DEF BucketInv
  <2> QED
    BY <1>1, <1>4, <1>5, <1>9, <1>10, <2>2, <2>3, <2>4, PutKeeps
<1>b. CASE ~passes
  <2>1. At("allowed")' = At("allowed")
    BY <1>b, <1>6, <1>7
  <2>2. Done' = Done /\ Alone' \subseteq Alone /\ Done \in SUBSET Requests
    BY <1>2, <1>8, <2>1 DEF Done, Alone, At
  <2>3. Alone' \subseteq bucket'.spent /\ bucket'.spent \subseteq Done'
    BY <1>b, <1>3, <2>2
  <2>4. Capacity < One * (1 + Cardinality(Done))
    <3>1. IsFiniteSet(Done) /\ Cardinality(Done) \in Nat
      BY <2>2, Finite
    <3>2. Cardinality(b.spent) \in Nat /\ Cardinality(b.spent) <= Cardinality(Done)
      <4>1. b.spent \in SUBSET Done /\ b.spent \in SUBSET Requests
        BY <1>3, <2>2
      <4> QED
        BY <4>1, <3>1, FS_Subset, Finite
    <3>3. PICK d \in Nat : Cardinality(Done) = Cardinality(b.spent) + d
      BY <3>1, <3>2, Cardinality(Done) - Cardinality(b.spent) \in Nat
    <3>4. /\ One * (1 + Cardinality(Done)) = One * (1 + Cardinality(b.spent)) + One * d
          /\ One * d \in Nat /\ One * (1 + Cardinality(b.spent)) \in Nat
      BY <3>2, <3>3
    <3>5. Capacity < One * (1 + Cardinality(b.spent))
      BY <1>b, <1>3
    <3> QED
      BY <3>4, <3>5
  <2>5. BurstServed'
    BY <2>2, <2>4 DEF BurstServed, Done
  <2> QED
    BY <1>1, <1>4, <1>5, <1>9, <1>10, <2>2, <2>3, <2>5, PutKeeps
<1> QED
  BY <1>a, <1>b
\* A call that fails, its save served or not, keeps the invariant.
LEMMA FailStep ==
  ASSUME BucketInv, NEW r \in Requests, ConsumeFails(r)
  PROVE  BucketInv'
<1>1. /\ LimitTypeOK /\ calls \in [Requests -> CallOf] /\ calls[r].step \in {"asked", "loaded"}
      /\ "failed" \in Ends /\ "failed" \in CallSteps
  BY DEF BucketInv, LimitTypeOK, CallOf, ConsumeFails, Put, Ends, CallSteps
<1>2. Moves(r, "failed") /\ calls'[r].stamp = calls[r].stamp /\ overlapped' = overlapped
  BY <1>1 DEF ConsumeFails, Moves, CallOf
<1>3. \A x : At(x)' = IF x = "failed" THEN At(x) \cup {r} ELSE At(x) \ {r}
  BY <1>1, <1>2, AtMoves
<1>4. r \notin At("allowed") /\ r \notin At("refused")
  BY <1>1 DEF At
<1>5. /\ At("allowed")' = At("allowed") /\ At("refused")' = At("refused")
      /\ At("failed")' = At("failed") \cup {r} /\ At("loaded")' = At("loaded") \ {r}
      /\ At("asked")' = At("asked") \ {r}
  BY <1>3, <1>4
<1>6. Alone' = Alone /\ Done' = Done \cup {r} /\ Done' \in SUBSET Requests
  BY <1>2, <1>5 DEF Alone, Done, At
<1>7. BurstServed'
  BY <1>5, <1>6, BurstStays DEF BucketInv
<1>a. CASE Put(r)
  <2>1. /\ Passes(Refill(calls[r].read, calls[r].stamp))
             => bucket'.spent = calls[r].read.spent \cup {r}
        /\ ~Passes(Refill(calls[r].read, calls[r].stamp)) => bucket'.spent = calls[r].read.spent
        /\ Alone \subseteq calls[r].read.spent /\ calls[r].read.spent \subseteq Done
    BY <1>a, PutEffect
  <2>2. Alone' \subseteq bucket'.spent /\ bucket'.spent \subseteq Done'
    BY <1>6, <2>1
  <2>3. overlapped' \in SUBSET Requests
    BY <1>1, <1>2 DEF LimitTypeOK
  <2> QED
    BY <1>a, <1>1, <1>2, <1>6, <1>7, <2>2, <2>3, PutKeeps
<1>b. CASE UNCHANGED <<now, bucket, gone, rewound>>
  <2>1. LimitTypeOK'
    BY <1>b, <1>1, <1>2 DEF LimitTypeOK, Moves, CallOf
  <2>2. StampsPast'
    BY <1>b, <1>1, <1>2 DEF BucketInv, StampsPast, Moves
  <2>3. bucket \in Bucket /\ rewound \in Nat /\ rewound <= rewound
    BY <1>1 DEF LimitTypeOK
  <2>4. SoundFor(bucket, rewound, Alone, Done)
    BY DEF BucketInv, Sound
  <2>5. SoundFor(bucket, rewound, Alone', Done')
    BY <1>6, <2>4 DEF SoundFor
  <2>6. ASSUME NEW q \in At("loaded")'
        PROVE  SoundFor(calls'[q].read, rewound', Alone', Done')
    <3>1. q \in At("loaded") /\ calls'[q] = calls[q]
      BY <1>2, <1>5 DEF Moves, At
    <3>2. SoundFor(calls[q].read, rewound, Alone, Done)
      BY <3>1 DEF BucketInv, Sound
    <3> QED
      BY <1>b, <1>6, <3>1, <3>2 DEF SoundFor
  <2>7. GoneSound'
    <3>1. \A q \in At("asked")' : q \in At("asked") /\ calls'[q] = calls[q]
      BY <1>2, <1>5 DEF Moves, At
    <3> QED
      BY <1>b, <3>1 DEF BucketInv, GoneSound
  <2> QED
    BY <1>b, <1>7, <2>1, <2>2, <2>5, <2>6, <2>7 DEF BucketInv, Sound
<1> QED
  BY <1>a, <1>b DEF ConsumeFails

\* A time to live is long enough for a refill, so an expiry keeps the invariant.
LEMMA ExpireStep ==
  ASSUME BucketInv, DropBucket
  PROVE  BucketInv'
<1>1. UNCHANGED <<now, bucket, calls, overlapped, rewound>> /\ gone' = TRUE
  BY DEF DropBucket
<1>2. LimitTypeOK /\ bucket \in Bucket /\ bucket.last \in Nat /\ bucket.tokens \in Nat
      /\ now \in Nat /\ rewound \in Nat /\ Cardinality(bucket.spent) \in Nat
  BY Finite DEF BucketInv, LimitTypeOK, Bucket
<1>3. One * Cardinality(bucket.spent) + bucket.tokens <= Capacity + Rate * (bucket.last + rewound)
  BY DEF BucketInv, Sound, SoundFor, Budgeted
<1>4. ASSUME NEW t \in Nat, Capacity <= Rate * (t - bucket.last)
      PROVE  One * Cardinality(bucket.spent) <= Rate * (t + rewound)
  <2>1. Rate * (t + rewound) = Rate * (t - bucket.last) + Rate * (bucket.last + rewound)
    BY <1>2
  <2>2. /\ Rate * (t - bucket.last) \in Int /\ Rate * (bucket.last + rewound) \in Nat
        /\ One * Cardinality(bucket.spent) \in Nat
    BY <1>2
  <2> QED
    BY <1>2, <1>3, <1>4, <2>1, <2>2
<1>5. Capacity <= Rate * (now - bucket.last)
  <2>1. PICK d \in Nat : now - bucket.last = Ttl + d
    BY <1>2, now - bucket.last - Ttl \in Nat DEF DropBucket
  <2>2. Rate * (Ttl + d) = Rate * Ttl + Rate * d /\ Rate * d \in Nat /\ Rate * Ttl \in Nat
    BY <2>1
  <2> QED
    BY <2>1, <2>2
<1>6. GoneSound'
  <2>1. One * Cardinality(bucket.spent) <= Rate * (now + rewound)
    BY <1>2, <1>4, <1>5
  <2>2. ASSUME NEW q \in At("asked")
        PROVE  One * Cardinality(bucket.spent) <= Rate * (calls[q].stamp + rewound)
    <3>1. calls[q].stamp \in Nat /\ Capacity <= Rate * (calls[q].stamp - bucket.last)
      BY <1>2 DEF LimitTypeOK, At, DropBucket
    <3> QED
      BY <3>1, <1>4
  <2>3. At("asked")' = At("asked")
    BY <1>1 DEF At
  <2> QED
    BY <1>1, <2>1, <2>2, <2>3 DEF GoneSound
<1>7. LimitTypeOK' /\ StampsPast'
  BY <1>1, <1>2 DEF BucketInv, LimitTypeOK, StampsPast
<1>8. \A x : At(x)' = At(x)
  BY <1>1 DEF At
<1>9. Alone' = Alone /\ Done' = Done
  BY <1>1, <1>8 DEF Alone, Done
<1> QED
  BY <1>1, <1>6, <1>7, <1>8, <1>9 DEF BucketInv, Sound, BurstServed

\* The passing of time keeps the invariant.
LEMMA TickStep ==
  ASSUME BucketInv, Tick
  PROVE  BucketInv'
<1>1. UNCHANGED <<bucket, gone, calls, overlapped, rewound>> /\ now' = now + 1
  BY DEF Tick
<1>2. LimitTypeOK /\ now \in Nat /\ rewound \in Nat /\ Cardinality(bucket.spent) \in Nat
  BY Finite DEF BucketInv, LimitTypeOK, Bucket
<1>3. \A x : At(x)' = At(x)
  BY <1>1 DEF At
<1>4. Alone' = Alone /\ Done' = Done
  BY <1>1, <1>3 DEF Alone, Done
<1>5. LimitTypeOK'
  BY <1>1, <1>2 DEF LimitTypeOK
<1>6. StampsPast'
  <2>1. bucket.last \in Nat /\ \A q \in Requests : calls[q].stamp \in Nat
    BY <1>2 DEF LimitTypeOK, Bucket
  <2> QED
    BY <1>1, <1>2, <2>1 DEF BucketInv, StampsPast
<1>7. GoneSound'
  <2>1. SUFFICES ASSUME gone PROVE GoneSound'
    BY <1>1 DEF GoneSound
  <2>2. One * Cardinality(bucket.spent) <= Rate * (now + rewound)
    BY <2>1 DEF BucketInv, GoneSound
  <2>3. /\ Rate * (now' + rewound) = Rate * (now + rewound) + Rate
        /\ Rate * (now + rewound) \in Nat /\ One * Cardinality(bucket.spent) \in Nat
    BY <1>1, <1>2
  <2>4. One * Cardinality(bucket.spent) <= Rate * (now' + rewound)
    BY <2>2, <2>3
  <2> QED
    BY <1>1, <1>3, <2>1, <2>4 DEF BucketInv, GoneSound
<1> QED
  BY <1>1, <1>3, <1>4, <1>5, <1>6, <1>7 DEF BucketInv, Sound, BurstServed

\* Every step keeps the invariant.
LEMMA BucketInvStep == BucketInv /\ [LimitNext]_limitVars => BucketInv'
<1> SUFFICES ASSUME BucketInv, [LimitNext]_limitVars PROVE BucketInv'
  OBVIOUS
<1>1. ASSUME NEW r \in Requests, Arrive(r) \/ Load(r) \/ SaveBucket(r) \/ ConsumeFails(r)
      PROVE  BucketInv'
  BY <1>1, ArriveStep, LoadStep, SaveStep, FailStep
<1>2. CASE UNCHANGED limitVars
  <2>1. \A x : At(x)' = At(x)
    BY <1>2 DEF limitVars, At
  <2> QED
    BY <1>2, <2>1 DEF limitVars, BucketInv, LimitTypeOK, StampsPast, Sound, Alone, Done, GoneSound, BurstServed
<1> QED
  BY <1>1, <1>2, ExpireStep, TickStep DEF LimitNext

\* The inductive invariant holds throughout.
LEMMA BucketInvHolds == LimitSpec => []BucketInv
BY BucketInvInit, BucketInvStep, PTL DEF LimitSpec

-----------------------------------------------------------------------------

\* The invariant implies the budget.
LEMMA BudgetFollows == BucketInv => WithinBudget
<1> SUFFICES ASSUME BucketInv PROVE WithinBudget
  OBVIOUS
<1>1. /\ bucket \in Bucket /\ bucket.last \in Nat /\ bucket.tokens \in Nat /\ now \in Nat
      /\ rewound \in Nat /\ bucket.last <= now /\ bucket.spent \in SUBSET Requests
  BY DEF BucketInv, LimitTypeOK, Bucket, StampsPast
<1>2. Alone \subseteq bucket.spent
  BY DEF BucketInv, Sound, SoundFor
<1>3. One * Cardinality(bucket.spent) + bucket.tokens <= Capacity + Rate * (bucket.last + rewound)
  BY DEF BucketInv, Sound, SoundFor, Budgeted
<1>4. /\ Cardinality(Alone) \in Nat /\ Cardinality(bucket.spent) \in Nat
      /\ Cardinality(Alone) <= Cardinality(bucket.spent)
  <2>1. Alone \in SUBSET bucket.spent /\ Alone \in SUBSET Requests
    BY <1>1, <1>2
  <2> QED
    BY <1>1, <2>1, Finite, FS_Subset
<1>5. PICK d \in Nat : Cardinality(bucket.spent) = Cardinality(Alone) + d
  BY <1>4, Cardinality(bucket.spent) - Cardinality(Alone) \in Nat
<1>6. PICK e \in Nat : now = bucket.last + e
  BY <1>1, now - bucket.last \in Nat
<1>7. /\ One * Cardinality(bucket.spent) = One * Cardinality(Alone) + One * d
      /\ Rate * (now + rewound) = Rate * (bucket.last + rewound) + Rate * e
      /\ One * d \in Nat /\ Rate * e \in Nat /\ One * Cardinality(Alone) \in Nat
      /\ Rate * (bucket.last + rewound) \in Nat
  BY <1>1, <1>4, <1>5, <1>6
<1>8. One * Cardinality(Alone) <= Capacity + Rate * (now + rewound)
  BY <1>1, <1>3, <1>7
<1> QED
  BY <1>8 DEF WithinBudget, Alone
\* The deficit, divided by the rate of a second and rounded up, is covered.
LEMMA RoundedUp ==
  ASSUME NEW d \in Nat, NEW D \in Nat \ {0}
  PROVE  (d + D - 1) \div D \in Nat /\ d <= D * ((d + D - 1) \div D)
<1> DEFINE n == d + D - 1
<1>1. n \in Nat /\ n = D * (n \div D) + (n % D) /\ n % D \in 0 .. D - 1 /\ n \div D \in Nat
  OBVIOUS
<1>2. D * (n \div D) \in Nat
  BY <1>1
<1>3. d <= D * (n \div D)
  <2> DEFINE p == D * (n \div D)
             m == n % D
  <2>1. n = p + m /\ m <= D - 1 /\ p \in Nat /\ m \in Nat /\ n = d + D - 1
    BY <1>1, <1>2
  <2> HIDE DEF p, m, n
  <2>2. d <= p
    BY <2>1
  <2> QED
    BY <2>2 DEF p
<1> QED
  BY <1>1, <1>3

\* The invariant implies that a client that waits passes.
LEMMA RetryFollows == BucketInv => RetrySuffices
<1> SUFFICES ASSUME BucketInv, NEW r \in At("refused"),
                    bucket = Consumed(r, calls[r].read, calls[r].stamp)
             PROVE  Passes(Refill(bucket, calls[r].stamp
                           + Second * RetryAfter(Refill(calls[r].read, calls[r].stamp))))
  BY DEF RetrySuffices
<1> DEFINE t == calls[r].stamp
           tk == Refill(calls[r].read, t)
           w == RetryAfter(tk)
           D == Rate * Second
<1>1. calls[r].read \in Bucket /\ t \in Nat /\ bucket \in Bucket
  BY DEF BucketInv, LimitTypeOK, At
<1>2. tk \in 0 .. Capacity
  <2>1. /\ tk \in calls[r].read.tokens .. Capacity
        /\ calls[r].read.tokens \in Nat
    BY <1>1, RefillBounds, Zenon
  <2> HIDE DEF tk
  <2> QED
    BY <2>1
<1>3. D \in Nat \ {0}
  OBVIOUS
<1>4. bucket.last = t /\ (~Passes(tk) => bucket.tokens = tk)
  BY DEF Consumed
<1>5. bucket.tokens \in Nat /\ bucket.tokens <= Capacity
  BY <1>1 DEF Bucket
<1> HIDE DEF tk
<1>6. w \in Nat /\ (tk < One => One - tk <= D * w)
  <2>1. CASE tk < One
    <3> DEFINE q == (One - tk + D - 1) \div D
    <3>1. One - tk \in Nat
      BY <1>2, <2>1
    <3>2. q \in Nat /\ One - tk <= D * q
      BY <1>3, <3>1, RoundedUp
    <3>3. w = Greater(1, q)
      BY DEF RetryAfter
    <3> HIDE DEF q, D, w
    <3>4. w \in Nat /\ q <= w
      BY <3>2, <3>3 DEF Greater
    <3>5. PICK e \in Nat : w = q + e
      BY <3>2, <3>4, w - q \in Nat
    <3>6. D * w = D * q + D * e /\ D * e \in Nat /\ D * q \in Nat
      BY <1>3, <3>2, <3>5
    <3> QED
      BY <1>2, <3>1, <3>2, <3>4, <3>6
  <2>2. CASE ~(tk < One)
    <3> DEFINE q == (One - tk + D - 1) \div D
    <3>1. One - tk + D - 1 \in Int
      BY <1>2, <1>3
    <3>2. q \in Int
      BY <1>3, <3>1
    <3>3. w = Greater(1, q)
      BY DEF RetryAfter
    <3> HIDE DEF q, D, w
    <3> QED
      BY <2>2, <3>2, <3>3 DEF Greater
  <2> QED
    BY <2>1, <2>2
<1>7. D * w = Rate * (Second * w) /\ Second * w \in Nat
  <2> HIDE DEF w
  <2> QED
    BY <1>6
<1> HIDE DEF D, w
<1>8. Greater(0, (t + Second * w) - t) = Second * w
  BY <1>1, <1>7 DEF Greater
<1>9. Refill(bucket, t + Second * w) = Lesser(Capacity, bucket.tokens + Rate * (Second * w))
  BY <1>4, <1>8 DEF Refill
<1>10. CASE Passes(tk)
  <2>1. r \notin bucket.spent
    BY DEF BucketInv, Sound, SoundFor, Done, At
  <2>2. r \in bucket.spent
    BY <1>10 DEF Consumed, tk
  <2> QED
    BY <2>1, <2>2
<1>11. CASE ~Passes(tk)
  <2>1. tk < One /\ bucket.tokens = tk
    BY <1>2, <1>4, <1>11 DEF Passes
  <2>2. One <= bucket.tokens + Rate * (Second * w) /\ Rate * (Second * w) \in Nat
    BY <1>2, <1>6, <1>7, <2>1
  <2>3. Passes(Lesser(Capacity, bucket.tokens + Rate * (Second * w)))
    BY <1>5, <2>2 DEF Passes, Lesser
  <2> QED
    BY <1>9, <2>3 DEF w, tk
<1> QED
  BY <1>10, <1>11

-----------------------------------------------------------------------------

\* Buckets stay within their capacity (TypeOK), for every burst, rate and set of
\* concurrent requests.
THEOREM BucketTypeCorrect == LimitSpec => []LimitTypeOK
<1>1. BucketInv => LimitTypeOK
  BY DEF BucketInv
<1> QED
  BY <1>1, BucketInvHolds, PTL

\* consume lets through no more calls that overlap no other than the burst and the
\* refill allow (WithinBudget).
THEOREM BudgetKept == LimitSpec => []WithinBudget
BY BudgetFollows, BucketInvHolds, PTL

\* consume refuses nobody before a burst was spent (BurstServed).
THEOREM BurstsServed == LimitSpec => []BurstServed
<1>1. BucketInv => BurstServed
  BY DEF BucketInv
<1> QED
  BY <1>1, BucketInvHolds, PTL

\* The Retry-After that consume gives is long enough (RetrySuffices).
THEOREM RetriesPass == LimitSpec => []RetrySuffices
BY RetryFollows, BucketInvHolds, PTL

HIDE RateLimitAssumption

(***************************************************************************)
(* HealthChecks                                                            *)
(***************************************************************************)
USE HealthAssumption

-----------------------------------------------------------------------------

ConfigRow == [version: Nat, active: BOOLEAN, health: {"unknown", "healthy", "down"}]

SweepState ==
  [pc: {"idle", "next", "missed", "probing", "answered"}, todo: Seq(Tenants),
   version: Nat \cup {Absent}, ok: BOOLEAN \cup {Absent}]

\* A sweep past its lookup stands at a tenant, and one that was answered holds
\* the answer.
AtTenant(s) ==
  /\ s.pc \in {"missed", "probing", "answered"} => s.todo # <<>>
  /\ s.pc = "answered" => s.ok \in BOOLEAN

HealthInv ==
  /\ config \in [Tenants -> ConfigRow]
  /\ instance \in [Tenants -> Nat \cup {Absent}]
  /\ cache \in [Tenants -> BOOLEAN \cup {Absent}]
  /\ sweep \in [Sweepers -> SweepState]
  /\ \A c \in Sweepers : AtTenant(sweep[c])
  /\ RecordMatchesCache

\* Nothing is cached or recorded, and nobody sweeps.
LEMMA HealthStart == HealthInit => HealthInv
<1> SUFFICES ASSUME HealthInit
             PROVE  HealthInv
  OBVIOUS
<1>1. IdleSweep \in SweepState /\ AtTenant(IdleSweep)
  BY DEF IdleSweep, SweepState, AtTenant
<1>2. sweep \in [Sweepers -> SweepState] /\ \A c \in Sweepers : AtTenant(sweep[c])
  BY <1>1 DEF HealthInit
<1>3. QED
  BY <1>2 DEF HealthInit, HealthInv, ConfigRow, RecordMatchesCache

\* A step of one sweep that leaves the records and the cache alone.
LEMMA SweepMoves ==
  ASSUME HealthInv, NEW c \in Sweepers, NEW s \in SweepState, AtTenant(s),
         sweep' = [sweep EXCEPT ![c] = s],
         instance' \in [Tenants -> Nat \cup {Absent}], UNCHANGED <<config, cache>>
  PROVE  HealthInv'
<1>1. sweep' \in [Sweepers -> SweepState]
  BY DEF HealthInv
<1>2. ASSUME NEW d \in Sweepers
      PROVE  AtTenant(sweep'[d])
  BY DEF HealthInv
<1>3. RecordMatchesCache'
  BY DEF HealthInv, RecordMatchesCache
<1>4. QED
  BY <1>1, <1>2, <1>3 DEF HealthInv

\* A step of the host, the providers or the clock.
LEMMA HostStep ==
  ASSUME HealthInv, NEW t \in Tenants,
         Host(t) \/ ExpireCached(t) \/ \E v \in Versions : ProviderTurns(t, v)
  PROVE  HealthInv'
<1>1. UNCHANGED sweep
  BY DEF Host, SaveConfig, Deactivate, Invalidate, ExpireCached, ProviderTurns
<1>2. /\ config' \in [Tenants -> ConfigRow]
      /\ \A u \in Tenants : config'[u].health \in {config[u].health, "unknown"}
  <2>1. CASE SaveConfig(t)
    <3> DEFINE row == [version |-> config[t].version + 1, active |-> TRUE,
                       health |-> "unknown"]
    <3>1. config[t].version \in Nat
      BY DEF HealthInv, ConfigRow
    <3>2. row \in ConfigRow /\ row.health = "unknown"
      BY <3>1 DEF ConfigRow
    <3>3. config' = [config EXCEPT ![t] = row]
      BY <2>1 DEF SaveConfig
    <3> HIDE DEF row
    <3>4. QED
      BY <3>2, <3>3 DEF HealthInv
  <2>2. CASE Deactivate(t)
    <3> DEFINE row == [config[t] EXCEPT !.active = FALSE]
    <3>1. config[t] \in ConfigRow
      BY DEF HealthInv
    <3>2. row \in ConfigRow /\ row.health = config[t].health
      BY <3>1 DEF ConfigRow
    <3>3. config' = [config EXCEPT ![t] = row]
      BY <2>2 DEF Deactivate
    <3> HIDE DEF row
    <3>4. QED
      BY <3>2, <3>3 DEF HealthInv
  <2>3. CASE config' = config
    BY <2>3 DEF HealthInv
  <2>4. QED
    BY <2>1, <2>2, <2>3 DEF Host, Invalidate, ExpireCached, ProviderTurns
<1>3. instance' \in [Tenants -> Nat \cup {Absent}]
  BY DEF Host, SaveConfig, Deactivate, Invalidate, ExpireCached, ProviderTurns, HealthInv
<1>4. /\ cache' \in [Tenants -> BOOLEAN \cup {Absent}]
      /\ \A u \in Tenants : cache'[u] \in {cache[u], Absent}
  BY DEF Host, SaveConfig, Deactivate, Invalidate, ExpireCached, ProviderTurns, HealthInv
<1>5. RecordMatchesCache'
  BY <1>2, <1>4 DEF HealthInv, RecordMatchesCache, StatusOf
<1>6. QED
  BY <1>1, <1>2, <1>3, <1>4, <1>5 DEF HealthInv

\* What a sweep that stands at a tenant goes on with.
LEMMA SweepAt ==
  ASSUME HealthInv, NEW c \in Sweepers, sweep[c].todo # <<>>
  PROVE  /\ Current(c) \in Tenants
         /\ Advance(c) \in SweepState /\ AtTenant(Advance(c))
<1>1. sweep[c].todo \in Seq(Tenants) /\ sweep[c].todo # <<>>
  BY DEF HealthInv, SweepState
<1>2. Head(sweep[c].todo) \in Tenants /\ Tail(sweep[c].todo) \in Seq(Tenants)
  BY <1>1
<1>3. QED
  BY <1>2 DEF Current, Advance, IdleSweep, SweepState, AtTenant

\* The answer is recorded in the cache and the configuration at once.
LEMMA RecordKeeps ==
  ASSUME HealthInv, NEW c \in Sweepers, Record(c)
  PROVE  HealthInv'
<1> DEFINE t == Current(c)
<1>1. /\ sweep[c].ok \in BOOLEAN /\ t \in Tenants
      /\ Advance(c) \in SweepState /\ AtTenant(Advance(c))
  <2>1. AtTenant(sweep[c]) /\ sweep[c].pc = "answered"
    BY DEF Record, HealthInv
  <2>2. sweep[c].ok \in BOOLEAN /\ sweep[c].todo # <<>>
    BY <2>1 DEF AtTenant
  <2>3. QED
    BY <2>2, SweepAt
<1>2. /\ config' = [config EXCEPT ![t].health = StatusOf(sweep[c].ok)]
      /\ cache' = [cache EXCEPT ![t] = sweep[c].ok]
      /\ sweep' = [sweep EXCEPT ![c] = Advance(c)]
      /\ instance' = instance
  BY DEF Record
<1> DEFINE row == [config[t] EXCEPT !.health = StatusOf(sweep[c].ok)]
<1> HIDE DEF t
<1>3. config' \in [Tenants -> ConfigRow] /\ cache' \in [Tenants -> BOOLEAN \cup {Absent}]
  <2>1. config[t] \in ConfigRow
    BY <1>1 DEF HealthInv
  <2>2. row \in ConfigRow
    BY <2>1 DEF ConfigRow, StatusOf
  <2>3. config' = [config EXCEPT ![t] = row]
    BY <1>2
  <2> HIDE DEF row
  <2>4. config' \in [Tenants -> ConfigRow]
    BY <2>2, <2>3 DEF HealthInv
  <2>5. QED
    BY <1>1, <1>2, <2>4 DEF HealthInv
<1>4. ASSUME NEW u \in Tenants, cache'[u] # Absent, config'[u].health # "unknown"
      PROVE  config'[u].health = StatusOf(cache'[u])
  <2>1. CASE u = t
    BY <1>1, <1>2, <2>1 DEF HealthInv, ConfigRow
  <2>2. CASE u # t
    BY <1>1, <1>2, <1>4, <2>2 DEF HealthInv, ConfigRow, RecordMatchesCache
  <2>3. QED
    BY <2>1, <2>2
<1>5. sweep' \in [Sweepers -> SweepState] /\ \A d \in Sweepers : AtTenant(sweep'[d])
  BY <1>1, <1>2 DEF HealthInv
<1>6. QED
  BY <1>2, <1>3, <1>4, <1>5 DEF HealthInv, RecordMatchesCache

\* Every step of a sweep.
LEMMA SweepStepKeeps ==
  ASSUME HealthInv, NEW c \in Sweepers, Start(c) \/ SweepStep(c)
  PROVE  HealthInv'
<1>1. sweep[c] \in SweepState /\ AtTenant(sweep[c])
  BY DEF HealthInv
<1>2. IdleSweep \in SweepState /\ AtTenant(IdleSweep)
  BY DEF IdleSweep, SweepState, AtTenant
<1>3. CASE Start(c)
  <2> DEFINE s == [IdleSweep EXCEPT !.pc = "next", !.todo = Listing]
  <2>1. s \in SweepState /\ AtTenant(s)
    BY DEF IdleSweep, SweepState, AtTenant
  <2>2. /\ sweep' = [sweep EXCEPT ![c] = s] /\ UNCHANGED <<config, cache>>
        /\ instance' \in [Tenants -> Nat \cup {Absent}]
    BY <1>3 DEF Start, HealthInv
  <2> HIDE DEF s
  <2>3. QED
    BY <2>1, <2>2, SweepMoves
<1>4. CASE Lookup(c)
  <2> DEFINE s == IF cache[Current(c)] # Absent THEN Advance(c)
                  ELSE [sweep[c] EXCEPT !.pc = "missed"]
  <2>1. sweep[c].todo # <<>>
    BY <1>4 DEF Lookup
  <2>2. s \in SweepState /\ AtTenant(s)
    <3>1. [sweep[c] EXCEPT !.pc = "missed"] \in SweepState
      BY <1>1 DEF SweepState
    <3>2. AtTenant([sweep[c] EXCEPT !.pc = "missed"])
      BY <1>1, <2>1 DEF SweepState, AtTenant
    <3>3. QED
      BY <2>1, <3>1, <3>2, SweepAt
  <2>3. /\ sweep' = [sweep EXCEPT ![c] = s] /\ UNCHANGED <<config, cache>>
        /\ instance' \in [Tenants -> Nat \cup {Absent}]
    BY <1>4 DEF Lookup, HealthInv
  <2> HIDE DEF s
  <2>4. QED
    BY <2>2, <2>3, SweepMoves
<1>5. CASE Resolve(c)
  <2> DEFINE t == Current(c)
             version == IF instance[t] # Absent THEN instance[t] ELSE config[t].version
             s == [sweep[c] EXCEPT !.pc = "probing", !.version = version]
  <2>1. sweep[c].todo # <<>> /\ t \in Tenants
    BY <1>1, <1>5, SweepAt DEF Resolve, AtTenant
  <2>2. version \in Nat
    BY <2>1 DEF HealthInv, ConfigRow
  <2>3. s \in SweepState /\ AtTenant(s)
    BY <1>1, <2>1, <2>2 DEF SweepState, AtTenant
  <2>4. CASE instance[t] # Absent \/ config[t].active
    <3>1. /\ sweep' = [sweep EXCEPT ![c] = s] /\ UNCHANGED <<config, cache>>
          /\ instance' = [instance EXCEPT ![t] = version]
      BY <1>5, <2>4 DEF Resolve, HealthInv
    <3>2. instance' \in [Tenants -> Nat \cup {Absent}]
      BY <2>2, <3>1 DEF HealthInv
    <3> HIDE DEF s
    <3>3. QED
      BY <2>3, <3>1, <3>2, SweepMoves
  <2>5. CASE ~(instance[t] # Absent \/ config[t].active)
    BY <1>2, <1>5, <2>5, SweepMoves DEF Resolve, SweepEnds, HealthInv
  <2>6. QED
    BY <2>4, <2>5
<1>6. ASSUME NEW ok \in BOOLEAN, ProviderAnswers(c, ok)
      PROVE  HealthInv'
  <2> DEFINE s == [sweep[c] EXCEPT !.pc = "answered", !.ok = ok]
  <2>1. s \in SweepState /\ AtTenant(s)
    BY <1>1, <1>6 DEF ProviderAnswers, SweepState, AtTenant
  <2>2. /\ sweep' = [sweep EXCEPT ![c] = s] /\ UNCHANGED <<config, cache>>
        /\ instance' \in [Tenants -> Nat \cup {Absent}]
    BY <1>6 DEF ProviderAnswers, HealthInv
  <2> HIDE DEF s
  <2>3. QED
    BY <2>1, <2>2, SweepMoves
<1>7. CASE Record(c)
  BY <1>7, RecordKeeps
<1>8. CASE Finish(c)
  BY <1>2, <1>8, SweepMoves DEF Finish, SweepEnds, HealthInv
<1>9. QED
  BY <1>3, <1>4, <1>5, <1>6, <1>7, <1>8 DEF SweepStep

\* Every step of the server and of the host.
LEMMA HealthStep == HealthInv /\ [HealthNext]_healthVars => HealthInv'
<1>1. CASE UNCHANGED healthVars
  BY <1>1 DEF healthVars, HealthInv, RecordMatchesCache
<1>2. QED
  BY <1>1, HostStep, SweepStepKeeps DEF HealthNext

\* What the endpoint answers from its cache and what the configuration shows never
\* contradict each other, whatever sweeps overlap and whatever the host changes.
THEOREM RecordsMatch == HealthSpec => []RecordMatchesCache
<1>1. HealthInv => RecordMatchesCache
  BY DEF HealthInv
<1>2. QED
  BY <1>1, HealthStart, HealthStep, PTL DEF HealthSpec

HIDE HealthAssumption

(***************************************************************************)
(* PgStores                                                                *)
(***************************************************************************)
USE PgAssumption

-----------------------------------------------------------------------------
(* Types *)

Pcs == {"idle", "allowed", "waiting", "begun", "heads", "read", "written", "thrown"}

HeadRow == [seq: Nat \cup {-1}, id: Nat]

Line == [no: Nat, kind: WalletKinds, n: Nat,
         status: {"approved", "pending", "declined"}, after: Int]

WalletDraft == [balance: Int, row: SUBSET Line]

PgCall ==
  [pc: Pcs, op: Op \cup {None}, id: Nat,
   seen: Int \cup SessionState \cup HeadRow \cup {None},
   draft: WalletDraft \cup SessionState \cup Entry \cup {None}]

\* What a call has read and is to write is of its table, and the session it is
\* about is there.
Fits(k, sessions) ==
  /\ k.pc # "idle" =>
       /\ k.op \in Op
       /\ OnSession(k.op) => sessions[k.op.key] # None
  /\ k.pc = "heads" => k.op.key \in Chains
  /\ k.pc \in {"heads", "read", "written"} =>
       /\ OnWallet(k.op) => k.seen \in Int
       /\ OnSession(k.op) => k.seen \in SessionState
       /\ k.op.key \in Chains => k.seen \in HeadRow
  /\ k.pc = "written" =>
       /\ OnWallet(k.op) => k.draft \in WalletDraft
       /\ OnSession(k.op) => k.draft \in SessionState
       /\ k.op.key \in Chains => k.draft \in Entry

CallsFit(states, sessions) ==
  /\ states \in [Callers -> PgCall]
  /\ \A c \in Callers : Fits(states[c], sessions)

PgTypes ==
  /\ CallsFit(call, session)
  /\ told \in Seq({"pending", "ok", "failed"})
  /\ serial \in Nat
  /\ balance \in [Accounts -> Int \cup {None}]
  /\ rows \in [Accounts -> SUBSET Line]
  /\ audit \in [Chains -> SUBSET Entry]
  /\ session \in [Sessions -> SessionState \cup {None}]
  /\ log \in Seq([op: Op, id: Nat])

\* What an operation is about decides what it may be.
LEMMA OpFacts ==
  ASSUME NEW op \in Op
  PROVE  /\ op.key \in Accounts \cup Chains \cup Sessions
         /\ op.n \in Int
         /\ op.key \in Accounts =>
              op.n \in Nat /\ op.kind \in WalletKinds \cup {"getOrCreate"}
         /\ op.key \in Chains => op.kind = "append"
         /\ op.key \in Sessions =>
              /\ op.kind \in {"recordSpin", "close"}
              /\ op.kind = "recordSpin" => -op.n <= MaxBet
              /\ op.kind = "close" => op.n = 0
<1>1. CASE op \in [kind: WalletKinds, key: Accounts, n: Amounts]
  <2>1. op.kind \in WalletKinds /\ op.key \in Accounts /\ op.n \in Amounts
    BY <1>1
  <2>2. op.key \notin Chains /\ op.key \notin Sessions
    BY <2>1
  <2>3. op.n \in Nat
    BY <2>1
  <2>4. QED
    BY <2>1, <2>2, <2>3
<1>2. CASE op \in [kind: {"getOrCreate"}, key: Accounts, n: {0}]
  BY <1>2
<1>3. CASE op \in [kind: {"append"}, key: Chains, n: {0}]
  BY <1>3
<1>4. CASE op \in [kind: {"recordSpin"}, key: Sessions, n: Nets]
  BY <1>4
<1>5. CASE op \in [kind: {"close"}, key: Sessions, n: {0}]
  BY <1>5
<1>6. QED
  BY <1>1, <1>2, <1>3, <1>4, <1>5 DEF Op

\* What one call becomes fits, and no session goes away.
LEMMA FitsStep ==
  ASSUME CallsFit(call, session), NEW c \in Callers, NEW v \in PgCall,
         Fits(v, session'), call' = [call EXCEPT ![c] = v],
         \A s \in Sessions : session[s] # None => session'[s] # None
  PROVE  CallsFit(call', session')
<1>1. call' \in [Callers -> PgCall]
  BY DEF CallsFit
<1>2. ASSUME NEW d \in Callers
      PROVE  Fits(call'[d], session')
  BY DEF CallsFit, Fits, OnSession
<1>3. QED
  BY <1>1, <1>2 DEF CallsFit

\* A call as it is, and what is known of it.
LEMMA CallFacts ==
  ASSUME PgTypes, NEW c \in Callers
  PROVE  /\ call[c] \in PgCall /\ Fits(call[c], session)
         /\ Idle \in PgCall /\ Fits(Idle, session)
BY DEF PgTypes, CallsFit, PgCall, Fits, Idle, Pcs

\* What a step makes of the call it is a step of.
CallBecomes(c, v) == v \in PgCall /\ Fits(v, session) /\ call' = [call EXCEPT ![c] = v]

\* A call only moves on.
LEMMA MoveFits ==
  ASSUME PgTypes, NEW c \in Callers, call[c].pc # "idle",
         NEW pc \in {"waiting", "begun", "thrown", "read"},
         pc = "read" => call[c].pc = "heads", Become(c, pc)
  PROVE  CallBecomes(c, [call[c] EXCEPT !.pc = pc])
<1>1. call[c] \in PgCall /\ Fits(call[c], session)
  BY CallFacts
<1>2. [call[c] EXCEPT !.pc = pc] \in PgCall
  BY <1>1 DEF PgCall, Pcs
<1>3. Fits([call[c] EXCEPT !.pc = pc], session)
  BY <1>1 DEF Fits, PgCall, OnSession
<1>4. call' = [call EXCEPT ![c] = [call[c] EXCEPT !.pc = pc]]
  BY DEF Become
<1>5. QED
  BY <1>2, <1>3, <1>4 DEF CallBecomes

\* A call is made.
LEMMA StartFits ==
  ASSUME PgTypes, NEW c \in Callers, NEW op \in Op, NEW pc \in {"waiting", "allowed"},
         OnSession(op) => session[op.key] # None, Started(c, op, pc)
  PROVE  CallBecomes(c, [pc |-> pc, op |-> op, id |-> Len(told) + 1, seen |-> None, draft |-> None])
<1> DEFINE v == [pc |-> pc, op |-> op, id |-> Len(told) + 1, seen |-> None, draft |-> None]
<1>1. Len(told) + 1 \in Nat
  BY DEF PgTypes
<1>2. v \in PgCall
  BY <1>1 DEF PgCall, Pcs
<1>3. Fits(v, session)
  <2>1. v.pc = pc /\ v.op = op
    OBVIOUS
  <2> HIDE DEF v
  <2>2. QED
    BY <2>1 DEF Fits, OnSession
<1>4. call' = [call EXCEPT ![c] = v]
  BY DEF Started
<1>5. QED
  BY <1>2, <1>3, <1>4 DEF CallBecomes

\* A call has read what it is about.
LEMMA SeenFits ==
  ASSUME PgTypes, NEW c \in Callers, call[c].pc = "begun", NEW value,
         NEW pc \in {"read", "heads"}, pc = "heads" => call[c].op.key \in Chains,
         OnWallet(call[c].op) => value \in Int,
         OnSession(call[c].op) => value \in SessionState,
         call[c].op.key \in Chains => value \in HeadRow,
         call' = [call EXCEPT ![c].pc = pc, ![c].seen = value]
  PROVE  CallBecomes(c, [call[c] EXCEPT !.pc = pc, !.seen = value])
<1> DEFINE v == [call[c] EXCEPT !.pc = pc, !.seen = value]
<1>1. call[c] \in PgCall /\ Fits(call[c], session)
  BY CallFacts
<1>2. call[c].op \in Op
  BY <1>1 DEF Fits
<1>3. value \in Int \cup SessionState \cup HeadRow
  BY <1>2, OpFacts DEF OnWallet, OnSession
<1>4. v \in PgCall
  BY <1>1, <1>3 DEF PgCall, Pcs
<1>5. Fits(v, session)
  BY <1>1, <1>2 DEF Fits, PgCall, OnSession, OnWallet
<1>6. call' = [call EXCEPT ![c] = v]
  OBVIOUS
<1>7. QED
  BY <1>4, <1>5, <1>6 DEF CallBecomes

\* A call has what it is to write.
LEMMA DraftFits ==
  ASSUME PgTypes, NEW c \in Callers, call[c].pc = "read", NEW draft,
         OnWallet(call[c].op) => draft \in WalletDraft,
         OnSession(call[c].op) => draft \in SessionState,
         call[c].op.key \in Chains => draft \in Entry,
         Drafted(c, draft)
  PROVE  CallBecomes(c, [call[c] EXCEPT !.pc = "written", !.draft = draft])
<1> DEFINE v == [call[c] EXCEPT !.pc = "written", !.draft = draft]
<1>1. call[c] \in PgCall /\ Fits(call[c], session)
  BY CallFacts
<1>2. call[c].op \in Op
  BY <1>1 DEF Fits
<1>3. draft \in WalletDraft \cup SessionState \cup Entry
  BY <1>2, OpFacts DEF OnWallet, OnSession
<1>4. v \in PgCall
  BY <1>1, <1>3 DEF PgCall, Pcs
<1>5. Fits(v, session)
  BY <1>1, <1>2 DEF Fits, PgCall, OnSession, OnWallet
<1>6. call' = [call EXCEPT ![c] = v]
  BY DEF Drafted
<1>7. QED
  BY <1>4, <1>5, <1>6 DEF CallBecomes

-----------------------------------------------------------------------------
(* What the steps do *)

\* The statements before a commit, and the calls that have not come to one.
Open == {"allowed", "waiting", "begun", "heads", "read", "written"}

Spinning(k, s) == k.pc \in Open /\ k.op.key = s /\ k.op.kind = "recordSpin"

\* A step that takes a free row for the call, or lets go of what it holds.
Latches(c) ==
  \/ lock' = lock
  \/ LocksDropped(c)
  \/ \E row : ReadForUpdate(c, row)

\* A step after which the call has read nothing: it starts, moves on or ends.  A
\* spin starts only while the loss limit is not reached.
Quiet(c) ==
  /\ \E v \in PgCall :
       /\ CallBecomes(c, v)
       /\ v.pc \notin {"heads", "read", "written"}
       /\ \A s \in Sessions :
            Spinning(v, s) => Spinning(call[c], s) \/ ~session[s].lossLimitReached
  /\ UNCHANGED <<serial, db>>
  /\ Latches(c)

\* An append has the head it read: none, or an entry that is there.
HeadSeen(entries, seen) ==
  \/ seen.seq = -1 /\ seen.id = 0
  \/ \E r \in entries : r.seq = seen.seq /\ r.id = seen.id

\* What it is to write follows that head, and nobody has written it yet.
HeadKept(k, tables) ==
  k.pc \in {"heads", "read", "written"} /\ k.op.key \in Chains =>
    /\ HeadSeen(tables[k.op.key], k.seen)
    /\ k.pc = "written" =>
         /\ k.draft.seq = k.seen.seq + 1
         /\ k.draft.prev = k.seen.id
         /\ \A r \in tables[k.op.key] : r.seq # k.draft.seq

\* Two appends do not write the same number.
SeqApart(k, m) ==
  /\ k.pc = "written" /\ m.pc = "written"
  /\ k.op.key \in Chains /\ m.op.key = k.op.key
  => k.draft.seq # m.draft.seq

\* The entries of one session.
Linked(entries) ==
  /\ IsFiniteSet(entries)
  /\ \A q, r \in entries : q.seq = r.seq => q = r
  /\ {r.seq : r \in entries} = 0 .. Cardinality(entries) - 1
  /\ \A r \in entries :
       IF r.seq = 0 THEN r.prev = 0
       ELSE \E q \in entries : q.seq = r.seq - 1 /\ q.id = r.prev

ChainInv ==
  /\ \A k \in Chains : Linked(audit[k])
  /\ \A c \in Callers : HeadKept(call[c], audit)
  /\ \A c, d \in Callers : c # d => SeqApart(call[c], call[d])

\* Calls that start, move on or end.
LEMMA StartsQuiet ==
  ASSUME PgTypes, NEW c \in Callers, NEW op \in Op, Call(c, op) \/ DecideSpin(c, op)
  PROVE  Quiet(c)
<1> DEFINE v(pc) == [pc |-> pc, op |-> op, id |-> Len(told) + 1, seen |-> None, draft |-> None]
<1>1. CASE Call(c, op)
  <2>1. CallBecomes(c, v("waiting"))
    BY <1>1, StartFits DEF Call
  <2>2. v("waiting") \in PgCall /\ v("waiting").pc = "waiting" /\ v("waiting").op = op
    BY <2>1 DEF CallBecomes
  <2>3. UNCHANGED <<serial, db>> /\ Latches(c) /\ op.kind # "recordSpin"
    BY <1>1 DEF Call, Latches
  <2> HIDE DEF v
  <2>4. \A s \in Sessions : ~Spinning(v("waiting"), s)
    BY <2>2, <2>3 DEF Spinning
  <2>5. QED
    BY <2>1, <2>2, <2>3, <2>4 DEF Quiet
<1>2. CASE DecideSpin(c, op)
  <2>1. CallBecomes(c, v("allowed"))
    <3>1. op.kind = "recordSpin" /\ session[op.key] # None /\ Started(c, op, "allowed")
      BY <1>2 DEF DecideSpin
    <3>2. QED
      BY <3>1, StartFits
  <2>2. v("allowed") \in PgCall /\ v("allowed").pc = "allowed" /\ v("allowed").op = op
    BY <2>1 DEF CallBecomes
  <2>3. UNCHANGED <<serial, db>> /\ Latches(c) /\ ~session[op.key].lossLimitReached
    BY <1>2 DEF DecideSpin, Latches
  <2> HIDE DEF v
  <2>4. \A s \in Sessions : Spinning(v("allowed"), s) => ~session[s].lossLimitReached
    BY <2>2, <2>3 DEF Spinning
  <2>5. QED
    BY <2>1, <2>2, <2>3, <2>4 DEF Quiet
<1>3. QED
  BY <1>1, <1>2

\* A call that moves on without having read.
LEMMA MoveQuiet ==
  ASSUME PgTypes, NEW c \in Callers, NEW pc \in {"waiting", "begun", "thrown"},
         call[c].pc \in Open, Become(c, pc), UNCHANGED <<serial, db>>, Latches(c)
  PROVE  Quiet(c)
<1> DEFINE v == [call[c] EXCEPT !.pc = pc]
<1>1. CallBecomes(c, v)
  BY MoveFits DEF Open
<1>2. v.pc = pc /\ v.op = call[c].op
  BY CallFacts DEF PgCall
<1>3. v \in PgCall
  BY <1>1 DEF CallBecomes
<1> HIDE DEF v
<1>4. \A s \in Sessions : Spinning(v, s) => Spinning(call[c], s)
  BY <1>2 DEF Spinning
<1>5. QED
  BY <1>1, <1>2, <1>3, <1>4 DEF Quiet

\* A call that ends.
LEMMA EndQuiet ==
  ASSUME PgTypes, NEW c \in Callers, call' = [call EXCEPT ![c] = Idle],
         UNCHANGED <<serial, db>>, Latches(c)
  PROVE  Quiet(c)
<1>1. CallBecomes(c, Idle) /\ Idle \in PgCall
  BY CallFacts DEF CallBecomes
<1>2. Idle.pc = "idle"
  BY DEF Idle
<1>3. \A s \in Sessions : ~Spinning(Idle, s)
  BY <1>2 DEF Spinning, Open
<1>4. QED
  BY <1>1, <1>2, <1>3 DEF Quiet

\* What a call does that has not read, or ends, is quiet.
LEMMA MovesQuiet ==
  ASSUME PgTypes, NEW c \in Callers,
         Play(c) \/ ConnectFails(c) \/ Begin(c) \/ StatementFails(c) \/ Rollback(c)
  PROVE  Quiet(c)
<1>1. CASE Play(c)
  BY <1>1, MoveQuiet, EndQuiet DEF Play, Open, Latches
<1>2. CASE ConnectFails(c)
  BY <1>2, EndQuiet DEF ConnectFails, Latches
<1>3. CASE Begin(c)
  BY <1>3, MoveQuiet DEF Begin, Open, Latches
<1>4. CASE StatementFails(c)
  BY <1>4, MoveQuiet DEF StatementFails, Open, Latches
<1>5. CASE Rollback(c)
  BY <1>5, EndQuiet DEF Rollback, Latches
<1>6. QED
  BY <1>1, <1>2, <1>3, <1>4, <1>5

\* The balance a wallet call reads.
Stored(a) == IF balance[a] = None THEN StartingBalance ELSE balance[a]

\* A call that has read and holds the row.
Reads(c, value) ==
  /\ call[c].pc = "begun"
  /\ CallBecomes(c, [call[c] EXCEPT !.pc = "read", !.seen = value])
  /\ ReadForUpdate(c, call[c].op.key)
  /\ UNCHANGED <<serial, db>>

WalletReads(c) == call[c].op.key \in Accounts /\ Reads(c, Stored(call[c].op.key))

\* EnsureBalance reads the balance that is stored.
LEMMA EnsureReads ==
  ASSUME PgTypes, NEW c \in Callers, EnsureBalance(c)
  PROVE  WalletReads(c)
<1> DEFINE a == call[c].op.key
<1>1. a \in Accounts /\ a \notin Chains /\ a \notin Sessions /\ call[c].pc = "begun"
  BY DEF EnsureBalance, OnWallet
<1>2. Stored(a) \in Int
  BY <1>1 DEF Stored, PgTypes
<1>3. call' = [call EXCEPT ![c].pc = "read", ![c].seen = Stored(a)]
  BY DEF EnsureBalance, Seen, Stored
<1> HIDE DEF Stored
<1>4. CallBecomes(c, [call[c] EXCEPT !.pc = "read", !.seen = Stored(a)])
  BY <1>1, <1>2, <1>3, SeenFits DEF OnSession
<1>5. QED
  BY <1>1, <1>4 DEF Reads, EnsureBalance, WalletReads

\* recordSpin goes on with a session that is open, close with any.
SessionReads(c) ==
  /\ call[c].op.key \in Sessions
  /\ call[c].op.kind = "recordSpin" => ~session[call[c].op.key].closed
  /\ Reads(c, session[call[c].op.key])

\* ReadSession throws on a closed session, or reads it.
LEMMA SessionFound ==
  ASSUME PgTypes, NEW c \in Callers, ReadSession(c)
  PROVE  Quiet(c) \/ SessionReads(c)
<1> DEFINE s == call[c].op.key
<1>1. s \in Sessions /\ s \notin Accounts /\ s \notin Chains /\ call[c].pc = "begun"
  BY DEF ReadSession, OnSession
<1>2. session[s] \in SessionState
  <2>1. session[s] # None
    BY <1>1, CallFacts DEF Fits, OnSession
  <2>2. QED
    BY <1>1, <2>1 DEF PgTypes
<1>3. ReadForUpdate(c, s) /\ UNCHANGED <<serial, db>>
  BY DEF ReadSession
<1>4. CASE session[s].closed /\ call[c].op.kind = "recordSpin"
  <2>1. Become(c, "thrown") /\ Latches(c) /\ call[c].pc \in Open
    BY <1>1, <1>3, <1>4 DEF ReadSession, Latches, Open
  <2>2. QED
    BY <1>3, <2>1, MoveQuiet
<1>5. CASE ~(session[s].closed /\ call[c].op.kind = "recordSpin")
  <2>1. call' = [call EXCEPT ![c].pc = "read", ![c].seen = session[s]]
    BY <1>5 DEF ReadSession, Seen
  <2>2. CallBecomes(c, [call[c] EXCEPT !.pc = "read", !.seen = session[s]])
    BY <1>1, <1>2, <2>1, SeenFits DEF OnWallet
  <2>3. QED
    BY <1>1, <1>3, <1>5, <2>2 DEF Reads, SessionReads
<1>6. QED
  BY <1>4, <1>5

\* The last entry there is, when there is one.
LEMMA LastThere ==
  ASSUME ChainInv, NEW k \in Chains, audit[k] # {}, audit[k] \in SUBSET Entry
  PROVE  LastEntry(k) \in audit[k]
<1> DEFINE n == Cardinality(audit[k])
<1>1. n \in Nat /\ n # 0
  BY FS_CardinalityType, FS_EmptySet DEF ChainInv, Linked
<1>2. {r.seq : r \in audit[k]} = 0 .. n - 1
  BY DEF ChainInv, Linked
<1> HIDE DEF n
<1>3. n - 1 \in 0 .. n - 1
  BY <1>1
<1>4. PICK r \in audit[k] : r.seq = n - 1
  BY <1>2, <1>3
<1>5. \A q \in audit[k] : q.seq <= r.seq
  BY <1>1, <1>2, <1>4
<1>6. QED
  BY <1>5 DEF LastEntry

\* An append that has chosen its head, and one that has come to hold it.
HeadChosen(c) ==
  /\ call[c].op.key \in Chains
  /\ call[c].pc = "begun"
  /\ UNCHANGED <<lock, serial, db>>
  /\ \E pc \in {"read", "heads"}, seen \in HeadRow :
       /\ HeadSeen(audit[call[c].op.key], seen)
       /\ CallBecomes(c, [call[c] EXCEPT !.pc = pc, !.seen = seen])

HeadHeld(c) ==
  /\ call[c].op.key \in Chains
  /\ call[c].pc = "heads"
  /\ CallBecomes(c, [call[c] EXCEPT !.pc = "read"])
  /\ Latches(c)
  /\ UNCHANGED <<serial, db>>

\* ReadHead chooses an entry that is there, or finds none.
LEMMA HeadReads ==
  ASSUME PgTypes, ChainInv, NEW c \in Callers, ReadHead(c)
  PROVE  HeadChosen(c)
<1> DEFINE k == call[c].op.key
<1>1. /\ k \in Chains /\ k \notin Accounts /\ k \notin Sessions /\ call[c].pc = "begun"
      /\ UNCHANGED <<lock, serial, db>>
  BY DEF ReadHead
<1>2. CASE audit[k] = {}
  <2> DEFINE seen == [seq |-> -1, id |-> 0]
  <2>1. seen \in HeadRow /\ HeadSeen(audit[k], seen)
    BY DEF HeadRow, HeadSeen
  <2>2. call' = [call EXCEPT ![c].pc = "read", ![c].seen = seen]
    BY <1>2 DEF ReadHead, Seen
  <2> HIDE DEF seen
  <2>3. CallBecomes(c, [call[c] EXCEPT !.pc = "read", !.seen = seen])
    BY <1>1, <2>1, <2>2, SeenFits DEF OnWallet, OnSession
  <2>4. QED
    BY <1>1, <2>1, <2>3 DEF HeadChosen
<1>3. CASE audit[k] # {}
  <2> DEFINE seen == [seq |-> LastEntry(k).seq, id |-> LastEntry(k).id]
  <2>1. LastEntry(k) \in audit[k] /\ LastEntry(k) \in Entry
    BY <1>1, <1>3, LastThere DEF PgTypes
  <2>2. seen \in HeadRow /\ HeadSeen(audit[k], seen)
    BY <2>1 DEF HeadRow, HeadSeen, Entry
  <2>3. call' = [call EXCEPT ![c].pc = "heads", ![c].seen = seen]
    BY <1>3 DEF ReadHead
  <2> HIDE DEF seen
  <2>4. CallBecomes(c, [call[c] EXCEPT !.pc = "heads", !.seen = seen])
    BY <1>1, <2>2, <2>3, SeenFits DEF OnWallet, OnSession
  <2>5. QED
    BY <1>1, <2>2, <2>4 DEF HeadChosen
<1>4. QED
  BY <1>2, <1>3

\* LockHead takes the lock and nothing else.
LEMMA HeadLocks ==
  ASSUME PgTypes, NEW c \in Callers, LockHead(c)
  PROVE  HeadHeld(c)
<1>1. call[c].pc = "heads" /\ Become(c, "read") /\ Latches(c) /\ UNCHANGED <<serial, db>>
  BY DEF LockHead, Latches
<1>2. CallBecomes(c, [call[c] EXCEPT !.pc = "read"])
  BY <1>1, MoveFits
<1>3. call[c].op.key \in Chains
  BY <1>1, CallFacts DEF Fits
<1>4. QED
  BY <1>1, <1>2, <1>3 DEF HeadHeld

\* A call with what it is to write.
Drafts(c, draft) ==
  /\ call[c].pc = "read"
  /\ CallBecomes(c, [call[c] EXCEPT !.pc = "written", !.draft = draft])
  /\ UNCHANGED <<lock, db>>

\* The transaction of op on a balance.
LineOf(op, before, no) ==
  [no |-> no, kind |-> op.kind, n |-> op.n, status |-> WalletStatus(op, before),
   after |-> After(op, before)]

\* A wallet call writes the balance as it was, or one transaction.
KeepsBalance(c) ==
  /\ call[c].op.key \in Accounts
  /\ Drafts(c, [balance |-> call[c].seen, row |-> {}])
  /\ serial' = serial

BooksLine(c) ==
  LET op == call[c].op
      before == call[c].seen
  IN  /\ op.key \in Accounts
      /\ Drafts(c, [balance |-> After(op, before),
                    row |-> {LineOf(op, before, serial + 1)}])
      /\ serial' = serial + 1
      /\ op.kind \in WalletKinds
      /\ op.kind = "wager" => op.n <= before

\* WriteWallet keeps the balance or books one transaction.
LEMMA WalletDrafts ==
  ASSUME PgTypes, NEW c \in Callers, WriteWallet(c)
  PROVE  KeepsBalance(c) \/ BooksLine(c)
<1> DEFINE op == call[c].op
           before == call[c].seen
           silent == op.kind = "getOrCreate" \/ (op.kind = "wager" /\ op.n > before)
<1>1. /\ op.key \in Accounts /\ op.key \notin Chains /\ op.key \notin Sessions
      /\ call[c].pc = "read" /\ UNCHANGED <<lock, db>>
  BY DEF WriteWallet, OnWallet
<1>2. op \in Op /\ before \in Int
  BY <1>1, CallFacts DEF Fits, OnWallet
<1>3. op.n \in Nat /\ op.kind \in WalletKinds \cup {"getOrCreate"} /\ op.n \in Int
  BY <1>1, <1>2, OpFacts
<1>4. CASE silent
  <2> DEFINE draft == [balance |-> before, row |-> {}]
  <2>1. Drafted(c, draft) /\ serial' = serial
    BY <1>4 DEF WriteWallet
  <2>2. draft \in WalletDraft
    BY <1>2 DEF WalletDraft
  <2> HIDE DEF draft
  <2>3. CallBecomes(c, [call[c] EXCEPT !.pc = "written", !.draft = draft])
    BY <1>1, <2>1, <2>2, DraftFits DEF OnSession
  <2>4. Drafts(c, draft)
    BY <1>1, <2>3 DEF Drafts
  <2>5. QED
    BY <1>1, <2>1, <2>4 DEF draft, KeepsBalance
<1>5. CASE ~silent
  <2> DEFINE draft == [balance |-> After(op, before),
                       row |-> {LineOf(op, before, serial + 1)}]
  <2>1. Drafted(c, draft) /\ serial' = serial + 1
    BY <1>5 DEF WriteWallet, LineOf
  <2>2. op.kind \in WalletKinds /\ (op.kind = "wager" => op.n <= before)
    BY <1>2, <1>3, <1>5
  <2>3. After(op, before) \in Int
    BY <1>2, <1>3 DEF After
  <2>4. WalletStatus(op, before) \in {"approved", "pending", "declined"}
    BY DEF WalletStatus
  <2>5. LineOf(op, before, serial + 1) \in Line
    BY <1>3, <2>2, <2>3, <2>4 DEF LineOf, Line, PgTypes
  <2>6. draft \in WalletDraft
    BY <2>3, <2>5 DEF WalletDraft
  <2> HIDE DEF draft
  <2>7. CallBecomes(c, [call[c] EXCEPT !.pc = "written", !.draft = draft])
    BY <1>1, <2>1, <2>6, DraftFits DEF OnSession
  <2>8. Drafts(c, draft)
    BY <1>1, <2>7 DEF Drafts
  <2>9. QED
    BY <1>1, <2>1, <2>2, <2>8 DEF draft, BooksLine
<1>6. QED
  BY <1>4, <1>5

\* What a session becomes.
SessionAfter(op, state) ==
  IF op.kind = "close" THEN [state EXCEPT !.closed = TRUE] ELSE Spun(state, op.n)

SessionWrites(c) ==
  /\ call[c].op.key \in Sessions
  /\ serial' = serial
  /\ Drafts(c, SessionAfter(call[c].op, call[c].seen))

\* WriteSession writes what the session becomes.
LEMMA SessionDrafts ==
  ASSUME PgTypes, NEW c \in Callers, WriteSession(c)
  PROVE  SessionWrites(c)
<1> DEFINE draft == SessionAfter(call[c].op, call[c].seen)
<1>1. /\ call[c].op.key \in Sessions /\ call[c].op.key \notin Chains
      /\ call[c].op.key \notin Accounts /\ call[c].pc = "read"
      /\ UNCHANGED <<lock, serial, db>>
  BY DEF WriteSession, OnSession
<1>2. call[c].op \in Op /\ call[c].seen \in SessionState /\ call[c].op.n \in Int
  BY <1>1, CallFacts, OpFacts DEF Fits, OnSession
<1>3. draft \in SessionState
  <2>1. [call[c].seen EXCEPT !.closed = TRUE] \in SessionState
    BY <1>2 DEF SessionState
  <2>2. Spun(call[c].seen, call[c].op.n) \in SessionState
    <3> DEFINE state == call[c].seen
               net == state.net + call[c].op.n
               reached == state.lossLimitReached \/ (LossLimit > 0 /\ -net >= LossLimit)
    <3>1. state \in SessionState /\ net \in Int
      BY <1>2 DEF SessionState
    <3>2. reached \in BOOLEAN
      OBVIOUS
    <3>3. Spun(state, call[c].op.n) = [state EXCEPT !.net = net, !.lossLimitReached = reached]
      BY DEF Spun
    <3> HIDE DEF state, net, reached
    <3>4. [state EXCEPT !.net = net, !.lossLimitReached = reached] \in SessionState
      BY <3>1, <3>2 DEF SessionState
    <3>5. QED
      BY <3>3, <3>4 DEF state
  <2>3. QED
    BY <2>1, <2>2 DEF SessionAfter
<1>4. Drafted(c, draft)
  BY DEF WriteSession, SessionAfter
<1> HIDE DEF draft
<1>5. CallBecomes(c, [call[c] EXCEPT !.pc = "written", !.draft = draft])
  BY <1>1, <1>3, <1>4, DraftFits DEF OnWallet
<1>6. QED
  BY <1>1, <1>5 DEF Drafts, draft, SessionWrites

\* An append writes the next entry, whose number nobody has or is about to have.
AuditWrites(c) ==
  LET k == call[c].op.key
      seen == call[c].seen
  IN  /\ k \in Chains
      /\ Drafts(c, [seq |-> seen.seq + 1, id |-> call[c].id, prev |-> seen.id])
      /\ serial' = serial
      /\ ~SeqInDoubt(c, k, seen.seq + 1)
      /\ ~SeqTaken(k, seen.seq + 1)

\* WriteAudit finds the number taken and throws, or writes the next entry.
LEMMA AuditDrafts ==
  ASSUME PgTypes, NEW c \in Callers, WriteAudit(c)
  PROVE  Quiet(c) \/ AuditWrites(c)
<1> DEFINE k == call[c].op.key
           seen == call[c].seen
           draft == [seq |-> seen.seq + 1, id |-> call[c].id, prev |-> seen.id]
<1>1. /\ k \in Chains /\ k \notin Accounts /\ k \notin Sessions /\ call[c].pc = "read"
      /\ UNCHANGED <<lock, serial, db>> /\ ~SeqInDoubt(c, k, seen.seq + 1)
  BY DEF WriteAudit
<1>2. seen \in HeadRow /\ call[c].id \in Nat
  BY <1>1, CallFacts DEF Fits, PgCall
<1>3. draft \in Entry
  BY <1>2 DEF HeadRow, Entry
<1>4. CASE SeqTaken(k, seen.seq + 1)
  <2>1. Become(c, "thrown") /\ call[c].pc \in Open
    BY <1>1, <1>4 DEF WriteAudit, Open
  <2>2. QED
    BY <1>1, <2>1, MoveQuiet DEF Latches
<1>5. CASE ~SeqTaken(k, seen.seq + 1)
  <2>1. Drafted(c, draft)
    BY <1>5 DEF WriteAudit
  <2> HIDE DEF draft
  <2>2. CallBecomes(c, [call[c] EXCEPT !.pc = "written", !.draft = draft])
    BY <1>1, <1>3, <2>1, DraftFits DEF OnSession, OnWallet
  <2>3. Drafts(c, draft)
    BY <1>1, <2>2 DEF Drafts
  <2>4. QED
    BY <1>1, <1>5, <2>3 DEF draft, AuditWrites
<1>6. QED
  BY <1>4, <1>5

\* A transaction that commits: the call ends, or it never hears of it.
Commits(c) ==
  /\ call[c].pc = "written"
  /\ Applied(c)
  /\ serial' = serial
  /\ \E v \in PgCall :
       /\ call' = [call EXCEPT ![c] = v]
       /\ v.pc = "idle" \/ (v.pc = "thrown" /\ v.op = call[c].op)

\* Heard of or not, a COMMIT does the same to the tables.
LEMMA CommitMoves ==
  ASSUME PgTypes, NEW c \in Callers, Commit(c) \/ CommitUnheard(c)
  PROVE  Commits(c)
<1>1. call[c].pc = "written" /\ Applied(c) /\ serial' = serial
  BY DEF Commit, CommitUnheard
<1>2. CASE Commit(c)
  <2>1. Idle \in PgCall /\ Idle.pc = "idle" /\ call' = [call EXCEPT ![c] = Idle]
    BY <1>2, CallFacts DEF Commit, Idle
  <2>2. QED
    BY <1>1, <2>1 DEF Commits
<1>3. CASE CommitUnheard(c)
  <2> DEFINE v == [call[c] EXCEPT !.pc = "thrown", !.draft = None]
  <2>1. v \in PgCall /\ v.pc = "thrown" /\ v.op = call[c].op
    BY CallFacts DEF PgCall, Pcs
  <2>2. call' = [call EXCEPT ![c] = v]
    BY <1>3 DEF CommitUnheard
  <2> HIDE DEF v
  <2>3. QED
    BY <1>1, <2>1, <2>2 DEF Commits
<1>4. QED
  BY <1>2, <1>3

\* What a call may do.
Deed(c) ==
  \/ Quiet(c) \/ WalletReads(c) \/ SessionReads(c) \/ HeadChosen(c) \/ HeadHeld(c)
  \/ KeepsBalance(c) \/ BooksLine(c) \/ SessionWrites(c) \/ AuditWrites(c) \/ Commits(c)

\* A call that reads or writes goes on with the same operation.
SameOp(c) == \E v : CallBecomes(c, v) /\ v.op = call[c].op

\* Those steps leave the tables alone.
LEMMA KeepsOp ==
  ASSUME PgTypes, NEW c \in Callers,
         \/ WalletReads(c) \/ SessionReads(c) \/ HeadChosen(c) \/ HeadHeld(c)
         \/ KeepsBalance(c) \/ BooksLine(c) \/ SessionWrites(c) \/ AuditWrites(c)
  PROVE  SameOp(c) /\ UNCHANGED <<balance, rows, audit, session, log>> /\ call[c].pc \in Open
<1>1. call[c] \in PgCall
  BY CallFacts
<1>2. CASE WalletReads(c) \/ SessionReads(c)
  <2>1. PICK value : Reads(c, value)
    BY <1>2 DEF WalletReads, SessionReads
  <2>2. [call[c] EXCEPT !.pc = "read", !.seen = value].op = call[c].op
    BY <1>1 DEF PgCall
  <2>3. QED
    BY <2>1, <2>2 DEF Reads, SameOp, db, Open
<1>3. CASE HeadChosen(c)
  <2>1. PICK pc, seen : CallBecomes(c, [call[c] EXCEPT !.pc = pc, !.seen = seen])
    BY <1>3 DEF HeadChosen
  <2>2. [call[c] EXCEPT !.pc = pc, !.seen = seen].op = call[c].op
    BY <1>1 DEF PgCall
  <2>3. QED
    BY <1>3, <2>1, <2>2 DEF HeadChosen, SameOp, db, Open
<1>4. CASE HeadHeld(c)
  <2>1. [call[c] EXCEPT !.pc = "read"].op = call[c].op
    BY <1>1 DEF PgCall
  <2>2. QED
    BY <1>4, <2>1 DEF HeadHeld, SameOp, db, Open
<1>5. CASE KeepsBalance(c) \/ BooksLine(c) \/ SessionWrites(c) \/ AuditWrites(c)
  <2>1. PICK draft : Drafts(c, draft)
    BY <1>5 DEF KeepsBalance, BooksLine, SessionWrites, AuditWrites
  <2>2. [call[c] EXCEPT !.pc = "written", !.draft = draft].op = call[c].op
    BY <1>1 DEF PgCall
  <2>3. QED
    BY <2>1, <2>2 DEF Drafts, SameOp, db, Open
<1>6. QED
  BY <1>2, <1>3, <1>4, <1>5

\* Every step but Create is a deed of one call.
LEMMA PgSteps ==
  ASSUME PgTypes, ChainInv, [PgNext]_pgVars
  PROVE  \/ UNCHANGED pgVars
         \/ \E s \in Sessions : Create(s)
         \/ \E c \in Callers : Deed(c)
<1>1. ASSUME NEW c \in Callers, NEW op \in Op, Call(c, op) \/ DecideSpin(c, op)
      PROVE  Deed(c)
  BY <1>1, StartsQuiet DEF Deed
<1>2. ASSUME NEW c \in Callers, Step(c) \/ ConnectFails(c) \/ StatementFails(c) \/ CommitUnheard(c)
      PROVE  Deed(c)
  <2>1. CASE Play(c) \/ ConnectFails(c) \/ Begin(c) \/ StatementFails(c) \/ Rollback(c)
    BY <2>1, MovesQuiet DEF Deed
  <2>2. CASE EnsureBalance(c) \/ ReadSession(c) \/ ReadHead(c) \/ LockHead(c)
    BY <2>2, EnsureReads, SessionFound, HeadReads, HeadLocks DEF Deed
  <2>3. CASE WriteWallet(c) \/ WriteSession(c) \/ WriteAudit(c)
    BY <2>3, WalletDrafts, SessionDrafts, AuditDrafts DEF Deed
  <2>4. CASE Commit(c) \/ CommitUnheard(c)
    BY <2>4, CommitMoves DEF Deed
  <2>5. QED
    BY <1>2, <2>1, <2>2, <2>3, <2>4 DEF Step
<1>3. QED
  BY <1>1, <1>2, Zenon DEF PgNext

\* What a commit does to the tables.
LEMMA AppliedFacts ==
  ASSUME PgTypes, NEW c \in Callers, Commits(c)
  PROVE  LET op == call[c].op
             key == op.key
             draft == call[c].draft
         IN  /\ op \in Op
             /\ log' = Append(log, [op |-> op, id |-> call[c].id])
             /\ key \in Accounts =>
                  /\ draft \in WalletDraft /\ key \notin Chains /\ key \notin Sessions
                  /\ balance' = [balance EXCEPT ![key] = draft.balance]
                  /\ rows' = [rows EXCEPT ![key] = rows[key] \cup draft.row]
             /\ key \notin Accounts => UNCHANGED <<balance, rows>>
             /\ key \in Chains =>
                  /\ draft \in Entry /\ key \notin Accounts /\ key \notin Sessions
                  /\ audit' = [audit EXCEPT ![key] = audit[key] \cup {draft}]
             /\ key \notin Chains => audit' = audit
             /\ key \in Sessions =>
                  /\ draft \in SessionState /\ key \notin Chains /\ key \notin Accounts
                  /\ session' = [session EXCEPT ![key] = draft]
             /\ key \notin Sessions => session' = session
<1>1. call[c].pc = "written" /\ Applied(c)
  BY DEF Commits
<1>2. /\ call[c].op \in Op
      /\ call[c].op.key \in Accounts => call[c].draft \in WalletDraft
      /\ call[c].op.key \in Sessions => call[c].draft \in SessionState
      /\ call[c].op.key \in Chains => call[c].draft \in Entry
  BY <1>1, CallFacts DEF Fits, OnWallet, OnSession
<1>3. QED
  BY <1>1, <1>2 DEF Applied

\* No session goes away.
LEMMA SessionsStay ==
  ASSUME PgTypes, NEW c \in Callers, Commits(c)
  PROVE  /\ session' \in [Sessions -> SessionState \cup {None}]
         /\ \A s \in Sessions : session[s] # None => session'[s] # None
BY AppliedFacts DEF PgTypes

-----------------------------------------------------------------------------

Answers == {"pending", "ok", "failed"}

\* A told answer replaces the one before it, if there was a call.
LEMMA ToldTyped ==
  ASSUME told \in Seq(Answers), NEW i, NEW a \in Answers
  PROVE  /\ [told EXCEPT ![i] = a] \in Seq(Answers)
         /\ Len([told EXCEPT ![i] = a]) = Len(told)
<1>1. told \in [1 .. Len(told) -> Answers] /\ Len(told) \in Nat
  OBVIOUS
<1>2. [told EXCEPT ![i] = a] \in [1 .. Len(told) -> Answers]
  BY <1>1
<1>3. QED
  BY <1>1, <1>2

\* What a step tells.
LEMMA ToldStep ==
  ASSUME PgTypes, [PgNext]_pgVars
  PROVE  \/ told' = told
         \/ told' = Append(told, "pending")
         \/ \E c \in Callers, a \in {"ok", "failed"} : Tell(c, a)
<1>1. ASSUME NEW c \in Callers, NEW op \in Op, Call(c, op) \/ DecideSpin(c, op)
      PROVE  told' = Append(told, "pending")
  BY <1>1 DEF Call, DecideSpin, Started
<1>2. ASSUME NEW c \in Callers, Play(c) \/ ConnectFails(c) \/ Commit(c) \/ Rollback(c)
      PROVE  told' = told \/ Tell(c, "ok") \/ Tell(c, "failed")
  BY <1>2 DEF Play, ConnectFails, Commit, Rollback
<1>3. ASSUME NEW c \in Callers,
             \/ Begin(c) \/ EnsureBalance(c) \/ ReadSession(c) \/ ReadHead(c) \/ LockHead(c)
             \/ WriteWallet(c) \/ WriteSession(c) \/ WriteAudit(c)
             \/ StatementFails(c) \/ CommitUnheard(c)
      PROVE  told' = told
  BY <1>3 DEF Begin, EnsureBalance, ReadSession, ReadHead, LockHead, WriteWallet,
              WriteSession, WriteAudit, StatementFails, CommitUnheard
<1>4. ASSUME NEW s \in Sessions, Create(s)
      PROVE  told' = told
  BY <1>4 DEF Create
<1>5. CASE UNCHANGED pgVars
  BY <1>5 DEF pgVars
<1>6. QED
  BY <1>1, <1>2, <1>3, <1>4, <1>5, Zenon DEF PgNext, Step

\* What the tables hold.
StoreTypes ==
  /\ CallsFit(call, session)
  /\ serial \in Nat
  /\ balance \in [Accounts -> Int \cup {None}]
  /\ rows \in [Accounts -> SUBSET Line]
  /\ audit \in [Chains -> SUBSET Entry]
  /\ session \in [Sessions -> SessionState \cup {None}]
  /\ log \in Seq([op: Op, id: Nat])

\* A step that keeps the tables.
LEMMA KeepTypes ==
  ASSUME PgTypes, NEW c \in Callers, NEW v, CallBecomes(c, v), UNCHANGED db, serial' \in Nat
  PROVE  StoreTypes'
<1>1. /\ UNCHANGED <<balance, rows, audit, session, log>>
      /\ v \in PgCall /\ Fits(v, session') /\ call' = [call EXCEPT ![c] = v]
  BY DEF db, CallBecomes
<1>2. CallsFit(call', session')
  BY <1>1, FitsStep DEF PgTypes
<1>3. QED
  BY <1>1, <1>2 DEF PgTypes, StoreTypes

\* A deed keeps the types of the tables.
LEMMA DeedTypes ==
  ASSUME PgTypes, NEW c \in Callers, Deed(c)
  PROVE  StoreTypes'
<1>1. serial \in Nat /\ serial + 1 \in Nat
  BY DEF PgTypes
<1>2. CASE Quiet(c)
  BY <1>1, <1>2, KeepTypes DEF Quiet
<1>3. CASE WalletReads(c) \/ SessionReads(c)
  BY <1>1, <1>3, KeepTypes DEF WalletReads, SessionReads, Reads
<1>4. CASE HeadChosen(c) \/ HeadHeld(c)
  BY <1>1, <1>4, KeepTypes DEF HeadChosen, HeadHeld
<1>5. CASE KeepsBalance(c) \/ BooksLine(c) \/ SessionWrites(c) \/ AuditWrites(c)
  BY <1>1, <1>5, KeepTypes DEF KeepsBalance, BooksLine, SessionWrites, AuditWrites, Drafts
<1>6. CASE Commits(c)
  <2>1. PICK v \in PgCall :
          /\ call' = [call EXCEPT ![c] = v]
          /\ v.pc = "idle" \/ (v.pc = "thrown" /\ v.op = call[c].op)
    BY <1>6 DEF Commits
  <2>2. /\ session' \in [Sessions -> SessionState \cup {None}]
        /\ \A s \in Sessions : session[s] # None => session'[s] # None
    BY <1>6, SessionsStay
  <2>3. Fits(v, session')
    <3>1. call[c].pc = "written" /\ Fits(call[c], session)
      BY <1>6, CallFacts DEF Commits
    <3>2. QED
      BY <2>1, <2>2, <3>1 DEF Fits, OnSession
  <2>4. CallsFit(call', session')
    BY <2>1, <2>2, <2>3, FitsStep DEF PgTypes
  <2>5. log' \in Seq([op: Op, id: Nat])
    <3>1. call[c].id \in Nat /\ call[c].op \in Op
      BY <1>6, CallFacts, AppliedFacts DEF PgCall
    <3>2. [op |-> call[c].op, id |-> call[c].id] \in [op: Op, id: Nat]
      BY <3>1
    <3>3. log' = Append(log, [op |-> call[c].op, id |-> call[c].id])
      BY <1>6, AppliedFacts
    <3>4. QED
      BY <3>2, <3>3, AppendProperties DEF PgTypes
  <2>6. balance' \in [Accounts -> Int \cup {None}] /\ rows' \in [Accounts -> SUBSET Line]
    <3> DEFINE key == call[c].op.key
               draft == call[c].draft
    <3>1. key \in Accounts =>
            /\ draft \in WalletDraft
            /\ balance' = [balance EXCEPT ![key] = draft.balance]
            /\ rows' = [rows EXCEPT ![key] = rows[key] \cup draft.row]
      BY <1>6, AppliedFacts
    <3>2. key \notin Accounts => UNCHANGED <<balance, rows>>
      BY <1>6, AppliedFacts
    <3> HIDE DEF key, draft
    <3>3. draft \in WalletDraft => draft.balance \in Int /\ draft.row \in SUBSET Line
      BY DEF WalletDraft
    <3>4. CASE key \in Accounts
      <4> DEFINE lines == rows[key] \cup draft.row
      <4>1. rows[key] \in SUBSET Line
        BY <3>4 DEF PgTypes
      <4>2. lines \in SUBSET Line
        BY <3>1, <3>3, <3>4, <4>1
      <4>3. rows' = [rows EXCEPT ![key] = lines]
        BY <3>1, <3>4
      <4> HIDE DEF lines
      <4>4. rows' \in [Accounts -> SUBSET Line]
        BY <4>2, <4>3 DEF PgTypes
      <4>5. QED
        BY <3>1, <3>3, <3>4, <4>4 DEF PgTypes
    <3>5. QED
      BY <3>2, <3>4 DEF PgTypes
  <2>7. audit' \in [Chains -> SUBSET Entry]
    <3> DEFINE key == call[c].op.key
               draft == call[c].draft
    <3>1. key \in Chains =>
            /\ draft \in Entry
            /\ audit' = [audit EXCEPT ![key] = audit[key] \cup {draft}]
      BY <1>6, AppliedFacts
    <3>2. key \notin Chains => audit' = audit
      BY <1>6, AppliedFacts
    <3> HIDE DEF key, draft
    <3>3. CASE key \in Chains
      <4> DEFINE entries == audit[key] \cup {draft}
      <4>1. audit[key] \in SUBSET Entry
        BY <3>3 DEF PgTypes
      <4>2. entries \in SUBSET Entry
        BY <3>1, <3>3, <4>1
      <4>3. audit' = [audit EXCEPT ![key] = entries]
        BY <3>1, <3>3
      <4> HIDE DEF entries
      <4>4. QED
        BY <4>2, <4>3 DEF PgTypes
    <3>4. QED
      BY <3>2, <3>3 DEF PgTypes
  <2>8. serial' \in Nat
    BY <1>1, <1>6 DEF Commits
  <2>9. QED
    BY <2>2, <2>4, <2>5, <2>6, <2>7, <2>8 DEF StoreTypes
<1>7. QED
  BY <1>2, <1>3, <1>4, <1>5, <1>6 DEF Deed

\* The types.
LEMMA TypesStep == PgTypes /\ ChainInv /\ [PgNext]_pgVars => PgTypes'
<1> SUFFICES ASSUME PgTypes, ChainInv, [PgNext]_pgVars
             PROVE  PgTypes'
  OBVIOUS
<1>1. told' \in Seq(Answers)
  <2>1. told \in Seq(Answers)
    BY DEF PgTypes, Answers
  <2>2. Append(told, "pending") \in Seq(Answers)
    BY <2>1 DEF Answers
  <2>3. ASSUME NEW c \in Callers, NEW a \in {"ok", "failed"}, Tell(c, a)
        PROVE  told' \in Seq(Answers)
    <3>1. a \in Answers
      BY DEF Answers
    <3>2. [told EXCEPT ![call[c].id] = a] \in Seq(Answers)
      BY <2>1, <3>1, ToldTyped
    <3>3. QED
      BY <2>3, <3>2 DEF Tell
  <2>4. QED
    BY <2>1, <2>2, <2>3, ToldStep
<1>2. CASE UNCHANGED pgVars
  BY <1>2 DEF pgVars, db, PgTypes
<1>3. ASSUME NEW s \in Sessions, Create(s)
      PROVE  StoreTypes'
  <2> DEFINE v == [net |-> 0, lossLimitReached |-> FALSE, closed |-> FALSE]
  <2>1. v \in SessionState
    BY DEF SessionState
  <2>2. session' = [session EXCEPT ![s] = v] /\ UNCHANGED <<call, serial, balance, rows, audit, log>>
    BY <1>3 DEF Create
  <2> HIDE DEF v
  <2>3. /\ session' \in [Sessions -> SessionState \cup {None}]
        /\ \A t \in Sessions : session[t] # None => session'[t] # None
    BY <2>1, <2>2 DEF PgTypes
  <2>4. CallsFit(call', session')
    BY <2>2, <2>3 DEF PgTypes, CallsFit, Fits, OnSession
  <2>5. QED
    BY <2>2, <2>3, <2>4 DEF PgTypes, StoreTypes
<1>4. CASE StoreTypes'
  BY <1>1, <1>4 DEF StoreTypes, PgTypes, Answers
<1>5. QED
  BY <1>2, <1>3, <1>4, PgSteps, DeedTypes

-----------------------------------------------------------------------------
(* The chain *)

\* A step of one call that leaves the log of entries alone.
LEMMA ChainKeep ==
  ASSUME ChainInv, call \in [Callers -> PgCall], NEW c \in Callers, NEW v \in PgCall,
         call' = [call EXCEPT ![c] = v], audit' = audit, HeadKept(v, audit),
         \A d \in Callers : d # c => SeqApart(v, call[d])
  PROVE  ChainInv'
<1>1. call'[c] = v /\ \A d \in Callers : d # c => call'[d] = call[d]
  OBVIOUS
<1>2. ASSUME NEW d \in Callers
      PROVE  HeadKept(call'[d], audit')
  BY <1>1 DEF ChainInv
<1>3. ASSUME NEW d \in Callers, NEW e \in Callers, d # e
      PROVE  SeqApart(call'[d], call'[e])
  <2>1. CASE e = c
    <3>1. SeqApart(v, call[d])
      BY <1>3, <2>1
    <3>2. QED
      BY <1>1, <1>3, <2>1, <3>1 DEF SeqApart
  <2>2. CASE e # c
    BY <1>1, <1>3, <2>2 DEF ChainInv
  <2>3. QED
    BY <2>1, <2>2
<1>4. QED
  BY <1>2, <1>3 DEF ChainInv

\* A call that is about no chain, or has not read.
LEMMA OffChain ==
  ASSUME NEW v, v.pc \notin {"heads", "read", "written"} \/ v.op.key \notin Chains
  PROVE  HeadKept(v, audit) /\ \A m : SeqApart(v, m)
BY DEF HeadKept, SeqApart

\* An append that has not written.
LEMMA NotWritten ==
  ASSUME NEW v, v.pc # "written"
  PROVE  \A m : SeqApart(v, m)
BY DEF SeqApart

\* The next entry links to the chain.
LEMMA LinkedGrows ==
  ASSUME NEW entries \in SUBSET Entry, Linked(entries), NEW e \in Entry, NEW seen,
         HeadSeen(entries, seen), e.seq = seen.seq + 1, e.prev = seen.id,
         \A r \in entries : r.seq # e.seq
  PROVE  Linked(entries \cup {e})
<1> DEFINE n == Cardinality(entries)
           more == entries \cup {e}
<1>1. n \in Nat /\ IsFiniteSet(entries) /\ {r.seq : r \in entries} = 0 .. n - 1
  BY FS_CardinalityType DEF Linked
<1>2. e \notin entries
  OBVIOUS
<1>3. IsFiniteSet(more) /\ Cardinality(more) = n + 1
  BY <1>1, <1>2, FS_AddElement
<1> HIDE DEF n
<1>4. \A r \in entries : r.seq \in 0 .. n - 1
  BY <1>1
<1>5. e.seq = n
  <2>1. e.seq \notin 0 .. n - 1
    BY <1>1
  <2>2. e.seq \in 0 .. n
    <3>1. CASE seen.seq = -1
      BY <1>1, <3>1
    <3>2. CASE \E r \in entries : r.seq = seen.seq
      BY <1>1, <1>4, <3>2
    <3>3. QED
      BY <3>1, <3>2 DEF HeadSeen
  <2>3. QED
    BY <1>1, <2>1, <2>2
<1>6. {r.seq : r \in more} = 0 .. n
  <2>1. {r.seq : r \in more} = {r.seq : r \in entries} \cup {e.seq}
    OBVIOUS
  <2>2. 0 .. n = (0 .. n - 1) \cup {n}
    BY <1>1
  <2>3. QED
    BY <1>1, <1>5, <2>1, <2>2
<1>7. \A q, r \in more : q.seq = r.seq => q = r
  BY DEF Linked
<1>8. ASSUME NEW r \in more
      PROVE  IF r.seq = 0 THEN r.prev = 0
             ELSE \E q \in more : q.seq = r.seq - 1 /\ q.id = r.prev
  <2>1. CASE r \in entries
    BY <2>1 DEF Linked
  <2>2. CASE r = e
    <3>1. CASE seen.seq = -1 /\ seen.id = 0
      BY <2>2, <3>1
    <3>2. CASE \E q \in entries : q.seq = seen.seq /\ q.id = seen.id
      <4>1. PICK q \in entries : q.seq = seen.seq /\ q.id = seen.id
        BY <3>2
      <4>2. q.seq \in Nat /\ q \in more
        BY <1>4, <4>1 DEF Entry
      <4>3. r.seq = q.seq + 1 /\ r.prev = q.id
        BY <2>2, <4>1
      <4>4. r.seq # 0 /\ q.seq = r.seq - 1
        BY <4>2, <4>3
      <4>5. QED
        BY <4>2, <4>3, <4>4
    <3>3. QED
      BY <3>1, <3>2 DEF HeadSeen
  <2>3. QED
    BY <2>1, <2>2
<1>9. {r.seq : r \in more} = 0 .. Cardinality(more) - 1
  <2>1. Cardinality(more) - 1 = n
    BY <1>1, <1>3
  <2>2. QED
    BY <1>6, <2>1
<1>10. Linked(more)
  <2> HIDE DEF more
  <2>1. QED
    BY <1>3, <1>7, <1>8, <1>9 DEF Linked
<1>11. QED
  BY <1>10

\* An entry is committed.
LEMMA ChainCommit ==
  ASSUME PgTypes, ChainInv, NEW c \in Callers, Commits(c), call[c].op.key \in Chains
  PROVE  ChainInv'
<1> DEFINE key == call[c].op.key
           e == call[c].draft
<1>1. PICK v \in PgCall :
        /\ call' = [call EXCEPT ![c] = v]
        /\ v.pc = "idle" \/ v.pc = "thrown"
  BY DEF Commits
<1>2. /\ e \in Entry /\ key \in Chains /\ call[c].pc = "written"
      /\ audit' = [audit EXCEPT ![key] = audit[key] \cup {e}]
  BY AppliedFacts DEF Commits
<1>3. /\ HeadSeen(audit[key], call[c].seen)
      /\ e.seq = call[c].seen.seq + 1 /\ e.prev = call[c].seen.id
      /\ \A r \in audit[key] : r.seq # e.seq
  <2>1. HeadKept(call[c], audit)
    BY DEF ChainInv
  <2>2. QED
    BY <1>2, <2>1 DEF HeadKept
<1>4. call \in [Callers -> PgCall] /\ audit \in [Chains -> SUBSET Entry]
  BY DEF PgTypes, CallsFit
<1>5. call'[c] = v /\ \A d \in Callers : d # c => call'[d] = call[d]
  BY <1>1, <1>4
<1>6. \A d \in Callers : d # c /\ call[d].pc = "written" /\ call[d].op.key = key
                           => call[d].draft.seq # e.seq
  <2>1. \A d \in Callers : d # c => SeqApart(call[c], call[d])
    BY DEF ChainInv
  <2>2. QED
    BY <1>2, <2>1 DEF SeqApart
<1>7. Linked(audit[key] \cup {e})
  <2>1. audit[key] \in SUBSET Entry /\ Linked(audit[key])
    BY <1>2, <1>4 DEF ChainInv
  <2> HIDE DEF key, e
  <2>2. QED
    BY <1>2, <1>3, <2>1, LinkedGrows
<1> HIDE DEF key, e
<1>8. audit'[key] = audit[key] \cup {e} /\ \A k \in Chains : k # key => audit'[k] = audit[k]
  BY <1>2, <1>4
<1>9. ASSUME NEW k \in Chains
      PROVE  Linked(audit'[k])
  <2>1. CASE k = key
    BY <1>7, <1>8, <2>1
  <2>2. CASE k # key
    BY <1>8, <2>2 DEF ChainInv
  <2>3. QED
    BY <2>1, <2>2
<1>10. ASSUME NEW d \in Callers
       PROVE  HeadKept(call'[d], audit')
  <2>1. CASE d = c
    BY <1>1, <1>5, <2>1 DEF HeadKept
  <2>2. CASE d # c
    <3> DEFINE k == call[d]
    <3>1. call'[d] = k /\ HeadKept(k, audit)
      BY <1>5, <2>2 DEF ChainInv
    <3>2. k.pc = "written" /\ k.op.key = key => k.draft.seq # e.seq
      BY <1>6, <2>2
    <3> HIDE DEF k
    <3>3. CASE k.op.key = key
      BY <1>8, <3>1, <3>2, <3>3 DEF HeadKept, HeadSeen
    <3>4. CASE k.op.key # key
      BY <1>8, <3>1, <3>4 DEF HeadKept
    <3>5. QED
      BY <3>3, <3>4
  <2>3. QED
    BY <2>1, <2>2
<1>11. ASSUME NEW d \in Callers, NEW f \in Callers, d # f
       PROVE  SeqApart(call'[d], call'[f])
  <2>1. CASE d = c \/ f = c
    BY <1>1, <1>5, <2>1 DEF SeqApart
  <2>2. CASE d # c /\ f # c
    BY <1>5, <1>11, <2>2 DEF ChainInv
  <2>3. QED
    BY <2>1, <2>2
<1>12. QED
  BY <1>9, <1>10, <1>11 DEF ChainInv

\* What a call does to the chains.
LEMMA ChainDeed ==
  ASSUME PgTypes, ChainInv, NEW c \in Callers, Deed(c)
  PROVE  ChainInv'
<1>1. call \in [Callers -> PgCall] /\ call[c] \in PgCall
  BY DEF PgTypes, CallsFit
<1>2. ASSUME NEW v \in PgCall, call' = [call EXCEPT ![c] = v], audit' = audit,
             v.pc \notin {"heads", "read", "written"} \/ v.op.key \notin Chains
      PROVE  ChainInv'
  BY <1>1, <1>2, ChainKeep, OffChain
<1>3. CASE Quiet(c)
  BY <1>2, <1>3 DEF Quiet, CallBecomes, db
<1>4. CASE \/ WalletReads(c) \/ SessionReads(c)
           \/ KeepsBalance(c) \/ BooksLine(c) \/ SessionWrites(c)
  <2>1. PICK v : CallBecomes(c, v) /\ v.op = call[c].op
    BY <1>4, KeepsOp DEF SameOp
  <2>2. audit' = audit /\ call[c].op.key \notin Chains
    BY <1>4, KeepsOp DEF WalletReads, SessionReads, KeepsBalance, BooksLine, SessionWrites
  <2>3. QED
    BY <1>2, <2>1, <2>2 DEF CallBecomes
<1>5. CASE HeadChosen(c)
  <2>1. PICK pc \in {"read", "heads"}, seen \in HeadRow :
          /\ HeadSeen(audit[call[c].op.key], seen)
          /\ CallBecomes(c, [call[c] EXCEPT !.pc = pc, !.seen = seen])
    BY <1>5 DEF HeadChosen
  <2> DEFINE v == [call[c] EXCEPT !.pc = pc, !.seen = seen]
  <2>2. v.op = call[c].op /\ v.pc = pc /\ v.seen = seen
    BY <1>1 DEF PgCall
  <2>3. v \in PgCall /\ call' = [call EXCEPT ![c] = v] /\ audit' = audit
    BY <1>5, <2>1 DEF HeadChosen, CallBecomes, db
  <2> HIDE DEF v
  <2>4. HeadKept(v, audit) /\ v.pc # "written"
    BY <2>1, <2>2 DEF HeadKept
  <2>5. QED
    BY <1>1, <2>3, <2>4, ChainKeep, NotWritten
<1>6. CASE HeadHeld(c)
  <2> DEFINE v == [call[c] EXCEPT !.pc = "read"]
  <2>1. v.op = call[c].op /\ v.pc = "read" /\ v.seen = call[c].seen
    BY <1>1 DEF PgCall
  <2>2. v \in PgCall /\ call' = [call EXCEPT ![c] = v] /\ audit' = audit
    BY <1>6 DEF HeadHeld, CallBecomes, db
  <2>3. call[c].pc = "heads" /\ HeadKept(call[c], audit)
    BY <1>6 DEF HeadHeld, ChainInv
  <2> HIDE DEF v
  <2>4. HeadKept(v, audit) /\ v.pc # "written"
    BY <2>1, <2>3 DEF HeadKept
  <2>5. QED
    BY <1>1, <2>2, <2>4, ChainKeep, NotWritten
<1>7. CASE AuditWrites(c)
  <2> DEFINE k == call[c].op.key
             seen == call[c].seen
             draft == [seq |-> seen.seq + 1, id |-> call[c].id, prev |-> seen.id]
             v == [call[c] EXCEPT !.pc = "written", !.draft = draft]
  <2>1. /\ k \in Chains /\ Drafts(c, draft)
        /\ ~SeqInDoubt(c, k, seen.seq + 1) /\ ~SeqTaken(k, seen.seq + 1)
    BY <1>7 DEF AuditWrites
  <2>2. /\ v.op = call[c].op /\ v.pc = "written" /\ v.seen = seen /\ v.draft = draft
    BY <1>1 DEF PgCall
  <2>3. draft.seq = seen.seq + 1 /\ draft.prev = seen.id
    OBVIOUS
  <2>4. v \in PgCall /\ call' = [call EXCEPT ![c] = v] /\ audit' = audit
    BY <2>1 DEF Drafts, CallBecomes, db
  <2>5. HeadSeen(audit[k], seen)
    BY <2>1 DEF Drafts, ChainInv, HeadKept
  <2> HIDE DEF v, draft
  <2>6. HeadKept(v, audit)
    BY <2>1, <2>2, <2>3, <2>5 DEF HeadKept, SeqTaken
  <2>7. ASSUME NEW d \in Callers, d # c, call[d].pc = "written", call[d].op.key = k
        PROVE  call[d].draft.seq # seen.seq + 1
    <3>1. call[d].op # None /\ call[d].draft # None
      BY <2>1, <2>7, CallFacts DEF Fits
    <3>2. QED
      BY <2>1, <2>7, <3>1 DEF SeqInDoubt
  <2>8. \A d \in Callers : d # c => SeqApart(v, call[d])
    BY <2>2, <2>3, <2>7 DEF SeqApart
  <2>9. QED
    BY <1>1, <2>4, <2>6, <2>8, ChainKeep
<1>8. CASE Commits(c)
  <2>1. CASE call[c].op.key \in Chains
    BY <1>8, <2>1, ChainCommit
  <2>2. CASE call[c].op.key \notin Chains
    <3>1. audit' = audit
      BY <1>8, <2>2, AppliedFacts
    <3>2. PICK v \in PgCall : call' = [call EXCEPT ![c] = v] /\ v.pc \in {"idle", "thrown"}
      BY <1>8 DEF Commits
    <3>3. QED
      BY <1>2, <3>1, <3>2
  <2>3. QED
    BY <2>1, <2>2
<1>9. QED
  BY <1>3, <1>4, <1>5, <1>6, <1>7, <1>8 DEF Deed

\* Every step keeps the chains.
LEMMA ChainStep == PgTypes /\ ChainInv /\ [PgNext]_pgVars => ChainInv'
<1> SUFFICES ASSUME PgTypes, ChainInv, [PgNext]_pgVars
             PROVE  ChainInv'
  OBVIOUS
<1>1. ASSUME UNCHANGED <<call, audit>>
      PROVE  ChainInv'
  BY <1>1 DEF ChainInv
<1>2. UNCHANGED pgVars => UNCHANGED <<call, audit>>
  BY DEF pgVars, db
<1>3. \A s \in Sessions : Create(s) => UNCHANGED <<call, audit>>
  BY DEF Create
<1>4. QED
  BY <1>1, <1>2, <1>3, PgSteps, ChainDeed

-----------------------------------------------------------------------------
(* The locks *)

\* A call that has read a wallet or a session, and not come to its end.
Holding(k, row) == k.pc \in {"read", "written"} /\ k.op.key = row /\ row \in Accounts \cup Sessions

LockInv ==
  /\ \A l, m \in lock : l.row = m.row => l = m
  /\ \A c \in Callers : \A row : Holding(call[c], row) => [row |-> row, holder |-> c] \in lock

\* One call at a time has read a row and is to write it.
LEMMA HeldByOne ==
  ASSUME LockInv, NEW c \in Callers, NEW d \in Callers, NEW row,
         Holding(call[c], row), Holding(call[d], row)
  PROVE  c = d
<1> DEFINE l == [row |-> row, holder |-> c]
           m == [row |-> row, holder |-> d]
<1>1. l \in lock /\ m \in lock
  BY DEF LockInv
<1>2. l.row = m.row /\ l.holder = c /\ m.holder = d
  OBVIOUS
<1> HIDE DEF l, m
<1>3. QED
  BY <1>1, <1>2 DEF LockInv

\* What a step makes of the locks.
LEMMA LockKeep ==
  ASSUME LockInv, call \in [Callers -> PgCall], NEW c \in Callers, NEW v,
         call' = [call EXCEPT ![c] = v], Latches(c),
         \A row : Holding(v, row) => [row |-> row, holder |-> c] \in lock'
  PROVE  LockInv'
<1>1. call'[c] = v /\ \A d \in Callers : d # c => call'[d] = call[d]
  OBVIOUS
<1>2. \A l, m \in lock' : l.row = m.row => l = m
  <2>1. CASE lock' = lock \/ LocksDropped(c)
    BY <2>1 DEF LockInv, LocksDropped
  <2>2. ASSUME NEW row, ReadForUpdate(c, row)
        PROVE  \A l, m \in lock' : l.row = m.row => l = m
    <3> DEFINE new == [row |-> row, holder |-> c]
    <3>1. lock' = lock \cup {new} /\ new.row = row /\ \A l \in lock : l.row # row
      BY <2>2 DEF ReadForUpdate, Locked
    <3> HIDE DEF new
    <3>2. QED
      BY <3>1 DEF LockInv
  <2>3. QED
    BY <2>1, <2>2 DEF Latches
<1>3. ASSUME NEW d \in Callers, d # c
      PROVE  \A l \in lock : l.holder = d => l \in lock'
  BY <1>3 DEF Latches, LocksDropped, ReadForUpdate
<1>4. ASSUME NEW d \in Callers, NEW row, Holding(call'[d], row)
      PROVE  [row |-> row, holder |-> d] \in lock'
  <2>1. CASE d = c
    BY <1>1, <1>4, <2>1
  <2>2. CASE d # c
    <3> DEFINE mine == [row |-> row, holder |-> d]
    <3>1. mine \in lock /\ mine.holder = d
      BY <1>1, <1>4, <2>2 DEF LockInv
    <3> HIDE DEF mine
    <3>2. mine \in lock'
      BY <1>3, <2>2, <3>1
    <3>3. QED
      BY <3>2 DEF mine
  <2>3. QED
    BY <2>1, <2>2
<1>5. QED
  BY <1>2, <1>4 DEF LockInv

\* A call locks the row it reads, and keeps it until its transaction is over.
LEMMA LockDeed ==
  ASSUME PgTypes, LockInv, NEW c \in Callers, Deed(c)
  PROVE  LockInv'
<1>1. call \in [Callers -> PgCall] /\ call[c] \in PgCall
  BY DEF PgTypes, CallsFit
<1>2. CASE Quiet(c)
  <2>1. PICK v \in PgCall : CallBecomes(c, v) /\ v.pc \notin {"heads", "read", "written"}
    BY <1>2 DEF Quiet
  <2>2. QED
    BY <1>1, <1>2, <2>1, LockKeep DEF Quiet, CallBecomes, Holding
<1>3. CASE WalletReads(c) \/ SessionReads(c)
  <2>1. PICK value : Reads(c, value)
    BY <1>3 DEF WalletReads, SessionReads
  <2> DEFINE v == [call[c] EXCEPT !.pc = "read", !.seen = value]
  <2>2. v.op = call[c].op
    BY <1>1 DEF PgCall
  <2>3. call' = [call EXCEPT ![c] = v] /\ ReadForUpdate(c, call[c].op.key)
    BY <2>1 DEF Reads, CallBecomes
  <2> HIDE DEF v
  <2>4. \A row : Holding(v, row) => [row |-> row, holder |-> c] \in lock'
    BY <2>2, <2>3 DEF Holding, ReadForUpdate
  <2>5. Latches(c)
    BY <2>3 DEF Latches
  <2>6. QED
    BY <1>1, <2>3, <2>4, <2>5, LockKeep
<1>4. CASE HeadChosen(c) \/ HeadHeld(c)
  <2>1. PICK v : CallBecomes(c, v) /\ v.op = call[c].op
    BY <1>4, KeepsOp DEF SameOp
  <2>2. Latches(c) /\ call[c].op.key \in Chains
    BY <1>4 DEF HeadChosen, HeadHeld, Latches
  <2>3. QED
    BY <1>1, <2>1, <2>2, LockKeep DEF CallBecomes, Holding
<1>5. CASE KeepsBalance(c) \/ BooksLine(c) \/ SessionWrites(c) \/ AuditWrites(c)
  <2>1. PICK draft : Drafts(c, draft)
    BY <1>5 DEF KeepsBalance, BooksLine, SessionWrites, AuditWrites
  <2> DEFINE v == [call[c] EXCEPT !.pc = "written", !.draft = draft]
  <2>2. v.op = call[c].op
    BY <1>1 DEF PgCall
  <2>3. call' = [call EXCEPT ![c] = v] /\ lock' = lock /\ call[c].pc = "read"
    BY <2>1 DEF Drafts, CallBecomes
  <2> HIDE DEF v
  <2>4. \A row : Holding(v, row) => [row |-> row, holder |-> c] \in lock'
    BY <2>2, <2>3 DEF Holding, LockInv
  <2>5. QED
    BY <1>1, <2>3, <2>4, LockKeep DEF Latches
<1>6. CASE Commits(c)
  <2>1. PICK v \in PgCall : call' = [call EXCEPT ![c] = v] /\ v.pc \in {"idle", "thrown"}
    BY <1>6 DEF Commits
  <2>2. Latches(c)
    BY <1>6 DEF Commits, Applied, Latches
  <2>3. QED
    BY <1>1, <2>1, <2>2, LockKeep DEF Holding
<1>7. QED
  BY <1>2, <1>3, <1>4, <1>5, <1>6 DEF Deed

\* Every step keeps the locks apart.
LEMMA LockStep == PgTypes /\ ChainInv /\ LockInv /\ [PgNext]_pgVars => LockInv'
<1> SUFFICES ASSUME PgTypes, ChainInv, LockInv, [PgNext]_pgVars
             PROVE  LockInv'
  OBVIOUS
<1>1. ASSUME UNCHANGED <<call, lock>>
      PROVE  LockInv'
  BY <1>1 DEF LockInv
<1>2. UNCHANGED pgVars => UNCHANGED <<call, lock>>
  BY DEF pgVars
<1>3. \A s \in Sessions : Create(s) => UNCHANGED <<call, lock>>
  BY DEF Create
<1>4. QED
  BY <1>1, <1>2, <1>3, PgSteps, LockDeed

-----------------------------------------------------------------------------
(* The start *)

\* Nothing is stored or locked at the start.
LEMMA PgStart == PgInit => PgTypes /\ ChainInv /\ LockInv
<1> SUFFICES ASSUME PgInit
             PROVE  PgTypes /\ ChainInv /\ LockInv
  OBVIOUS
<1>1. \A c \in Callers : call[c] = Idle
  BY DEF PgInit
<1>2. Idle.pc = "idle" /\ Idle \in PgCall
  BY DEF Idle, PgCall, Pcs
<1>3. CallsFit(call, session)
  BY <1>1, <1>2 DEF PgInit, CallsFit, Fits
<1>4. PgTypes
  BY <1>3 DEF PgInit, PgTypes
<1>5. Linked({})
  BY FS_EmptySet DEF Linked
<1>6. ChainInv
  BY <1>1, <1>2, <1>5 DEF PgInit, ChainInv, HeadKept, SeqApart
<1>7. LockInv
  BY <1>1, <1>2 DEF PgInit, LockInv, Holding
<1>8. QED
  BY <1>4, <1>6, <1>7

PgBase == PgTypes /\ ChainInv /\ LockInv

\* The types, the chains and the locks are inductive together.
LEMMA BaseStep == PgBase /\ [PgNext]_pgVars => PgBase'
BY TypesStep, ChainStep, LockStep DEF PgBase

\* Calls and tables are of their types, appends follow the heads they read, and a
\* row is locked by one call (PgBase), however many calls interleave.
THEOREM PgHolds == PgSpec => []PgBase
<1>1. PgInit => PgBase
  BY PgStart DEF PgBase
<1>2. QED
  BY <1>1, BaseStep, PTL DEF PgSpec

\* The entries of a session are numbered without gap or fork, and each is linked to
\* the one before it (ChainUnbroken).
THEOREM ChainsUnbroken == PgSpec => []ChainUnbroken
<1>1. PgBase => ChainUnbroken
  BY DEF PgBase, ChainInv, Linked, ChainUnbroken
<1>2. QED
  BY <1>1, PgHolds, PTL

-----------------------------------------------------------------------------
(* The statement of an account *)

\* The transactions replay the balance that is stored.
Replayed(lines, stored, last) ==
  /\ stored \in Nat
  /\ stored = BalanceAfter(lines)
  /\ \A r \in lines :
       /\ r.no \in 1 .. last
       /\ r.after = BalanceAfter({q \in lines : q.no < r.no}) + Effect(r)
       /\ r.after >= 0
       /\ \A q \in lines : q.no = r.no => q = r

\* A transaction that comes next.
Follows(r, lines, stored, last) ==
  /\ r \in Line
  /\ r.no \in 1 .. last
  /\ \A q \in lines : q.no < r.no
  /\ r.after = stored + Effect(r)
  /\ r.after >= 0

\* A call that holds the account has seen the balance that is stored, and is to
\* write it as it was or with the transaction that comes next.
WalletKept(k, stored, lines, last) ==
  /\ k.seen = stored
  /\ k.pc = "written" =>
       \/ k.draft.row = {} /\ k.draft.balance = stored
       \/ \E r : /\ k.draft.row = {r} /\ k.draft.balance = r.after
                 /\ Follows(r, lines, stored, last)

WalletInv ==
  /\ \A a \in Accounts : Replayed(rows[a], Stored(a), serial)
  /\ \A c \in Callers, a \in Accounts :
       Holding(call[c], a) => WalletKept(call[c], Stored(a), rows[a], serial)

\* The statement goes on.
LEMMA ReplayGrows ==
  ASSUME NEW lines \in SUBSET Line, NEW stored, NEW last \in Nat,
         Replayed(lines, stored, last), NEW r, Follows(r, lines, stored, last)
  PROVE  Replayed(lines \cup {r}, r.after, last)
<1> DEFINE more == lines \cup {r}
<1>1. r.no \in Nat /\ r.after \in Nat /\ \A q \in lines : q.no \in Nat /\ q.no < r.no
  BY DEF Follows, Line
<1>2. \A q \in more : q.no <= r.no
  BY <1>1
<1>3. \A q \in more : (\A p \in more : p.no <= q.no) => q = r
  BY <1>1
<1>4. Latest(more) = r
  BY <1>2, <1>3 DEF Latest
<1>5. BalanceAfter(more) = r.after
  BY <1>4 DEF BalanceAfter
<1>6. {q \in more : q.no < r.no} = lines
  BY <1>1
<1>7. \A p \in lines : {q \in more : q.no < p.no} = {q \in lines : q.no < p.no}
  BY <1>1
<1>8. r.after = BalanceAfter(lines) + Effect(r)
  BY DEF Replayed, Follows
<1>9. ASSUME NEW p \in more
      PROVE  /\ p.no \in 1 .. last
             /\ p.after = BalanceAfter({q \in more : q.no < p.no}) + Effect(p)
             /\ p.after >= 0
             /\ \A q \in more : q.no = p.no => q = p
  <2>1. CASE p = r
    <3>1. \A q \in more : q.no = p.no => q = p
      BY <1>1, <2>1
    <3>2. {q \in more : q.no < p.no} = lines
      BY <1>6, <2>1
    <3> HIDE DEF more
    <3>3. QED
      BY <1>8, <2>1, <3>1, <3>2 DEF Follows
  <2>2. CASE p \in lines
    <3>1. ASSUME NEW q \in more, q.no = p.no
          PROVE  q = p
      <4>1. q \in lines
        BY <1>1, <2>2, <3>1
      <4>2. QED
        BY <2>2, <3>1, <4>1, Zenon DEF Replayed
    <3> HIDE DEF more
    <3>2. QED
      BY <1>7, <2>2, <3>1 DEF Replayed
  <2>3. QED
    BY <2>1, <2>2
<1> HIDE DEF more
<1>10. Replayed(more, r.after, last)
  BY <1>1, <1>5, <1>9 DEF Replayed
<1>11. QED
  BY <1>10 DEF more

\* A number that has been drawn stays drawn.
LEMMA SerialGrows ==
  ASSUME NEW last \in Nat, NEW more \in Nat, last <= more, NEW lines, NEW stored
  PROVE  /\ Replayed(lines, stored, last) => Replayed(lines, stored, more)
         /\ \A r : Follows(r, lines, stored, last) => Follows(r, lines, stored, more)
         /\ \A k : WalletKept(k, stored, lines, last) => WalletKept(k, stored, lines, more)
<1>1. 1 .. last \subseteq 1 .. more
  OBVIOUS
<1>2. Replayed(lines, stored, last) => Replayed(lines, stored, more)
  BY <1>1, Zenon DEF Replayed
<1>3. \A r : Follows(r, lines, stored, last) => Follows(r, lines, stored, more)
  BY <1>1, Zenon DEF Follows
<1>4. \A k : WalletKept(k, stored, lines, last) => WalletKept(k, stored, lines, more)
  BY <1>3, Zenon DEF WalletKept
<1>5. QED
  BY <1>2, <1>3, <1>4

\* A step of one call that leaves the wallets alone.
LEMMA WalletKeep ==
  ASSUME PgTypes, WalletInv, NEW c \in Callers, NEW v,
         call' = [call EXCEPT ![c] = v], UNCHANGED <<balance, rows>>,
         serial' \in Nat, serial <= serial',
         \A a \in Accounts : Holding(v, a) => WalletKept(v, Stored(a), rows[a], serial')
  PROVE  WalletInv'
<1>1. call'[c] = v /\ \A d \in Callers : d # c => call'[d] = call[d]
  BY DEF PgTypes, CallsFit
<1>2. \A a : Stored(a)' = Stored(a) /\ rows'[a] = rows[a]
  BY DEF Stored
<1>3. serial \in Nat
  BY DEF PgTypes
<1>4. ASSUME NEW a \in Accounts
      PROVE  Replayed(rows'[a], Stored(a)', serial')
  <2>1. Replayed(rows[a], Stored(a), serial)
    BY DEF WalletInv
  <2>2. QED
    BY <1>2, <1>3, <2>1, SerialGrows
<1>5. ASSUME NEW d \in Callers, NEW a \in Accounts, Holding(call'[d], a)
      PROVE  WalletKept(call'[d], Stored(a)', rows'[a], serial')
  <2>1. CASE d = c
    BY <1>1, <1>2, <1>5, <2>1
  <2>2. CASE d # c
    <3>1. WalletKept(call[d], Stored(a), rows[a], serial)
      BY <1>1, <1>5, <2>2 DEF WalletInv
    <3>2. QED
      BY <1>1, <1>2, <1>3, <2>2, <3>1, SerialGrows
  <2>3. QED
    BY <2>1, <2>2
<1>6. QED
  BY <1>4, <1>5 DEF WalletInv

\* A transaction is committed.
LEMMA WalletCommit ==
  ASSUME PgTypes, LockInv, WalletInv, NEW c \in Callers, Commits(c),
         call[c].op.key \in Accounts
  PROVE  WalletInv'
<1> DEFINE draft == call[c].draft
<1>0. PICK a : a = call[c].op.key
  OBVIOUS
<1>1. PICK v \in PgCall : call' = [call EXCEPT ![c] = v] /\ v.pc \in {"idle", "thrown"}
  BY DEF Commits
<1>2. call'[c] = v /\ \A d \in Callers : d # c => call'[d] = call[d]
  BY <1>1 DEF PgTypes, CallsFit
<1>3. /\ a \in Accounts /\ draft \in WalletDraft /\ serial' = serial
      /\ balance' = [balance EXCEPT ![a] = draft.balance]
      /\ rows' = [rows EXCEPT ![a] = rows[a] \cup draft.row]
      /\ call[c].pc = "written" /\ serial \in Nat /\ rows[a] \in SUBSET Line
  BY <1>0, AppliedFacts DEF Commits, PgTypes
<1>4. Holding(call[c], a)
  BY <1>0, <1>3 DEF Holding
<1>5. WalletKept(call[c], Stored(a), rows[a], serial) /\ Replayed(rows[a], Stored(a), serial)
  BY <1>3, <1>4 DEF WalletInv
<1>6. \A d \in Callers : d # c => ~Holding(call[d], a)
  BY <1>4, HeldByOne
<1> HIDE DEF draft
<1>7. /\ rows'[a] = rows[a] \cup draft.row /\ balance'[a] = draft.balance /\ draft.balance \in Int
      /\ \A b \in Accounts : b # a => rows'[b] = rows[b] /\ balance'[b] = balance[b]
  BY <1>3 DEF PgTypes, WalletDraft
<1>8. Stored(a)' = draft.balance
  BY <1>7 DEF Stored
<1>9. \A b \in Accounts : b # a => Stored(b)' = Stored(b)
  BY <1>7 DEF Stored
<1>10. Replayed(rows'[a], Stored(a)', serial)
  <2>1. CASE draft.row = {} /\ draft.balance = Stored(a)
    BY <1>5, <1>7, <1>8, <2>1
  <2>2. ASSUME NEW r, draft.row = {r}, draft.balance = r.after, Follows(r, rows[a], Stored(a), serial)
        PROVE  Replayed(rows'[a], Stored(a)', serial)
    <3>1. Replayed(rows[a] \cup {r}, r.after, serial)
      BY <1>3, <1>5, <2>2, ReplayGrows
    <3>2. QED
      BY <1>7, <1>8, <2>2, <3>1
  <2>3. QED
    BY <1>3, <1>5, <2>1, <2>2 DEF WalletKept, draft
<1>11. ASSUME NEW b \in Accounts
       PROVE  Replayed(rows'[b], Stored(b)', serial')
  <2>1. CASE b = a
    BY <1>3, <1>10, <2>1
  <2>2. CASE b # a
    <3>1. Replayed(rows[b], Stored(b), serial)
      BY DEF WalletInv
    <3>2. QED
      BY <1>3, <1>7, <1>9, <2>2, <3>1
  <2>3. QED
    BY <2>1, <2>2
<1>12. ASSUME NEW d \in Callers, NEW b \in Accounts, Holding(call'[d], b)
       PROVE  WalletKept(call'[d], Stored(b)', rows'[b], serial')
  <2>1. d # c
    BY <1>1, <1>2, <1>12 DEF Holding
  <2>2. call'[d] = call[d] /\ b # a
    BY <1>2, <1>6, <1>12, <2>1
  <2>3. WalletKept(call[d], Stored(b), rows[b], serial)
    BY <1>12, <2>2 DEF WalletInv
  <2>4. QED
    BY <1>3, <1>7, <1>9, <2>2, <2>3
<1>13. QED
  BY <1>11, <1>12 DEF WalletInv

\* What a wallet call writes comes next.
LEMMA LineFollows ==
  ASSUME PgTypes, WalletInv, NEW c \in Callers, BooksLine(c)
  PROVE  LET op == call[c].op
         IN  Follows(LineOf(op, call[c].seen, serial + 1), rows[op.key], Stored(op.key), serial + 1)
<1> DEFINE op == call[c].op
           a == op.key
           before == call[c].seen
           r == LineOf(op, before, serial + 1)
<1>1. /\ a \in Accounts /\ call[c].pc = "read" /\ op.kind \in WalletKinds
      /\ op.kind = "wager" => op.n <= before
  BY DEF BooksLine, Drafts
<1>2. before = Stored(a) /\ Replayed(rows[a], Stored(a), serial)
  BY <1>1 DEF WalletInv, WalletKept, Holding
<1>3. before \in Nat /\ serial \in Nat /\ \A q \in rows[a] : q.no <= serial /\ q.no \in Nat
  <2>1. \A q \in rows[a] : q.no \in 1 .. serial
    BY <1>2 DEF Replayed
  <2>2. before \in Nat /\ serial \in Nat
    BY <1>2 DEF Replayed, PgTypes
  <2> HIDE DEF a, before
  <2>3. QED
    BY <2>1, <2>2
<1>4. op \in Op /\ op.n \in Nat
  BY <1>1, CallFacts, OpFacts DEF Fits
<1>5. /\ r.no = serial + 1 /\ r.kind = op.kind /\ r.n = op.n
      /\ r.status = WalletStatus(op, before) /\ r.after = After(op, before)
  BY DEF LineOf
<1>6. After(op, before) \in Nat
  BY <1>1, <1>3, <1>4 DEF After, WalletStatus, Credits, WalletKinds
<1>7. WalletStatus(op, before) \in {"approved", "pending", "declined"}
  BY DEF WalletStatus
<1>8. r \in Line
  BY <1>1, <1>3, <1>4, <1>6, <1>7 DEF LineOf, Line
<1> HIDE DEF r
<1>9. r.after = before + Effect(r)
  <2> HIDE DEF op, before
  <2>1. QED
    BY <1>3, <1>4, <1>5 DEF Effect, After
<1>10. QED
  BY <1>2, <1>3, <1>5, <1>6, <1>8, <1>9 DEF Follows, r

\* What a call does to the statements.
LEMMA WalletDeed ==
  ASSUME PgTypes, LockInv, WalletInv, NEW c \in Callers, Deed(c)
  PROVE  WalletInv'
<1>1. /\ call[c] \in PgCall /\ serial \in Nat
      /\ \A a : Stored(a) = IF balance[a] = None THEN StartingBalance ELSE balance[a]
  BY DEF PgTypes, CallsFit, Stored
<1>2. ASSUME NEW v, call' = [call EXCEPT ![c] = v], UNCHANGED <<balance, rows>>, serial' = serial,
             \A a \in Accounts : ~Holding(v, a)
      PROVE  WalletInv'
  <2>1. serial' \in Nat /\ serial <= serial'
    BY <1>1, <1>2
  <2>2. QED
    BY <1>2, <2>1, WalletKeep
<1>3. CASE Quiet(c)
  BY <1>2, <1>3 DEF Quiet, CallBecomes, db, Holding
<1>4. CASE WalletReads(c)
  <2> DEFINE stored == Stored(call[c].op.key)
             v == [call[c] EXCEPT !.pc = "read", !.seen = stored]
  <2>1. v.op = call[c].op /\ v.pc = "read" /\ v.seen = stored
    BY <1>1 DEF PgCall
  <2>2. call' = [call EXCEPT ![c] = v] /\ UNCHANGED <<balance, rows>> /\ serial' = serial
    BY <1>4 DEF WalletReads, Reads, CallBecomes, db
  <2> HIDE DEF v
  <2>3. \A a \in Accounts : Holding(v, a) => WalletKept(v, Stored(a), rows[a], serial')
    BY <2>1 DEF Holding, WalletKept
  <2>4. serial' \in Nat /\ serial <= serial'
    BY <1>1, <2>2
  <2>5. QED
    BY <2>2, <2>3, <2>4, WalletKeep
<1>5. CASE \/ SessionReads(c) \/ HeadChosen(c) \/ HeadHeld(c)
           \/ SessionWrites(c) \/ AuditWrites(c)
  <2>1. PICK v : CallBecomes(c, v) /\ v.op = call[c].op
    BY <1>5, KeepsOp DEF SameOp
  <2>2. UNCHANGED <<balance, rows>> /\ call[c].op.key \notin Accounts
    BY <1>5, KeepsOp DEF SessionReads, HeadChosen, HeadHeld, SessionWrites, AuditWrites
  <2>3. serial' = serial
    BY <1>5 DEF SessionReads, Reads, HeadChosen, HeadHeld, SessionWrites, AuditWrites
  <2>4. QED
    BY <1>2, <2>1, <2>2, <2>3 DEF CallBecomes, Holding
<1>6. CASE KeepsBalance(c)
  <2> DEFINE before == call[c].seen
             draft == [balance |-> before, row |-> {}]
             v == [call[c] EXCEPT !.pc = "written", !.draft = draft]
  <2>1. v.op = call[c].op /\ v.pc = "written" /\ v.seen = before /\ v.draft = draft
    BY <1>1 DEF PgCall
  <2>2. call' = [call EXCEPT ![c] = v] /\ UNCHANGED <<balance, rows>> /\ serial' = serial
    BY <1>6 DEF KeepsBalance, Drafts, CallBecomes, db
  <2>3. draft.row = {} /\ draft.balance = before
    OBVIOUS
  <2>4. \A a \in Accounts : call[c].op.key = a => before = Stored(a)
    BY <1>6 DEF KeepsBalance, Drafts, WalletInv, WalletKept, Holding
  <2> HIDE DEF v, draft, before
  <2>5. \A a \in Accounts : Holding(v, a) => WalletKept(v, Stored(a), rows[a], serial')
    BY <2>1, <2>3, <2>4 DEF Holding, WalletKept
  <2>6. serial' \in Nat /\ serial <= serial'
    BY <1>1, <2>2
  <2>7. QED
    BY <2>2, <2>5, <2>6, WalletKeep
<1>7. CASE BooksLine(c)
  <2> DEFINE op == call[c].op
             before == call[c].seen
             r == LineOf(op, before, serial + 1)
             draft == [balance |-> After(op, before), row |-> {r}]
             v == [call[c] EXCEPT !.pc = "written", !.draft = draft]
  <2>1. v.op = op /\ v.pc = "written" /\ v.seen = before /\ v.draft = draft
    BY <1>1 DEF PgCall
  <2>2. /\ call' = [call EXCEPT ![c] = v] /\ UNCHANGED <<balance, rows>>
        /\ serial' = serial + 1 /\ op.key \in Accounts
    BY <1>7 DEF BooksLine, Drafts, CallBecomes, db
  <2>3. draft.row = {r} /\ draft.balance = r.after
    BY DEF LineOf
  <2>4. before = Stored(op.key)
    BY <1>7 DEF BooksLine, Drafts, WalletInv, WalletKept, Holding
  <2>5. Follows(r, rows[op.key], Stored(op.key), serial + 1)
    BY <1>7, LineFollows
  <2> HIDE DEF v, draft, r, before, op
  <2>6. WalletKept(v, Stored(op.key), rows[op.key], serial')
    BY <2>1, <2>2, <2>3, <2>4, <2>5 DEF WalletKept
  <2>7. \A a \in Accounts : Holding(v, a) => WalletKept(v, Stored(a), rows[a], serial')
    BY <2>1, <2>6 DEF Holding
  <2>8. serial' \in Nat /\ serial <= serial'
    BY <1>1, <2>2
  <2>9. QED
    BY <2>2, <2>7, <2>8, WalletKeep
<1>8. CASE Commits(c)
  <2>1. CASE call[c].op.key \in Accounts
    BY <1>8, <2>1, WalletCommit
  <2>2. CASE call[c].op.key \notin Accounts
    <3>1. UNCHANGED <<balance, rows>> /\ serial' = serial
      BY <1>8, <2>2, AppliedFacts DEF Commits
    <3>2. PICK v \in PgCall : call' = [call EXCEPT ![c] = v] /\ v.pc \in {"idle", "thrown"}
      BY <1>8 DEF Commits
    <3>3. QED
      BY <1>2, <3>1, <3>2 DEF Holding
  <2>3. QED
    BY <2>1, <2>2
<1>9. QED
  BY <1>3, <1>4, <1>5, <1>6, <1>7, <1>8 DEF Deed

\* A step that is none of a call.
LEMMA WalletStep == PgBase /\ WalletInv /\ [PgNext]_pgVars => WalletInv'
<1> SUFFICES ASSUME PgBase, WalletInv, [PgNext]_pgVars
             PROVE  WalletInv'
  OBVIOUS
<1>1. ASSUME UNCHANGED <<call, serial, balance, rows>>
      PROVE  WalletInv'
  BY <1>1 DEF WalletInv, Stored
<1>2. UNCHANGED pgVars => UNCHANGED <<call, serial, balance, rows>>
  BY DEF pgVars, db
<1>3. \A s \in Sessions : Create(s) => UNCHANGED <<call, serial, balance, rows>>
  BY DEF Create
<1>4. QED
  BY <1>1, <1>2, <1>3, PgSteps, WalletDeed DEF PgBase

\* A player's transactions replay the balance that is stored, never below zero
\* (StatementReplays).
THEOREM StatementsReplay == PgSpec => []StatementReplays
<1>1. PgInit => WalletInv
  <2> SUFFICES ASSUME PgInit
               PROVE  WalletInv
    OBVIOUS
  <2>1. \A a \in Accounts : Stored(a) = StartingBalance /\ rows[a] = {}
    BY DEF PgInit, Stored
  <2>2. \A a \in Accounts : Replayed(rows[a], Stored(a), serial)
    BY <2>1 DEF Replayed, BalanceAfter
  <2>3. \A c \in Callers : call[c].pc = "idle"
    BY DEF PgInit, Idle
  <2>4. QED
    BY <2>2, <2>3 DEF WalletInv, Holding
<1>2. WalletInv => StatementReplays
  BY DEF WalletInv, Replayed, StatementReplays, Stored
<1>3. QED
  BY <1>1, <1>2, WalletStep, PgHolds, PTL DEF PgSpec

-----------------------------------------------------------------------------
(* The spins of a session *)

Net(i) == log[i].op.n

\* What the log says of a session.
SpinsSum(s) == SumOver([i \in Logged(s) |-> Net(i)], Logged(s))

ClosedLast(s) ==
  \A i, j \in Logged(s) : i < j /\ log[i].op.kind = "close" => log[j].op.kind = "close"

HasClose(s) == \E i \in Logged(s) : log[i].op.kind = "close"

\* The row of a session and the log agree.
Counts(s) ==
  /\ session[s] = None => Logged(s) = {}
  /\ session[s] # None =>
       /\ session[s].net = SpinsSum(s)
       /\ session[s].closed <=> HasClose(s)
       /\ ClosedLast(s)

\* A call that holds the session has seen its row, and is to write what it makes
\* of that row; a spin goes on with an open session only.
SessionKept(k, state) ==
  /\ k.seen = state
  /\ k.op.kind = "recordSpin" => ~state.closed
  /\ k.pc = "written" => k.draft = SessionAfter(k.op, state)

SessionInv ==
  /\ \A s \in Sessions : Counts(s)
  /\ \A c \in Callers, s \in Sessions : Holding(call[c], s) => SessionKept(call[c], session[s])

\* A commit adds one line to the log.
LEMMA LogGrows ==
  ASSUME PgTypes, NEW op \in Op, NEW id \in Nat, log' = Append(log, [op |-> op, id |-> id])
  PROVE  /\ Len(log) \in Nat /\ Len(log') = Len(log) + 1
         /\ \A i \in 1 .. Len(log) : log'[i] = log[i] /\ log[i].op \in Op /\ log[i].id \in Nat
         /\ log'[Len(log) + 1].op = op /\ log'[Len(log) + 1].id = id
         /\ \A s : Logged(s)' = Logged(s) \cup (IF op.key = s THEN {Len(log) + 1} ELSE {})
<1> DEFINE n == Len(log)
           new == [op |-> op, id |-> id]
<1>1. new \in [op: Op, id: Nat] /\ new.op = op /\ new.id = id /\ log \in Seq([op: Op, id: Nat])
  BY DEF PgTypes
<1> HIDE DEF new
<1>2. n \in Nat /\ log' = Append(log, new)
  BY <1>1 DEF new
<1>3. /\ Len(log') = n + 1 /\ log'[n + 1] = new
      /\ \A i \in 1 .. n : log'[i] = log[i]
  BY <1>1, <1>2, AppendProperties
<1>4. \A i \in 1 .. n : log[i] \in [op: Op, id: Nat]
  BY <1>1, ElementOfSeq
<1>5. \A i \in 1 .. n : log[i].op \in Op /\ log[i].id \in Nat
  BY <1>4
<1>6. ASSUME NEW s
      PROVE  Logged(s)' = Logged(s) \cup (IF op.key = s THEN {n + 1} ELSE {})
  <2>1. 1 .. Len(log') = 1 .. n \cup {n + 1} /\ n + 1 \notin 1 .. n
    BY <1>2, <1>3
  <2>2. \A i \in 1 .. n : log'[i].op.key = log[i].op.key
    BY <1>3
  <2>3. log'[n + 1].op.key = op.key
    BY <1>1, <1>3
  <2> HIDE DEF n
  <2>4. Logged(s) = {i \in 1 .. n : log[i].op.key = s}
    BY DEF Logged, n
  <2>5. Logged(s)' = {i \in 1 .. Len(log') : log'[i].op.key = s}
    BY DEF Logged
  <2>6. QED
    BY <2>1, <2>2, <2>3, <2>4, <2>5
<1>7. QED
  BY <1>1, <1>2, <1>3, <1>5, <1>6

\* The sum over the log grows by what the new line says.
LEMMA SumGrows ==
  ASSUME PgTypes, NEW op \in Op, NEW id \in Nat, log' = Append(log, [op |-> op, id |-> id]),
         NEW s
  PROVE  /\ SpinsSum(s)' = SpinsSum(s) + (IF op.key = s THEN op.n ELSE 0)
         /\ SpinsSum(s) \in Int
<1> DEFINE n == Len(log)
           S == Logged(s)
           T == Logged(s)'
           f == [i \in S |-> log[i].op.n]
           g == [i \in T |-> log'[i].op.n]
<1>1. /\ n \in Nat /\ \A i \in 1 .. n : log'[i] = log[i] /\ log[i].op \in Op
      /\ log'[n + 1].op = op
      /\ T = S \cup (IF op.key = s THEN {n + 1} ELSE {})
  BY LogGrows
<1>2. S \subseteq 1 .. n /\ n + 1 \notin 1 .. n
  BY <1>1 DEF Logged
<1>3. IsFiniteSet(S) /\ n + 1 \notin S
  <2> HIDE DEF S, n
  <2>1. IsFiniteSet(1 .. n)
    BY <1>1, FS_Interval
  <2>2. QED
    BY <1>2, <2>1, FS_Subset
<1>4. op.n \in Int /\ \A i \in S : f[i] \in Int
  BY <1>1, <1>2, OpFacts
<1>5. \A i \in S : g[i] = f[i]
  BY <1>1, <1>2
<1>6. SpinsSum(s) = SumOver(f, S) /\ SpinsSum(s)' = SumOver(g, T)
  BY DEF SpinsSum, Net
<1>7. op.key = s => g[n + 1] = op.n
  BY <1>1
<1> HIDE DEF S, T, f, g, n
<1>8. SumOver(g, S) = SumOver(f, S) /\ SumOver(f, S) \in Int
  <2>1. SumOver(g, S) = SumOver(f, S)
    BY <1>3, <1>4, <1>5, IntSumSame
  <2> DEFINE h == [i \in S \cup {n + 1} |-> IF i = n + 1 THEN 0 ELSE f[i]]
  <2>2. /\ \A i \in S \cup {n + 1} : h[i] \in Int
        /\ \A i \in S : h[i] = f[i]
    BY <1>3, <1>4
  <2> HIDE DEF h
  <2>3. SumOver(h, S) \in Int
    BY <1>3, <2>2, IntSumAdd
  <2>4. SumOver(h, S) = SumOver(f, S)
    BY <1>3, <1>4, <2>2, IntSumSame
  <2>5. QED
    BY <2>1, <2>3, <2>4
<1>9. CASE op.key = s
  <2>1. T = S \cup {n + 1}
    BY <1>1, <1>9
  <2>2. \A i \in S \cup {n + 1} : g[i] \in Int
    BY <1>4, <1>5, <1>7, <1>9
  <2>3. SumOver(g, S \cup {n + 1}) = SumOver(g, S) + g[n + 1]
    BY <1>3, <2>2, IntSumAdd
  <2>4. QED
    BY <1>6, <1>7, <1>8, <1>9, <2>1, <2>3
<1>10. CASE op.key # s
  BY <1>1, <1>6, <1>8, <1>10
<1>11. QED
  BY <1>9, <1>10

\* The log says what it said.
LEMMA LogSame ==
  ASSUME log' = log
  PROVE  \A s : /\ Logged(s)' = Logged(s) /\ (HasClose(s)' <=> HasClose(s))
               /\ (ClosedLast(s)' <=> ClosedLast(s)) /\ SpinsSum(s)' = SpinsSum(s)
BY DEF SpinsSum, HasClose, ClosedLast, Logged, Net

\* What agreed with the log still does.
LEMMA CountsSame ==
  ASSUME log' = log, NEW s, session'[s] = session[s], Counts(s)
  PROVE  Counts(s)'
BY LogSame, Zenon DEF Counts

\* A step of one call that leaves the sessions alone.
LEMMA SessionKeep ==
  ASSUME PgTypes, SessionInv, NEW c \in Callers, NEW v,
         call' = [call EXCEPT ![c] = v], UNCHANGED <<session, log>>,
         \A s \in Sessions : Holding(v, s) => SessionKept(v, session[s])
  PROVE  SessionInv'
<1>1. call'[c] = v /\ \A d \in Callers : d # c => call'[d] = call[d]
  BY DEF PgTypes, CallsFit
<1>2. ASSUME NEW s \in Sessions
      PROVE  Counts(s)'
  BY CountsSame DEF SessionInv
<1>3. ASSUME NEW d \in Callers, NEW s \in Sessions, Holding(call'[d], s)
      PROVE  SessionKept(call'[d], session'[s])
  <2>1. CASE d = c
    BY <1>1, <1>3, <2>1
  <2>2. CASE d # c
    BY <1>1, <1>3, <2>2 DEF SessionInv
  <2>3. QED
    BY <2>1, <2>2
<1>4. QED
  BY <1>2, <1>3 DEF SessionInv

\* The log says nothing new of a session.
LEMMA CountsKeep ==
  ASSUME PgTypes, NEW op \in Op, NEW id \in Nat, log' = Append(log, [op |-> op, id |-> id]),
         NEW s, op.key # s, session'[s] = session[s], Counts(s)
  PROVE  Counts(s)'
<1>1. SpinsSum(s)' = SpinsSum(s) /\ Logged(s)' = Logged(s)
  <2>1. SpinsSum(s)' = SpinsSum(s) + 0 /\ SpinsSum(s) \in Int
    BY SumGrows
  <2>2. Logged(s)' = Logged(s) \cup {}
    BY LogGrows
  <2>3. QED
    BY <2>1, <2>2
<1>2. \A i \in Logged(s) : log'[i] = log[i]
  BY LogGrows DEF Logged
<1>3. HasClose(s)' <=> HasClose(s)
  BY <1>1, <1>2 DEF HasClose
<1>4. ClosedLast(s) => ClosedLast(s)'
  BY <1>1, <1>2 DEF ClosedLast
<1>5. QED
  BY <1>1, <1>3, <1>4, Zenon DEF Counts

\* The row of a session changes as the log does.
LEMMA CountsGrow ==
  ASSUME PgTypes, NEW op \in Op, NEW id \in Nat, log' = Append(log, [op |-> op, id |-> id]),
         NEW s \in Sessions, op.key = s, session[s] \in SessionState, Counts(s),
         op.kind = "recordSpin" => ~session[s].closed,
         session'[s] = SessionAfter(op, session[s])
  PROVE  Counts(s)'
<1> DEFINE n == Len(log)
           state == session[s]
<1>1. /\ n \in Nat /\ Logged(s)' = Logged(s) \cup {n + 1} /\ log'[n + 1].op = op
      /\ \A i \in 1 .. n : log'[i] = log[i]
  BY LogGrows
<1>2. Logged(s) \subseteq 1 .. n
  BY DEF Logged
<1>3. state.net = SpinsSum(s) /\ (state.closed <=> HasClose(s)) /\ ClosedLast(s)
  BY DEF Counts, SessionState
<1>4. SpinsSum(s)' = SpinsSum(s) + op.n
  BY SumGrows
<1>5. /\ op.kind \in {"recordSpin", "close"} /\ op.n \in Int
      /\ op.kind = "close" => op.n = 0
  BY OpFacts
<1>6. /\ session'[s].net = state.net + op.n
      /\ session'[s].closed <=> (state.closed \/ op.kind = "close")
  <2>1. CASE op.kind = "close"
    BY <1>5, <2>1 DEF SessionAfter, SessionState
  <2>2. CASE op.kind # "close"
    BY <1>5, <2>2 DEF SessionAfter, Spun, SessionState
  <2>3. QED
    BY <2>1, <2>2
<1>7. HasClose(s)' <=> (HasClose(s) \/ op.kind = "close")
  BY <1>1, <1>2 DEF HasClose
<1>8. ClosedLast(s)'
  <2>1. ASSUME NEW i \in Logged(s)', NEW j \in Logged(s)', i < j, log'[i].op.kind = "close"
        PROVE  log'[j].op.kind = "close"
    <3>1. i \in Logged(s) /\ log[i].op.kind = "close"
      BY <1>1, <1>2, <2>1
    <3>2. CASE j \in Logged(s)
      BY <1>1, <1>2, <1>3, <2>1, <3>1, <3>2 DEF ClosedLast
    <3>3. CASE j = n + 1
      <4>1. state.closed
        BY <1>3, <3>1 DEF HasClose
      <4>2. op.kind = "close"
        BY <1>5, <4>1
      <4>3. QED
        BY <1>1, <3>3, <4>2
    <3>4. QED
      BY <1>1, <3>2, <3>3
  <2>2. QED
    BY <2>1 DEF ClosedLast
<1>9. session'[s] # None
  <2>1. CASE op.kind = "close"
    <3>1. session'[s] = [state EXCEPT !.closed = TRUE]
      BY <2>1 DEF SessionAfter
    <3>2. [state EXCEPT !.closed = TRUE] \in SessionState
      BY DEF SessionState
    <3>3. QED
      BY <3>1, <3>2
  <2>2. CASE op.kind # "close"
    <3> DEFINE net == state.net + op.n
               reached == state.lossLimitReached \/ (LossLimit > 0 /\ -net >= LossLimit)
    <3>1. net \in Int /\ reached \in BOOLEAN
      BY <1>5 DEF SessionState
    <3>2. session'[s] = [state EXCEPT !.net = net, !.lossLimitReached = reached]
      BY <2>2 DEF SessionAfter, Spun
    <3> HIDE DEF net, reached
    <3>3. session'[s] \in SessionState
      BY <3>1, <3>2 DEF SessionState
    <3>4. QED
      BY <3>3
  <2>3. QED
    BY <2>1, <2>2
<1>10. QED
  BY <1>3, <1>4, <1>6, <1>7, <1>8, <1>9 DEF Counts

\* A transaction is committed.
LEMMA SessionCommit ==
  ASSUME PgTypes, LockInv, SessionInv, NEW c \in Callers, Commits(c)
  PROVE  SessionInv'
<1> DEFINE op == call[c].op
           id == call[c].id
<1>0. PICK key : key = op.key
  OBVIOUS
<1>1. PICK v \in PgCall : call' = [call EXCEPT ![c] = v] /\ v.pc \in {"idle", "thrown"}
  BY DEF Commits
<1>2. call'[c] = v /\ \A d \in Callers : d # c => call'[d] = call[d]
  BY <1>1 DEF PgTypes, CallsFit
<1>3. /\ op \in Op /\ log' = Append(log, [op |-> op, id |-> id])
      /\ key \in Sessions => session' = [session EXCEPT ![key] = call[c].draft]
      /\ key \notin Sessions => session' = session
      /\ call[c].pc = "written"
  BY <1>0, AppliedFacts DEF Commits
<1>4. id \in Nat
  BY CallFacts DEF PgCall
<1>5. \A s \in Sessions : s # key => session'[s] = session[s]
  BY <1>3 DEF PgTypes
<1>6. ASSUME key \in Sessions
      PROVE  Counts(key)'
  <2>1. Holding(call[c], key)
    BY <1>0, <1>3, <1>6 DEF Holding
  <2>2. SessionKept(call[c], session[key]) /\ Counts(key)
    BY <1>6, <2>1 DEF SessionInv
  <2>3. session[key] \in SessionState
    BY <1>0, <1>3, <1>6, <2>2, CallFacts DEF Fits, OnSession, SessionKept
  <2>4. session'[key] = SessionAfter(op, session[key])
    BY <1>3, <1>6, <2>2 DEF SessionKept, PgTypes
  <2>5. op.kind = "recordSpin" => ~session[key].closed
    BY <2>2 DEF SessionKept
  <2> HIDE DEF op, id
  <2>6. QED
    BY <1>0, <1>3, <1>4, <1>6, <2>2, <2>3, <2>4, <2>5, CountsGrow
<1>7. ASSUME NEW s \in Sessions
      PROVE  Counts(s)'
  <2>1. CASE s = key
    BY <1>6, <2>1
  <2>2. CASE s # key
    <3>1. Counts(s) /\ session'[s] = session[s]
      BY <1>5, <2>2 DEF SessionInv
    <3> HIDE DEF op, id
    <3>2. QED
      BY <1>0, <1>3, <1>4, <2>2, <3>1, CountsKeep
  <2>3. QED
    BY <2>1, <2>2
<1>8. ASSUME NEW d \in Callers, NEW s \in Sessions, Holding(call'[d], s)
      PROVE  SessionKept(call'[d], session'[s])
  <2>1. d # c
    BY <1>1, <1>2, <1>8 DEF Holding
  <2>2. call'[d] = call[d] /\ Holding(call[d], s)
    BY <1>2, <1>8, <2>1
  <2>3. s # key
    <3>1. key \in Sessions => Holding(call[c], key)
      BY <1>0, <1>3 DEF Holding
    <3>2. QED
      BY <2>1, <2>2, <3>1, HeldByOne
  <2>4. QED
    BY <1>5, <2>2, <2>3 DEF SessionInv
<1>9. QED
  BY <1>7, <1>8 DEF SessionInv

\* What a call does to the sessions.
LEMMA SessionDeed ==
  ASSUME PgTypes, LockInv, SessionInv, NEW c \in Callers, Deed(c)
  PROVE  SessionInv'
<1>1. call[c] \in PgCall
  BY DEF PgTypes, CallsFit
<1>2. ASSUME NEW v, call' = [call EXCEPT ![c] = v], UNCHANGED <<session, log>>,
             \A s \in Sessions : ~Holding(v, s)
      PROVE  SessionInv'
  BY <1>2, SessionKeep
<1>3. CASE Quiet(c)
  BY <1>2, <1>3 DEF Quiet, CallBecomes, db, Holding
<1>4. CASE SessionReads(c)
  <2> DEFINE value == session[call[c].op.key]
             v == [call[c] EXCEPT !.pc = "read", !.seen = value]
  <2>1. v.op = call[c].op /\ v.pc = "read" /\ v.seen = value
    BY <1>1 DEF PgCall
  <2>2. call' = [call EXCEPT ![c] = v] /\ UNCHANGED <<session, log>>
    BY <1>4 DEF SessionReads, Reads, CallBecomes, db
  <2> HIDE DEF v
  <2>3. \A s \in Sessions : Holding(v, s) => SessionKept(v, session[s])
    BY <1>4, <2>1 DEF Holding, SessionKept, SessionReads
  <2>4. QED
    BY <2>2, <2>3, SessionKeep
<1>5. CASE \/ WalletReads(c) \/ HeadChosen(c) \/ HeadHeld(c)
           \/ KeepsBalance(c) \/ BooksLine(c) \/ AuditWrites(c)
  <2>1. PICK v : CallBecomes(c, v) /\ v.op = call[c].op
    BY <1>5, KeepsOp DEF SameOp
  <2>2. UNCHANGED <<session, log>> /\ call[c].op.key \notin Sessions
    BY <1>5, KeepsOp DEF WalletReads, HeadChosen, HeadHeld, KeepsBalance, BooksLine, AuditWrites
  <2>3. QED
    BY <1>2, <2>1, <2>2 DEF CallBecomes, Holding
<1>6. CASE SessionWrites(c)
  <2> DEFINE op == call[c].op
             seen == call[c].seen
             draft == SessionAfter(op, seen)
             v == [call[c] EXCEPT !.pc = "written", !.draft = draft]
  <2>1. v.op = op /\ v.pc = "written" /\ v.seen = seen /\ v.draft = draft
    BY <1>1 DEF PgCall
  <2>2. call' = [call EXCEPT ![c] = v] /\ UNCHANGED <<session, log>>
    BY <1>6 DEF SessionWrites, Drafts, CallBecomes, db
  <2>3. SessionKept(call[c], session[op.key]) /\ op.key \in Sessions
    BY <1>6 DEF SessionWrites, Drafts, SessionInv, Holding
  <2>4. seen = session[op.key] /\ (op.kind = "recordSpin" => ~session[op.key].closed)
    BY <2>3 DEF SessionKept
  <2>5. draft = SessionAfter(op, session[op.key])
    BY <2>4
  <2> HIDE DEF v, draft, seen, op
  <2>6. SessionKept(v, session[op.key])
    BY <2>1, <2>4, <2>5 DEF SessionKept
  <2>7. \A s \in Sessions : Holding(v, s) => SessionKept(v, session[s])
    BY <2>1, <2>6 DEF Holding
  <2>8. QED
    BY <2>2, <2>7, SessionKeep
<1>7. CASE Commits(c)
  BY <1>7, SessionCommit
<1>8. QED
  BY <1>3, <1>4, <1>5, <1>6, <1>7 DEF Deed

\* Every step keeps the sessions true to the log.
LEMMA SessionStep == PgBase /\ SessionInv /\ [PgNext]_pgVars => SessionInv'
<1> SUFFICES ASSUME PgBase, SessionInv, [PgNext]_pgVars
             PROVE  SessionInv'
  OBVIOUS
<1>1. ASSUME UNCHANGED pgVars
      PROVE  SessionInv'
  <2>1. UNCHANGED <<call, session, log>>
    BY <1>1 DEF pgVars, db
  <2>2. \A s \in Sessions : Counts(s)'
    BY <2>1, CountsSame DEF SessionInv
  <2>3. QED
    BY <2>1, <2>2 DEF SessionInv
<1>2. ASSUME NEW s \in Sessions, Create(s)
      PROVE  SessionInv'
  <2> DEFINE fresh == [net |-> 0, lossLimitReached |-> FALSE, closed |-> FALSE]
  <2>1. session[s] = None /\ session' = [session EXCEPT ![s] = fresh] /\ UNCHANGED <<call, log>>
    BY <1>2 DEF Create
  <2>2. fresh \in SessionState /\ fresh.net = 0 /\ fresh.closed = FALSE
    BY DEF SessionState
  <2> HIDE DEF fresh
  <2>3. session'[s] = fresh /\ \A t \in Sessions : t # s => session'[t] = session[t]
    BY <2>1 DEF PgBase, PgTypes
  <2>4. /\ Logged(s)' = Logged(s) /\ (HasClose(s)' <=> HasClose(s))
        /\ (ClosedLast(s)' <=> ClosedLast(s)) /\ SpinsSum(s)' = SpinsSum(s)
    BY <2>1, LogSame
  <2>5. Counts(s)'
    <3>1. Logged(s) = {}
      BY <2>1 DEF SessionInv, Counts
    <3>2. SpinsSum(s) = 0
      BY <3>1, SumEmpty DEF SpinsSum
    <3>3. ~HasClose(s) /\ ClosedLast(s)
      BY <3>1 DEF HasClose, ClosedLast
    <3>4. session'[s].net = SpinsSum(s)' /\ ~session'[s].closed
      BY <2>2, <2>3, <2>4, <3>2
    <3>5. QED
      BY <2>4, <3>1, <3>3, <3>4, Zenon DEF Counts
  <2>6. ASSUME NEW t \in Sessions, t # s
        PROVE  Counts(t)'
    <3>1. Counts(t)
      BY DEF SessionInv
    <3>2. QED
      BY <2>1, <2>3, <2>6, <3>1, CountsSame
  <2>7. ASSUME NEW c \in Callers, NEW t \in Sessions, Holding(call'[c], t)
        PROVE  SessionKept(call'[c], session'[t])
    <3>1. Holding(call[c], t) /\ SessionKept(call[c], session[t]) /\ call'[c] = call[c]
      BY <2>1, <2>7 DEF SessionInv
    <3>2. t # s
      <4>1. call[c].op.key = t /\ call[c].pc # "idle"
        BY <3>1 DEF Holding
      <4>2. session[t] # None
        BY <2>7, <4>1, CallFacts DEF PgBase, Fits, OnSession
      <4>3. QED
        BY <2>1, <4>2
    <3>3. QED
      BY <2>3, <3>1, <3>2
  <2>8. QED
    BY <2>5, <2>6, <2>7 DEF SessionInv
<1>3. QED
  BY <1>1, <1>2, PgSteps, SessionDeed DEF PgBase

\* The rows of sessions are true to the log.
LEMMA SpinsInv == PgSpec => []SessionInv
<1>1. PgInit => SessionInv
  <2> SUFFICES ASSUME PgInit
               PROVE  SessionInv
    OBVIOUS
  <2>1. \A c \in Callers : call[c].pc = "idle"
    BY DEF PgInit, Idle
  <2>2. \A s \in Sessions : session[s] = None
    BY DEF PgInit
  <2>3. \A s : Logged(s) = {}
    BY DEF PgInit, Logged
  <2>4. QED
    BY <2>1, <2>2, <2>3 DEF SessionInv, Counts, Holding
<1>2. QED
  BY <1>1, SessionStep, PgHolds, PTL DEF PgSpec

\* No spin is lost or counted twice, and none follows the close
\* (SpinsAreCounted).
THEOREM SpinsCounted == PgSpec => []SpinsAreCounted
<1>1. PgBase /\ SessionInv => SpinsAreCounted
  <2> SUFFICES ASSUME PgBase, SessionInv, NEW s \in Sessions, session[s] # None
               PROVE  /\ session[s].net = SumOver([i \in Logged(s) |-> log[i].op.n], Logged(s))
                      /\ session[s].closed = (\E i \in Logged(s) : log[i].op.kind = "close")
                      /\ \A i, j \in Logged(s) :
                           i < j /\ log[i].op.kind = "close" => log[j].op.kind = "close"
    BY DEF SpinsAreCounted
  <2>1. Counts(s)
    BY DEF SessionInv
  <2>2. session[s].closed \in BOOLEAN
    BY DEF PgBase, PgTypes, SessionState
  <2>3. QED
    BY <2>1, <2>2 DEF Counts, SpinsSum, HasClose, ClosedLast, Net
<1>2. QED
  BY <1>1, PgHolds, SpinsInv, PTL

-----------------------------------------------------------------------------
(* The loss limit *)

Spinners(s) == {c \in Callers : Spinning(call[c], s)}

\* What n spins may lose.
Stake(n) == n * MaxBet

\* A session short of its limit has not lost so much; one beyond it has room left
\* for what its spins under way may lose.
Bounded(state, n) ==
  IF state.lossLimitReached
  THEN -state.net + Stake(n) <= LossLimit - 1 + Stake(Cardinality(Callers))
  ELSE -state.net <= LossLimit - 1

OverInv ==
  LossLimit > 0 =>
    \A s \in Sessions : session[s] # None => Bounded(session[s], Cardinality(Spinners(s)))

\* More spins may lose more, and one of them one bet more.
LEMMA StakeFacts ==
  ASSUME NEW i \in Nat, NEW j \in Nat, i <= j
  PROVE  Stake(i) \in Nat /\ Stake(j) \in Nat /\ Stake(i) <= Stake(j) /\ Stake(i + 1) = Stake(i) + MaxBet
<1>1. i * MaxBet \in Nat /\ j * MaxBet \in Nat
  OBVIOUS
<1>2. i * MaxBet <= j * MaxBet
  OBVIOUS
<1>3. (i + 1) * MaxBet = i * MaxBet + MaxBet
  OBVIOUS
<1>4. QED
  BY <1>1, <1>2, <1>3 DEF Stake

\* No more spins are under way than there are callers.
LEMMA SpinnersFinite ==
  \A s : /\ IsFiniteSet(Spinners(s)) /\ Cardinality(Spinners(s)) \in Nat
         /\ Cardinality(Spinners(s)) <= Cardinality(Callers)
         /\ Cardinality(Callers) \in Nat
<1> SUFFICES ASSUME NEW s
             PROVE  /\ IsFiniteSet(Spinners(s)) /\ Cardinality(Spinners(s)) \in Nat
                    /\ Cardinality(Spinners(s)) <= Cardinality(Callers)
                    /\ Cardinality(Callers) \in Nat
  OBVIOUS
<1>1. Spinners(s) \subseteq Callers /\ IsFiniteSet(Callers)
  BY DEF Spinners
<1>2. QED
  BY <1>1, FS_Subset, FS_CardinalityType

\* With fewer spins under way the bound still holds.
LEMMA FewerSpins ==
  ASSUME NEW state \in SessionState, NEW i \in Nat, NEW j \in Nat, i <= j,
         LossLimit > 0, Bounded(state, j)
  PROVE  Bounded(state, i)
<1>1. Stake(i) \in Nat /\ Stake(j) \in Nat /\ Stake(i) <= Stake(j)
  BY StakeFacts
<1>2. Cardinality(Callers) \in Nat /\ Stake(Cardinality(Callers)) \in Nat
  BY FS_CardinalityType, StakeFacts
<1>3. state.net \in Int
  BY DEF SessionState
<1>4. QED
  BY <1>1, <1>2, <1>3 DEF Bounded

\* A spin is recorded: it was under way before and is no longer.
LEMMA SpinBounded ==
  ASSUME NEW state \in SessionState, NEW n \in Int, -n <= MaxBet, NEW i \in Nat, i + 1 <= Cardinality(Callers),
         LossLimit > 0, Bounded(state, i + 1)
  PROVE  Bounded(Spun(state, n), i)
<1> DEFINE net == state.net + n
           reached == state.lossLimitReached \/ (LossLimit > 0 /\ -net >= LossLimit)
           all == Cardinality(Callers)
<1>1. state.net \in Int /\ net \in Int /\ all \in Nat /\ reached \in BOOLEAN
  BY FS_CardinalityType DEF SessionState
<1>2. Stake(i) \in Nat /\ Stake(i + 1) = Stake(i) + MaxBet /\ Stake(all) \in Nat /\ Stake(i + 1) <= Stake(all)
  BY <1>1, StakeFacts
<1>3. Spun(state, n) = [state EXCEPT !.net = net, !.lossLimitReached = reached]
  BY DEF Spun
<1>4. Spun(state, n).net = net /\ (Spun(state, n).lossLimitReached <=> reached)
  <2> HIDE DEF net, reached
  <2>1. QED
    BY <1>3 DEF SessionState
<1>5. CASE state.lossLimitReached
  <2>1. -state.net + Stake(i + 1) <= LossLimit - 1 + Stake(all)
    BY <1>5 DEF Bounded
  <2>2. -net + Stake(i) <= LossLimit - 1 + Stake(all)
    BY <1>1, <1>2, <2>1
  <2>3. QED
    BY <1>4, <1>5, <2>2 DEF Bounded
<1>6. CASE ~state.lossLimitReached
  <2>1. -state.net <= LossLimit - 1
    BY <1>6 DEF Bounded
  <2>2. -net + Stake(i) <= LossLimit - 1 + Stake(all)
    BY <1>1, <1>2, <2>1
  <2>3. ~reached => -net <= LossLimit - 1
    BY <1>1
  <2> HIDE DEF reached, net
  <2>4. QED
    BY <1>4, <2>2, <2>3 DEF Bounded
<1>7. QED
  BY <1>5, <1>6

\* Closing a session changes neither its loss nor its limit.
LEMMA CloseBounded ==
  ASSUME NEW state \in SessionState, NEW n, Bounded(state, n)
  PROVE  Bounded([state EXCEPT !.closed = TRUE], n)
BY DEF Bounded, SessionState

\* No spin starts in a session beyond its limit.
LEMMA OverKeep ==
  ASSUME PgTypes, OverInv, NEW c \in Callers, NEW v, call' = [call EXCEPT ![c] = v],
         session' = session,
         \A s \in Sessions : Spinning(v, s) => Spinning(call[c], s) \/ ~session[s].lossLimitReached
  PROVE  OverInv'
<1>1. call'[c] = v /\ \A d \in Callers : d # c => call'[d] = call[d]
  BY DEF PgTypes, CallsFit
<1> SUFFICES ASSUME LossLimit > 0, NEW s \in Sessions, session[s] # None
             PROVE  Bounded(session[s], Cardinality(Spinners(s)'))
  BY DEF OverInv
<1>2. session[s] \in SessionState /\ Bounded(session[s], Cardinality(Spinners(s)))
  BY DEF PgTypes, OverInv
<1>3. CASE session[s].lossLimitReached
  <2>1. Spinners(s)' \subseteq Spinners(s)
    BY <1>1, <1>3 DEF Spinners
  <2>2. Cardinality(Spinners(s)') <= Cardinality(Spinners(s)) /\ Cardinality(Spinners(s)') \in Nat
    BY <2>1, SpinnersFinite, FS_Subset, FS_CardinalityType
  <2>3. QED
    BY <1>2, <2>2, SpinnersFinite, FewerSpins
<1>4. CASE ~session[s].lossLimitReached
  BY <1>2, <1>4 DEF Bounded
<1>5. QED
  BY <1>3, <1>4

\* A transaction is committed.
LEMMA OverCommit ==
  ASSUME PgTypes, SessionInv, OverInv, NEW c \in Callers, Commits(c)
  PROVE  OverInv'
<1> DEFINE op == call[c].op
           draft == call[c].draft
<1>1. PICK v \in PgCall : call' = [call EXCEPT ![c] = v] /\ v.pc \in {"idle", "thrown"}
  BY DEF Commits
<1>2. call'[c] = v /\ \A d \in Callers : d # c => call'[d] = call[d]
  BY <1>1 DEF PgTypes, CallsFit
<1>3. \A s \in Sessions : ~Spinning(v, s)
  BY <1>1 DEF Spinning, Open
<1>4. CASE op.key \notin Sessions
  <2>1. session' = session
    BY <1>4, AppliedFacts
  <2>2. QED
    BY <1>1, <1>3, <2>1, OverKeep
<1>5. CASE op.key \in Sessions
  <2>0. PICK key \in Sessions : key = op.key
    BY <1>5
  <2>1. /\ op \in Op /\ draft \in SessionState /\ session' = [session EXCEPT ![key] = draft]
        /\ call[c].pc = "written"
    BY <1>5, <2>0, AppliedFacts DEF Commits
  <2>2. Holding(call[c], key)
    BY <2>0, <2>1 DEF Holding
  <2>3. draft = SessionAfter(op, session[key]) /\ session[key] \in SessionState
    <3>1. SessionKept(call[c], session[key])
      BY <2>2 DEF SessionInv
    <3>2. session[key] # None
      BY <2>0, <2>1, CallFacts DEF Fits, OnSession
    <3>3. QED
      BY <2>1, <3>1, <3>2 DEF SessionKept, PgTypes
  <2>4. /\ op.kind \in {"recordSpin", "close"} /\ op.n \in Int
        /\ op.kind = "recordSpin" => -op.n <= MaxBet
    BY <2>0, <2>1, OpFacts
  <2>5. session'[key] = draft /\ \A t \in Sessions : t # key => session'[t] = session[t]
    BY <2>1 DEF PgTypes
  <2>6. \A t \in Sessions : Spinners(t)' \subseteq Spinners(t)
    BY <1>2, <1>3 DEF Spinners
  <2>7. \A t \in Sessions : /\ Cardinality(Spinners(t)') \in Nat
                            /\ Cardinality(Spinners(t)') <= Cardinality(Spinners(t))
    BY <2>6, SpinnersFinite, FS_Subset, FS_CardinalityType
  <2> SUFFICES ASSUME LossLimit > 0, NEW s \in Sessions, session'[s] # None
               PROVE  Bounded(session'[s], Cardinality(Spinners(s)'))
    BY DEF OverInv
  <2>8. CASE s # key
    <3>1. session[s] \in SessionState /\ Bounded(session[s], Cardinality(Spinners(s)))
      BY <2>5, <2>8 DEF PgTypes, OverInv
    <3>2. Bounded(session[s], Cardinality(Spinners(s)'))
      BY <2>7, <3>1, SpinnersFinite, FewerSpins
    <3>3. QED
      BY <2>5, <2>8, <3>2
  <2>9. CASE s = key
    <3> DEFINE state == session[s]
               before == Cardinality(Spinners(s))
               after == Cardinality(Spinners(s)')
    <3>1. state \in SessionState /\ Bounded(state, before)
      BY <2>3, <2>9 DEF OverInv
    <3>2. before \in Nat /\ after \in Nat /\ after <= before
      BY <2>7, SpinnersFinite
    <3>3. CASE op.kind = "close"
      <4> HIDE DEF state, before, after
      <4>1. Bounded(state, after)
        BY <3>1, <3>2, FewerSpins
      <4>2. Bounded([state EXCEPT !.closed = TRUE], after)
        BY <3>1, <4>1, CloseBounded
      <4>3. draft = [state EXCEPT !.closed = TRUE]
        BY <2>3, <2>9, <3>3 DEF SessionAfter, state
      <4>4. QED
        BY <2>5, <2>9, <4>2, <4>3 DEF after
    <3>4. CASE op.kind = "recordSpin"
      <4>1. c \in Spinners(s) /\ c \notin Spinners(s)'
        BY <1>2, <1>3, <2>0, <2>1, <2>9, <3>4 DEF Spinners, Spinning, Open
      <4>2. Spinners(s)' \subseteq Spinners(s) \ {c}
        BY <2>6, <4>1
      <4>3. IsFiniteSet(Spinners(s) \ {c}) /\ Cardinality(Spinners(s) \ {c}) = before - 1
        BY <4>1, SpinnersFinite, FS_RemoveElement
      <4>4. after <= before - 1
        BY <4>2, <4>3, FS_Subset
      <4>5. before <= Cardinality(Callers) /\ Cardinality(Callers) \in Nat
        BY SpinnersFinite
      <4>6. draft = Spun(state, op.n)
        BY <2>3, <2>9, <3>4 DEF SessionAfter
      <4>7. after + 1 <= before /\ after + 1 <= Cardinality(Callers) /\ after + 1 \in Nat
        BY <3>2, <4>4, <4>5
      <4>8. op.n \in Int /\ -op.n <= MaxBet
        BY <2>4, <3>4
      <4> HIDE DEF state, before, after, op
      <4>9. Bounded(state, after + 1)
        BY <3>1, <3>2, <4>7, FewerSpins
      <4>10. Bounded(Spun(state, op.n), after)
        BY <3>1, <3>2, <4>7, <4>8, <4>9, SpinBounded
      <4>11. QED
        BY <2>5, <2>9, <4>6, <4>10 DEF after
    <3>5. QED
      BY <2>4, <3>3, <3>4
  <2>10. QED
    BY <2>8, <2>9
<1>6. QED
  BY <1>4, <1>5

\* What a call does to the loss of a session.
LEMMA OverDeed ==
  ASSUME PgTypes, SessionInv, OverInv, NEW c \in Callers, Deed(c)
  PROVE  OverInv'
<1>1. CASE Quiet(c)
  BY <1>1, OverKeep DEF Quiet, CallBecomes, db
<1>2. CASE Commits(c)
  BY <1>2, OverCommit
<1>3. CASE ~Quiet(c) /\ ~Commits(c)
  <2>1. SameOp(c) /\ session' = session /\ call[c].pc \in Open
    BY <1>3, KeepsOp DEF Deed
  <2>2. PICK v : CallBecomes(c, v) /\ v.op = call[c].op
    BY <2>1 DEF SameOp
  <2>3. \A s \in Sessions : Spinning(v, s) => Spinning(call[c], s)
    BY <2>1, <2>2 DEF Spinning
  <2>4. QED
    BY <2>1, <2>2, <2>3, OverKeep DEF CallBecomes
<1>4. QED
  BY <1>1, <1>2, <1>3

\* Every step keeps the losses bounded.
LEMMA OverStep == PgBase /\ SessionInv /\ OverInv /\ [PgNext]_pgVars => OverInv'
<1> SUFFICES ASSUME PgBase, SessionInv, OverInv, [PgNext]_pgVars
             PROVE  OverInv'
  OBVIOUS
<1>1. ASSUME UNCHANGED pgVars
      PROVE  OverInv'
  <2>1. UNCHANGED <<call, session>>
    BY <1>1 DEF pgVars, db
  <2>2. QED
    BY <2>1 DEF OverInv, Spinners
<1>2. ASSUME NEW s \in Sessions, Create(s)
      PROVE  OverInv'
  <2> DEFINE fresh == [net |-> 0, lossLimitReached |-> FALSE, closed |-> FALSE]
  <2>1. session' = [session EXCEPT ![s] = fresh] /\ call' = call
    BY <1>2 DEF Create
  <2>2. fresh.net = 0 /\ ~fresh.lossLimitReached
    OBVIOUS
  <2> HIDE DEF fresh
  <2>3. session'[s] = fresh /\ \A t \in Sessions : t # s => session'[t] = session[t]
    BY <2>1 DEF PgBase, PgTypes
  <2>4. \A n : LossLimit > 0 => Bounded(fresh, n)
    BY <2>2 DEF Bounded
  <2>5. \A t : Spinners(t)' = Spinners(t)
    BY <2>1 DEF Spinners
  <2>6. QED
    BY <2>3, <2>4, <2>5 DEF OverInv
<1>3. QED
  BY <1>1, <1>2, PgSteps, OverDeed DEF PgBase

\* Concurrent spins pass the loss limit by no more than a bet of each request under
\* way (OvershootBounded).
THEOREM OvershootIsBounded == PgSpec => []OvershootBounded
<1>1. PgInit => OverInv
  BY DEF PgInit, OverInv
<1>2. PgBase /\ OverInv => OvershootBounded
  <2> SUFFICES ASSUME PgBase, OverInv, LossLimit > 0, NEW s \in Sessions, session[s] # None
               PROVE  -session[s].net <= LossLimit - 1 + Cardinality(Callers) * MaxBet
    BY DEF OvershootBounded
  <2> DEFINE n == Cardinality(Spinners(s))
             all == Cardinality(Callers)
  <2>1. Bounded(session[s], n) /\ session[s].net \in Int
    BY DEF OverInv, PgBase, PgTypes, SessionState
  <2>2. n \in Nat /\ all \in Nat
    BY SpinnersFinite
  <2>3. Stake(n) \in Nat /\ Stake(all) \in Nat
    BY <2>2, StakeFacts
  <2> HIDE DEF n, all
  <2>4. -session[s].net <= LossLimit - 1 + Stake(all)
    BY <2>1, <2>3 DEF Bounded, all
  <2>5. QED
    BY <2>4 DEF Stake, all
<1>3. QED
  BY <1>1, <1>2, OverStep, SpinsInv, PgHolds, PTL DEF PgSpec

-----------------------------------------------------------------------------
(* The answers *)

\* Every call under way has a number of its own, which the log does not have
\* before the call has committed.
AnswerInv ==
  /\ \A c \in Callers : call[c].pc # "idle" =>
       /\ call[c].id \in 1 .. Len(told)
       /\ call[c].pc \in Open => \A j \in 1 .. Len(log) : log[j].id # call[c].id
  /\ \A c, d \in Callers :
       c # d /\ call[c].pc # "idle" /\ call[d].pc # "idle" => call[c].id # call[d].id
  /\ \A j \in 1 .. Len(log) : log[j].id \in 1 .. Len(told)
  /\ AnswersAreKept

\* A call goes on, or ends without having committed.
GoesOn(c) ==
  /\ log' = log
  /\ Len(told') = Len(told)
  /\ \A i \in 1 .. Len(told) : told'[i] = "ok" => told[i] = "ok"
  /\ \E v : /\ call' = [call EXCEPT ![c] = v]
            /\ v.pc # "idle" =>
                 /\ call[c].pc # "idle" /\ v.id = call[c].id
                 /\ v.pc \in Open => call[c].pc \in Open

Starts(c) ==
  /\ log' = log
  /\ told' = Append(told, "pending")
  /\ \E v : call' = [call EXCEPT ![c] = v] /\ v.id = Len(told) + 1

\* A call commits, and is told so or goes to its catch.
Records(c) ==
  /\ call[c].pc = "written"
  /\ log' = Append(log, [op |-> call[c].op, id |-> call[c].id])
  /\ \/ told' = told
     \/ Tell(c, "ok")
  /\ \E v : /\ call' = [call EXCEPT ![c] = v]
            /\ v.pc = "idle" \/ (v.pc = "thrown" /\ v.id = call[c].id)

\* An answer replaces the one before it.
LEMMA ToldOne ==
  ASSUME PgTypes, NEW c \in Callers, NEW a, Tell(c, a)
  PROVE  /\ Len(told') = Len(told)
         /\ \A i \in 1 .. Len(told) : told'[i] = IF i = call[c].id THEN a ELSE told[i]
BY DEF PgTypes, Tell

\* A call that moves on keeps its number.
LEMMA Moving ==
  ASSUME PgTypes, NEW c \in Callers, UNCHANGED <<told, log>>, NEW v,
         call' = [call EXCEPT ![c] = v], call[c].pc # "idle", v.id = call[c].id,
         v.pc \in Open => call[c].pc \in Open
  PROVE  GoesOn(c)
BY DEF GoesOn

\* A call that ends without a commit is told nothing, or that it failed.
LEMMA Ending ==
  ASSUME PgTypes, NEW c \in Callers, log' = log, call' = [call EXCEPT ![c] = Idle],
         told' = told \/ Tell(c, "failed")
  PROVE  GoesOn(c)
<1>1. Idle.pc = "idle"
  BY DEF Idle
<1>2. Len(told') = Len(told) /\ \A i \in 1 .. Len(told) : told'[i] = "ok" => told[i] = "ok"
  BY ToldOne
<1>3. QED
  BY <1>1, <1>2 DEF GoesOn

\* Every other step of a call.
LEMMA OthersGoOn ==
  ASSUME PgTypes, NEW c \in Callers,
         \/ Play(c) \/ ConnectFails(c) \/ Begin(c) \/ EnsureBalance(c) \/ ReadSession(c)
         \/ ReadHead(c) \/ LockHead(c) \/ WriteWallet(c) \/ WriteSession(c) \/ WriteAudit(c)
         \/ StatementFails(c) \/ Rollback(c)
  PROVE  GoesOn(c)
<1>1. call[c] \in PgCall
  BY DEF PgTypes, CallsFit
<1>2. ASSUME NEW pc, Become(c, pc), UNCHANGED <<told, log>>, call[c].pc \in Open
      PROVE  GoesOn(c)
  <2> DEFINE v == [call[c] EXCEPT !.pc = pc]
  <2>1. v.id = call[c].id
    BY <1>1 DEF PgCall
  <2>2. call' = [call EXCEPT ![c] = v] /\ call[c].pc # "idle"
    BY <1>2 DEF Become, Open
  <2> HIDE DEF v
  <2>3. QED
    BY <1>2, <2>1, <2>2, Moving
<1>3. ASSUME NEW pc, NEW value, UNCHANGED <<told, log>>, call[c].pc \in Open,
             call' = [call EXCEPT ![c].pc = pc, ![c].seen = value]
      PROVE  GoesOn(c)
  <2> DEFINE v == [call[c] EXCEPT !.pc = pc, !.seen = value]
  <2>1. v.id = call[c].id
    BY <1>1 DEF PgCall
  <2>2. call' = [call EXCEPT ![c] = v] /\ call[c].pc # "idle"
    BY <1>3 DEF Open
  <2> HIDE DEF v
  <2>3. QED
    BY <1>3, <2>1, <2>2, Moving
<1>4. ASSUME NEW draft, UNCHANGED <<told, log>>, call[c].pc \in Open, Drafted(c, draft)
      PROVE  GoesOn(c)
  <2> DEFINE v == [call[c] EXCEPT !.pc = "written", !.draft = draft]
  <2>1. v.id = call[c].id
    BY <1>1 DEF PgCall
  <2>2. call' = [call EXCEPT ![c] = v] /\ call[c].pc # "idle"
    BY <1>4 DEF Drafted, Open
  <2> HIDE DEF v
  <2>3. QED
    BY <1>4, <2>1, <2>2, Moving
<1>5. ASSUME NEW pc, Become(c, pc), UNCHANGED <<told, log>>,
             call[c].pc \in {"allowed", "waiting", "begun", "heads", "read", "written"}
      PROVE  GoesOn(c)
  BY <1>2, <1>5 DEF Open
<1>6. CASE Play(c)
  BY <1>5, <1>6, Ending DEF Play, db
<1>7. CASE ConnectFails(c) \/ Rollback(c)
  BY <1>7, Ending DEF ConnectFails, Rollback, db
<1>8. CASE Begin(c) \/ LockHead(c) \/ StatementFails(c)
  BY <1>5, <1>8 DEF Begin, LockHead, StatementFails, db
<1>9. CASE EnsureBalance(c)
  <2>1. UNCHANGED <<told, log>> /\ call[c].pc \in Open
    BY <1>9 DEF EnsureBalance, Open, db
  <2>2. QED
    BY <1>3, <1>9, <2>1 DEF EnsureBalance, Seen
<1>10. CASE ReadSession(c)
  <2>1. UNCHANGED <<told, log>> /\ call[c].pc \in Open
    BY <1>10 DEF ReadSession, Open, db
  <2>2. Become(c, "thrown") \/ Seen(c, session[call[c].op.key])
    BY <1>10 DEF ReadSession
  <2>3. QED
    BY <1>2, <1>3, <2>1, <2>2 DEF Seen
<1>11. CASE ReadHead(c)
  <2>1. UNCHANGED <<told, log>> /\ call[c].pc \in Open
    BY <1>11 DEF ReadHead, Open, db
  <2>2. \E pc, value : call' = [call EXCEPT ![c].pc = pc, ![c].seen = value]
    BY <1>11 DEF ReadHead, Seen
  <2>3. QED
    BY <1>3, <2>1, <2>2
<1>12. CASE WriteWallet(c)
  <2>1. UNCHANGED <<told, log>> /\ call[c].pc \in Open
    BY <1>12 DEF WriteWallet, Open, db
  <2>2. \E draft : Drafted(c, draft)
    BY <1>12 DEF WriteWallet
  <2>3. QED
    BY <1>4, <2>1, <2>2
<1>13. CASE WriteSession(c)
  <2>1. UNCHANGED <<told, log>> /\ call[c].pc \in Open
    BY <1>13 DEF WriteSession, Open, db
  <2>2. \E draft : Drafted(c, draft)
    BY <1>13 DEF WriteSession
  <2>3. QED
    BY <1>4, <2>1, <2>2
<1>14. CASE WriteAudit(c)
  <2>1. UNCHANGED <<told, log>> /\ call[c].pc \in Open
    BY <1>14 DEF WriteAudit, Open, db
  <2>2. Become(c, "thrown") \/ \E draft : Drafted(c, draft)
    BY <1>14 DEF WriteAudit
  <2>3. QED
    BY <1>2, <1>4, <2>1, <2>2
<1>15. QED
  BY <1>6, <1>7, <1>8, <1>9, <1>10, <1>11, <1>12, <1>13, <1>14

\* A call that commits is told that it did, or nothing.
LEMMA CommitsTell ==
  ASSUME PgTypes, NEW c \in Callers, Commit(c) \/ CommitUnheard(c)
  PROVE  Records(c)
<1>1. call[c].pc = "written" /\ log' = Append(log, [op |-> call[c].op, id |-> call[c].id])
  BY DEF Commit, CommitUnheard, Applied
<1>2. CASE Commit(c)
  <2>1. Idle.pc = "idle" /\ call' = [call EXCEPT ![c] = Idle] /\ Tell(c, "ok")
    BY <1>2 DEF Commit, Idle
  <2>2. QED
    BY <1>1, <2>1 DEF Records
<1>3. CASE CommitUnheard(c)
  <2> DEFINE v == [call[c] EXCEPT !.pc = "thrown", !.draft = None]
  <2>1. v.pc = "thrown" /\ v.id = call[c].id
    BY CallFacts DEF PgCall
  <2>2. call' = [call EXCEPT ![c] = v] /\ told' = told
    BY <1>3 DEF CommitUnheard
  <2> HIDE DEF v
  <2>3. QED
    BY <1>1, <2>1, <2>2 DEF Records
<1>4. QED
  BY <1>2, <1>3

\* What a step does to numbers, answers and the log.
LEMMA AnswerSteps ==
  ASSUME PgTypes, [PgNext]_pgVars
  PROVE  \/ UNCHANGED <<call, told, log>>
         \/ \E c \in Callers : GoesOn(c) \/ Starts(c) \/ Records(c)
<1>1. ASSUME NEW c \in Callers, NEW op \in Op, Call(c, op) \/ DecideSpin(c, op)
      PROVE  Starts(c)
  <2>1. PICK pc : Started(c, op, pc) /\ log' = log
    BY <1>1 DEF Call, DecideSpin, db
  <2> DEFINE v == [pc |-> pc, op |-> op, id |-> Len(told) + 1, seen |-> None, draft |-> None]
  <2>2. call' = [call EXCEPT ![c] = v] /\ v.id = Len(told) + 1 /\ told' = Append(told, "pending")
    BY <2>1 DEF Started
  <2> HIDE DEF v
  <2>3. QED
    BY <2>1, <2>2 DEF Starts
<1>2. ASSUME NEW c \in Callers, Step(c) \/ ConnectFails(c) \/ StatementFails(c) \/ CommitUnheard(c)
      PROVE  GoesOn(c) \/ Records(c)
  <2>1. CASE Commit(c) \/ CommitUnheard(c)
    BY <2>1, CommitsTell
  <2>2. CASE ~(Commit(c) \/ CommitUnheard(c))
    BY <1>2, <2>2, OthersGoOn, Zenon DEF Step
  <2>3. QED
    BY <2>1, <2>2
<1>3. ASSUME NEW s \in Sessions, Create(s)
      PROVE  UNCHANGED <<call, told, log>>
  BY <1>3 DEF Create
<1>4. CASE UNCHANGED pgVars
  BY <1>4 DEF pgVars, db
<1>5. QED
  BY <1>1, <1>2, <1>3, <1>4, Zenon DEF PgNext

\* Going on says nothing new.
LEMMA AnswerGoes ==
  ASSUME PgTypes, AnswerInv, NEW c \in Callers, GoesOn(c)
  PROVE  AnswerInv'
<1>1. PICK v : /\ call' = [call EXCEPT ![c] = v]
               /\ v.pc # "idle" =>
                    /\ call[c].pc # "idle" /\ v.id = call[c].id
                    /\ v.pc \in Open => call[c].pc \in Open
  BY DEF GoesOn
<1>2. call'[c] = v /\ \A d \in Callers : d # c => call'[d] = call[d]
  BY <1>1 DEF PgTypes, CallsFit
<1>3. log' = log /\ Len(told') = Len(told) /\ \A i \in 1 .. Len(told) : told'[i] = "ok" => told[i] = "ok"
  BY DEF GoesOn
<1>4. \A d \in Callers : call'[d].pc # "idle" =>
        /\ call[d].pc # "idle" /\ call'[d].id = call[d].id
        /\ call'[d].pc \in Open => call[d].pc \in Open
  BY <1>1, <1>2
<1>5. AnswersAreKept'
  BY <1>3 DEF AnswerInv, AnswersAreKept
<1>6. QED
  BY <1>3, <1>4, <1>5 DEF AnswerInv

\* A call that starts has a number nobody had.
LEMMA AnswerStarts ==
  ASSUME PgTypes, AnswerInv, NEW c \in Callers, Starts(c)
  PROVE  AnswerInv'
<1> DEFINE n == Len(told)
<1>1. PICK v : call' = [call EXCEPT ![c] = v] /\ v.id = n + 1
  BY DEF Starts
<1>2. call'[c] = v /\ \A d \in Callers : d # c => call'[d] = call[d]
  BY <1>1 DEF PgTypes, CallsFit
<1>3. /\ log' = log /\ n \in Nat /\ Len(told') = n + 1 /\ told'[n + 1] = "pending"
      /\ \A i \in 1 .. n : told'[i] = told[i]
  BY AppendProperties DEF Starts, PgTypes
<1>4. \A j \in 1 .. Len(log) : log[j].id \in 1 .. n /\ log[j].id # n + 1
  BY <1>3 DEF AnswerInv
<1> HIDE DEF n
<1>5. ASSUME NEW d \in Callers, call'[d].pc # "idle"
      PROVE  /\ call'[d].id \in 1 .. n + 1
             /\ call'[d].pc \in Open => \A j \in 1 .. Len(log) : log[j].id # call'[d].id
             /\ d # c => call'[d].id \in 1 .. n
  <2>1. CASE d = c
    BY <1>1, <1>2, <1>3, <1>4, <2>1
  <2>2. CASE d # c
    BY <1>2, <1>3, <1>5, <2>2 DEF AnswerInv, n
  <2>3. QED
    BY <2>1, <2>2
<1>6. ASSUME NEW d \in Callers, NEW e \in Callers, d # e, call'[d].pc # "idle", call'[e].pc # "idle"
      PROVE  call'[d].id # call'[e].id
  <2>1. CASE d # c /\ e # c
    BY <1>2, <1>6, <2>1 DEF AnswerInv
  <2>2. CASE d = c \/ e = c
    BY <1>1, <1>2, <1>3, <1>5, <1>6, <2>2
  <2>3. QED
    BY <2>1, <2>2
<1>7. AnswersAreKept'
  <2>1. \A i \in 1 .. n + 1 : told'[i] = "ok" => i \in 1 .. n /\ told[i] = "ok"
    BY <1>3
  <2>2. QED
    BY <1>3, <2>1 DEF AnswerInv, AnswersAreKept, n
<1>8. \A j \in 1 .. Len(log) : log[j].id \in 1 .. n + 1
  BY <1>3, <1>4
<1>9. QED
  BY <1>3, <1>5, <1>6, <1>7, <1>8 DEF AnswerInv

\* A commit is the first of its number.
LEMMA AnswerCommits ==
  ASSUME PgTypes, AnswerInv, NEW c \in Callers, Records(c)
  PROVE  AnswerInv'
<1> DEFINE n == Len(log)
<1>0. PICK id : id = call[c].id
  OBVIOUS
<1>1. PICK v : /\ call' = [call EXCEPT ![c] = v]
               /\ v.pc = "idle" \/ (v.pc = "thrown" /\ v.id = id)
  BY <1>0 DEF Records
<1>2. call'[c] = v /\ \A d \in Callers : d # c => call'[d] = call[d]
  BY <1>1 DEF PgTypes, CallsFit
<1>3. /\ call[c].pc = "written" /\ id \in Nat /\ call[c].op \in Op
      /\ log' = Append(log, [op |-> call[c].op, id |-> id])
  BY <1>0, CallFacts DEF Records, PgCall, Fits
<1>4. /\ n \in Nat /\ Len(log') = n + 1 /\ log'[n + 1].id = id
      /\ \A j \in 1 .. n : log'[j] = log[j]
  BY <1>3, LogGrows
<1>5. /\ Len(told') = Len(told)
      /\ \A i \in 1 .. Len(told) : told'[i] = "ok" => i = id \/ told[i] = "ok"
  <2>1. CASE told' = told
    BY <2>1
  <2>2. CASE Tell(c, "ok")
    BY <1>0, <2>2, ToldOne
  <2>3. QED
    BY <2>1, <2>2 DEF Records
<1>6. id \in 1 .. Len(told) /\ \A j \in 1 .. n : log[j].id # id
  BY <1>0, <1>3 DEF AnswerInv, Open
<1>7. \A d \in Callers : d # c /\ call[d].pc # "idle" => call[d].id # id
  BY <1>0, <1>3 DEF AnswerInv
<1> HIDE DEF n
<1>8. ASSUME NEW d \in Callers, call'[d].pc # "idle"
      PROVE  /\ call'[d].id \in 1 .. Len(told)
             /\ call'[d].pc \in Open => \A j \in 1 .. n + 1 : log'[j].id # call'[d].id
  <2>1. CASE d = c
    BY <1>1, <1>2, <1>6, <1>8, <2>1 DEF Open
  <2>2. CASE d # c
    <3>1. /\ call'[d] = call[d] /\ call[d].id \in 1 .. Len(told) /\ call[d].id # id
          /\ call[d].pc \in Open => \A j \in 1 .. n : log[j].id # call[d].id
      BY <1>2, <1>7, <1>8, <2>2 DEF AnswerInv, n
    <3>2. QED
      BY <1>4, <3>1
  <2>3. QED
    BY <2>1, <2>2
<1>9. ASSUME NEW d \in Callers, NEW e \in Callers, d # e, call'[d].pc # "idle", call'[e].pc # "idle"
      PROVE  call'[d].id # call'[e].id
  <2>1. CASE d # c /\ e # c
    BY <1>2, <1>9, <2>1 DEF AnswerInv
  <2>2. CASE d = c \/ e = c
    BY <1>1, <1>2, <1>7, <1>9, <2>2
  <2>3. QED
    BY <2>1, <2>2
<1>10. \A j \in 1 .. n + 1 : log'[j].id \in 1 .. Len(told)
  BY <1>4, <1>6 DEF AnswerInv, n
<1>11. \A i \in 1 .. Len(told) : told'[i] = "ok" => \E j \in 1 .. n + 1 : log'[j].id = i
  <2>1. ASSUME NEW i \in 1 .. Len(told), told'[i] = "ok", i # id
        PROVE  \E j \in 1 .. n + 1 : log'[j].id = i
    <3>1. PICK j \in 1 .. n : log[j].id = i
      BY <1>5, <2>1 DEF AnswerInv, AnswersAreKept, n
    <3>2. j \in 1 .. n + 1 /\ log'[j].id = i
      BY <1>4, <3>1
    <3>3. QED
      BY <3>2
  <2>2. \E j \in 1 .. n + 1 : log'[j].id = id
    BY <1>4
  <2>3. QED
    BY <2>1, <2>2
<1>12. \A i, j \in 1 .. n + 1 : log'[i].id = log'[j].id => i = j
  <2>1. \A i, j \in 1 .. n : log[i].id = log[j].id => i = j
    BY DEF AnswerInv, AnswersAreKept, n
  <2>2. QED
    BY <1>4, <1>6, <2>1
<1>13. AnswersAreKept'
  BY <1>4, <1>5, <1>11, <1>12 DEF AnswersAreKept
<1>14. QED
  BY <1>4, <1>5, <1>8, <1>9, <1>10, <1>13 DEF AnswerInv

\* A call that was told it succeeded committed, and no call committed twice
\* (AnswersAreKept).
THEOREM AnswersKept == PgSpec => []AnswersAreKept
<1>1. PgInit => AnswerInv
  <2> SUFFICES ASSUME PgInit
               PROVE  AnswerInv
    OBVIOUS
  <2>1. \A c \in Callers : call[c].pc = "idle"
    BY DEF PgInit, Idle
  <2>2. told = <<>> /\ log = <<>>
    BY DEF PgInit
  <2>3. QED
    BY <2>1, <2>2 DEF AnswerInv, AnswersAreKept
<1>2. PgBase /\ AnswerInv /\ [PgNext]_pgVars => AnswerInv'
  <2> SUFFICES ASSUME PgBase, AnswerInv, [PgNext]_pgVars
               PROVE  AnswerInv'
    OBVIOUS
  <2>1. ASSUME UNCHANGED <<call, told, log>>
        PROVE  AnswerInv'
    BY <2>1 DEF AnswerInv, AnswersAreKept
  <2>2. QED
    BY <2>1, AnswerSteps, AnswerGoes, AnswerStarts, AnswerCommits DEF PgBase
<1>3. AnswerInv => AnswersAreKept
  BY DEF AnswerInv
<1>4. QED
  BY <1>1, <1>2, <1>3, PgHolds, PTL DEF PgSpec

HIDE PgAssumption

=============================================================================
