--------------------------- MODULE SelfExclusion ----------------------------
(***************************************************************************)
(* The self-exclusion client and its circuit breakers,                     *)
(* src/rg/self_exclusion_client.ts.  A query calls every registry at once  *)
(* and waits for all of them; the breaker of a registry is shared by all   *)
(* queries, and hears of a call only when the call settles, which may be   *)
(* long after the breaker has moved on.                                    *)
(*                                                                         *)
(* Abstractions.  All queries are about one player: a query about another  *)
(* differs in the answer alone.  A breaker's failures stop counting at the *)
(* threshold and the age of openedAt at RecoveryTime: nothing tells larger *)
(* values apart.  The audit events and latencies are left out.             *)
(***************************************************************************)
EXTENDS Integers, FiniteSets

CONSTANTS
  Registries,
  Queries,           \* queries that may be under way at once; each may be asked again
  FailureThreshold,
  RecoveryTime,      \* recoveryMs, in ticks
  FailClosed,
  MaxRegistered      \* bound: registries the player joins

ASSUME ExclusionAssumption ==
  /\ FailureThreshold \in Nat \ {0}
  /\ RecoveryTime \in Nat
  /\ FailClosed \in BOOLEAN
  /\ MaxRegistered \in Nat

VARIABLES
  breaker,     \* breaker[r]: state, failures, and the ticks since it opened
  registryCall,  \* registryCall[q][r]: q's call to r
  verdict,     \* verdict[q]: "asking", "cleared" or "blocked", as at first
  up,          \* the registries that answer (external)
  registered,  \* the registries the player is on (external)
  asked        \* asked[q]: registered, when q under way was asked (history)

exclVars == <<breaker, registryCall, verdict, up, registered, asked>>

Breaker == [state: {"closed", "open", "half-open"}, failures: 0 .. FailureThreshold,
            rested: 0 .. RecoveryTime]

\* "lost": r will reject the call, or answer it after the deadline.
CallState == {"none", "pending", "lost", "tripped", "failed", "excluded", "not excluded"}

ExclInit ==
  /\ breaker = [r \in Registries |-> [state |-> "closed", failures |-> 0, rested |-> 0]]
  /\ registryCall = [q \in Queries |-> [r \in Registries |-> "none"]]
  /\ verdict = [q \in Queries |-> "blocked"]
  /\ up = Registries
  /\ registered = {}
  /\ asked = [q \in Queries |-> {}]

-----------------------------------------------------------------------------

\* Slip: a breaker that has opened never lets a call through again.
PassUnlessOpen(r) == breaker[r].state # "open"

CanPass(r) ==
  breaker[r].state = "open" => breaker[r].rested >= RecoveryTime

\* canPass moves an open breaker that lets a call through.
Passed(b) == IF b.state = "open" THEN [b EXCEPT !.state = "half-open"] ELSE b

OnSuccess(b) == [b EXCEPT !.state = "closed", !.failures = 0]

\* In an open breaker, too, a failure counts and openedAt starts anew.
OnFailure(b) ==
  IF b.failures + 1 >= FailureThreshold
  THEN [b EXCEPT !.failures = FailureThreshold, !.state = "open", !.rested = 0]
  ELSE [b EXCEPT !.failures = b.failures + 1]

\* query: every call is issued, or tripped, before the first is awaited.
Ask(q) ==
  /\ verdict[q] # "asking"
  /\ verdict' = [verdict EXCEPT ![q] = "asking"]
  /\ asked' = [asked EXCEPT ![q] = registered]
  /\ registryCall' = [registryCall EXCEPT ![q] =
       [r \in Registries |-> IF CanPass(r) THEN "pending" ELSE "tripped"]]
  /\ breaker' = [r \in Registries |-> IF CanPass(r) THEN Passed(breaker[r]) ELSE breaker[r]]
  /\ UNCHANGED <<up, registered>>

Settle(q, r, result, after) ==
  /\ registryCall' = [registryCall EXCEPT ![q] = [registryCall[q] EXCEPT ![r] = result]]
  /\ breaker' = [breaker EXCEPT ![r] = after]
  /\ UNCHANGED <<verdict, up, registered, asked>>

\* r looks the player up between the question and the answer.
Answer(q, r) ==
  /\ registryCall[q][r] = "pending"
  /\ r \in up
  /\ \/ r \in registered /\ Settle(q, r, "excluded", OnSuccess(breaker[r]))
     \/ r \notin asked[q] /\ Settle(q, r, "not excluded", OnSuccess(breaker[r]))

Lose(q, r) ==
  /\ registryCall[q][r] = "pending"
  /\ r \notin up
  /\ registryCall' = [registryCall EXCEPT ![q] = [registryCall[q] EXCEPT ![r] = "lost"]]
  /\ UNCHANGED <<breaker, verdict, up, registered, asked>>

\* Slip: without the race against a timer, a lost call fails only when the
\* registry is there to reject it.
FailWhenUp(q, r) ==
  /\ registryCall[q][r] = "lost"
  /\ r \in up
  /\ Settle(q, r, "failed", OnFailure(breaker[r]))

\* The call rejects or the timer wins the race.
CallFails(q, r) ==
  /\ registryCall[q][r] = "lost"
  /\ Settle(q, r, "failed", OnFailure(breaker[r]))

CallsUnderWay(q) == {r \in Registries : registryCall[q][r] \in {"pending", "lost"}}

\* Slip: only a full outage or an answer blocks.
BlocksOnAnswer(q) ==
  \/ \E r \in Registries : registryCall[q][r] = "excluded"
  \/ FailClosed /\ \A r \in Registries : registryCall[q][r] = "tripped"

\* A call that brings no answer counts as an exclusion when failing closed; the
\* second disjunct adds a client without registries.
Blocks(q) ==
  \/ \E r \in Registries :
       \/ registryCall[q][r] = "excluded"
       \/ FailClosed /\ registryCall[q][r] \in {"tripped", "failed"}
  \/ FailClosed /\ \A r \in Registries : registryCall[q][r] = "tripped"

Decide(q) ==
  /\ verdict[q] = "asking"
  /\ CallsUnderWay(q) = {}
  /\ verdict' = [verdict EXCEPT ![q] = IF Blocks(q) THEN "blocked" ELSE "cleared"]
  /\ registryCall' = [registryCall EXCEPT ![q] = [r \in Registries |-> "none"]]
  /\ asked' = [asked EXCEPT ![q] = {}]
  /\ UNCHANGED <<breaker, up, registered>>

BreakersRest ==
  /\ \E r \in Registries : breaker[r].state = "open" /\ breaker[r].rested < RecoveryTime
  /\ breaker' = [r \in Registries |->
       IF breaker[r].state = "open" /\ breaker[r].rested < RecoveryTime
       THEN [breaker[r] EXCEPT !.rested = breaker[r].rested + 1]
       ELSE breaker[r]]
  /\ UNCHANGED <<registryCall, verdict, up, registered, asked>>

\* The registries' side.  Nobody leaves a registry while the model runs.
Outage(r) == up' = up \ {r} /\ UNCHANGED <<breaker, registryCall, verdict, registered, asked>>
Recovery(r) == up' = up \cup {r} /\ UNCHANGED <<breaker, registryCall, verdict, registered, asked>>
Register(r) ==
  /\ Cardinality(registered) < MaxRegistered
  /\ registered' = registered \cup {r}
  /\ UNCHANGED <<breaker, registryCall, verdict, up, asked>>

CallStep(q, r) == Answer(q, r) \/ Lose(q, r) \/ CallFails(q, r)

ExclNext ==
  \/ \E q \in Queries :
       \/ Ask(q) \/ Decide(q)
       \/ \E r \in Registries : CallStep(q, r)
  \/ BreakersRest
  \/ \E r \in Registries : Outage(r) \/ Recovery(r) \/ Register(r)

ExclSpec == ExclInit /\ [][ExclNext]_exclVars

\* Time passes, and the event loop settles calls and resumes queries.
Served ==
  /\ WF_exclVars(BreakersRest)
  /\ \A q \in Queries : WF_exclVars(Decide(q))
  /\ \A q \in Queries, r \in Registries :
       WF_exclVars(Answer(q, r) \/ Lose(q, r)) /\ WF_exclVars(CallFails(q, r))

\* The host also keeps asking, as it does before every deposit and spin.
ExclFairSpec == ExclSpec /\ Served /\ \A q \in Queries : WF_exclVars(Ask(q))

-----------------------------------------------------------------------------

\* The types; and no call outlives its query.
ExclTypeOK ==
  /\ breaker \in [Registries -> Breaker]
  /\ registryCall \in [Queries -> [Registries -> CallState]]
  /\ verdict \in [Queries -> {"asking", "cleared", "blocked"}]
  /\ up \subseteq Registries
  /\ registered \subseteq Registries
  /\ asked \in [Queries -> SUBSET Registries]
  /\ \A q \in Queries, r \in Registries : verdict[q] = "asking" <=> registryCall[q][r] # "none"
  /\ \A q \in Queries : verdict[q] # "asking" => asked[q] = {}

\* A breaker is closed exactly while fewer failures than the threshold have landed
\* since its last success, in whatever order the calls of all queries settle:
\* successes and failures that arrive while it is open or half-open included.
BreakerCounts ==
  \A r \in Registries :
    breaker[r].state = "closed" <=> breaker[r].failures < FailureThreshold

Gate == INSTANCE ExclusionGate

\* Failing closed, the client keeps the promise of a self-exclusion check through
\* outages, timeouts and tripped breakers: whoever was on a registry when the
\* question was asked is not cleared.
ImplementsGate == Gate!Spec

\* A breaker is not stuck: once its registry answers for good, late failures of
\* the outage may reopen it, but it ends up closed.
BreakerHeals ==
  \A r \in Registries : <>[](r \in up) => <>[](breaker[r].state = "closed")

\* "slow providers do not delay the verdict": every query ends, even if no
\* registry ever answers again.
EveryQueryEnds == \A q \in Queries : (verdict[q] = "asking") ~> (verdict[q] # "asking")

=============================================================================
