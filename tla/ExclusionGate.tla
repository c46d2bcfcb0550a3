--------------------------- MODULE ExclusionGate ----------------------------
(***************************************************************************)
(* What a self-exclusion check promises, whatever registries and breakers  *)
(* do: a player who was on a registry when the question was asked is not   *)
(* cleared.  A blocked player need not be on any.                          *)
(***************************************************************************)
CONSTANTS Registries, Queries

VARIABLES
  registered,  \* the registries the player is on
  asked,       \* asked[q]: the registries the player was on when q, under way, was asked
  verdict      \* verdict[q]: "asking", "cleared" or "blocked", as at first

vars == <<registered, asked, verdict>>

Init ==
  /\ registered \in SUBSET Registries
  /\ asked = [q \in Queries |-> {}]
  /\ verdict = [q \in Queries |-> "blocked"]

Register(r) ==
  /\ registered' = registered \cup {r}
  /\ UNCHANGED <<asked, verdict>>

Ask(q) ==
  /\ verdict[q] # "asking"
  /\ asked' = [asked EXCEPT ![q] = registered]
  /\ verdict' = [verdict EXCEPT ![q] = "asking"]
  /\ UNCHANGED registered

Decide(q) ==
  /\ verdict[q] = "asking"
  /\ \E v \in IF asked[q] = {} THEN {"cleared", "blocked"} ELSE {"blocked"} :
       verdict' = [verdict EXCEPT ![q] = v]
  /\ asked' = [asked EXCEPT ![q] = {}]
  /\ UNCHANGED registered

Next ==
  \/ \E r \in Registries : Register(r)
  \/ \E q \in Queries : Ask(q) \/ Decide(q)

Spec == Init /\ [][Next]_vars
=============================================================================
