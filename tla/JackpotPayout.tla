--------------------------- MODULE JackpotPayout ----------------------------
(***************************************************************************)
(* What a jackpot owes its winner, without pools, clocks and retries: each *)
(* jackpot that is won is owed until it is paid, returned to the pool, or  *)
(* forfeited, and none of these is ever undone.                            *)
(***************************************************************************)
EXTENDS Naturals

CONSTANT Payments

VARIABLES
  promise,    \* promise[p]: what has become of jackpot p
  timesPaid   \* timesPaid[p]: how often p was paid

pvars == <<promise, timesPaid>>

Init ==
  /\ promise = [p \in Payments |-> "none"]
  /\ timesPaid = [p \in Payments |-> 0]

Owe(p) ==
  /\ promise[p] = "none"
  /\ promise' = [promise EXCEPT ![p] = "owed"]
  /\ UNCHANGED timesPaid

Pay(p) ==
  /\ promise[p] = "owed"
  /\ promise' = [promise EXCEPT ![p] = "paid"]
  /\ timesPaid' = [timesPaid EXCEPT ![p] = 1]

Forfeit(p) ==
  /\ promise[p] = "owed"
  /\ promise' = [promise EXCEPT ![p] = "forfeited"]
  /\ UNCHANGED timesPaid

\* One sweep may return several jackpots.
Return(P) ==
  /\ \A p \in P : promise[p] = "owed"
  /\ promise' = [p \in Payments |-> IF p \in P THEN "returned" ELSE promise[p]]
  /\ UNCHANGED timesPaid

Next ==
  \/ \E p \in Payments : Owe(p) \/ Pay(p) \/ Forfeit(p)
  \/ \E P \in SUBSET Payments : Return(P)

Spec == Init /\ [][Next]_pvars

=============================================================================
