---------------------------- MODULE SharedMeter -----------------------------
(***************************************************************************)
(* What a linked progressive promises the games that share it: every       *)
(* committed contribution raises a meter, a committed hit pays out all     *)
(* that the meter shows, and the meter starts again from its seed.         *)
(***************************************************************************)
EXTENDS Naturals

CONSTANTS Games, Tiers, Seed, Amounts

VARIABLES
  meter,   \* meter[t]: what tier t shows
  given,   \* given[g]: what game g has contributed in all
  paid     \* paid[t]: what tier t has paid in all

mvars == <<meter, given, paid>>

Init ==
  /\ meter = Seed
  /\ given = [g \in Games |-> 0]
  /\ paid = [t \in Tiers |-> 0]

Raise(g, t, n) ==
  /\ meter' = [meter EXCEPT ![t] = @ + n]
  /\ given' = [given EXCEPT ![g] = @ + n]
  /\ UNCHANGED paid

Hit(t) ==
  /\ meter[t] > 0
  /\ paid' = [paid EXCEPT ![t] = @ + meter[t]]
  /\ meter' = [meter EXCEPT ![t] = Seed[t]]
  /\ UNCHANGED given

Next ==
  \/ \E g \in Games, t \in Tiers, n \in Amounts : Raise(g, t, n)
  \/ \E t \in Tiers : Hit(t)

Spec == Init /\ [][Next]_mvars

=============================================================================
