-------------------------- MODULE MCSelfExclusion ---------------------------
(* Two queries at once over one or two registries. *)
EXTENDS SelfExclusion

CONSTANTS Gamstop, Oasis, Q1, Q2

MCRegistries == {Gamstop, Oasis}
MCQueries == {Q1, Q2}
=============================================================================
