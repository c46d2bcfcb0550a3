---------------------------- MODULE MCChunkedRun -----------------------------
(* Two spins, a chunk each, and three calls for one job. *)
EXTENDS ChunkedRun

CONSTANTS r1, r2, r3

MCRuns == {r1, r2, r3}
=============================================================================
