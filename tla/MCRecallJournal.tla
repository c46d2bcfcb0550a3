-------------------------- MODULE MCRecallJournal ---------------------------
(* A journal that rotates every second entry. *)
EXTENDS RecallJournal
=============================================================================
