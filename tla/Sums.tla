-------------------------------- MODULE Sums --------------------------------
(***************************************************************************)
(* Sums over finite sets, as the books of the program are added up.        *)
(***************************************************************************)
EXTENDS Naturals, FiniteSetsExt

\* The sum of f[x] over the members x of S.
SumOver(f, S) == MapThenSumSet(LAMBDA x : f[x], S)

=============================================================================
