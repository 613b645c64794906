-------------------------------- MODULE Sums --------------------------------
(***************************************************************************)
(* The totals the program forms: the SUM of a SQL query, or the total a    *)
(* Python loop accumulates, of one number for each member of a set.        *)
(***************************************************************************)
EXTENDS FiniteSetsExt

Total(f, S) == MapThenSumSet(LAMBDA x : f[x], S)
=============================================================================
