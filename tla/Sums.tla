-------------------------------- MODULE Sums --------------------------------
(***************************************************************************)
(* SELECT SUM(column) ... WHERE ...: the sum of a column over the rows     *)
(* that a condition selects (storage/repositories.py).                     *)
(***************************************************************************)
EXTENDS Integers, FiniteSetsExt

\* the column is a function of the rows, 0 if no row is selected (coalesce)
SumOver(column, selected) == MapThenSumSet(LAMBDA r : column[r], selected)
=============================================================================
