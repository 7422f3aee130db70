-------------------------- MODULE MCGroupMigration --------------------------
(* Small instances of GroupMigration for TLC: a bond on a grid of 4 x 2 or  *)
(* 2 x 2 domains, the ranks not in the order of the grid, as a two-level    *)
(* decomposition numbers them.  Of four domains in a row, the first and the *)
(* third are not neighbors.                                                 *)
EXTENDS GroupMigration, TLC

CONSTANTS p1, p2, bond

WideGridRanks == [n \in 0..7 |-> IF n < 4 THEN 2 * n ELSE 2 * (n - 4) + 1]

SquareGridRanks == (0 :> 0) @@ (1 :> 2) @@ (2 :> 1) @@ (3 :> 3)

OneBond == bond :> <<p1, p2>>
=============================================================================
