--------------------------- MODULE MCCreateIntake ---------------------------
(***************************************************************************)
(* Values for checking CreateIntake with TLC: int64 scaled to five bits,   *)
(* int32 to four, and the numbers around their boundaries.                 *)
(***************************************************************************)
EXTENDS CreateIntake

MCPrices == {-17, -1, 0, 1, 2, 3, 5, 7, 8, 15, 16}
MCQuantities == {-1, 0, 1, 2, 3, 5, 7, 8}
=============================================================================
