--------------------------- MODULE RegularSurface ---------------------------
(***************************************************************************)
(* Surfaces as flat arrays of values over a grid (regularsurface.cpp), and *)
(* the copies that Go makes of them (core.go).                             *)
(*                                                                         *)
(* A grid has integer origins and increments and a rotation whose cosine   *)
(* and sine are the fractions cos/hyp and sin/hyp, so that the affine      *)
(* transformations are exact.  A position is a pair of numerators.         *)
(***************************************************************************)
EXTENDS Integers, FiniteSets, FiniteSetsExt

CONSTANTS
    NCells,       \* cells of the primary surface
    Fill          \* its fill value

ASSUME SurfaceAssumption == NCells \in Nat \ {0} /\ Fill \in Int

Cells == 0 .. NCells - 1

(***************************************************************************)
(* toCdata: the shifted surface keeps its fill values.                     *)
(***************************************************************************)
toCdata(value, shift) == IF value = Fill THEN value ELSE value + shift

-----------------------------------------------------------------------------
(***************************************************************************)
(* A grid of a request: increments are required, so they are not 0.        *)
(***************************************************************************)
IsGrid(grid) ==
    /\ grid.xori \in Int /\ grid.yori \in Int
    /\ grid.xinc \in Int \ {0} /\ grid.yinc \in Int \ {0}
    /\ grid.cos \in Int /\ grid.sin \in Int /\ grid.hyp \in Nat \ {0}
    /\ grid.cos * grid.cos + grid.sin * grid.sin = grid.hyp * grid.hyp
    /\ grid.nrows \in Nat /\ grid.ncols \in Nat

row(grid, c) == c \div grid.ncols
col(grid, c) == c % grid.ncols

(***************************************************************************)
(* to_cdp with from_rotation: the position of a cell, over grid.hyp.       *)
(***************************************************************************)
to_cdp(grid, c) ==
    LET x == grid.xinc * row(grid, c)
        y == grid.yinc * col(grid, c)
    IN  <<grid.cos * x - grid.sin * y + grid.hyp * grid.xori,
          grid.sin * x + grid.cos * y + grid.hyp * grid.yori>>

(***************************************************************************)
(* from_cdp with inverse_from_rotation: the numerators of the row and the  *)
(* column of a point over den; their denominators are RowDen and ColDen.   *)
(***************************************************************************)
from_cdp(grid, p, den) ==
    <<grid.cos * p[1] + grid.sin * p[2] - den * (grid.sin * grid.yori + grid.cos * grid.xori),
      grid.cos * p[2] - grid.sin * p[1] + den * (grid.sin * grid.xori - grid.cos * grid.yori)>>
RowDen(grid, den) == den * grid.hyp * grid.xinc
ColDen(grid, den) == den * grid.hyp * grid.yinc

\* Half away from zero.
lround(num, den) ==
    LET n == IF num < 0 THEN - num ELSE num
        d == IF den < 0 THEN - den ELSE den
        q == (2 * n + d) \div (2 * d)
    IN  IF (num < 0) = (den < 0) THEN q ELSE - q
=============================================================================
