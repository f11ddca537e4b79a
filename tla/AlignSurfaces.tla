--------------------------- MODULE AlignSurfaces ---------------------------
(***************************************************************************)
(* align_surfaces (cppapi_data.cpp): the values of the secondary surface   *)
(* at the cells of the primary one, and the check that the two surfaces do *)
(* not cross, which also finds out which of them is on top.                *)
(***************************************************************************)
EXTENDS RegularSurface

CONSTANT SecondaryFill   \* fill value of the secondary surface

VARIABLES
    primary, secondary,  \* values of the surfaces
    grids,               \* their grids
    cell,                \* loop index
    aligned,             \* the secondary surface on the primary grid
    primary_is_top, primary_is_bottom,   \* SurfacesCrossoverValidator
    alignment            \* "running", "aligned", "intersect" or "none"

surfaces == <<primary, secondary, grids>>
alignVars == <<cell, aligned, primary_is_top, primary_is_bottom, alignment>>

-----------------------------------------------------------------------------
TruncatedPosition(c) ==
    LET g == grids.secondary
        h == grids.primary.hyp
        p == from_cdp(g, to_cdp(grids.primary, c), h)
    IN  <<p[1] \div RowDen(g, h), p[2] \div ColDen(g, h)>>

(***************************************************************************)
(* Row and column of the secondary surface for a cell of the primary one.  *)
(***************************************************************************)
SecondaryPosition(c) ==
    LET g == grids.secondary
        h == grids.primary.hyp
        p == from_cdp(g, to_cdp(grids.primary, c), h)
    IN  <<lround(p[1], RowDen(g, h)), lround(p[2], ColDen(g, h))>>

IsInSecondary(c) ==
    /\ SecondaryPosition(c)[1] \in 0 .. grids.secondary.nrows - 1
    /\ SecondaryPosition(c)[2] \in 0 .. grids.secondary.ncols - 1

SecondaryValue(c) ==
    secondary[SecondaryPosition(c)[1] * grids.secondary.ncols + SecondaryPosition(c)[2]]

HasCounterpart(c) ==
    /\ primary[c] # Fill
    /\ IsInSecondary(c)
    /\ SecondaryValue(c) # SecondaryFill

-----------------------------------------------------------------------------
StartAlignment ==
    /\ cell = 0
    /\ aligned = [c \in Cells |-> 0]
    /\ primary_is_top = FALSE
    /\ primary_is_bottom = FALSE

Aligning == alignment = "running" /\ cell < NCells

AlignToFill ==
    /\ Aligning
    /\ ~ HasCounterpart(cell)
    /\ aligned' = [aligned EXCEPT ![cell] = Fill]
    /\ cell' = cell + 1
    /\ UNCHANGED <<surfaces, primary_is_top, primary_is_bottom, alignment>>

ThisCellIsTop(value) == primary[cell] < value

\* have_crossed remembers on which sides the primary surface has been.
IsTop(value) == primary_is_top \/ primary[cell] < value
IsBottom(value) == primary_is_bottom \/ primary[cell] > value

AlignCell ==
    LET value == SecondaryValue(cell)
        crossed == primary[cell] # value /\ IsTop(value) = IsBottom(value)
    IN  /\ Aligning
        /\ HasCounterpart(cell)
        /\ aligned' = [aligned EXCEPT ![cell] = value]
        /\ primary_is_top' = IsTop(value)
        /\ primary_is_bottom' = IsBottom(value)
        /\ cell' = IF crossed THEN cell ELSE cell + 1
        /\ alignment' = IF crossed THEN "intersect" ELSE "running"
        /\ UNCHANGED surfaces

EndAlignment ==
    /\ alignment = "running"
    /\ cell = NCells
    /\ alignment' = "aligned"
    /\ UNCHANGED <<surfaces, cell, aligned, primary_is_top, primary_is_bottom>>

Align == AlignToFill \/ AlignCell \/ EndAlignment

-----------------------------------------------------------------------------
Above == {c \in Cells : HasCounterpart(c) /\ primary[c] < SecondaryValue(c)}
Below == {c \in Cells : HasCounterpart(c) /\ primary[c] > SecondaryValue(c)}

(***************************************************************************)
(* A request is refused for surfaces that intersect exactly if the primary *)
(* surface is above the secondary one in some cell and below it in some    *)
(* other, wherever the cells are and whatever lies between them, be it     *)
(* equal values or cells without a counterpart (have_crossed; "If surfaces *)
(* intersect, exception will be thrown", attributes.go).                   *)
(***************************************************************************)
CrossingIsRefused ==
    /\ alignment = "intersect" => Above # {} /\ Below # {}
    /\ alignment = "aligned" => Above = {} \/ Below = {}

Square(x) == x * x

(***************************************************************************)
(* Squared distance, over the squares of both hyp, of a cell of the        *)
(* primary and a cell of the secondary surface.                            *)
(***************************************************************************)
Distance(c, s) ==
    LET p == to_cdp(grids.primary, c)
        q == to_cdp(grids.secondary, s)
        dx == p[1] * grids.secondary.hyp - q[1] * grids.primary.hyp
        dy == p[2] * grids.secondary.hyp - q[2] * grids.primary.hyp
    IN  Square(dx) + Square(dy)

SecondaryCells == 0 .. grids.secondary.nrows * grids.secondary.ncols - 1
Closest(c) ==
    {s \in SecondaryCells : \A t \in SecondaryCells : Distance(c, s) <= Distance(c, t)}

\* An increment of the secondary grid, in the unit of distances.
Increment(inc) == grids.primary.hyp * grids.secondary.hyp * inc

\* A cell further from all of the secondary surface than its half diagonal,
\* and one closer to a point of it than half of both increments.
IsFarAway(c) ==
    \A s \in SecondaryCells :
        4 * Distance(c, s) > Square(Increment(grids.secondary.xinc)) + Square(Increment(grids.secondary.yinc))
IsNear(c) ==
    \E s \in SecondaryCells : \A inc \in {grids.secondary.xinc, grids.secondary.yinc} :
        4 * Distance(c, s) < Square(Increment(inc))

ClosestValues(c) ==
    {IF secondary[s] = SecondaryFill THEN Fill ELSE secondary[s] : s \in Closest(c)}

(***************************************************************************)
(* Every cell of the aligned surface holds the value of a closest point of *)
(* the secondary surface, whatever the origins, increments and rotations   *)
(* of the two grids, with one fill value replaced by the other; it holds   *)
(* the fill value where the primary surface has none, and where the        *)
(* secondary surface is further away than half a diagonal of its cells     *)
(* ("For every point on the primary surface the closest point on the       *)
(* secondary surface would be found", attributes.go).                      *)
(***************************************************************************)
ClosestValueIsAligned ==
    \A c \in 0 .. cell - 1 :
        /\ aligned[c] \in ClosestValues(c) \union {Fill}
        /\ primary[c] = Fill \/ IsFarAway(c) => aligned[c] = Fill
        /\ primary[c] # Fill /\ IsNear(c) => aligned[c] \in ClosestValues(c)
=============================================================================
