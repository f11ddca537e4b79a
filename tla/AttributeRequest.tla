-------------------------- MODULE AttributeRequest --------------------------
(***************************************************************************)
(* An attribute request from its surfaces to its values:                   *)
(* GetAttributesAlongSurface makes the top and the bottom surface with     *)
(* shifted copies, GetAttributesBetweenSurfaces with align_surfaces        *)
(* (core_attributes.go); the sub-volume is laid out between them; and      *)
(* calc_attributes reduces the segments.  How cells are spread over        *)
(* goroutines is the subject of AttributePool; here one cell is followed.  *)
(***************************************************************************)
EXTENDS AlignSurfaces, SubVolume, Attributes

CONSTANTS
    Along,        \* requests [surface, above, below]
    Between,      \* requests [primary, secondary, grids]
    Layouts,      \* [nsamples, outstep] of vertical axis and request
    Samples,      \* values that an interpolated sample may have
    MaxLength     \* bound on the length of the segments that are reduced

ASSUME RequestAssumption ==
    /\ \A r \in Along : r.surface \in [Cells -> Int] /\ r.above \in Int /\ r.below \in Int
    /\ \A r \in Between :
        /\ r.primary \in [Cells -> Int]
        /\ r.grids.secondary.nrows \in Nat /\ r.grids.secondary.ncols \in Nat
        /\ r.secondary \in [0 .. r.grids.secondary.nrows * r.grids.secondary.ncols - 1 -> Int]
    /\ \A l \in Layouts : l.nsamples \in Nat \ {0, 1} /\ l.outstep \in Nat \ {0}

ASSUME GridsAssumption ==
    \A r \in Between : /\ IsGrid(r.grids.primary) /\ IsGrid(r.grids.secondary)
                       /\ r.grids.primary.ncols # 0

VARIABLES
    segment,      \* a resampled segment that has been reduced, or none
    attrs         \* its attributes

vars == <<surfaces, alignVars, inputs, layoutVars, segment, attrs>>

None == [cell |-> -1]

-----------------------------------------------------------------------------
AnyWindow(above, below) == TRUE

\* "Above and below must be positive."
IsWindow(above, below) == above >= 0 /\ below >= 0

GetAttributesAlongSurface ==
    \E r \in Along :
        /\ primary = r.surface
        /\ secondary = <<>> /\ grids = <<>>
        /\ alignment = "none"
        /\ ref = [c \in Cells |-> toCdata(r.surface[c], 0)]
        /\ top = [c \in Cells |-> toCdata(r.surface[c], - r.above)]
        /\ bottom = [c \in Cells |-> toCdata(r.surface[c], r.below)]
        /\ outcome = IF IsWindow(r.above, r.below) THEN "running" ELSE "invalid"

GetAttributesBetweenSurfaces ==
    \E r \in Between :
        /\ primary = r.primary
        /\ secondary = r.secondary /\ grids = r.grids
        /\ alignment = "running"
        /\ ref = [c \in Cells |-> toCdata(r.primary[c], 0)]
        /\ top = <<>> /\ bottom = <<>>
        /\ outcome = "waiting"

Init ==
    /\ GetAttributesAlongSurface \/ GetAttributesBetweenSurfaces
    /\ StartAlignment
    /\ inside \in [Cells -> BOOLEAN]
    /\ \E l \in Layouts : nsamples = l.nsamples /\ outstep = l.outstep
    /\ StartLayout
    /\ segment = None
    /\ attrs = <<>>

AlignSurfaces ==
    /\ Align
    /\ UNCHANGED <<inputs, layoutVars, segment, attrs>>

TopIfBottom == primary_is_bottom

\* Whether the primary surface is taken for the top one.
primaryIsTop == primary_is_top

(***************************************************************************)
(* After C.align_surfaces: the primary surface is also the reference.      *)
(***************************************************************************)
ChooseTop ==
    /\ alignment = "aligned"
    /\ outcome = "waiting"
    /\ top' = IF primaryIsTop THEN primary ELSE aligned
    /\ bottom' = IF primaryIsTop THEN aligned ELSE primary
    /\ outcome' = "running"
    /\ UNCHANGED <<surfaces, alignVars, nsamples, ref, inside, outstep,
                   i, offsets, topMargins, segment, attrs>>

MakeSubVolume ==
    /\ Layout
    /\ UNCHANGED <<surfaces, alignVars, segment, attrs>>

(***************************************************************************)
(* calc_attributes for a cell: an empty one gets the fill value; the       *)
(* segment of another is resampled and reduced, unless a point lies        *)
(* outside of the spline.  The interpolated values are arbitrary.          *)
(***************************************************************************)
WriteFill ==
    /\ outcome = "made"
    /\ segment = None
    /\ \E c \in Cells \ Laid : segment' = [cell |-> c, data |-> <<>>]
    /\ attrs' = [value |-> Fill]
    /\ UNCHANGED <<surfaces, alignVars, inputs, layoutVars>>

Reduce ==
    /\ outcome = "made"
    /\ segment = None
    /\ \E c \in Laid :
        /\ IsCovered(c)
        /\ ResampledSize(c) <= MaxLength
        /\ \E data \in [0 .. ResampledSize(c) - 1 -> Samples] :
            /\ segment' = [cell |-> c, data |-> data]
            /\ \E temp \in nth_element(data, Length(data) \div 2) :
                attrs' = compute(data, temp, nsamples_above(c), ResampledTop(c), outstep)
    /\ UNCHANGED <<surfaces, alignVars, inputs, layoutVars>>

OutsideSpline ==
    /\ outcome = "made"
    /\ segment = None
    /\ \E c \in Laid : ~ IsCovered(c)
    /\ outcome' = "outside_spline"
    /\ UNCHANGED <<surfaces, alignVars, inputs, i, offsets, topMargins, segment, attrs>>

Next ==
    \/ AlignSurfaces \/ ChooseTop \/ MakeSubVolume
    \/ WriteFill \/ Reduce \/ OutsideSpline

Spec == Init /\ [][Next]_vars

-----------------------------------------------------------------------------
(***************************************************************************)
(* Types, and offsets that never decrease: the goroutines write to the     *)
(* buffer between the offsets of their cells.                              *)
(***************************************************************************)
TypeOK ==
    /\ cell \in 0 .. NCells /\ i \in 0 .. NCells
    /\ aligned \in [Cells -> Int]
    /\ alignment \in {"none", "running", "aligned", "intersect"}
    /\ outcome \in {"invalid", "waiting", "running", "made", "not_ordered",
                     "out_of_bounds", "too_small", "outside_spline"}
    /\ offsets \in [0 .. i -> Nat] /\ DOMAIN topMargins \subseteq 0 .. i - 1
    /\ \A c \in 0 .. i - 1 : offsets[c] <= offsets[c + 1]

(***************************************************************************)
(* make_subvolume never finds the surfaces in the wrong order: neither     *)
(* shifted copies nor surfaces that align_surfaces has accepted are, even  *)
(* where they touch, so its internal error cannot reach a client.          *)
(***************************************************************************)
SurfacesAreOrdered == outcome # "not_ordered"

\* Two surfaces, the cells that are aligned and on which sides they were.
AlignmentInv ==
    /\ primary \in [Cells -> Int]
    /\ grids.secondary.nrows \in Nat /\ grids.secondary.ncols \in Nat
    /\ secondary \in [0 .. grids.secondary.nrows * grids.secondary.ncols - 1 -> Int]
    /\ cell \in 0 .. NCells
    /\ aligned \in [Cells -> Int]
    /\ primary_is_top \in BOOLEAN /\ primary_is_bottom \in BOOLEAN
    /\ \A c \in 0 .. cell - 1 :
         aligned[c] = IF HasCounterpart(c) THEN SecondaryValue(c) ELSE Fill
    /\ alignment = "intersect" => Above # {} /\ Below # {}
    /\ alignment # "intersect" =>
         /\ \A c \in 0 .. cell - 1 : HasCounterpart(c) =>
              /\ primary[c] < SecondaryValue(c) => primary_is_top
              /\ primary[c] > SecondaryValue(c) => primary_is_bottom
         /\ primary_is_top => Above # {}
         /\ primary_is_bottom => Below # {}
         /\ ~ (primary_is_top /\ primary_is_bottom)
    /\ alignment = "aligned" => cell = NCells

(***************************************************************************)
(* The inductive invariant behind SurfacesAreOrdered and CrossingIsRefused *)
(* (align_surfaces, GetAttributesBetweenSurfaces and make_subvolume): what *)
(* is known of the surfaces at every point, and that the surfaces of a     *)
(* sub-volume are ordered in every cell that has all three values.         *)
(***************************************************************************)
OrderInv ==
    /\ alignment \in {"none", "running", "aligned", "intersect"}
    /\ alignment # "none" => AlignmentInv /\ ref = primary
    /\ outcome = "waiting" => alignment # "none"
    /\ outcome \notin {"invalid", "waiting"} => \A c \in Cells : IsFill(c) \/ IsOrdered(c)
    /\ outcome # "not_ordered"
    /\ i \in 0 .. NCells

(***************************************************************************)
(* The sample that is number n when the samples are sorted.                *)
(***************************************************************************)
Ranked(seg, n) ==
    CHOOSE x \in Values(seg) : /\ Cardinality({j \in DOMAIN seg : seg[j] < x}) <= n
                               /\ Cardinality({j \in DOMAIN seg : seg[j] <= x}) > n

(***************************************************************************)
(* The attributes of a segment, each computed in a loop of its own, fit    *)
(* together: the variance is the mean square less the squared mean, the    *)
(* means are those of the sums, MaxAbs is the larger extreme, and the      *)
(* samples at MinAt, MaxAt and MaxAbsAt have those values.  However        *)
(* nth_element leaves the samples, the median is the mean of the two that  *)
(* are in the middle when sorted, which are the same one for odd sizes.    *)
(***************************************************************************)
AttributesAgree ==
    segment # None /\ segment.data # <<>> =>
        LET data == segment.data
            n == attrs.mean[2]
            SampleAt(depth) == data[(depth - ResampledTop(segment.cell)) \div outstep]
        IN  /\ attrs.var[1] = n * (n * attrs.rmsSquare[1] - attrs.mean[1] ^ 2)
            /\ attrs.mean[1] = attrs.sumPos + attrs.sumNeg
            /\ attrs.meanAbs[1] = attrs.sumPos - attrs.sumNeg
            /\ attrs.maxAbs = Max({Abs(attrs.min), Abs(attrs.max)})
            /\ attrs.min = SampleAt(attrs.minAt)
            /\ attrs.max = SampleAt(attrs.maxAt)
            /\ attrs.maxAbs = Abs(SampleAt(attrs.maxAbsAt))
            /\ attrs.median = <<Ranked(data, (n - 1) \div 2) + Ranked(data, n \div 2), 2>>
=============================================================================
