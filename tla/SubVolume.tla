----------------------------- MODULE SubVolume -----------------------------
(***************************************************************************)
(* make_subvolume (subvolume.cpp): it lays out, cell by cell, how many     *)
(* samples of the trace every cell needs between the top and the bottom    *)
(* surface, and where they go in the one buffer that the goroutines fill   *)
(* and read (fetch_subvolume, calc_attributes).                            *)
(*                                                                         *)
(* Depths are integers in a unit that divides the stepsizes; a tolerance   *)
(* of 1/TolDen of a step (1e-3 in the code) is kept as a fraction.         *)
(***************************************************************************)
EXTENDS RegularSurface

CONSTANTS
    AxisMin,      \* annotation of the first sample of the vertical axis
    Step,         \* its stepsize
    TolDen        \* denominator of the tolerance

ASSUME StepAssumption ==
    /\ AxisMin \in Int
    /\ Step \in Nat \ {0}
    /\ TolDen \in Nat \ {0}

VARIABLES
    nsamples,     \* of the vertical axis
    ref, top, bottom,   \* values of the three surfaces
    inside,       \* cells within the horizontal bounds, with margin
    outstep,      \* stepsize of the request
    i,            \* loop index
    offsets,      \* m_segment_offsets
    topMargins,   \* m_segment_top_margins
    outcome       \* "waiting", "running", "made" or an exception

inputs == <<nsamples, ref, top, bottom, inside, outstep>>
layoutVars == <<i, offsets, topMargins, outcome>>

-----------------------------------------------------------------------------
(***************************************************************************)
(* Numbers of samples from distances.                                      *)
(***************************************************************************)
Down(d, step) == d \div step
Up(d, step) == - ((- d) \div step)

floor_with_tolerance(d, step) ==
    IF (Up(d, step) * step - d) * TolDen < step THEN Up(d, step) ELSE Down(d, step)

ceil_with_tolerance(d, step) ==
    IF (d - Down(d, step) * step) * TolDen < step THEN Down(d, step) ELSE Up(d, step)

AxisMax == AxisMin + (nsamples - 1) * Step
inrange(depth) == AxisMin <= depth /\ depth <= AxisMax

(***************************************************************************)
(* RawSegmentBlueprint, in sample numbers of the trace.                    *)
(***************************************************************************)
preferred_margin == 2
ThreeSamples == 3
min_samples == 4
TopSample(c, margin) == ceil_with_tolerance(top[c] - AxisMin, Step) - margin
BottomSample(c, margin) == floor_with_tolerance(bottom[c] - AxisMin, Step) + margin
Size(c, topMargin, bottomMargin) ==
    BottomSample(c, bottomMargin) - TopSample(c, topMargin) + 1

(***************************************************************************)
(* calculate_margin: the largest margin that stays on the axis.            *)
(***************************************************************************)
TopMargin(c) ==
    Max({0} \union {m \in 1 .. preferred_margin :
                        inrange(AxisMin + TopSample(c, m) * Step)})
BottomMargin(c) ==
    Max({0} \union {m \in 1 .. preferred_margin :
                        inrange(AxisMin + BottomSample(c, m) * Step)})

-----------------------------------------------------------------------------
StartLayout ==
    /\ i = 0
    /\ offsets = [c \in {0} |-> 0]
    /\ topMargins = [c \in {} |-> 0]

Running == outcome = "running" /\ i < NCells
IsFill(c) == Fill \in {ref[c], top[c], bottom[c]}
IsOrdered(c) == top[c] <= ref[c] /\ ref[c] <= bottom[c]
IsSkippedInside(c) == IsFill(c)
IsSkipped(c) == IsFill(c) \/ (IsOrdered(c) /\ ~ inside[c])
IsInBounds(c) == inrange(top[c]) /\ inrange(bottom[c])

SizeOnly(size) == size

\* Where the next segment begins.
NextOffset(size) == offsets[i] + size

Advance(size) ==
    /\ offsets' = [c \in 0 .. i + 1 |-> IF c = i + 1 THEN NextOffset(size) ELSE offsets[c]]
    /\ i' = i + 1

Throw(error) ==
    /\ outcome' = error
    /\ UNCHANGED <<inputs, i, offsets, topMargins>>

(***************************************************************************)
(* A cell with a fill value or outside the survey gets no samples.         *)
(***************************************************************************)
Skip ==
    /\ Running
    /\ IsSkipped(i)
    /\ Advance(0)
    /\ UNCHANGED <<inputs, topMargins, outcome>>

Refuse ==
    /\ Running
    /\ ~ IsSkipped(i)
    /\ ~ (IsOrdered(i) /\ IsInBounds(i))
    /\ Throw(IF IsOrdered(i) THEN "out_of_bounds" ELSE "not_ordered")

AtypicalByAxisOnly(t, extended) == t # preferred_margin
AtypicalByExtension(t, extended) == extended

(***************************************************************************)
(* Whether the top margin is stored: what is not stored is preferred.      *)
(***************************************************************************)
IsStored(t, extended) == t # preferred_margin \/ extended

(***************************************************************************)
(* Margins of a segment; one that is too short for makima is extended on   *)
(* the side that has its preferred margin.                                 *)
(***************************************************************************)
MakeSegment ==
    LET t == TopMargin(i)
        b == BottomMargin(i)
        missing == min_samples - Size(i, t, b)
        short == missing > 0
        extendTop == short /\ t = preferred_margin
        extendBottom == short /\ t # preferred_margin
        topMargin == IF extendTop THEN t + missing ELSE t
        bottomMargin == IF extendBottom THEN b + missing ELSE b
    IN  /\ Running
        /\ ~ IsSkipped(i)
        /\ IsOrdered(i) /\ IsInBounds(i)
        /\ IF short /\ t # preferred_margin /\ b # preferred_margin
           THEN Throw("too_small")
           ELSE /\ Advance(Size(i, topMargin, bottomMargin))
                /\ topMargins' =
                     IF IsStored(t, extendTop)
                     THEN [c \in DOMAIN topMargins \union {i} |->
                              IF c = i THEN topMargin ELSE topMargins[c]]
                     ELSE topMargins
                /\ UNCHANGED <<inputs, outcome>>

Release ==
    /\ outcome = "running"
    /\ i = NCells
    /\ outcome' = "made"
    /\ UNCHANGED <<inputs, i, offsets, topMargins>>

Layout == Skip \/ Refuse \/ MakeSegment \/ Release

-----------------------------------------------------------------------------
(***************************************************************************)
(* What the readers of a sub-volume see: is_empty, top_margin, and the     *)
(* first and last sample of vertical_segment.                              *)
(***************************************************************************)
is_empty(c) == offsets[c] = offsets[c + 1]
top_margin(c) == IF c \in DOMAIN topMargins THEN topMargins[c] ELSE preferred_margin
FirstSample(c) == TopSample(c, top_margin(c))
LastSample(c) == FirstSample(c) + offsets[c + 1] - offsets[c] - 1

(***************************************************************************)
(* ResampledSegmentBlueprint: the number of samples above the reference,   *)
(* the positions of the first and the last sample, and their number.       *)
(***************************************************************************)
AboveRoundedUp(c) == Up(ref[c] - top[c], outstep)
nsamples_above(c) == - ceil_with_tolerance(top[c] - ref[c], outstep)
ResampledTop(c) == ref[c] - nsamples_above(c) * outstep
ResampledBottom(c) == ref[c] + floor_with_tolerance(bottom[c] - ref[c], outstep) * outstep
ResampledSize(c) == (ResampledBottom(c) - ResampledTop(c)) \div outstep + 1

\* makima interpolates between the first and the last sample only.
IsCovered(c) ==
    /\ AxisMin + FirstSample(c) * Step <= ResampledTop(c)
    /\ ResampledBottom(c) <= AxisMin + LastSample(c) * Step

Laid == {c \in 0 .. i - 1 : ~ is_empty(c)}

(***************************************************************************)
(* A cell is empty exactly when it is skipped, so that calc_attributes     *)
(* writes the fill value there and nowhere else: a cell inside the survey  *)
(* whose window holds no sample at all still gets samples from the margin. *)
(***************************************************************************)
EmptyExactlyIfSkipped ==
    \A c \in 0 .. i - 1 : is_empty(c) <=> (IsFill(c) \/ ~ inside[c])

(***************************************************************************)
(* A segment that is read has as many samples as makima needs.             *)
(***************************************************************************)
EnoughForMakima == \A c \in Laid : offsets[c + 1] - offsets[c] >= 4

(***************************************************************************)
(* The segment that vertical_segment rebuilds from the stored margin and   *)
(* the offsets holds every sample of the window, although the bottom       *)
(* margin is not stored anywhere.                                          *)
(***************************************************************************)
SegmentHoldsWindow ==
    \A c \in Laid : /\ FirstSample(c) <= TopSample(c, 0)
                    /\ BottomSample(c, 0) <= LastSample(c)

(***************************************************************************)
(* fetch_subvolume asks for samples that the trace has.                    *)
(***************************************************************************)
FetchWithinTrace ==
    \A c \in Laid : 0 <= FirstSample(c) /\ LastSample(c) <= nsamples - 1

\* A distance that is not a number of steps, but is taken for one.
IsRounded(d, step) ==
    /\ d % step # 0
    /\ (d % step) * TolDen < step \/ (step - (d % step)) * TolDen < step
IsExact(c) ==
    \A depth \in {top[c], bottom[c]} : ~ IsRounded(depth - ref[c], outstep)

(***************************************************************************)
(* Every point of the resampled segment lies within the samples of the raw *)
(* segment: the margin is there "to make sure we always retrieve all       *)
(* desired data" (subvolume.hpp).  It is stated where no distance to the   *)
(* reference is rounded by the tolerance; where one is, a point can lie    *)
(* beyond the end of the trace and the request fails.                      *)
(***************************************************************************)
RawCoversResampled == \A c \in Laid : IsExact(c) => IsCovered(c)

(***************************************************************************)
(* The resampled segment has a sample at the reference, stays within the   *)
(* window up to the tolerance, and no further sample fits in the window:   *)
(* the counts above and below come from two roundings in two directions    *)
(* and must meet at the reference_index that Value reads.                  *)
(***************************************************************************)
ResampledFillsWindow ==
    \A c \in Laid :
        /\ nsamples_above(c) \in 0 .. ResampledSize(c) - 1
        /\ (top[c] - ResampledTop(c)) * TolDen < outstep
        /\ (ResampledBottom(c) - bottom[c]) * TolDen < outstep
        /\ ResampledTop(c) - outstep < top[c]
        /\ ResampledBottom(c) + outstep > bottom[c]
=============================================================================
