------------------------------- MODULE Fence -------------------------------
(***************************************************************************)
(* A fence on a handle: one trace per point, from a cube or combined from  *)
(* two (core_fence.go, fence in cppapi_data.cpp, read_traces in            *)
(* datahandle.cpp).  Interpolation is "nearest".                           *)
(*                                                                         *)
(* Coordinates are integers over Unit, in annotations or in indices.  A    *)
(* value of a trace stands for its place: a line of every axis.            *)
(***************************************************************************)
EXTENDS Cubes

CONSTANT Fences

ASSUME FencesAssumption ==
    Fences \subseteq [system : STRING, coordinates : Seq(Seq(Int)), fill : BOOLEAN]

VARIABLES
    fence,        \* the request, once it is there
    point,        \* loop index
    coords,       \* voxels of the points
    noval_indicies,
    answer,       \* "none", "running", "bad_request" or "sent"
    data          \* the response: a buffer per cube that is combined

fenceVars == <<fence, point, coords, noval_indicies, answer, data>>
vars == <<cubeVars, fenceVars>>

Axis(t) == axes[VoxelDimension(cubes[1], t)]
nsamples == Axis("K").n

Init ==
    /\ InitCubes
    /\ fence = <<>> /\ point = 0 /\ coords = <<>> /\ noval_indicies = {}
    /\ answer = "none" /\ data = <<>>

(***************************************************************************)
(* GetFence: points must be pairs, and there must be one.                  *)
(***************************************************************************)
GetFence ==
    /\ IsIdle
    /\ fence = <<>>
    /\ \E f \in Fences :
        /\ fence' = f
        /\ answer' = IF f.coordinates # <<>> /\ \A p \in DOMAIN f.coordinates : Len(f.coordinates[p]) = 2
                     THEN "running" ELSE "bad_request"
    /\ UNCHANGED <<cubeVars, point, coords, noval_indicies, data>>

(***************************************************************************)
(* transform_coordinate; a position of the handle becomes one of cube A.   *)
(***************************************************************************)
Annotation(t, x) ==
    IF fence.system = "INDEX"
    THEN LET axis == IJKAxis(cubes[1], t)
         IN  axis.min + ((x + Unit * zero[1][t]) * Width(axis)) \div (Unit * Steps(axis))
    ELSE x

inrange_with_margin(axis, x) ==
    /\ 2 * (x - axis.min) * Steps(axis) >= - Width(axis)
    /\ 2 * (x - axis.max) * Steps(axis) < Width(axis)

\* CoordinateToSamplePosition and the voxel there (external): half up.
to_sample_position(axis, x) == (2 * (x - axis.min) * Steps(axis) + Width(axis)) \div (2 * Width(axis))

NovalIndex(p) == p * nsamples

(***************************************************************************)
(* The loop of fence, for a point.                                         *)
(***************************************************************************)
CheckPoint ==
    LET xy == fence.coordinates[point + 1]
        x == Annotation("I", xy[1])
        y == Annotation("J", xy[2])
        isInside == inrange_with_margin(Axis("I"), x) /\ inrange_with_margin(Axis("J"), y)
    IN  /\ answer = "running"
        /\ point < Len(fence.coordinates)
        /\ \/ /\ ~ isInside /\ ~ fence.fill
              /\ answer' = "bad_request"
              /\ UNCHANGED <<point, coords, noval_indicies>>
           \/ /\ isInside \/ fence.fill
              /\ noval_indicies' = noval_indicies \union (IF isInside THEN {} ELSE {NovalIndex(point)})
              /\ coords' = Append(coords,
                     [d \in Dimensions |->
                         IF d = VoxelDimension(cubes[1], "I") THEN to_sample_position(Axis("I"), x)
                         ELSE IF d = VoxelDimension(cubes[1], "J") THEN to_sample_position(Axis("J"), y)
                         ELSE 0])
              /\ point' = point + 1
              /\ UNCHANGED answer
        /\ UNCHANGED <<cubeVars, fence, data>>

-----------------------------------------------------------------------------
SourceLength(c) == IJKAxis(cubes[c], "K").n

(***************************************************************************)
(* RequestVolumeTraces (external): whole traces of a cube, back to back.   *)
(* A point outside of the cube is moved onto it.                           *)
(***************************************************************************)
Nearest(axis, v) == Max({0, Min({v, Steps(axis)})})
SourceTrace(c, index) ==
    LET position == to_cube_voxel_position(c, coords[index \div SourceLength(c) + 1])
        LineAt(t, v) == IJKIndexToAnnotation(IJKAxis(cubes[c], t), v)
        On(t) == LineAt(t, Nearest(IJKAxis(cubes[c], t), position[VoxelDimension(cubes[c], t)]))
    IN  <<On("I"), On("J"), LineAt("K", index % SourceLength(c))>>

StrideOfResult(c, p) == p * nsamples
TraceStart(c, p) == p * SourceLength(c)

(***************************************************************************)
(* extract_continuous_part_of_trace: from the voxel of the first point in  *)
(* the sample dimension.  A single cube gives its traces as they are.      *)
(***************************************************************************)
Extract(c, p, s) ==
    TraceStart(c, p) + to_cube_voxel_position(c, coords[1])[VoxelDimension(cubes[c], "K")] + s

(***************************************************************************)
(* read_traces, combined sample by sample, and write_fillvalue.            *)
(***************************************************************************)
ReadTraces ==
    LET IsFilled(index) == \E noval \in noval_indicies : index \in noval .. noval + nsamples - 1
        Sample(c, index) == SourceTrace(c, Extract(c, index \div nsamples, index % nsamples))
    IN  /\ answer = "running"
        /\ point = Len(fence.coordinates)
        /\ data' = [index \in 0 .. point * nsamples - 1 |->
                      IF IsFilled(index) THEN {} ELSE {Sample(c, index) : c \in DOMAIN cubes}]
        /\ answer' = "sent"
        /\ UNCHANGED <<cubeVars, fence, point, coords, noval_indicies>>

Next ==
    \/ Cube /\ fence = <<>> /\ UNCHANGED fenceVars
    \/ GetFence \/ CheckPoint \/ ReadTraces

Spec == Init /\ [][Next]_vars

-----------------------------------------------------------------------------
(***************************************************************************)
(* Types.  A handle that is open has an axis for every dimension and a     *)
(* zero that is a voxel of every cube, so that no read leaves a buffer.    *)
(***************************************************************************)
TypeOK ==
    /\ handle \in {"opening", "reading", "comparing", "combining", "open",
                   "not_opened", "bad_request", "error"}
    /\ answer \in {"none", "running", "bad_request", "sent"}
    /\ number \in 1 .. Len(cubes) /\ dimension \in 1 .. 4
    /\ handle = "open" =>
         /\ Len(axes) = 3 /\ Len(zero) = Len(cubes)
         /\ \A c \in DOMAIN cubes : \A t \in {"I", "J", "K"} :
                zero[c][t] \in 0 .. IJKAxis(cubes[c], t).n - 1

\* Where a point is, in lines of the axis counted from its first one.
Asked(t, x) ==
    IF fence.system = "INDEX" THEN x * Width(Axis(t))
    ELSE (x - Axis(t).min) * Steps(Axis(t)) * Unit
\* Its distance to the nearest line is at most half; the upper half counts.
IsLineOf(t, x, k) ==
    LET step == Unit * Width(Axis(t))
    IN  - step <= 2 * (Asked(t, x) - k * step) /\ 2 * (Asked(t, x) - k * step) < step
NearestLines(t, x) ==
    {Axis(t).min + k * (Width(Axis(t)) \div Steps(Axis(t))) :
        k \in {k \in 0 .. Steps(Axis(t)) : IsLineOf(t, x, k)}}

(***************************************************************************)
(* A fence is what was asked for.  Where a point has a nearest line, half  *)
(* up, in both directions, its trace is the one there, over the samples of *)
(* the handle, and with two cubes it is the same place in both, even where *)
(* their traces begin at different samples and have different lengths.     *)
(* Where it has none, the trace is filled, and nothing else is; without a  *)
(* fill value the request is refused.                                      *)
(***************************************************************************)
FenceIsAsAsked ==
    LET Trace(p) == NearestLines("I", fence.coordinates[p + 1][1])
                      \X NearestLines("J", fence.coordinates[p + 1][2])
        Depth(s) == Axis("K").min + s * (Width(Axis("K")) \div Steps(Axis("K")))
        points == 0 .. Len(fence.coordinates) - 1
        areInside == \A p \in points : Trace(p) # {}
    IN  /\ answer = "sent" =>
             /\ areInside \/ fence.fill
             /\ \A p \in points : \A s \in 0 .. nsamples - 1 :
                  data[p * nsamples + s] = {<<xy[1], xy[2], Depth(s)>> : xy \in Trace(p)}
        /\ answer = "bad_request" /\ fence.coordinates # <<>>
             /\ (\A p \in DOMAIN fence.coordinates : Len(fence.coordinates[p]) = 2)
             => ~ areInside /\ ~ fence.fill
=============================================================================
